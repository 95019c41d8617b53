---------------------------- MODULE ReplayProofs ----------------------------
(***************************************************************************)
(* Proofs about Replay, for any stream, chunks and bounds: the window is   *)
(* the stream's newest bytes, the scanner's program does not change once   *)
(* told, what an encoder is primed with begins at a keyframe or a packet,  *)
(* what the scanner makes of the stream does not depend on where chunks    *)
(* are cut, and the lag reported is the content between two of its frames. *)
(***************************************************************************)
EXTENDS Replay, SequenceLemmas

-----------------------------------------------------------------------------
(* Replay: the data of some chunks, and runs of bytes. *)

Pieces == [at : Nat, start : Nat, data : Seq(Nat)]

LEMMA DataIs == Holds(Pieces, Nat) /\ \A c : DataOf(c) = AllData(c)
BY DEF Holds, Pieces, DataOf, AllData

LEMMA DataOfTyped ==
  ASSUME NEW c \in Seq(Pieces)
  PROVE  DataOf(c) \in Seq(Nat) /\ Len(DataOf(c)) \in Nat
BY DataIs, DataTyped, LenProperties

LEMMA BytesFacts ==
  ASSUME NEW i \in Nat, NEW j \in Nat, i <= j
  PROVE  /\ j - i \in Nat /\ Bytes(i, j) = Run(i, j - i)
         /\ Bytes(i, j) \in Seq(Nat) /\ Len(Bytes(i, j)) = j - i
<1>1. j - i \in Nat
  OBVIOUS
<1>2. Bytes(i, j) = Run(i, j - i)
  BY DEF Bytes, Run
<1>3. Run(i, j - i) \in Seq(Nat) /\ Len(Run(i, j - i)) = j - i
  BY <1>1, RunFacts
<1> QED  BY <1>1, <1>2, <1>3

LEMMA BytesJoin ==
  ASSUME NEW i \in Nat, NEW j \in Nat, NEW k \in Nat, i <= j, j <= k
  PROVE  Cat(Bytes(i, j), Bytes(j, k)) = Bytes(i, k)
<1> DEFINE a == j - i
           b == k - j
<1>1. a \in Nat /\ b \in Nat /\ i + a = j /\ a + b = k - i /\ i <= k
  OBVIOUS
<1>2. Bytes(i, j) = Run(i, a) /\ Bytes(j, k) = Run(j, b) /\ Bytes(i, k) = Run(i, k - i)
  BY <1>1, BytesFacts
<1> HIDE DEF a, b
<1>3. Cat(Run(i, a), Run(i + a, b)) = Run(i, a + b)
  BY <1>1, RunsJoin
<1> QED  BY <1>1, <1>2, <1>3

-----------------------------------------------------------------------------
(* Replay: what is left of a list from its k-th element on. *)

From(c, k) == SubSeq(c, k, Len(c))

LEMMA FromFacts ==
  ASSUME NEW C, NEW c \in Seq(C), NEW k \in 1..Len(c)
  PROVE  /\ Len(c) \in Nat /\ From(c, k) \in Seq(C) /\ Len(From(c, k)) = Len(c) - k + 1
         /\ From(c, k) # <<>>
         /\ \A i \in 1..(Len(c) - k + 1) : From(c, k)[i] = c[k + i - 1]
<1>1. Len(c) \in Nat /\ \A i \in k..Len(c) : c[i] \in C
  BY LenProperties, ElementOfSeq
<1>2. /\ k \in Int /\ Len(c) \in Int /\ k <= Len(c)
  BY <1>1
<1>3. /\ From(c, k) \in Seq(C) /\ Len(From(c, k)) = Len(c) - k + 1
      /\ \A i \in 1..(Len(c) - k + 1) : From(c, k)[i] = c[k + i - 1]
  BY <1>1, <1>2, SubSeqProperties DEF From
<1> HIDE DEF From
<1>4. Len(From(c, k)) # 0
  BY <1>2, <1>3
<1> QED  BY <1>1, <1>3, <1>4, EmptySeq

LEMMA FromFrom ==
  ASSUME NEW C, NEW c \in Seq(C), NEW k \in 1..Len(c), NEW i \in 1..Len(From(c, k))
  PROVE  k + i - 1 \in 1..Len(c) /\ From(From(c, k), i) = From(c, k + i - 1)
<1>1. Len(c) \in Nat /\ Len(From(c, k)) = Len(c) - k + 1
  BY FromFacts
<1>2. /\ Len(c) \in 1..Len(c) /\ i \in 1..(Len(c) - k + 1)
      /\ Len(c) - k + 1 \in 1..(Len(c) - k + 1)
      /\ k + i - 1 \in 1..Len(c) /\ k + (Len(c) - k + 1) - 1 = Len(c)
  BY <1>1
<1>3. SubSeq(SubSeq(c, k, Len(c)), i, Len(c) - k + 1) = SubSeq(c, k + i - 1, Len(c))
  <2>1. SubSeq(SubSeq(c, k, Len(c)), i, Len(c) - k + 1)
          = SubSeq(c, k + i - 1, k + (Len(c) - k + 1) - 1)
    BY <1>2, SubSeqOfSubSeq
  <2> QED  BY <1>2, <2>1
<1> QED  BY <1>1, <1>2, <1>3 DEF From

LEMMA FromAppend ==
  ASSUME NEW C, NEW c \in Seq(C), NEW x \in C, NEW k \in 1..Len(c)
  PROVE  From(Append(c, x), k) = Append(From(c, k), x)
<1> DEFINE d == Append(c, x)
           s == From(c, k)
           u == From(d, k)
<1>1. Len(c) \in Nat /\ d \in Seq(C) /\ Len(d) = Len(c) + 1 /\ d[Len(c) + 1] = x
      /\ \A i \in 1..Len(c) : d[i] = c[i]
  BY AppendProperties, LenProperties
<1> HIDE DEF d
<1>2. k \in 1..Len(d)
  BY <1>1
<1>3. /\ s \in Seq(C) /\ Len(s) = Len(c) - k + 1
      /\ \A i \in 1..(Len(c) - k + 1) : s[i] = c[k + i - 1]
  BY FromFacts
<1>4. /\ u \in Seq(C) /\ Len(u) = Len(d) - k + 1
      /\ \A i \in 1..(Len(d) - k + 1) : u[i] = d[k + i - 1]
  BY <1>1, <1>2, FromFacts
<1> HIDE DEF s, u
<1>5. Len(u) = Len(s) + 1 /\ u[Len(s) + 1] = x
  <2>1. /\ Len(s) + 1 \in 1..(Len(d) - k + 1) /\ k + (Len(s) + 1) - 1 = Len(c) + 1
        /\ Len(u) = Len(s) + 1
    BY <1>1, <1>3, <1>4
  <2>2. u[Len(s) + 1] = d[k + (Len(s) + 1) - 1]
    BY <1>4, <2>1
  <2> QED  BY <1>1, <2>1, <2>2
<1>6. ASSUME NEW i \in 1..Len(s)
      PROVE  u[i] = s[i]
  <2>1. i \in 1..(Len(c) - k + 1) /\ i \in 1..(Len(d) - k + 1) /\ k + i - 1 \in 1..Len(c)
    BY <1>1, <1>3
  <2>2. u[i] = d[k + i - 1] /\ s[i] = c[k + i - 1]
    BY <1>3, <1>4, <2>1
  <2> QED  BY <1>1, <2>1, <2>2
<1>7. Append(s, x) = u
  BY <1>3, <1>4, <1>5, <1>6, AppendIs
<1> QED  BY <1>7 DEF s, u, d

-----------------------------------------------------------------------------
(* Replay: the window is the stream's newest bytes. *)

\* From each of its chunks on, c holds the stream up to end.
Tiled(c, end) ==
  \A k \in 1..Len(c) : c[k].start <= end /\ DataOf(From(c, k)) = Bytes(c[k].start, end)

\* c is one chunk or none, or keeps to both bounds at time t.
Within(c, t) ==
  Len(c) > 1 => Len(DataOf(c)) <= MaxBytes /\ t - c[1].at <= MaxAge

\* The bounds were last applied when the newest chunk came.
WindowInv ==
  /\ now \in Nat /\ head \in Nat /\ chunks \in Seq(Pieces)
  /\ bytes = Len(DataOf(chunks))
  /\ Tiled(chunks, head)
  /\ chunks # <<>> => Within(chunks, chunks[Len(chunks)].at)

LEMMA PushTiles ==
  ASSUME NEW c \in Seq(Pieces), NEW e \in Nat, NEW n \in Nat, NEW t \in Nat, Tiled(c, e),
         NEW x, x = [at |-> t, start |-> e, data |-> Bytes(e, e + n)]
  PROVE  /\ x \in Pieces /\ Tiled(Append(c, x), e + n)
         /\ Len(DataOf(Append(c, x))) = Len(DataOf(c)) + n
<1>1. e + n \in Nat /\ e <= e + n /\ e <= e
  OBVIOUS
<1>2. x \in Pieces /\ x.data = Bytes(e, e + n) /\ x.start = e /\ Len(x.data) = n
      /\ x.data \in Seq(Nat)
  <2>1. Bytes(e, e + n) \in Seq(Nat) /\ Len(Bytes(e, e + n)) = n
    <3>1. Bytes(e, e + n) \in Seq(Nat) /\ Len(Bytes(e, e + n)) = (e + n) - e
      BY <1>1, BytesFacts
    <3> QED  BY <3>1
  <2> QED  BY <2>1 DEF Pieces
<1> DEFINE g == Append(c, x)
<1>3. /\ Len(c) \in Nat /\ g \in Seq(Pieces) /\ Len(g) = Len(c) + 1 /\ g[Len(c) + 1] = x
      /\ \A i \in 1..Len(c) : g[i] = c[i] /\ c[i] \in Pieces
  BY <1>2, AppendProperties, LenProperties, ElementOfSeq
<1>4. \A d \in Seq(Pieces) : DataOf(Append(d, x)) = Cat(DataOf(d), x.data)
  BY <1>2, DataIs, DataAppend
<1> HIDE DEF g
<1>5. ASSUME NEW k \in 1..Len(g)
      PROVE  g[k].start <= e + n /\ DataOf(From(g, k)) = Bytes(g[k].start, e + n)
  <2>1. CASE k \in 1..Len(c)
    <3>1. /\ g[k] = c[k] /\ c[k].start \in Nat /\ c[k].start <= e
          /\ DataOf(From(c, k)) = Bytes(c[k].start, e)
      BY <1>3, <2>1 DEF Pieces, Tiled
    <3>2. From(g, k) = Append(From(c, k), x) /\ From(c, k) \in Seq(Pieces)
      BY <1>2, <2>1, FromAppend, FromFacts DEF g
    <3>3. Cat(Bytes(c[k].start, e), Bytes(e, e + n)) = Bytes(c[k].start, e + n)
      BY <1>1, <3>1, BytesJoin
    <3>4. DataOf(From(g, k)) = Cat(DataOf(From(c, k)), x.data)
      BY <1>4, <3>2
    <3>5. c[k].start <= e + n
      BY <3>1
    <3> QED  BY <1>2, <3>1, <3>3, <3>4, <3>5
  <2>2. CASE k = Len(c) + 1
    <3>1. From(g, k) = <<x>>
      <4>1. /\ From(g, k) \in Seq(Pieces) /\ Len(From(g, k)) = Len(g) - k + 1
            /\ \A i \in 1..(Len(g) - k + 1) : From(g, k)[i] = g[k + i - 1]
        BY <1>3, FromFacts
      <4>2. Len(g) - k + 1 = 1 /\ 1 \in 1..1 /\ k + 1 - 1 = k
        BY <1>3, <2>2
      <4>3. Len(From(g, k)) = 1 /\ From(g, k)[1] = x
        BY <1>3, <2>2, <4>1, <4>2
      <4>4. <<x>> \in Seq(Pieces) /\ Len(<<x>>) = 1 /\ <<x>>[1] = x
        BY <1>2
      <4>5. \A i \in 1..Len(From(g, k)) : From(g, k)[i] = <<x>>[i]
        BY <4>3, <4>4
      <4> QED  BY <4>1, <4>3, <4>4, <4>5, SeqEqual
    <3>2. DataOf(<<x>>) = x.data
      BY <1>2, DataIs, DataSingle
    <3>3. g[k] = x
      BY <1>3, <2>2
    <3> QED  BY <1>1, <1>2, <3>1, <3>2, <3>3
  <2>3. k \in 1..Len(c) \/ k = Len(c) + 1
    BY <1>3
  <2> QED  BY <2>1, <2>2, <2>3
<1>6. Tiled(g, e + n)
  BY <1>5 DEF Tiled
<1>7. Len(DataOf(g)) = Len(DataOf(c)) + n
  <2>1. DataOf(c) \in Seq(Nat)
    BY DataOfTyped
  <2>2. Len(Cat(DataOf(c), x.data)) = Len(DataOf(c)) + Len(x.data)
    BY <1>2, <2>1, CatFacts
  <2>3. DataOf(g) = Cat(DataOf(c), x.data)
    BY <1>4 DEF g
  <2> QED  BY <1>2, <2>2, <2>3
<1> QED  BY <1>2, <1>6, <1>7 DEF g

\* What trim leaves is the end of what there was, and within the bounds.
LEMMA TrimmedFacts ==
  ASSUME NEW c \in Seq(Pieces), c # <<>>
  PROVE  \E k \in 1..Len(c) :
           Trimmed(c, Len(DataOf(c))) = From(c, k) /\ Within(From(c, k), now)
<1> DEFINE m == Len(DataOf(c))
           L == Len(c)
           Remaining(k) == m - Len(DataOf(SubSeq(c, 1, k)))
           Enough(k) == Fits(SubSeq(c, k + 1, L), Remaining(k))
           First(k) == Enough(k) /\ \A j \in 0..(k - 1) : ~Enough(j)
           d == CHOOSE k \in 0..(L - 1) : First(k)
<1>1. L \in Nat /\ L # 0
  BY LenProperties, EmptySeq
<1>2. Trimmed(c, m) = SubSeq(c, d + 1, L)
  BY DEF Trimmed
<1>3. Enough(L - 1)
  <2>1. L \in 1..Len(c) /\ (L - 1) + 1 = L /\ L - L + 1 = 1
    BY <1>1
  <2>2. Len(From(c, L)) = L - L + 1
    BY <2>1, FromFacts
  <2>3. SubSeq(c, (L - 1) + 1, L) = From(c, L)
    BY <2>1 DEF From
  <2> QED  BY <2>1, <2>2, <2>3 DEF Fits
<1> HIDE DEF Enough, L
<1>4. \E k \in 0..(L - 1) : First(k)
  <2> DEFINE S == {k \in 0..(L - 1) : Enough(k)}
  <2>1. S \in SUBSET Nat /\ S # {}
    BY <1>1, <1>3
  <2>2. PICK k \in S : \A j \in S : k <= j
    <3> HIDE DEF S
    <3> QED  BY <2>1, Least
  <2>3. \A j \in 0..(k - 1) : ~Enough(j)
    BY <1>1, <2>2
  <2> QED  BY <2>2, <2>3
<1>5. d \in 0..(L - 1) /\ Enough(d)
  BY <1>4
<1> HIDE DEF d
<1>6. d \in Nat /\ d <= L /\ d + 1 \in 1..L
  BY <1>1, <1>5
<1>7. SubSeq(c, d + 1, L) = From(c, d + 1) /\ From(c, d + 1) \in Seq(Pieces)
  BY <1>6, FromFacts DEF From, L
<1>8. Remaining(d) = Len(DataOf(From(c, d + 1)))
  <2>1. Cat(DataOf(SubSeq(c, 1, d)), DataOf(SubSeq(c, d + 1, L))) = DataOf(c)
    BY <1>6, DataIs, DataSplits DEF L
  <2>2. SubSeq(c, 1, d) \in Seq(Pieces)
    <3>1. /\ 1 \in Int /\ d \in Int /\ \A i \in 1..d : c[i] \in Pieces
      BY <1>1, <1>6, ElementOfSeq DEF L
    <3> QED  BY <3>1, SubSeqProperties
  <2> DEFINE a == DataOf(SubSeq(c, 1, d))
             b == DataOf(From(c, d + 1))
  <2>3. a \in Seq(Nat) /\ b \in Seq(Nat) /\ Len(a) \in Nat /\ Len(b) \in Nat
    BY <1>7, <2>2, DataOfTyped
  <2>4. Cat(a, b) = DataOf(c)
    BY <1>7, <2>1
  <2> HIDE DEF a, b
  <2>5. Len(Cat(a, b)) = Len(a) + Len(b)
    BY <2>3, CatFacts
  <2>6. m - Len(a) = Len(b)
    BY <2>3, <2>4, <2>5
  <2> QED  BY <2>6 DEF a, b
<1> HIDE DEF Remaining
<1>9. Fits(From(c, d + 1), Len(DataOf(From(c, d + 1))))
  BY <1>5, <1>7, <1>8 DEF Enough
<1>10. Len(From(c, d + 1)) \in Nat
  BY <1>7, LenProperties
<1>11. Within(From(c, d + 1), now)
  BY <1>9, <1>10 DEF Fits, Within
<1> QED  BY <1>2, <1>6, <1>7, <1>11 DEF L

LEMMA FromTiles ==
  ASSUME NEW c \in Seq(Pieces), NEW e, Tiled(c, e), NEW k \in 1..Len(c)
  PROVE  /\ From(c, k) \in Seq(Pieces) /\ From(c, k) # <<>> /\ Tiled(From(c, k), e)
         /\ Len(From(c, k)) \in 1..Len(c) /\ From(c, k)[Len(From(c, k))] = c[Len(c)]
<1> DEFINE f == From(c, k)
<1>1. /\ Len(c) \in Nat /\ f \in Seq(Pieces) /\ Len(f) = Len(c) - k + 1 /\ f # <<>>
      /\ \A i \in 1..(Len(c) - k + 1) : f[i] = c[k + i - 1]
  BY FromFacts
<1>2. ASSUME NEW i \in 1..Len(f)
      PROVE  f[i].start <= e /\ DataOf(From(f, i)) = Bytes(f[i].start, e)
  <2>1. k + i - 1 \in 1..Len(c) /\ From(f, i) = From(c, k + i - 1)
    BY FromFrom
  <2>2. f[i] = c[k + i - 1]
    BY <1>1
  <2> QED  BY <2>1, <2>2 DEF Tiled
<1> HIDE DEF f
<1>3. Len(f) \in 1..Len(c) /\ Len(f) \in 1..(Len(c) - k + 1) /\ k + Len(f) - 1 = Len(c)
  BY <1>1
<1>4. f[Len(f)] = c[k + Len(f) - 1]
  BY <1>1, <1>3
<1>5. Tiled(f, e)
  BY <1>2 DEF Tiled
<1> QED  BY <1>1, <1>3, <1>4, <1>5 DEF f

LEMMA WindowInit == Init => WindowInv
<1> SUFFICES ASSUME Init PROVE WindowInv
  OBVIOUS
<1>1. chunks = <<>> /\ bytes = 0 /\ now \in Nat /\ head \in Nat
  BY DEF Init
<1>2. <<>> \in Seq(Pieces) /\ Len(<<>>) = 0
  BY EmptySeq
<1>3. DataOf(<<>>) = <<>>
  BY DataIs, DataEmpty
<1>4. Tiled(<<>>, head)
  BY <1>2 DEF Tiled
<1> QED  BY <1>1, <1>2, <1>3, <1>4 DEF WindowInv

LEMMA PushKeeps ==
  ASSUME WindowInv, NEW n \in Sizes, Push(n)
  PROVE  WindowInv'
<1> DEFINE x == [at |-> now, start |-> head, data |-> Bytes(head, head + n)]
           g == Append(chunks, x)
           rest == Trimmed(g, bytes + n)
<1>1. /\ n \in Nat /\ now \in Nat /\ head \in Nat /\ chunks \in Seq(Pieces)
      /\ bytes = Len(DataOf(chunks)) /\ Tiled(chunks, head)
  BY WindowAssumption DEF WindowInv
<1>2. /\ head' = head + n /\ now' = now /\ chunks' = rest
      /\ bytes' = (bytes + n) - (Len(DataOf(g)) - Len(DataOf(rest)))
  BY DEF Push, Store
<1>3. x \in Pieces /\ Tiled(g, head + n) /\ Len(DataOf(g)) = bytes + n
  BY <1>1, PushTiles
<1>4. /\ g \in Seq(Pieces) /\ Len(g) = Len(chunks) + 1 /\ g[Len(g)] = x /\ g # <<>>
  <2>1. Len(chunks) \in Nat /\ g \in Seq(Pieces) /\ Len(g) = Len(chunks) + 1
        /\ g[Len(chunks) + 1] = x
    BY <1>1, <1>3, AppendProperties, LenProperties
  <2> HIDE DEF g
  <2>2. Len(g) # 0
    BY <2>1
  <2> QED  BY <2>1, <2>2, EmptySeq
<1>5. x.at = now
  OBVIOUS
<1> HIDE DEF g, x
<1>6. PICK k \in 1..Len(g) : rest = From(g, k) /\ Within(From(g, k), now)
  BY <1>3, <1>4, TrimmedFacts
<1>7. /\ rest \in Seq(Pieces) /\ rest # <<>> /\ Tiled(rest, head + n)
      /\ rest[Len(rest)] = x
  BY <1>3, <1>4, <1>6, FromTiles
<1>8. Within(rest, rest[Len(rest)].at)
  BY <1>5, <1>6, <1>7
<1> HIDE DEF rest
<1>9. bytes' = Len(DataOf(rest))
  <2>1. bytes + n \in Nat /\ Len(DataOf(rest)) \in Nat
    BY <1>1, <1>7, DataOfTyped
  <2> QED  BY <1>2, <1>3, <2>1
<1>10. /\ bytes' = Len(DataOf(chunks'))
       /\ Tiled(chunks', head')
       /\ Within(chunks', chunks'[Len(chunks')].at)
       /\ chunks' \in Seq(Pieces) /\ now' \in Nat /\ head' \in Nat
  <2>1. chunks' = rest /\ head' = head + n
    BY <1>2
  <2>2. now' \in Nat /\ head' \in Nat /\ chunks' \in Seq(Pieces)
    BY <1>1, <1>2, <1>7
  <2>3. Tiled(chunks', head') /\ Within(chunks', chunks'[Len(chunks')].at)
    BY <1>7, <1>8, <2>1, Zenon
  <2> QED  BY <1>9, <2>1, <2>2, <2>3
<1> QED  BY <1>10 DEF WindowInv, DataOf, Tiled, Within, From, Bytes

LEMMA WindowStep == WindowInv /\ [Next]_vars => WindowInv'
<1> SUFFICES ASSUME WindowInv, [Next]_vars PROVE WindowInv'
  OBVIOUS
<1>1. CASE Tick
  <2>1. now' \in Nat /\ UNCHANGED <<chunks, bytes, head>>
    BY <1>1 DEF Tick, WindowInv
  <2> QED  BY <2>1 DEF WindowInv, Tiled, Within, DataOf, From, Bytes
<1>2. ASSUME NEW n \in Sizes, Push(n)
      PROVE  WindowInv'
  BY <1>2, PushKeeps
<1>3. CASE UNCHANGED vars
  <2>1. UNCHANGED <<now, chunks, bytes, head>>
    BY <1>3 DEF vars
  <2> QED  BY <2>1 DEF WindowInv, Tiled, Within, DataOf, From, Bytes
<1> QED  BY <1>1, <1>2, <1>3 DEF Next

\* The lists the window is made of, as Bounded says it.
LEMMA WindowIsBounded == WindowInv => Bounded
<1> SUFFICES ASSUME WindowInv PROVE Bounded
  OBVIOUS
<1>1. /\ head \in Nat /\ chunks \in Seq(Pieces) /\ bytes = Len(DataOf(chunks))
      /\ Len(chunks) \in Nat
  BY LenProperties DEF WindowInv
<1>2. CASE chunks = <<>>
  <2>1. DataOf(chunks) = <<>> /\ Len(chunks) = 0
    BY <1>2, DataIs, DataEmpty, EmptySeq
  <2>2. Bytes(head, head) = <<>>
    <3>1. Bytes(head, head) \in Seq(Nat) /\ Len(Bytes(head, head)) = head - head
      <4>1. head <= head
        BY <1>1
      <4> QED  BY <1>1, <4>1, BytesFacts
    <3>2. Len(Bytes(head, head)) = 0
      BY <1>1, <3>1
    <3> QED  BY <3>1, <3>2, EmptySeq
  <2>3. Floor(chunks, head) = head
    BY <1>2 DEF Floor
  <2> QED  BY <1>1, <2>1, <2>2, <2>3 DEF Bounded
<1>3. CASE chunks # <<>>
  <2>1. 1 \in 1..Len(chunks) /\ Floor(chunks, head) = chunks[1].start
    <3>1. Len(chunks) # 0
      BY <1>1, <1>3, EmptySeq
    <3> QED  BY <1>1, <1>3, <3>1 DEF Floor
  <2>2. From(chunks, 1) = chunks
    BY <1>1, SubSeqFull DEF From
  <2>3. DataOf(chunks) = Bytes(chunks[1].start, head)
    BY <2>1, <2>2 DEF WindowInv, Tiled
  <2>4. Within(chunks, chunks[Len(chunks)].at)
    BY <1>3 DEF WindowInv
  <2> QED  BY <1>1, <2>1, <2>3, <2>4 DEF Bounded, Within
<1> QED  BY <1>2, <1>3

\* The window is the newest bytes of the stream without a gap, one chunk at least
\* and otherwise within both bounds, and its byte count is true, whatever the
\* stream, the chunks and the bounds (Replay::push, trim).
THEOREM WindowBounded == Spec => []Bounded
<1>1. Init => WindowInv
  BY WindowInit
<1>2. WindowInv /\ [Next]_vars => WindowInv'
  BY WindowStep
<1>3. WindowInv => Bounded
  BY WindowIsBounded
<1> QED  BY <1>1, <1>2, <1>3, PTL DEF Spec

-----------------------------------------------------------------------------
(* TsScanner: a scan takes the packets of its walk one after another. *)

ScanStart(s, walk) == [s |-> s, found |-> <<>>, at |-> Last(walk)]
ScanStep(acc, buf, base, i) ==
  WithPacket(acc, buf[i + 1], base + i, Packet(SubSeq(buf, i + 1, i + PACKET)))

\* f gives for every set of places in ps what the packets there make of what
\* there was at the start.
Scans(f, init, buf, base, ps, n) ==
  f = [t \in SUBSET (1..n) |->
         IF t = {} THEN init ELSE ScanStep(f[t \ {Max(t)}], buf, base, ps[Max(t)])]

LEMMA MaxIs ==
  ASSUME NEW t \in SUBSET Int, NEW m \in t, \A k \in t : k <= m
  PROVE  Max(t) = m
<1>1. \A x \in t : (\A y \in t : x >= y) <=> x = m
  OBVIOUS
<1> QED  BY <1>1 DEF Max

LEMMA MaxOfSome ==
  ASSUME NEW n \in Nat, NEW t \in SUBSET (1..n), t # {}
  PROVE  Max(t) \in t
<1> DEFINE S == {n - k : k \in t}
<1>1. S \in SUBSET Nat /\ S # {}
  <2>1. \A k \in t : k \in 1..n
    OBVIOUS
  <2>2. \A k \in t : n - k \in Nat
    BY <2>1
  <2> QED  BY <2>2
<1>2. PICK a \in S : \A b \in S : a <= b
  <2> HIDE DEF S
  <2> QED  BY <1>1, Least
<1>3. PICK m \in t : a = n - m
  BY <1>2
<1>4. \A k \in t : k <= m
  <2> SUFFICES ASSUME NEW k \in t PROVE k <= m
    OBVIOUS
  <2>1. n - k \in S /\ k \in 1..n /\ m \in 1..n
    OBVIOUS
  <2>2. n - m <= n - k
    BY <1>2, <1>3, <2>1
  <2> QED  BY <2>1, <2>2
<1>5. Max(t) = m
  <2>1. t \in SUBSET Int
    OBVIOUS
  <2> HIDE DEF S
  <2> QED  BY <1>4, <2>1, MaxIs
<1> QED  BY <1>5

LEMMA ScansNth ==
  ASSUME NEW f, NEW init, NEW buf, NEW base, NEW ps, NEW n \in Nat,
         Scans(f, init, buf, base, ps, n), NEW t \in SUBSET (1..n)
  PROVE  f[t] = IF t = {} THEN init
                ELSE ScanStep(f[t \ {Max(t)}], buf, base, ps[Max(t)])
<1>1. f = [u \in SUBSET (1..n) |->
             IF u = {} THEN init ELSE ScanStep(f[u \ {Max(u)}], buf, base, ps[Max(u)])]
  BY DEF Scans
<1> QED  BY <1>1

LEMMA ScansExists ==
  ASSUME NEW init, NEW buf, NEW base, NEW ps
  PROVE  \A n \in Nat : \E f : Scans(f, init, buf, base, ps, n)
<1> DEFINE T == {n \in Nat : \E f : Scans(f, init, buf, base, ps, n)}
<1>1. 0 \in T
  <2> DEFINE f == [t \in SUBSET (1..0) |-> init]
  <2>1. \A t \in SUBSET (1..0) : t = {}
    OBVIOUS
  <2>2. f = [t \in SUBSET (1..0) |->
               IF t = {} THEN init ELSE ScanStep(f[t \ {Max(t)}], buf, base, ps[Max(t)])]
    BY <2>1
  <2>3. Scans(f, init, buf, base, ps, 0)
    BY <2>2 DEF Scans
  <2> QED  BY <2>3
<1>2. ASSUME NEW n \in Nat, n \in T
      PROVE  n + 1 \in T
  <2>1. PICK f : Scans(f, init, buf, base, ps, n)
    BY <1>2
  <2> DEFINE g == [t \in SUBSET (1..(n + 1)) |->
                     IF n + 1 \in t
                       THEN ScanStep(f[t \ {n + 1}], buf, base, ps[n + 1])
                       ELSE f[t]]
             h == [t \in SUBSET (1..(n + 1)) |->
                     IF t = {} THEN init
                     ELSE ScanStep(g[t \ {Max(t)}], buf, base, ps[Max(t)])]
  <2>2. ASSUME NEW t \in SUBSET (1..(n + 1))
        PROVE  g[t] = h[t]
    <3>1. CASE n + 1 \in t
      <4>1. Max(t) = n + 1
        <5>1. t \in SUBSET Int /\ \A k \in t : k <= n + 1
          BY <1>2
        <5> QED  BY <3>1, <5>1, MaxIs
      <4>2. t \ {n + 1} \in SUBSET (1..(n + 1)) /\ n + 1 \notin t \ {n + 1}
        OBVIOUS
      <4>3. g[t \ {n + 1}] = f[t \ {n + 1}]
        BY <4>2
      <4> QED  BY <3>1, <4>1, <4>3
    <3>2. CASE n + 1 \notin t
      <4>1. t \in SUBSET (1..n)
        BY <1>2, <3>2
      <4>2. f[t] = IF t = {} THEN init
                   ELSE ScanStep(f[t \ {Max(t)}], buf, base, ps[Max(t)])
        BY <1>2, <2>1, <4>1, ScansNth
      <4>3. t \ {Max(t)} \in SUBSET (1..(n + 1)) /\ n + 1 \notin t \ {Max(t)}
        BY <3>2
      <4>4. g[t \ {Max(t)}] = f[t \ {Max(t)}]
        BY <4>3
      <4> QED  BY <3>2, <4>2, <4>4
    <3> QED  BY <3>1, <3>2
  <2>3. g = h
    BY <2>2
  <2>4. Scans(g, init, buf, base, ps, n + 1)
    BY <2>3 DEF Scans
  <2> QED  BY <2>4
<1> HIDE DEF T
<1>3. \A n \in Nat : n \in T
  BY <1>1, <1>2, SetInduction
<1> QED  BY <1>3 DEF T

LEMMA ScanIs ==
  ASSUME NEW s, NEW buf, NEW base, NEW walk, NEW n \in Nat, DOMAIN Front(walk) = 1..n
  PROVE  \E f : /\ Scans(f, ScanStart(s, walk), buf, base, Front(walk), n)
                /\ ScanAt(s, buf, base, walk) = f[1..n]
<1> DEFINE g == CHOOSE f : Scans(f, ScanStart(s, walk), buf, base, Front(walk), n)
<1>1. Scans(g, ScanStart(s, walk), buf, base, Front(walk), n)
  BY ScansExists
<1>2. ScanAt(s, buf, base, walk) = g[1..n]
  BY DEF ScanAt, FoldLeft, MapThenFoldSet, Scans, ScanStart, ScanStep
<1> QED  BY <1>1, <1>2

\* What there is after each of the n packets of the walk, as acc has it.
ScansBy(acc, s, buf, base, walk, n) ==
  /\ acc[0] = ScanStart(s, walk)
  /\ \A k \in 1..n : acc[k] = ScanStep(acc[k - 1], buf, base, Front(walk)[k])
  /\ ScanAt(s, buf, base, walk) = acc[n]

LEMMA ScanSteps ==
  ASSUME NEW s, NEW buf, NEW base, NEW walk, NEW n \in Nat, DOMAIN Front(walk) = 1..n
  PROVE  \E acc : ScansBy(acc, s, buf, base, walk, n)
<1> DEFINE ps == Front(walk)
           init == ScanStart(s, walk)
<1>1. PICK f : Scans(f, init, buf, base, ps, n) /\ ScanAt(s, buf, base, walk) = f[1..n]
  BY ScanIs
<1> DEFINE acc == [k \in 0..n |-> f[1..k]]
<1> HIDE DEF ps, init
<1>5. ASSUME NEW t \in SUBSET (1..n), t # {}
      PROVE  f[t] = ScanStep(f[t \ {Max(t)}], buf, base, ps[Max(t)])
  <2>1. f[t] = IF t = {} THEN init ELSE ScanStep(f[t \ {Max(t)}], buf, base, ps[Max(t)])
    BY <1>1, ScansNth
  <2> QED  BY <1>5, <2>1
<1>2. acc[0] = init
  <2>1. 1..0 = {} /\ 1..0 \in SUBSET (1..n) /\ 0 \in 0..n
    OBVIOUS
  <2>2. f[1..0] = init
    BY <1>1, <2>1, ScansNth
  <2> QED  BY <2>1, <2>2
<1>3. ASSUME NEW k \in 1..n
      PROVE  acc[k] = ScanStep(acc[k - 1], buf, base, ps[k])
  <2>1. /\ 1..k \in SUBSET (1..n) /\ 1..k # {} /\ (1..k) \ {k} = 1..(k - 1)
        /\ k \in 0..n /\ k - 1 \in 0..n
    <3>1. k \in 1..k
      OBVIOUS
    <3>2. \A i \in (1..k) \ {k} : i \in 1..(k - 1)
      OBVIOUS
    <3>3. \A i \in 1..(k - 1) : i \in (1..k) \ {k}
      OBVIOUS
    <3>4. (1..k) \ {k} = 1..(k - 1)
      BY <3>2, <3>3
    <3>5. \A i \in 1..k : i \in 1..n
      OBVIOUS
    <3> QED  BY <3>1, <3>4, <3>5
  <2>2. Max(1..k) = k
    <3>1. 1..k \in SUBSET Int /\ k \in 1..k /\ \A i \in 1..k : i <= k
      OBVIOUS
    <3> QED  BY <3>1, MaxIs
  <2>3. f[1..k] = ScanStep(f[(1..k) \ {Max(1..k)}], buf, base, ps[Max(1..k)])
    BY <1>5, <2>1
  <2>4. f[1..k] = ScanStep(f[1..(k - 1)], buf, base, ps[k])
    BY <2>1, <2>2, <2>3
  <2> QED  BY <2>1, <2>4
<1>4. ScanAt(s, buf, base, walk) = acc[n]
  BY <1>1
<1> HIDE DEF acc
<1> QED  BY <1>2, <1>3, <1>4 DEF ps, init, ScansBy

-----------------------------------------------------------------------------
(* TsScanner: where the packets of a buffer begin. *)

Walks(w, buf, stop, a, n) ==
  w = [i \in a..n |->
         IF i >= stop \/ i + PACKET > Len(buf) THEN <<i>>
         ELSE IF Synced(buf, i) THEN <<i>> \o w[i + PACKET] ELSE w[i + 1]]

LEMMA WalksNth ==
  ASSUME NEW w, NEW buf, NEW stop, NEW a, NEW n, Walks(w, buf, stop, a, n), NEW i \in a..n
  PROVE  w[i] = IF i >= stop \/ i + PACKET > Len(buf) THEN <<i>>
                ELSE IF Synced(buf, i) THEN <<i>> \o w[i + PACKET] ELSE w[i + 1]
<1>1. w = [j \in a..n |->
             IF j >= stop \/ j + PACKET > Len(buf) THEN <<j>>
             ELSE IF Synced(buf, j) THEN <<j>> \o w[j + PACKET] ELSE w[j + 1]]
  BY DEF Walks
<1> QED  BY <1>1

LEMMA WalksExists ==
  ASSUME NEW buf, Len(buf) \in Nat, NEW stop, NEW n \in Nat, n = Len(buf) + PACKET
  PROVE  \E w : Walks(w, buf, stop, 0, n)
<1> DEFINE T == {m \in Nat : m <= n => \E w : Walks(w, buf, stop, n - m, n)}
           Steps(w, i) == IF i >= stop \/ i + PACKET > Len(buf) THEN <<i>>
                          ELSE IF Synced(buf, i) THEN <<i>> \o w[i + PACKET] ELSE w[i + 1]
<1>0. PACKET \in Nat /\ PACKET >= 1
  BY PacketAssumption
<1>1. 0 \in T
  <2> DEFINE w == [i \in (n - 0)..n |-> <<n>>]
  <2>1. \A i \in (n - 0)..n : i = n /\ i + PACKET > Len(buf)
    BY <1>0
  <2>2. w = [i \in (n - 0)..n |-> Steps(w, i)]
    BY <2>1
  <2>3. Walks(w, buf, stop, n - 0, n)
    BY <2>2 DEF Walks
  <2> QED  BY <2>3
<1>2. ASSUME NEW m \in Nat, m \in T
      PROVE  m + 1 \in T
  <2> SUFFICES ASSUME m + 1 <= n
               PROVE  \E w : Walks(w, buf, stop, n - (m + 1), n)
    OBVIOUS
  <2>1. PICK f : Walks(f, buf, stop, n - m, n)
    <3>1. m <= n
      BY <1>2
    <3> QED  BY <1>2, <3>1
  <2> DEFINE b == n - (m + 1)
             g == [i \in b..n |-> IF i = b THEN Steps(f, b) ELSE f[i]]
             h == [i \in b..n |-> Steps(g, i)]
  <2>2. b \in Nat /\ n - m = b + 1 /\ b + 1 <= n
    OBVIOUS
  <2> HIDE DEF b
  <2>3. ASSUME NEW i \in b..n
        PROVE  g[i] = h[i]
    <3>1. ~(i + PACKET > Len(buf)) => /\ i + 1 \in (b + 1)..n /\ i + PACKET \in (b + 1)..n
                                      /\ i + 1 # b /\ i + PACKET # b
      BY <1>0, <2>2
    <3>2. ~(i + PACKET > Len(buf)) => g[i + 1] = f[i + 1] /\ g[i + PACKET] = f[i + PACKET]
      BY <2>2, <3>1
    <3>3. Steps(f, i) = Steps(g, i)
      BY <3>2
    <3>4. g[i] = Steps(f, i)
      <4>1. CASE i = b
        BY <4>1
      <4>2. CASE i # b
        <5>1. i \in (b + 1)..n
          BY <2>2, <4>2
        <5>2. f[i] = Steps(f, i)
          BY <2>1, <2>2, <5>1, WalksNth
        <5> QED  BY <4>2, <5>2
      <4> QED  BY <4>1, <4>2
    <3> QED  BY <3>3, <3>4
  <2>4. g = h
    BY <2>3
  <2>5. Walks(g, buf, stop, b, n)
    BY <2>4 DEF Walks
  <2> QED  BY <2>5 DEF b
<1> HIDE DEF T
<1>3. \A m \in Nat : m \in T
  BY <1>1, <1>2, SetInduction
<1>4. n \in T
  BY <1>3
<1>5. \E w : Walks(w, buf, stop, n - n, n)
  BY <1>4 DEF T
<1>6. n - n = 0
  OBVIOUS
<1> QED  BY <1>5, <1>6

LEMMA WalkIs ==
  ASSUME NEW buf, Len(buf) \in Nat, NEW stop, NEW from
  PROVE  \E w : Walks(w, buf, stop, 0, Len(buf) + PACKET) /\ Walk(buf, from, stop) = w[from]
<1> DEFINE g == CHOOSE w : Walks(w, buf, stop, 0, Len(buf) + PACKET)
<1>1. Walks(g, buf, stop, 0, Len(buf) + PACKET)
  <2>1. Len(buf) + PACKET \in Nat
    BY PacketAssumption
  <2> QED  BY <2>1, WalksExists
<1>2. Walk(buf, from, stop) = g[from]
  BY DEF Walk, Walks
<1> QED  BY <1>1, <1>2

\* What w goes past from i on is in its packets or no place where one could begin.
PassesOver(w, i, buf, stop) ==
  \A x \in Nat :
    i <= x /\ x < w[Len(w)] =>
      \/ \E k \in 1..(Len(w) - 1) : w[k] <= x /\ x < w[k] + PACKET
      \/ x < stop /\ x + PACKET <= Len(buf) /\ ~Synced(buf, x)

\* w begins at i or later, its packets are apart, within the buffer and in sync, it
\* leaves none out, and it ends where no other could begin.
WalkFrom(w, i, buf, stop) ==
  /\ w \in Seq(Nat) /\ Len(w) >= 1
  /\ \A k \in 1..Len(w) : w[k] >= i
  /\ \A k \in 1..(Len(w) - 1) :
       /\ w[k] < stop /\ w[k] + PACKET <= Len(buf) /\ Synced(buf, w[k])
       /\ w[k] + PACKET <= w[k + 1]
  /\ i <= Len(buf) => w[Len(w)] <= Len(buf)
  /\ w[Len(w)] >= stop \/ w[Len(w)] + PACKET > Len(buf)
  /\ PassesOver(w, i, buf, stop)

LEMMA WalkOfOne ==
  ASSUME NEW i \in Nat, NEW buf, NEW stop, i >= stop \/ i + PACKET > Len(buf)
  PROVE  WalkFrom(<<i>>, i, buf, stop)
<1>1. <<i>> \in Seq(Nat) /\ Len(<<i>>) = 1 /\ <<i>>[1] = i
  OBVIOUS
<1>2. \A k \in 1..1 : k = 1
  OBVIOUS
<1>3. 1..(1 - 1) = {}
  OBVIOUS
<1>4. PassesOver(<<i>>, i, buf, stop)
  BY <1>1 DEF PassesOver
<1> QED  BY <1>1, <1>2, <1>3, <1>4 DEF WalkFrom

LEMMA WalkOfMore ==
  ASSUME NEW i \in Nat, NEW buf, Len(buf) \in Nat, NEW stop \in Nat, NEW v,
         i < stop, i + PACKET <= Len(buf), Synced(buf, i), WalkFrom(v, i + PACKET, buf, stop)
  PROVE  WalkFrom(<<i>> \o v, i, buf, stop)
<1> DEFINE one == <<i>>
           w == Cat(one, v)
<1>0. PACKET \in Nat
  BY PacketAssumption
<1>1. one \in Seq(Nat) /\ Len(one) = 1 /\ one[1] = i
  OBVIOUS
<1>2. v \in Seq(Nat) /\ Len(v) >= 1 /\ Len(v) \in Nat
  BY LenProperties DEF WalkFrom
<1> HIDE DEF one
<1>3. /\ w \in Seq(Nat) /\ Len(w) = 1 + Len(v) /\ w[1] = i
      /\ \A k \in 1..Len(v) : w[1 + k] = v[k]
  <2>1. w \in Seq(Nat) /\ Len(w) = Len(one) + Len(v)
    BY <1>1, <1>2, CatFacts
  <2>2. /\ \A k \in 1..Len(one) : w[k] = one[k]
        /\ \A k \in 1..Len(v) : w[Len(one) + k] = v[k]
    <3>1. one \in Seq(Nat) /\ v \in Seq(Nat)
      BY <1>1, <1>2
    <3>2. /\ \A k \in 1..Len(one) : Cat(one, v)[k] = one[k]
          /\ \A k \in 1..Len(v) : Cat(one, v)[Len(one) + k] = v[k]
      BY <3>1, CatNth
    <3> QED  BY <3>2
  <2>3. \A k \in 1..Len(one) : k = 1
    BY <1>1
  <2> QED  BY <1>1, <2>1, <2>2
<1> HIDE DEF w
<1>4. ASSUME NEW k \in 1..Len(w), k # 1
      PROVE  k - 1 \in 1..Len(v) /\ w[k] = v[k - 1] /\ v[k - 1] \in Nat
  <2>1. k - 1 \in 1..Len(v) /\ 1 + (k - 1) = k
    BY <1>2, <1>3, <1>4
  <2> QED  BY <1>2, <1>3, <2>1, ElementOfSeq
<1>5. ASSUME NEW k \in 1..Len(w)
      PROVE  w[k] >= i
  <2>1. CASE k # 1
    <3>1. v[k - 1] >= i + PACKET
      BY <1>4, <2>1 DEF WalkFrom
    <3> QED  BY <1>0, <1>4, <2>1, <3>1
  <2> QED  BY <1>3, <2>1
<1>6. ASSUME NEW k \in 1..(Len(w) - 1)
      PROVE  /\ w[k] < stop /\ w[k] + PACKET <= Len(buf) /\ Synced(buf, w[k])
             /\ w[k] + PACKET <= w[k + 1]
  <2>1. /\ k \in 1..Len(w) /\ k + 1 \in 1..Len(w) /\ k + 1 # 1 /\ k \in 1..Len(v)
        /\ (k + 1) - 1 = k
    <3>1. Len(v) \in Nat /\ Len(w) = 1 + Len(v) /\ k \in 1..(Len(w) - 1)
      BY <1>2, <1>3, <1>6
    <3>2. k \in 1..Len(v) /\ k \in 1..Len(w) /\ k + 1 \in 1..Len(w)
      BY <3>1
    <3> QED  BY <3>2
  <2>2. w[k + 1] = v[k]
    BY <1>4, <2>1
  <2>3. CASE k = 1
    <3>1. v[1] >= i + PACKET
      BY <2>1, <2>3 DEF WalkFrom
    <3> QED  BY <1>0, <1>3, <2>2, <2>3, <3>1
  <2>4. CASE k # 1
    <3>1. k - 1 \in 1..(Len(v) - 1) /\ w[k] = v[k - 1] /\ (k - 1) + 1 = k
      <4>1. w[k] = v[k - 1]
        BY <1>4, <2>1, <2>4
      <4> QED  BY <1>2, <1>3, <2>1, <2>4, <4>1
    <3>2. /\ v[k - 1] < stop /\ v[k - 1] + PACKET <= Len(buf) /\ Synced(buf, v[k - 1])
          /\ v[k - 1] + PACKET <= v[(k - 1) + 1]
      BY <3>1 DEF WalkFrom
    <3> QED  BY <2>2, <3>1, <3>2
  <2> QED  BY <2>3, <2>4
<1>7. w[Len(w)] = v[Len(v)]
  <2>1. Len(v) \in 1..Len(v) /\ 1 + Len(v) = Len(w)
    BY <1>2, <1>3
  <2>2. w[1 + Len(v)] = v[Len(v)]
    BY <1>3, <2>1
  <2> QED  BY <2>1, <2>2
<1>8. /\ w[Len(w)] <= Len(buf)
      /\ w[Len(w)] >= stop \/ w[Len(w)] + PACKET > Len(buf)
  BY <1>7 DEF WalkFrom
<1>9. PassesOver(w, i, buf, stop)
  <2> SUFFICES ASSUME NEW x \in Nat, i <= x, x < w[Len(w)]
               PROVE  \/ \E k \in 1..(Len(w) - 1) : w[k] <= x /\ x < w[k] + PACKET
                      \/ x < stop /\ x + PACKET <= Len(buf) /\ ~Synced(buf, x)
    BY DEF PassesOver
  <2>1. CASE x < i + PACKET
    <3>1. 1 \in 1..(Len(w) - 1)
      BY <1>2, <1>3
    <3> QED  BY <1>3, <2>1, <3>1
  <2>2. CASE ~(x < i + PACKET)
    <3>1. i + PACKET <= x /\ x < v[Len(v)]
      BY <1>0, <1>7, <2>2
    <3>2. PassesOver(v, i + PACKET, buf, stop)
      BY DEF WalkFrom
    <3>3. ASSUME NEW k \in 1..(Len(v) - 1), v[k] <= x /\ x < v[k] + PACKET
          PROVE  \E j \in 1..(Len(w) - 1) : w[j] <= x /\ x < w[j] + PACKET
      <4>1. k \in 1..Len(v) /\ 1 + k \in 1..(Len(w) - 1)
        <5>1. Len(v) \in Nat /\ Len(w) = 1 + Len(v) /\ k \in 1..(Len(v) - 1)
          BY <1>2, <1>3
        <5> QED  BY <5>1
      <4>2. w[1 + k] = v[k]
        BY <1>3, <4>1
      <4> QED  BY <3>3, <4>1, <4>2
    <3>4. \/ \E k \in 1..(Len(v) - 1) : v[k] <= x /\ x < v[k] + PACKET
          \/ x < stop /\ x + PACKET <= Len(buf) /\ ~Synced(buf, x)
      BY <3>1, <3>2 DEF PassesOver
    <3> QED  BY <3>3, <3>4
  <2> QED  BY <2>1, <2>2
<1>10. WalkFrom(w, i, buf, stop)
  BY <1>2, <1>3, <1>5, <1>6, <1>8, <1>9 DEF WalkFrom
<1> QED  BY <1>10 DEF w, one, Cat

LEMMA WalkLater ==
  ASSUME NEW i \in Nat, NEW buf, Len(buf) \in Nat, NEW stop, NEW v, i < Len(buf),
         i < stop, i + PACKET <= Len(buf), ~Synced(buf, i), WalkFrom(v, i + 1, buf, stop)
  PROVE  WalkFrom(v, i, buf, stop)
<1>1. \A k \in 1..Len(v) : v[k] >= i
  <2> SUFFICES ASSUME NEW k \in 1..Len(v) PROVE v[k] >= i
    OBVIOUS
  <2>1. v[k] \in Nat /\ v[k] >= i + 1
    BY ElementOfSeq DEF WalkFrom
  <2> QED  BY <2>1
<1>2. i + 1 <= Len(buf)
  OBVIOUS
<1>3. PassesOver(v, i, buf, stop)
  <2>1. PassesOver(v, i + 1, buf, stop)
    BY DEF WalkFrom
  <2>2. \A x \in Nat : i <= x => x = i \/ i + 1 <= x
    OBVIOUS
  <2> QED  BY <2>1, <2>2 DEF PassesOver
<1> QED  BY <1>1, <1>2, <1>3 DEF WalkFrom

LEMMA WalkFacts ==
  ASSUME NEW buf, Len(buf) \in Nat, NEW stop \in Nat, NEW from \in 0..(Len(buf) + PACKET)
  PROVE  WalkFrom(Walk(buf, from, stop), from, buf, stop)
<1> DEFINE n == Len(buf) + PACKET
<1>0. PACKET \in Nat /\ PACKET >= 1 /\ n \in Nat
  BY PacketAssumption
<1>1. PICK w : Walks(w, buf, stop, 0, n) /\ Walk(buf, from, stop) = w[from]
  BY WalkIs
<1> DEFINE T == {m \in Nat : \A i \in 0..n : n - i <= m => WalkFrom(w[i], i, buf, stop)}
<1>2. ASSUME NEW m \in Nat, NEW i \in 0..n,
             \A j \in 0..n : j > i => WalkFrom(w[j], j, buf, stop)
      PROVE  WalkFrom(w[i], i, buf, stop)
  <2>1. w[i] = IF i >= stop \/ i + PACKET > Len(buf) THEN <<i>>
               ELSE IF Synced(buf, i) THEN <<i>> \o w[i + PACKET] ELSE w[i + 1]
    BY <1>1, WalksNth
  <2>2. CASE i >= stop \/ i + PACKET > Len(buf)
    BY <2>1, <2>2, WalkOfOne
  <2>3. CASE ~(i >= stop \/ i + PACKET > Len(buf))
    <3>1. /\ i \in Nat /\ i < stop /\ i + PACKET <= Len(buf) /\ i < Len(buf)
          /\ i + PACKET \in 0..n /\ i + PACKET > i /\ i + 1 \in 0..n /\ i + 1 > i
      BY <1>0, <2>3
    <3>2. WalkFrom(w[i + PACKET], i + PACKET, buf, stop) /\ WalkFrom(w[i + 1], i + 1, buf, stop)
      BY <1>2, <3>1
    <3>3. CASE Synced(buf, i)
      BY <2>1, <2>3, <3>1, <3>2, <3>3, WalkOfMore
    <3>4. CASE ~Synced(buf, i)
      BY <2>1, <2>3, <3>1, <3>2, <3>4, WalkLater
    <3> QED  BY <3>3, <3>4
  <2> QED  BY <2>2, <2>3
<1> HIDE DEF n
<1>3. 0 \in T
  <2> SUFFICES ASSUME NEW i \in 0..n, n - i <= 0 PROVE WalkFrom(w[i], i, buf, stop)
    OBVIOUS
  <2>1. i = n
    BY <1>0
  <2>2. \A j \in 0..n : ~(j > i)
    BY <1>0, <2>1
  <2> QED  BY <1>2, <2>2
<1>4. ASSUME NEW m \in Nat, m \in T
      PROVE  m + 1 \in T
  <2> SUFFICES ASSUME NEW i \in 0..n, n - i <= m + 1 PROVE WalkFrom(w[i], i, buf, stop)
    OBVIOUS
  <2>1. \A j \in 0..n : j > i => n - j <= m
    BY <1>0
  <2>2. \A j \in 0..n : j > i => WalkFrom(w[j], j, buf, stop)
    BY <1>4, <2>1
  <2> QED  BY <1>2, <2>2
<1> HIDE DEF T
<1>5. \A m \in Nat : m \in T
  BY <1>3, <1>4, SetInduction
<1>6. n \in T /\ n - from <= n /\ from \in 0..n
  BY <1>0, <1>5 DEF n
<1>7. WalkFrom(w[from], from, buf, stop)
  BY <1>6 DEF T
<1> QED  BY <1>1, <1>7

-----------------------------------------------------------------------------
(* TsScanner: what a packet changes. *)

ScannerFields == {"carry", "pos", "pat", "pmt", "pmt_pid", "pmt_seen", "video", "audio",
                  "latest_video_pts", "handled"}

IsScanner(s) == s = [f \in ScannerFields |-> s[f]]

\* t is s after packets: nothing that is carried over has changed, a settled
\* program is the same and a timestamp is not forgotten.
Follows(s, t) ==
  /\ IsScanner(t) /\ t.carry = s.carry /\ t.pos = s.pos
  /\ Program(s) # None => Program(t) = Program(s)
  /\ t.latest_video_pts # s.latest_video_pts => t.latest_video_pts # None

LEMMA FieldSet ==
  ASSUME NEW s, IsScanner(s), NEW f \in ScannerFields, NEW v
  PROVE  /\ IsScanner([s EXCEPT ![f] = v]) /\ [s EXCEPT ![f] = v][f] = v
         /\ \A g \in ScannerFields \ {f} : [s EXCEPT ![f] = v][g] = s[g]
<1> DEFINE t == [s EXCEPT ![f] = v]
<1>1. DOMAIN s = ScannerFields
  BY DEF IsScanner
<1>2. t = [g \in ScannerFields |-> IF g = f THEN v ELSE s[g]]
  BY <1>1
<1> HIDE DEF t
<1>3. IsScanner(t) /\ t[f] = v /\ \A g \in ScannerFields \ {f} : t[g] = s[g]
  BY <1>2 DEF IsScanner
<1> QED  BY <1>3 DEF t

LEMMA FollowsItself ==
  ASSUME NEW s, IsScanner(s)
  PROVE  Follows(s, s)
BY DEF Follows

LEMMA FollowsOn ==
  ASSUME NEW s, NEW t, NEW u, Follows(s, t), Follows(t, u)
  PROVE  Follows(s, u)
BY DEF Follows

\* A field that no program is made of.
LEMMA AsideFollows ==
  ASSUME NEW s, IsScanner(s), NEW f \in {"pat", "pmt", "pmt_pid", "handled"}, NEW v
  PROVE  Follows(s, [s EXCEPT ![f] = v])
<1> DEFINE t == [s EXCEPT ![f] = v]
<1>1. f \in ScannerFields
  BY DEF ScannerFields
<1>2. IsScanner(t) /\ \A g \in ScannerFields \ {f} : t[g] = s[g]
  BY <1>1, FieldSet
<1> HIDE DEF t
<1>3. /\ t.carry = s.carry /\ t.pos = s.pos /\ t.latest_video_pts = s.latest_video_pts
      /\ t.pmt_seen = s.pmt_seen /\ t.video = s.video /\ t.audio = s.audio
  <2>1. \A g \in {"carry", "pos", "latest_video_pts", "pmt_seen", "video", "audio"} :
          g \in ScannerFields \ {f}
    BY DEF ScannerFields
  <2> QED  BY <1>2, <2>1
<1>4. Program(t) = Program(s)
  BY <1>3 DEF Program
<1>5. Follows(s, t)
  BY <1>2, <1>3, <1>4 DEF Follows
<1> QED  BY <1>5 DEF t

LEMMA PatFollows ==
  ASSUME NEW s, IsScanner(s), NEW p
  PROVE  Follows(s, PatPacket(s, p).s)
<1> DEFINE given == SectionFeed(s.pat, p.pusi, p.payload)
           held == [s EXCEPT !.pat = given.held]
<1>1. Follows(s, held)
  BY AsideFollows
<1>2. PatPacket(s, p).s = held \/ PatPacket(s, p).s = ParsePat(held, given.done)
  BY DEF PatPacket, Only, AfterPat
<1> HIDE DEF given, held
<1>3. ParsePat(held, given.done) = held
      \/ \E v : ParsePat(held, given.done) = [held EXCEPT !["pmt_pid"] = v]
  BY DEF ParsePat
<1>4. ASSUME NEW v
      PROVE  Follows(s, [held EXCEPT !["pmt_pid"] = v])
  <2>1. IsScanner(held)
    BY <1>1 DEF Follows
  <2>2. Follows(held, [held EXCEPT !["pmt_pid"] = v])
    BY <2>1, AsideFollows
  <2> QED  BY <1>1, <2>2, FollowsOn
<1> QED  BY <1>1, <1>2, <1>3, <1>4

LEMMA PmtFollows ==
  ASSUME NEW s, IsScanner(s), NEW p
  PROVE  Follows(s, PmtPacket(s, p).s)
<1> DEFINE given == SectionFeed(s.pmt, p.pusi, p.payload)
           t == [s EXCEPT !.pmt = given.held]
<1>1. Follows(s, t)
  BY AsideFollows
<1>2. PmtPacket(s, p).s = t \/ PmtPacket(s, p).s = ParsePmt(t, given.done)
  BY DEF PmtPacket, Only, AfterPmt
<1> DEFINE section == given.done
<1> HIDE DEF given, t, section
<1>3. CASE ParsePmt(t, section) = t
  BY <1>1, <1>2, <1>3 DEF section
<1>4. CASE ParsePmt(t, section) # t
  <2>1. ~t.pmt_seen
    BY <1>4 DEF ParsePmt
  <2> DEFINE u == [t EXCEPT !["video"] = FirstOf("video", Entries(section), t.video)]
             v == [u EXCEPT !["audio"] = FirstOf("audio", Entries(section), t.audio)]
             w == [v EXCEPT !["pmt_seen"] = TRUE]
  <2>2. ParsePmt(t, section) = w
    <3>1. DOMAIN t = ScannerFields
      BY <1>1 DEF Follows, IsScanner
    <3>2. u["audio"] = t["audio"]
      BY <3>1 DEF ScannerFields
    <3> QED  BY <1>4, <3>2 DEF ParsePmt
  <2>3. IsScanner(t)
    BY <1>1 DEF Follows
  <2>4. {"video", "audio", "pmt_seen", "carry", "pos", "latest_video_pts"} \subseteq ScannerFields
    BY DEF ScannerFields
  <2>5. IsScanner(u) /\ u.carry = t.carry /\ u.pos = t.pos
        /\ u.latest_video_pts = t.latest_video_pts
    BY <2>3, <2>4, FieldSet
  <2> HIDE DEF u
  <2>6. IsScanner(v) /\ v.carry = t.carry /\ v.pos = t.pos
        /\ v.latest_video_pts = t.latest_video_pts
    BY <2>5, <2>4, FieldSet
  <2> HIDE DEF v
  <2>7. IsScanner(w) /\ w.carry = t.carry /\ w.pos = t.pos
        /\ w.latest_video_pts = t.latest_video_pts
    BY <2>6, <2>4, FieldSet
  <2>8. Program(t) = None
    BY <2>1 DEF Program
  <2> HIDE DEF w
  <2>9. Follows(t, w)
    BY <2>7, <2>8 DEF Follows
  <2> QED  BY <1>1, <1>2, <2>2, <2>9, FollowsOn DEF section
<1> QED  BY <1>3, <1>4

LEMMA AudioFollows ==
  ASSUME NEW s, IsScanner(s), NEW p, s.audio # None, s.audio.is.name = "layer"
  PROVE  Follows(s, AudioPacket(s, p).s)
<1> DEFINE a == [s.audio EXCEPT !.is.name = MpegAudioLayer(p.pes)]
           t == [s EXCEPT !["audio"] = a]
<1>1. AudioPacket(s, p).s = t
  BY DEF AudioPacket, Only
<1>2. Program(s) = None
  BY DEF Program, Unnamed
<1>3. {"audio", "carry", "pos", "latest_video_pts"} \subseteq ScannerFields
  BY DEF ScannerFields
<1> HIDE DEF a
<1>4. IsScanner(t) /\ t.carry = s.carry /\ t.pos = s.pos
      /\ t.latest_video_pts = s.latest_video_pts
  BY <1>3, FieldSet
<1> HIDE DEF t
<1>5. Follows(s, t)
  BY <1>2, <1>4 DEF Follows
<1> QED  BY <1>1, <1>5

LEMMA VideoFollows ==
  ASSUME NEW s, IsScanner(s), NEW p
  PROVE  Follows(s, VideoPacket(s, p).s)
<1> DEFINE t == [s EXCEPT !["latest_video_pts"] = p.pes.pts]
<1>1. CASE p.pes.pts = None
  <2>1. VideoPacket(s, p).s = s
    BY <1>1 DEF VideoPacket
  <2> QED  BY <2>1, FollowsItself
<1>2. CASE p.pes.pts # None
  <2>1. VideoPacket(s, p).s = t
    BY <1>2 DEF VideoPacket
  <2>2. {"pmt_seen", "audio", "video", "carry", "pos", "latest_video_pts"}
          \subseteq ScannerFields
    BY DEF ScannerFields
  <2>3. IsScanner(t) /\ t.carry = s.carry /\ t.pos = s.pos
        /\ t.pmt_seen = s.pmt_seen /\ t.audio = s.audio /\ t.video = s.video
        /\ t.latest_video_pts = p.pes.pts
    BY <2>2, FieldSet
  <2> HIDE DEF t
  <2>4. Program(t) = Program(s)
    BY <2>3 DEF Program
  <2>5. Follows(s, t)
    BY <1>2, <2>3, <2>4 DEF Follows
  <2> QED  BY <2>1, <2>5
<1> QED  BY <1>1, <1>2

\* Only a packet of the stream begins a keyframe, since any other has no payload.
LEMMA PacketFollows ==
  ASSUME NEW s, IsScanner(s), NEW p
  PROVE  Follows(s, OnPacket(s, p).s) /\ (OnPacket(s, p).key => p.payload # None)
<1> DEFINE r == OnPacket(s, p)
<1>1. CASE r = Only(s)
  BY <1>1, FollowsItself DEF Only
<1>2. CASE r = PatPacket(s, p)
  <2>1. ~r.key
    BY <1>2 DEF PatPacket, Only
  <2> QED  BY <1>2, <2>1, PatFollows
<1>3. CASE r = PmtPacket(s, p)
  <2>1. ~r.key
    BY <1>3 DEF PmtPacket, Only
  <2> QED  BY <1>3, <2>1, PmtFollows
<1>4. CASE r = AudioPacket(s, p) /\ s.audio # None /\ s.audio.is.name = "layer"
  <2>1. ~r.key
    BY <1>4 DEF AudioPacket, Only
  <2> QED  BY <1>4, <2>1, AudioFollows
<1>5. CASE r = VideoPacket(s, p) /\ p.payload # None
  BY <1>5, VideoFollows
<1>6. \/ r = Only(s) \/ r = PatPacket(s, p) \/ r = PmtPacket(s, p)
      \/ r = AudioPacket(s, p) /\ s.audio # None /\ s.audio.is.name = "layer"
      \/ r = VideoPacket(s, p) /\ p.payload # None
  BY DEF OnPacket
<1> QED  BY <1>1, <1>2, <1>3, <1>4, <1>5, <1>6

-----------------------------------------------------------------------------
(* TsScanner: the keyframes that a scan finds. *)

Marks == {[at |-> o, pts |-> input.packets[o + 1].pes.pts] : o \in Starts \cap Nat}

\* Keyframes of the stream in the order of their places, which are in lo..(hi - 1).
Rising(f, lo, hi) ==
  /\ f \in Seq(Marks)
  /\ \A k \in 1..Len(f) : lo <= f[k].at /\ f[k].at < hi
  /\ \A k, l \in 1..Len(f) : k < l => f[k].at < f[l].at

LEMMA MarksTyped == \A m \in Marks : m.at \in Nat /\ m.at \in Starts
BY DEF Marks

LEMMA NoneRises ==
  ASSUME NEW lo, NEW hi
  PROVE  Rising(<<>>, lo, hi)
<1>1. <<>> \in Seq(Marks) /\ 1..Len(<<>>) = {}
  <2>1. <<>> \in Seq(Marks) /\ Len(<<>>) = 0
    BY EmptySeq
  <2> QED  BY <2>1
<1> QED  BY <1>1 DEF Rising

LEMMA RisesOn ==
  ASSUME NEW f, NEW g, NEW lo \in Nat, NEW mid \in Nat, NEW hi \in Nat, lo <= mid, mid <= hi,
         Rising(f, lo, mid), Rising(g, mid, hi)
  PROVE  Rising(Cat(f, g), lo, hi)
<1> DEFINE h == Cat(f, g)
<1>1. /\ f \in Seq(Marks) /\ g \in Seq(Marks) /\ Len(f) \in Nat /\ Len(g) \in Nat
      /\ h \in Seq(Marks) /\ Len(h) = Len(f) + Len(g)
  BY CatFacts, LenProperties DEF Rising
<1>2. /\ \A k \in 1..Len(f) : h[k] = f[k]
      /\ \A k \in 1..Len(g) : h[Len(f) + k] = g[k]
  <2>1. /\ \A k \in 1..Len(f) : Cat(f, g)[k] = f[k]
        /\ \A k \in 1..Len(g) : Cat(f, g)[Len(f) + k] = g[k]
    <3>1. f \in Seq(Marks) /\ g \in Seq(Marks)
      BY <1>1
    <3> QED  BY <3>1, CatNth
  <2> QED  BY <2>1
<1>3. /\ \A k \in 1..Len(f) : f[k].at \in Nat
      /\ \A k \in 1..Len(g) : g[k].at \in Nat
  BY <1>1, ElementOfSeq, MarksTyped
<1> HIDE DEF h
<1>4. ASSUME NEW k \in 1..Len(h), k > Len(f)
      PROVE  k - Len(f) \in 1..Len(g) /\ h[k] = g[k - Len(f)]
  <2>1. k - Len(f) \in 1..Len(g) /\ Len(f) + (k - Len(f)) = k
    BY <1>1, <1>4
  <2> QED  BY <1>2, <2>1
<1>5. ASSUME NEW k \in 1..Len(h), ~(k > Len(f))
      PROVE  k \in 1..Len(f) /\ h[k] = f[k]
  <2>1. k \in 1..Len(f)
    BY <1>1, <1>5
  <2> QED  BY <1>2, <2>1
<1>6. ASSUME NEW k \in 1..Len(h)
      PROVE  lo <= h[k].at /\ h[k].at < hi
  <2>1. CASE k > Len(f)
    <3>1. LET i == k - Len(f) IN g[i].at \in Nat /\ mid <= g[i].at /\ g[i].at < hi /\ h[k] = g[i]
      BY <1>3, <1>4, <2>1 DEF Rising
    <3> QED  BY <3>1
  <2>2. CASE ~(k > Len(f))
    <3>1. f[k].at \in Nat /\ lo <= f[k].at /\ f[k].at < mid /\ h[k] = f[k]
      BY <1>3, <1>5, <2>2 DEF Rising
    <3> QED  BY <3>1
  <2> QED  BY <2>1, <2>2
<1>7. ASSUME NEW k \in 1..Len(h), NEW l \in 1..Len(h), k < l
      PROVE  h[k].at < h[l].at
  <2>1. CASE k > Len(f)
    <3>1. l > Len(f)
      BY <1>1, <1>7, <2>1
    <3>2. LET i == k - Len(f)
              j == l - Len(f)
          IN i \in 1..Len(g) /\ j \in 1..Len(g) /\ h[k] = g[i] /\ h[l] = g[j]
      BY <1>4, <2>1, <3>1
    <3>3. k - Len(f) < l - Len(f)
      BY <1>1, <1>7
    <3> QED  BY <3>2, <3>3 DEF Rising
  <2>2. CASE ~(k > Len(f)) /\ l > Len(f)
    <3>1. f[k].at \in Nat /\ f[k].at < mid /\ h[k] = f[k]
      BY <1>3, <1>5, <2>2 DEF Rising
    <3>2. LET j == l - Len(f) IN g[j].at \in Nat /\ mid <= g[j].at /\ h[l] = g[j]
      BY <1>3, <1>4, <2>2 DEF Rising
    <3> QED  BY <3>1, <3>2
  <2>3. CASE ~(k > Len(f)) /\ ~(l > Len(f))
    BY <1>5, <1>7, <2>3 DEF Rising
  <2> QED  BY <2>1, <2>2, <2>3
<1>8. Rising(h, lo, hi)
  BY <1>1, <1>6, <1>7 DEF Rising
<1> QED  BY <1>8 DEF h

LEMMA RisesTo ==
  ASSUME NEW f, NEW lo \in Nat, NEW mid \in Nat, NEW hi \in Nat, mid <= hi, Rising(f, lo, mid)
  PROVE  Rising(f, lo, hi)
<1>1. \A k \in 1..Len(f) : f[k].at \in Nat
  BY ElementOfSeq, MarksTyped DEF Rising
<1> QED  BY <1>1 DEF Rising

LEMMA OneRises ==
  ASSUME NEW m \in Marks, NEW lo, NEW hi, lo <= m.at, m.at < hi
  PROVE  Rising(<<m>>, lo, hi)
<1>1. <<m>> \in Seq(Marks) /\ Len(<<m>>) = 1 /\ <<m>>[1] = m
  OBVIOUS
<1>2. \A k \in 1..1 : k = 1
  OBVIOUS
<1> QED  BY <1>1, <1>2 DEF Rising

\* A scan of the m bytes from base on is at a packet, i bytes in.
Ready(acc, base, m, i) ==
  /\ base \in Nat /\ m \in Nat /\ i \in Nat /\ i + PACKET <= m
  /\ DOMAIN acc = {"s", "found", "at"} /\ IsScanner(acc.s) /\ acc.found \in Seq(Marks)

\* The keyframe that one packet of a scan, at place o, begins.
Advance(acc, t, o) ==
  /\ DOMAIN t = {"s", "found", "at"} /\ Follows(acc.s, t.s) /\ t.at = acc.at
  /\ \/ t.found = acc.found
     \/ \E k \in Marks : k.at = o /\ t.found = Append(acc.found, k)

LEMMA StepFinds ==
  ASSUME NEW acc, NEW base, NEW m, NEW i, Ready(acc, base, m, i)
  PROVE  Advance(acc, ScanStep(acc, Run(base, m), base, i), base + i)
<1> /\ base \in Nat /\ m \in Nat /\ i \in Nat /\ i + PACKET <= m
    /\ DOMAIN acc = {"s", "found", "at"} /\ IsScanner(acc.s)
  BY DEF Ready
<1> PICK buf : buf = Run(base, m)
  OBVIOUS
<1> PICK t : t = ScanStep(acc, buf, base, i)
  OBVIOUS
<1>0. PACKET \in Nat /\ PACKET >= 1
  BY PacketAssumption
<1> DEFINE bytesof == SubSeq(buf, i + 1, i + PACKET)
           p == Packet(bytesof)
           r == OnPacket(acc.s, p)
<1>1. bytesof[1] = base + i + 1
  <2>1. buf \in Seq(Nat) /\ Len(buf) = m /\ i + 1 \in 1..m /\ buf[i + 1] = base + (i + 1)
    <3>1. buf \in Seq(Nat) /\ Len(buf) = m /\ i + 1 \in 1..m
      BY <1>0, RunFacts
    <3>2. \A k \in 1..m : buf[k] = base + k
      BY DEF Run
    <3> QED  BY <3>1, <3>2
  <2>2. /\ \A k \in (i + 1)..(i + PACKET) : buf[k] \in Nat
        /\ i + 1 \in Int /\ i + PACKET \in Int
    <3>1. \A k \in (i + 1)..(i + PACKET) : k \in 1..Len(buf)
      BY <1>0, <2>1
    <3> QED  BY <1>0, <2>1, <3>1, ElementOfSeq
  <2>3. /\ i + 1 <= i + PACKET => Len(bytesof) = (i + PACKET) - (i + 1) + 1
        /\ \A k \in 1..((i + PACKET) - (i + 1) + 1) : bytesof[k] = buf[(i + 1) + k - 1]
    BY <1>0, <2>2, SubSeqProperties
  <2>4. 1 \in 1..((i + PACKET) - (i + 1) + 1) /\ (i + 1) + 1 - 1 = i + 1
    BY <1>0
  <2>5. bytesof[1] = buf[i + 1]
    BY <2>3, <2>4
  <2> HIDE DEF bytesof
  <2>6. base + (i + 1) = base + i + 1
    OBVIOUS
  <2> QED  BY <2>1, <2>5, <2>6
<1> HIDE DEF bytesof
<1>2. Follows(acc.s, r.s) /\ (r.key => p.payload # None)
  BY PacketFollows
<1>3. r.key => LET o == base + i
               IN /\ o \in Starts \cap Nat
                  /\ [at |-> o, pts |-> p.pes.pts]
                       = [at |-> o, pts |-> input.packets[o + 1].pes.pts]
  <2> SUFFICES ASSUME r.key PROVE LET o == base + i
                   IN /\ o \in Starts \cap Nat
                      /\ [at |-> o, pts |-> p.pes.pts]
                           = [at |-> o, pts |-> input.packets[o + 1].pes.pts]
    OBVIOUS
  <2>1. p.payload # None
    BY <1>2
  <2>2. bytesof[1] \in DOMAIN input.packets /\ p = input.packets[bytesof[1]]
    BY <2>1 DEF Packet, Garbage
  <2>3. base + i \in Nat /\ (base + i + 1) - 1 = base + i
    OBVIOUS
  <2> QED  BY <1>1, <2>2, <2>3 DEF Starts
<1> HIDE DEF p
<1>4. t = Noted(acc, buf[i + 1], base + i, p, r)
  BY DEF ScanStep, WithPacket, p, bytesof
<1> DEFINE u == [r.s EXCEPT !["handled"] = r.s.handled \cup {buf[i + 1]}]
           k == [at |-> base + i, pts |-> p.pes.pts]
<1>5. /\ DOMAIN t = {"s", "found", "at"} /\ t.at = acc.at /\ t.s = u
      /\ t.found = IF r.key THEN Append(acc.found, k) ELSE acc.found
  <2>1. r.s["handled"] = r.s.handled /\ DOMAIN r.s = ScannerFields /\ "handled" \in ScannerFields
    BY <1>2 DEF Follows, IsScanner, ScannerFields
  <2> HIDE DEF r
  <2> QED  BY <1>4, <2>1 DEF Noted
<1> HIDE DEF r
<1>6. Follows(acc.s, t.s)
  <2>1. IsScanner(r.s)
    BY <1>2 DEF Follows
  <2>2. Follows(r.s, u)
    BY <2>1, AsideFollows
  <2> QED  BY <1>2, <1>5, <2>2, FollowsOn
<1>7. r.key => k \in Marks /\ k.at = base + i
  BY <1>3 DEF Marks
<1>8. t.found = acc.found \/ \E j \in Marks : j.at = base + i /\ t.found = Append(acc.found, j)
  BY <1>5, <1>7
<1> QED  BY <1>5, <1>6, <1>8 DEF Advance

\* A scan takes the n packets of its walk w one after another: acc[k] is what there is
\* after k of them.
Takes(acc, w, n, s, buf, base, from, stop) ==
  /\ w \in Seq(Nat) /\ n \in Nat /\ n + 1 = Len(w) /\ \A k \in 1..(n + 1) : w[k] \in Nat
  /\ WalkFrom(w, from, buf, stop)
  /\ acc[0] = ScanStart(s, w)
  /\ \A k \in 1..n : acc[k] = ScanStep(acc[k - 1], buf, base, w[k])
  /\ Scan(s, buf, from, stop, base) = acc[n]

LEMMA ScanTakes ==
  ASSUME NEW s, NEW base \in Nat, NEW m \in Nat, NEW stop \in Nat, NEW from \in 0..m
  PROVE  \E acc, w, n : Takes(acc, w, n, s, Run(base, m), base, from, stop)
<1> DEFINE buf == Run(base, m)
           w == Walk(buf, from, stop)
           ps == Front(w)
           n == Len(w) - 1
<1>0. PACKET \in Nat /\ PACKET >= 1 /\ buf \in Seq(Nat) /\ Len(buf) = m
  BY PacketAssumption, RunFacts
<1> HIDE DEF buf
<1>1. WalkFrom(w, from, buf, stop)
  <2>1. Len(buf) \in Nat /\ from \in 0..(Len(buf) + PACKET)
    BY <1>0
  <2> QED  BY <2>1, WalkFacts
<1> HIDE DEF w
<1>2. /\ w \in Seq(Nat) /\ Len(w) \in Nat /\ Len(w) >= 1 /\ n \in Nat
      /\ \A k \in 1..Len(w) : w[k] \in Nat
  <2>1. w \in Seq(Nat) /\ Len(w) >= 1
    BY <1>1 DEF WalkFrom
  <2>2. Len(w) \in Nat /\ \A k \in 1..Len(w) : w[k] \in Nat
    BY <2>1, LenProperties, ElementOfSeq
  <2> QED  BY <2>1, <2>2
<1>3. DOMAIN ps = 1..n /\ \A k \in 1..n : ps[k] = w[k]
  <2>1. 1 \in Int /\ Len(w) - 1 \in Int /\ \A k \in 1..(Len(w) - 1) : w[k] \in Nat
    BY <1>2
  <2>2. /\ ps \in Seq(Nat) /\ Len(ps) = n
        /\ \A k \in 1..n : ps[k] = w[k]
    <3>1. /\ SubSeq(w, 1, Len(w) - 1) \in Seq(Nat)
          /\ 1 <= Len(w) - 1 => Len(SubSeq(w, 1, Len(w) - 1)) = (Len(w) - 1) - 1 + 1
          /\ Len(w) - 1 < 1 => Len(SubSeq(w, 1, Len(w) - 1)) = 0
          /\ \A k \in 1..((Len(w) - 1) - 1 + 1) : SubSeq(w, 1, Len(w) - 1)[k] = w[1 + k - 1]
      BY <2>1, SubSeqProperties
    <3>2. Len(SubSeq(w, 1, Len(w) - 1)) = n
      <4>1. \/ 1 <= Len(w) - 1 /\ (Len(w) - 1) - 1 + 1 = n
            \/ Len(w) - 1 < 1 /\ n = 0
        <5> DEFINE l == Len(w)
        <5>1. l \in Nat /\ l >= 1
          BY <1>2
        <5> HIDE DEF l
        <5>2. \/ 1 <= l - 1 /\ (l - 1) - 1 + 1 = l - 1
              \/ l - 1 < 1 /\ l - 1 = 0
          BY <5>1
        <5> QED  BY <5>2 DEF l
      <4> QED  BY <3>1, <4>1
    <3>3. \A k \in 1..n : SubSeq(w, 1, Len(w) - 1)[k] = w[k]
      <4>1. \A k \in 1..n : k \in 1..((Len(w) - 1) - 1 + 1) /\ 1 + k - 1 = k
        <5> DEFINE l == Len(w)
        <5>1. l \in Nat /\ l >= 1
          BY <1>2
        <5> HIDE DEF l
        <5>2. \/ 1 <= l - 1 /\ (l - 1) - 1 + 1 = l - 1
              \/ l - 1 < 1 /\ l - 1 = 0
          BY <5>1
        <5> QED  BY <5>2 DEF l
      <4> QED  BY <3>1, <4>1
    <3> QED  BY <3>1, <3>2, <3>3 DEF Front
  <2> HIDE DEF ps, n
  <2> QED  BY <2>2, LenProperties
<1> HIDE DEF ps
<1>4. PICK acc : ScansBy(acc, s, buf, base, w, n)
  <2>1. n \in Nat /\ DOMAIN Front(w) = 1..n
    BY <1>2, <1>3 DEF ps
  <2> HIDE DEF n
  <2> QED  BY <2>1, ScanSteps
<1>5. Scan(s, buf, from, stop, base) = acc[n]
  BY <1>4 DEF Scan, ScansBy, w
<1>6. n + 1 = Len(w)
  BY <1>2
<1> HIDE DEF n
<1>7. \A k \in 1..n : acc[k] = ScanStep(acc[k - 1], buf, base, w[k])
  BY <1>3, <1>4 DEF ScansBy, ps
<1>8. acc[0] = ScanStart(s, w)
  BY <1>4 DEF ScansBy
<1>9. Takes(acc, w, n, s, buf, base, from, stop)
  BY <1>1, <1>2, <1>5, <1>6, <1>7, <1>8 DEF Takes
<1> QED  BY <1>9 DEF buf

\* After any of them the scanner follows from s, and what it has found lies in between.
Finds(acc, w, n, s, base, from) ==
  \A k \in 0..n :
    /\ DOMAIN acc[k] = {"s", "found", "at"}
    /\ Follows(s, acc[k].s) /\ acc[k].at = w[n + 1]
    /\ Rising(acc[k].found, base + from, base + w[k + 1])

LEMMA ScanFinds ==
  ASSUME NEW s, IsScanner(s), NEW base \in Nat, NEW m \in Nat, NEW stop \in Nat,
         NEW from \in 0..m, NEW acc, NEW w, NEW n,
         Takes(acc, w, n, s, Run(base, m), base, from, stop)
  PROVE  Finds(acc, w, n, s, base, from)
<1> DEFINE buf == Run(base, m)
<1>0. PACKET \in Nat /\ PACKET >= 1 /\ Len(buf) = m
  BY PacketAssumption, RunFacts
<1>1. Takes(acc, w, n, s, buf, base, from, stop)
  OBVIOUS
<1> HIDE DEF buf
<1>2. /\ n \in Nat /\ n + 1 = Len(w) /\ \A k \in 1..Len(w) : w[k] \in Nat
  BY <1>1 DEF Takes
<1>3. WalkFrom(w, from, buf, stop)
  BY <1>1 DEF Takes
<1> DEFINE Good(k) == /\ DOMAIN acc[k] = {"s", "found", "at"}
                      /\ Follows(s, acc[k].s) /\ acc[k].at = w[n + 1]
                      /\ Rising(acc[k].found, base + from, base + w[k + 1])
           T == {k \in Nat : k <= n => Good(k)}
<1>5. 0 \in T
  <2>1. DOMAIN acc[0] = {"s", "found", "at"} /\ acc[0].s = s /\ acc[0].found = <<>>
        /\ acc[0].at = w[n + 1]
    BY <1>1 DEF Takes, ScanStart, Last
  <2> QED  BY <2>1, FollowsItself, NoneRises
<1>6. ASSUME NEW k \in Nat, k \in T, k + 1 <= n
      PROVE  Good(k + 1)
  <2>1. Good(k)
    BY <1>2, <1>6
  <2>2. k + 1 \in 1..n /\ k + 1 \in 1..(Len(w) - 1) /\ k + 1 \in 1..Len(w)
        /\ (k + 1) - 1 = k /\ (k + 1) + 1 \in 1..Len(w)
    BY <1>2, <1>6
  <2> DEFINE i == w[k + 1]
             j == w[(k + 1) + 1]
  <2>3. i \in Nat /\ j \in Nat /\ from <= i /\ i + PACKET <= m /\ i + PACKET <= j /\ i < j
    <3>1. i \in Nat /\ j \in Nat
      BY <1>2, <2>2
    <3>2. from <= i /\ i + PACKET <= m /\ i + PACKET <= j
      BY <1>0, <1>3, <2>2 DEF WalkFrom
    <3> HIDE DEF i, j
    <3> QED  BY <1>0, <3>1, <3>2
  <2>4. acc[k + 1] = ScanStep(acc[k], buf, base, i)
    <3>1. acc[k + 1] = ScanStep(acc[(k + 1) - 1], buf, base, w[k + 1])
      BY <1>1, <2>2 DEF Takes
    <3> QED  BY <2>2, <3>1
  <2>5. IsScanner(acc[k].s)
    BY <2>1 DEF Follows
  <2> DEFINE u == acc[k + 1]
             v == acc[k]
  <2> HIDE DEF i, j, u, v
  <2>6. /\ DOMAIN u = {"s", "found", "at"} /\ Follows(v.s, u.s) /\ u.at = v.at
        /\ \/ u.found = v.found
           \/ \E q \in Marks : q.at = base + i /\ u.found = Append(v.found, q)
    <3>1. Ready(v, base, m, i)
      BY <2>1, <2>3, <2>5 DEF Ready, Rising, v
    <3>2. u = ScanStep(v, Run(base, m), base, i)
      BY <2>4 DEF buf, u, v
    <3>3. Advance(v, ScanStep(v, Run(base, m), base, i), base + i)
      BY <3>1, StepFinds
    <3>4. Advance(v, u, base + i)
      BY <3>2, <3>3
    <3> QED  BY <3>4 DEF Advance
  <2>7. Follows(s, u.s) /\ u.at = w[n + 1]
    BY <2>1, <2>6, FollowsOn DEF v
  <2>8. base + from \in Nat /\ base + i \in Nat /\ base + j \in Nat
        /\ base + from <= base + i /\ base + i <= base + j /\ base + i < base + j
    BY <2>3
  <2>9. Rising(v.found, base + from, base + i)
    BY <2>1 DEF i, v
  <2>10. Rising(u.found, base + from, base + j)
    <3>1. CASE u.found = v.found
      BY <2>8, <2>9, <3>1, RisesTo
    <3>2. ASSUME NEW q \in Marks, q.at = base + i, u.found = Append(v.found, q)
          PROVE  Rising(u.found, base + from, base + j)
      <4>1. Rising(<<q>>, base + i, base + j)
        BY <2>8, <3>2, OneRises
      <4>2. Rising(Cat(v.found, <<q>>), base + from, base + j)
        BY <2>8, <2>9, <4>1, RisesOn
      <4>3. Cat(v.found, <<q>>) = Append(v.found, q)
        BY <2>9, AppendIsConcat DEF Rising, Cat
      <4> QED  BY <3>2, <4>2, <4>3
    <3> QED  BY <2>6, <3>1, <3>2
  <2> QED  BY <2>6, <2>7, <2>10 DEF u, j
<1>7. \A k \in Nat : k \in T => k + 1 \in T
  BY <1>6
<1> HIDE DEF T
<1>8. \A k \in Nat : k \in T
  BY <1>5, <1>7, SetInduction
<1>9. \A k \in 0..n : Good(k)
  <2>1. \A k \in 0..n : k \in Nat /\ k <= n
    BY <1>2
  <2> QED  BY <1>8, <2>1 DEF T
<1> QED  BY <1>9 DEF Finds

\* What a scan of the m bytes after the first base makes of s: r is what it is then,
\* where it ended and what it has found.
Scanned(r, s, base, m, from, stop) ==
  /\ Follows(s, r.s)
  /\ r.at \in Nat /\ from <= r.at /\ r.at <= m
  /\ r.at >= stop \/ r.at + PACKET > m
  /\ Rising(r.found, base + from, base + r.at)

LEMMA ScanFacts ==
  ASSUME NEW s, IsScanner(s), NEW base \in Nat, NEW m \in Nat, NEW stop \in Nat,
         NEW from \in 0..m
  PROVE  Scanned(Scan(s, Run(base, m), from, stop, base), s, base, m, from, stop)
<1> DEFINE buf == Run(base, m)
<1>0. PACKET \in Nat /\ PACKET >= 1 /\ Len(buf) = m
  BY PacketAssumption, RunFacts
<1>1. PICK acc, w, n : Takes(acc, w, n, s, buf, base, from, stop)
  BY ScanTakes
<1>2. Finds(acc, w, n, s, base, from)
  BY <1>1, ScanFinds
<1> HIDE DEF buf
<1>3. /\ n \in Nat /\ n + 1 = Len(w) /\ \A k \in 1..Len(w) : w[k] \in Nat
      /\ Scan(s, buf, from, stop, base) = acc[n]
  BY <1>1 DEF Takes
<1>4. WalkFrom(w, from, buf, stop)
  BY <1>1 DEF Takes
<1> DEFINE r == acc[n]
<1>5. Len(w) \in 1..Len(w) /\ n \in 0..n
  BY <1>3
<1>6. Follows(s, r.s) /\ r.at = w[Len(w)] /\ Rising(r.found, base + from, base + r.at)
  BY <1>2, <1>3, <1>5 DEF Finds
<1> HIDE DEF r
<1>7. /\ r.at \in Nat /\ from <= r.at /\ r.at <= m
      /\ r.at >= stop \/ r.at + PACKET > m
  <2>1. from <= Len(buf)
    BY <1>0
  <2>2. w[Len(w)] \in Nat /\ w[Len(w)] >= from
    BY <1>3, <1>4, <1>5 DEF WalkFrom
  <2>3. /\ w[Len(w)] <= Len(buf)
        /\ w[Len(w)] >= stop \/ w[Len(w)] + PACKET > Len(buf)
    BY <1>4, <2>1 DEF WalkFrom
  <2> QED  BY <1>0, <1>6, <2>2, <2>3
<1>8. Scanned(r, s, base, m, from, stop)
  BY <1>6, <1>7 DEF Scanned
<1> QED  BY <1>3, <1>8 DEF r, buf

-----------------------------------------------------------------------------
(* TsScanner: what feed makes of the next bytes. *)

LEMMA RunFrom ==
  ASSUME NEW i \in Nat, NEW m \in Nat, NEW a \in 0..m
  PROVE  SubSeq(Run(i, m), a + 1, m) = Run(i + a, m - a)
<1> DEFINE s == Run(i, m)
           t == SubSeq(s, a + 1, m)
           u == Run(i + a, m - a)
<1>1. /\ s \in Seq(Nat) /\ Len(s) = m /\ u \in Seq(Nat) /\ Len(u) = m - a
      /\ \A k \in 1..m : s[k] = i + k
      /\ \A k \in 1..(m - a) : u[k] = i + a + k
  <2>1. i + a \in Nat /\ m - a \in Nat
    OBVIOUS
  <2>2. s \in Seq(Nat) /\ Len(s) = m /\ u \in Seq(Nat) /\ Len(u) = m - a
    BY <2>1, RunFacts
  <2> QED  BY <2>2 DEF Run
<1> HIDE DEF s, u
<1>2. /\ t \in Seq(Nat) /\ Len(t) = m - a
      /\ \A k \in 1..(m - a) : t[k] = s[a + k]
  <2>1. a + 1 \in Int /\ m \in Int /\ \A k \in (a + 1)..m : s[k] \in Nat
    <3>1. \A k \in (a + 1)..m : k \in 1..Len(s)
      BY <1>1
    <3> QED  BY <1>1, <3>1, ElementOfSeq
  <2>2. /\ t \in Seq(Nat)
        /\ a + 1 <= m => Len(t) = m - (a + 1) + 1
        /\ m < a + 1 => Len(t) = 0
        /\ \A k \in 1..(m - (a + 1) + 1) : t[k] = s[(a + 1) + k - 1]
    BY <2>1, SubSeqProperties
  <2> HIDE DEF t
  <2>3. Len(t) = m - a
    <3>1. CASE a + 1 <= m
      BY <2>2, <3>1
    <3>2. CASE ~(a + 1 <= m)
      BY <2>2, <3>2
    <3> QED  BY <3>1, <3>2
  <2>4. ASSUME NEW k \in 1..(m - a)
        PROVE  t[k] = s[a + k]
    <3>1. k \in 1..(m - (a + 1) + 1) /\ (a + 1) + k - 1 = a + k
      OBVIOUS
    <3> QED  BY <2>2, <3>1
  <2> QED  BY <2>2, <2>3, <2>4
<1> HIDE DEF t
<1>3. ASSUME NEW k \in 1..Len(t)
      PROVE  t[k] = u[k]
  <2>1. k \in 1..(m - a) /\ a + k \in 1..m /\ i + (a + k) = i + a + k
    BY <1>2
  <2> QED  BY <1>1, <1>2, <2>1
<1>4. t = u
  BY <1>1, <1>2, <1>3, SeqEqual
<1> QED  BY <1>4 DEF t, s, u

LEMMA RunUpTo ==
  ASSUME NEW i \in Nat, NEW m \in Nat, NEW k \in 0..m
  PROVE  SubSeq(Run(i, m), 1, k) = Run(i, k)
<1> DEFINE s == Run(i, m)
           t == SubSeq(s, 1, k)
           u == Run(i, k)
<1>1. /\ s \in Seq(Nat) /\ Len(s) = m /\ u \in Seq(Nat) /\ Len(u) = k
      /\ \A j \in 1..m : s[j] = i + j
      /\ \A j \in 1..k : u[j] = i + j
  <2>1. s \in Seq(Nat) /\ Len(s) = m /\ u \in Seq(Nat) /\ Len(u) = k
    <3>1. k \in Nat
      OBVIOUS
    <3> QED  BY <3>1, RunFacts
  <2> QED  BY <2>1 DEF Run
<1> HIDE DEF s, u
<1>2. /\ t \in Seq(Nat) /\ Len(t) = k
      /\ \A j \in 1..k : t[j] = s[j]
  <2>1. 1 \in Int /\ k \in Int /\ \A j \in 1..k : s[j] \in Nat
    <3>1. \A j \in 1..k : j \in 1..Len(s)
      BY <1>1
    <3> QED  BY <1>1, <3>1, ElementOfSeq
  <2>2. /\ t \in Seq(Nat)
        /\ 1 <= k => Len(t) = k - 1 + 1
        /\ k < 1 => Len(t) = 0
        /\ \A j \in 1..(k - 1 + 1) : t[j] = s[1 + j - 1]
    BY <2>1, SubSeqProperties
  <2> HIDE DEF t
  <2>3. Len(t) = k
    <3>1. CASE 1 <= k
      BY <2>2, <3>1
    <3>2. CASE ~(1 <= k)
      BY <2>2, <3>2
    <3> QED  BY <3>1, <3>2
  <2>4. ASSUME NEW j \in 1..k
        PROVE  t[j] = s[j]
    <3>1. j \in 1..(k - 1 + 1) /\ 1 + j - 1 = j
      OBVIOUS
    <3> QED  BY <2>2, <3>1
  <2> QED  BY <2>2, <2>3, <2>4
<1> HIDE DEF t
<1>3. ASSUME NEW j \in 1..Len(t)
      PROVE  t[j] = u[j]
  <2>1. j \in 1..k /\ j \in 1..m
    BY <1>2
  <2> QED  BY <1>1, <1>2, <2>1
<1>4. t = u
  BY <1>1, <1>2, <1>3, SeqEqual
<1> QED  BY <1>4 DEF t, s, u

\* t is what s may have become when the stream has come as far as e.
FedTo(s, t, f, e) ==
  /\ IsScanner(t)
  /\ Program(s) # None => Program(t) = Program(s)
  /\ t.latest_video_pts # s.latest_video_pts => t.latest_video_pts # None
  /\ t.pos \in Nat /\ s.pos <= t.pos /\ t.pos <= e /\ e - t.pos < PACKET
  /\ t.carry = Run(t.pos, e - t.pos)
  /\ Rising(f, s.pos, t.pos)

LEMMA CarriedFacts ==
  ASSUME NEW s, NEW v, NEW base \in Nat, NEW m \in Nat, NEW from \in 0..m, NEW stop \in Nat,
         NEW j, NEW found0, NEW lo \in Nat, lo = s.pos, lo <= base + from,
         Follows(s, v), Scanned(j, v, base, m, from, stop), j.at + PACKET > m,
         Rising(found0, lo, base + from)
  PROVE  LET c == Carried(Run(base, m), base, found0, j) IN FedTo(s, c.s, c.found, base + m)
<1> DEFINE buf == Run(base, m)
           u == [j.s EXCEPT !["carry"] = SubSeq(buf, j.at + 1, Len(buf))]
           t == [u EXCEPT !["pos"] = base + j.at]
           c == Carried(buf, base, found0, j)
           f == Cat(found0, j.found)
<1>0. PACKET \in Nat
  BY PacketAssumption
<1>1. Follows(s, j.s) /\ IsScanner(j.s)
  <2>1. Follows(s, j.s)
    BY FollowsOn DEF Scanned
  <2> QED  BY <2>1 DEF Follows
<1>2. c.s = t /\ c.found = f
  <2>1. DOMAIN j.s = ScannerFields /\ "carry" \in ScannerFields /\ "pos" \in ScannerFields
    BY <1>1 DEF IsScanner, ScannerFields
  <2> HIDE DEF buf
  <2> QED  BY <2>1 DEF Carried, Cat
<1>3. Len(buf) = m
  BY RunFacts
<1>4. SubSeq(buf, j.at + 1, Len(buf)) = Run(base + j.at, m - j.at)
  <2> DEFINE a == j.at
  <2>1. a \in 0..m
    BY DEF Scanned
  <2> HIDE DEF a
  <2>2. SubSeq(Run(base, m), a + 1, m) = Run(base + a, m - a)
    BY <2>1, RunFrom
  <2> QED  BY <1>3, <2>2 DEF a
<1> HIDE DEF buf, c, f
<1>5. {"carry", "pos", "pmt_seen", "audio", "video", "latest_video_pts"} \subseteq ScannerFields
  BY DEF ScannerFields
<1>6. /\ IsScanner(u) /\ u.carry = Run(base + j.at, m - j.at)
      /\ u.pmt_seen = j.s.pmt_seen /\ u.audio = j.s.audio /\ u.video = j.s.video
      /\ u.latest_video_pts = j.s.latest_video_pts
  <2>1. /\ IsScanner(u) /\ u["carry"] = SubSeq(buf, j.at + 1, Len(buf))
        /\ \A g \in ScannerFields \ {"carry"} : u[g] = j.s[g]
    <3> DEFINE q == j.s
               x == SubSeq(buf, j.at + 1, Len(buf))
    <3>1. IsScanner(q) /\ "carry" \in ScannerFields
      BY <1>1, <1>5
    <3> HIDE DEF q, x
    <3>2. IsScanner([q EXCEPT !["carry"] = x])
      BY <3>1, FieldSet
    <3>3. [q EXCEPT !["carry"] = x]["carry"] = x
      BY <3>1 DEF IsScanner
    <3>4. \A g \in ScannerFields \ {"carry"} : [q EXCEPT !["carry"] = x][g] = q[g]
      BY <3>1 DEF IsScanner
    <3> QED  BY <3>2, <3>3, <3>4 DEF q, x
  <2> HIDE DEF u
  <2> QED  BY <1>4, <1>5, <2>1
<1> HIDE DEF u
<1>7. /\ IsScanner(t) /\ t.carry = Run(base + j.at, m - j.at) /\ t.pos = base + j.at
      /\ t.pmt_seen = j.s.pmt_seen /\ t.audio = j.s.audio /\ t.video = j.s.video
      /\ t.latest_video_pts = j.s.latest_video_pts
  <2>1. /\ IsScanner(t) /\ t["pos"] = base + j.at
        /\ \A g \in ScannerFields \ {"pos"} : t[g] = u[g]
    BY <1>5, <1>6, FieldSet
  <2> HIDE DEF t
  <2> QED  BY <1>5, <1>6, <2>1
<1> HIDE DEF t
<1>8. Program(t) = Program(j.s)
  BY <1>7 DEF Program
<1>9. /\ j.at \in Nat /\ from <= j.at /\ j.at <= m /\ Rising(j.found, base + from, base + j.at)
  BY DEF Scanned
<1>10. /\ t.pos \in Nat /\ lo <= t.pos /\ t.pos <= base + m /\ (base + m) - t.pos < PACKET
       /\ m - j.at = (base + m) - t.pos
  BY <1>0, <1>7, <1>9
<1>11. Rising(f, lo, t.pos)
  <2>1. base + from \in Nat /\ base + j.at \in Nat /\ base + from <= base + j.at
    BY <1>9
  <2> QED  BY <1>7, <1>9, <2>1, RisesOn DEF f
<1>12. t.carry = Run(t.pos, (base + m) - t.pos)
  BY <1>7, <1>10
<1>13. /\ Program(s) # None => Program(t) = Program(s)
       /\ t.latest_video_pts # s.latest_video_pts => t.latest_video_pts # None
  BY <1>1, <1>7, <1>8 DEF Follows
<1>14. FedTo(s, t, f, base + m)
  BY <1>7, <1>10, <1>11, <1>12, <1>13 DEF FedTo
<1> QED  BY <1>2, <1>14 DEF c, buf

\* The scanner holds what has come since its last packet, less than one.
Holding(s, e) ==
  /\ IsScanner(s) /\ s.pos \in Nat /\ s.pos <= e /\ e - s.pos < PACKET
  /\ s.carry = Run(s.pos, e - s.pos)

\* A feed is one scan of all there is, or one of what the carry begins and one of the rest.
FeedsOnce(r, s, e, n, m, stop) ==
  LET j == Scan(s, Run(s.pos, m), 0, stop, s.pos)
  IN /\ r = Carried(Run(s.pos, m), s.pos, <<>>, j)
     /\ m \in Nat /\ stop \in Nat /\ s.pos + m = e + n /\ j.at + PACKET > m

FeedsTwice(r, s, e, n, m, stop, from) ==
  LET j == Scan(s, Run(s.pos, m), 0, stop, s.pos)
      i == Scan(j.s, Run(e, n), from, n, e)
  IN /\ r = Carried(Run(e, n), e, j.found, i)
     /\ m \in Nat /\ stop \in Nat /\ from \in 0..n
     /\ s.pos + m <= e + n /\ s.pos + j.at = e + from /\ i.at + PACKET > n

LEMMA FeedIs ==
  ASSUME NEW e \in Nat, NEW n \in Nat, NEW s, Holding(s, e)
  PROVE  LET r == Feed(s, Run(e, n))
         IN \/ \E m, stop : FeedsOnce(r, s, e, n, m, stop)
            \/ \E m, stop, from : FeedsTwice(r, s, e, n, m, stop, from)
<1> DEFINE data == Run(e, n)
           c == e - s.pos
<1>0. PACKET \in Nat /\ PACKET >= 1 /\ data \in Seq(Nat) /\ Len(data) = n
  <2>1. data \in Seq(Nat) /\ Len(data) = n
    BY RunFacts
  <2> QED  BY <2>1, PacketAssumption
<1>1. /\ IsScanner(s) /\ s.pos \in Nat /\ c \in Nat /\ c < PACKET /\ s.pos + c = e
      /\ s.carry = Run(s.pos, c) /\ Len(s.carry) = c
  <2>1. IsScanner(s) /\ s.pos \in Nat /\ c \in Nat /\ c < PACKET /\ s.pos + c = e
        /\ s.carry = Run(s.pos, c)
    BY DEF Holding
  <2> HIDE DEF c
  <2>2. Len(Run(s.pos, c)) = c
    BY <2>1, RunFacts
  <2> QED  BY <2>1, <2>2
<1> HIDE DEF data, c
<1>2. CASE s.carry = <<>>
  <2>1. c = 0 /\ s.pos = e
    <3>1. Len(<<>>) = 0
      BY EmptySeq
    <3> QED  BY <1>1, <1>2, <3>1
  <2> DEFINE j == Scan(s, data, 0, n, e)
  <2>2. 0 \in 0..n
    OBVIOUS
  <2>3. Scanned(j, s, e, n, 0, n)
    BY <1>1, <2>2, ScanFacts DEF data
  <2>4. Feed(s, data) = Carried(data, e, <<>>, j)
    BY <1>0, <1>2, <2>1 DEF Feed, ScanData
  <2> HIDE DEF j
  <2>5. j.at + PACKET > n
    BY <1>0, <2>3 DEF Scanned
  <2>6. FeedsOnce(Feed(s, data), s, e, n, n, n)
    BY <2>1, <2>4, <2>5 DEF FeedsOnce, j, data
  <2> QED  BY <2>6 DEF data
<1>3. CASE s.carry # <<>>
  <2> DEFINE k == IF n < PACKET THEN n ELSE PACKET
             m == c + k
             joint == s.carry \o SubSeq(data, 1, k)
             j == Scan(s, joint, 0, c, s.pos)
  <2>1. k \in Nat /\ k <= n /\ k <= PACKET /\ (k = n \/ k = PACKET) /\ m \in Nat
    BY <1>0, <1>1
  <2>2. joint = Run(s.pos, m)
    <3>1. SubSeq(data, 1, k) = Run(e, k)
      <4>1. k \in 0..n
        BY <2>1
      <4> HIDE DEF k
      <4> QED  BY <4>1, RunUpTo DEF data
    <3> HIDE DEF k
    <3>2. Cat(Run(s.pos, c), Run(s.pos + c, k)) = Run(s.pos, c + k)
      <4>1. s.pos \in Nat /\ c \in Nat /\ k \in Nat
        BY <1>1, <2>1
      <4> QED  BY <4>1, RunsJoin
    <3> QED  BY <1>1, <3>1, <3>2 DEF Cat
  <2>3. Feed(s, data) = Across(s, data, joint, j)
    BY <1>0, <1>1, <1>3 DEF Feed, Joined
  <2> HIDE DEF k
  <2>4. Scanned(j, s, s.pos, m, 0, c)
    <3>1. 0 \in 0..m
      BY <2>1
    <3> HIDE DEF joint, m
    <3> QED  BY <1>1, <2>1, <2>2, <3>1, ScanFacts
  <2>5. j = Scan(s, Run(s.pos, m), 0, c, s.pos)
    BY <2>2
  <2> HIDE DEF joint, j
  <2>6. CASE j.at < c
    <3>1. Feed(s, data) = Carried(joint, s.pos, <<>>, j)
      BY <1>1, <2>3, <2>6 DEF Across
    <3>2. j.at \in Nat /\ j.at + PACKET > c + k
      BY <1>1, <2>4, <2>6 DEF Scanned
    <3>3. k = n
      BY <1>0, <1>1, <2>1, <2>6, <3>2
    <3>4. s.pos + m = e + n
      BY <1>1, <2>1, <3>3
    <3> HIDE DEF m
    <3>5. FeedsOnce(Feed(s, data), s, e, n, m, c)
      BY <1>1, <2>1, <2>2, <2>5, <3>1, <3>2, <3>4 DEF FeedsOnce, m
    <3> QED  BY <3>5 DEF data
  <2>7. CASE ~(j.at < c)
    <3> DEFINE from == j.at - c
               i == Scan(j.s, data, from, n, e)
    <3>1. j.at \in Nat /\ j.at <= c + k /\ Follows(s, j.s)
      BY <2>4 DEF Scanned
    <3>2. from \in 0..n /\ s.pos + j.at = e + from /\ s.pos + m <= e + n
      <4>1. /\ s.pos \in Nat /\ c \in Nat /\ s.pos + c = e /\ j.at \in Nat
            /\ j.at <= c + k /\ c <= j.at /\ k \in 0..n
        BY <1>1, <2>1, <2>7, <3>1
      <4>2. from \in 0..n
        BY <4>1
      <4>3. s.pos + j.at = e + from
        BY <4>1
      <4>4. s.pos + m <= e + n
        BY <4>1
      <4> QED  BY <4>2, <4>3, <4>4
    <3>3. Feed(s, data) = Carried(data, e, j.found, i)
      BY <1>0, <1>1, <2>3, <2>7 DEF Across, ScanData
    <3> HIDE DEF from
    <3>4. Scanned(i, j.s, e, n, from, n)
      <4>1. IsScanner(j.s)
        BY <3>1 DEF Follows
      <4> QED  BY <3>2, <4>1, ScanFacts DEF data
    <3>5. i = Scan(j.s, Run(e, n), from, n, e)
      BY DEF data
    <3> HIDE DEF i, m
    <3>6. i.at + PACKET > n
      BY <1>0, <3>4 DEF Scanned
    <3>7. FeedsTwice(Feed(s, data), s, e, n, m, c, from)
      BY <1>1, <2>1, <2>5, <3>2, <3>3, <3>5, <3>6 DEF FeedsTwice, data
    <3> QED  BY <3>7 DEF data
  <2> QED  BY <2>6, <2>7
<1> QED  BY <1>2, <1>3

LEMMA FeedFacts ==
  ASSUME NEW e \in Nat, NEW n \in Nat, NEW s, Holding(s, e)
  PROVE  LET r == Feed(s, Run(e, n)) IN FedTo(s, r.s, r.found, e + n)
<1> DEFINE r == Feed(s, Run(e, n))
<1>1. /\ IsScanner(s) /\ Follows(s, s) /\ s.pos \in Nat /\ s.pos <= e
      /\ s.pos + 0 = s.pos /\ s.pos <= s.pos + 0
  BY FollowsItself DEF Holding
<1>2. \/ \E m, stop : FeedsOnce(r, s, e, n, m, stop)
      \/ \E m, stop, from : FeedsTwice(r, s, e, n, m, stop, from)
  BY FeedIs
<1> HIDE DEF r
<1>3. ASSUME NEW m, NEW stop, FeedsOnce(r, s, e, n, m, stop)
      PROVE  FedTo(s, r.s, r.found, e + n)
  <2> DEFINE j == Scan(s, Run(s.pos, m), 0, stop, s.pos)
             nothing == <<>>
  <2>1. /\ r = Carried(Run(s.pos, m), s.pos, nothing, j)
        /\ m \in Nat /\ stop \in Nat /\ s.pos + m = e + n /\ j.at + PACKET > m
    BY <1>3 DEF FeedsOnce
  <2>2. 0 \in 0..m /\ Rising(nothing, s.pos, s.pos + 0)
    BY <2>1, NoneRises
  <2>3. Scanned(j, s, s.pos, m, 0, stop)
    BY <1>1, <2>1, <2>2, ScanFacts
  <2> HIDE DEF j, nothing
  <2>4. FedTo(s, r.s, r.found, s.pos + m)
    BY <1>1, <2>1, <2>2, <2>3, CarriedFacts
  <2> QED  BY <2>1, <2>4
<1>4. ASSUME NEW m, NEW stop, NEW from, FeedsTwice(r, s, e, n, m, stop, from)
      PROVE  FedTo(s, r.s, r.found, e + n)
  <2> DEFINE j == Scan(s, Run(s.pos, m), 0, stop, s.pos)
             i == Scan(j.s, Run(e, n), from, n, e)
  <2>1. /\ r = Carried(Run(e, n), e, j.found, i)
        /\ m \in Nat /\ stop \in Nat /\ from \in 0..n /\ s.pos + j.at = e + from
        /\ i.at + PACKET > n
    BY <1>4 DEF FeedsTwice
  <2>2. 0 \in 0..m
    BY <2>1
  <2>3. Scanned(j, s, s.pos, m, 0, stop)
    BY <1>1, <2>1, <2>2, ScanFacts
  <2> HIDE DEF j
  <2>4. Follows(s, j.s) /\ IsScanner(j.s) /\ Rising(j.found, s.pos, e + from)
    BY <1>1, <2>1, <2>3 DEF Scanned, Follows
  <2>5. Scanned(i, j.s, e, n, from, n)
    BY <2>1, <2>4, ScanFacts
  <2> HIDE DEF i
  <2>6. s.pos <= e + from
    BY <1>1, <2>1
  <2> QED  BY <1>1, <2>1, <2>4, <2>5, <2>6, CarriedFacts
<1> QED  BY <1>2, <1>3, <1>4 DEF r

-----------------------------------------------------------------------------
(* TsScanner: a packet changes scanners alike that are alike. *)

\* What tells no packet from another: the bytes held, and the history.
Aside == {"carry", "pos", "handled"}

Alike(s, t) == \A g \in ScannerFields \ Aside : s[g] = t[g]
Became(s, u) ==
  IsScanner(u) /\ u.carry = s.carry /\ u.pos = s.pos /\ u.handled = s.handled

\* s became u as t became v.
Moves(s, t, u, v) == Became(s, u) /\ Became(t, v) /\ Alike(u, v)

LEMMA AlikeFields ==
  ASSUME NEW s, NEW t, Alike(s, t)
  PROVE  /\ s.pat = t.pat /\ s.pmt = t.pmt /\ s.pmt_pid = t.pmt_pid /\ s.pmt_seen = t.pmt_seen
         /\ s.video = t.video /\ s.audio = t.audio /\ s.latest_video_pts = t.latest_video_pts
<1>1. \A g \in {"pat", "pmt", "pmt_pid", "pmt_seen", "video", "audio", "latest_video_pts"} :
        s[g] = t[g]
  BY DEF Alike, Aside, ScannerFields
<1> QED  BY <1>1

LEMMA MovesNot ==
  ASSUME NEW s, NEW t, IsScanner(s), IsScanner(t), Alike(s, t)
  PROVE  Moves(s, t, s, t)
BY DEF Moves, Became

LEMMA MovesOn ==
  ASSUME NEW s, NEW t, NEW u, NEW v, Moves(s, t, u, v),
         NEW f \in ScannerFields \ Aside, NEW x
  PROVE  Moves(s, t, [u EXCEPT ![f] = x], [v EXCEPT ![f] = x])
<1> DEFINE a == [u EXCEPT ![f] = x]
           b == [v EXCEPT ![f] = x]
<1>1. IsScanner(u) /\ IsScanner(v) /\ f \in ScannerFields
  BY DEF Moves, Became
<1>2. IsScanner(a) /\ a[f] = x /\ \A g \in ScannerFields \ {f} : a[g] = u[g]
  BY <1>1, FieldSet
<1>3. IsScanner(b) /\ b[f] = x /\ \A g \in ScannerFields \ {f} : b[g] = v[g]
  BY <1>1, FieldSet
<1> HIDE DEF a, b
<1>4. \A g \in Aside : g \in ScannerFields \ {f}
  BY DEF Aside, ScannerFields
<1>5. \A g \in Aside : a[g] = u[g] /\ b[g] = v[g]
  BY <1>2, <1>3, <1>4
<1>6. Became(s, a) /\ Became(t, b)
  <2>1. a.carry = u.carry /\ a.pos = u.pos /\ a.handled = u.handled
    BY <1>5 DEF Aside
  <2>2. b.carry = v.carry /\ b.pos = v.pos /\ b.handled = v.handled
    BY <1>5 DEF Aside
  <2> QED  BY <1>2, <1>3, <2>1, <2>2 DEF Moves, Became
<1>7. Alike(a, b)
  <2> SUFFICES ASSUME NEW g \in ScannerFields \ Aside PROVE a[g] = b[g]
    BY DEF Alike
  <2>1. u[g] = v[g]
    BY DEF Moves, Alike
  <2>2. CASE g = f
    BY <1>2, <1>3, <2>2
  <2>3. CASE g # f
    BY <1>2, <1>3, <2>1, <2>3
  <2> QED  BY <2>2, <2>3
<1> QED  BY <1>6, <1>7 DEF Moves, a, b

LEMMA PatAlike ==
  ASSUME NEW s, NEW t, IsScanner(s), IsScanner(t), Alike(s, t), NEW p
  PROVE  Moves(s, t, PatPacket(s, p).s, PatPacket(t, p).s)
<1> DEFINE given == SectionFeed(s.pat, p.pusi, p.payload)
           u == [s EXCEPT !["pat"] = given.held]
           v == [t EXCEPT !["pat"] = given.held]
<1>1. given = SectionFeed(t.pat, p.pusi, p.payload)
  BY AlikeFields
<1> HIDE DEF given
<1>2. Moves(s, t, u, v)
  <2>1. "pat" \in ScannerFields \ Aside
    BY DEF ScannerFields, Aside
  <2> QED  BY <2>1, MovesNot, MovesOn
<1>3. /\ PatPacket(s, p).s = IF given.done = None THEN u ELSE ParsePat(u, given.done)
      /\ PatPacket(t, p).s = IF given.done = None THEN v ELSE ParsePat(v, given.done)
  BY <1>1 DEF PatPacket, Only, AfterPat, given
<1> HIDE DEF u, v
<1> DEFINE section == given.done
           entries == Entries(section)
           k == SelectInSeq(entries, LAMBDA e : e.program # 0)
           x == entries[k].pid
           skip == section[1] # 0 \/ u.pmt_pid # None \/ k = 0
<1>4. u.pmt_pid = v.pmt_pid
  BY <1>2, AlikeFields DEF Moves
<1>5. /\ ParsePat(u, section) = IF skip THEN u ELSE [u EXCEPT !["pmt_pid"] = x]
      /\ ParsePat(v, section) = IF skip THEN v ELSE [v EXCEPT !["pmt_pid"] = x]
  BY <1>4 DEF ParsePat
<1> HIDE DEF section, x, skip
<1>6. Moves(s, t, [u EXCEPT !["pmt_pid"] = x], [v EXCEPT !["pmt_pid"] = x])
  <2>1. "pmt_pid" \in ScannerFields \ Aside
    BY DEF ScannerFields, Aside
  <2> QED  BY <1>2, <2>1, MovesOn
<1>7. Moves(s, t, ParsePat(u, section), ParsePat(v, section))
  BY <1>2, <1>5, <1>6
<1> QED  BY <1>2, <1>3, <1>7 DEF section

\* A PMT that is read, a field after the other.
PmtRead(t, section) ==
  [[[t EXCEPT !["video"] = FirstOf("video", Entries(section), t.video)]
      EXCEPT !["audio"] = FirstOf("audio", Entries(section), t.audio)]
      EXCEPT !["pmt_seen"] = TRUE]

LEMMA PmtIsRead ==
  ASSUME NEW t, IsScanner(t), NEW section
  PROVE  ParsePmt(t, section) = IF section[1] # 2 \/ Len(section) <= SectionHeader \/ t.pmt_seen
                                  THEN t ELSE PmtRead(t, section)
<1> DEFINE u == [t EXCEPT !["video"] = FirstOf("video", Entries(section), t.video)]
<1>1. DOMAIN t = ScannerFields
  BY DEF IsScanner
<1>2. u["audio"] = t["audio"]
  BY <1>1 DEF ScannerFields
<1> QED  BY <1>2 DEF ParsePmt, PmtRead

LEMMA PmtAlike ==
  ASSUME NEW s, NEW t, IsScanner(s), IsScanner(t), Alike(s, t), NEW p
  PROVE  Moves(s, t, PmtPacket(s, p).s, PmtPacket(t, p).s)
<1> DEFINE given == SectionFeed(s.pmt, p.pusi, p.payload)
           u == [s EXCEPT !["pmt"] = given.held]
           v == [t EXCEPT !["pmt"] = given.held]
<1>1. given = SectionFeed(t.pmt, p.pusi, p.payload)
  BY AlikeFields
<1> HIDE DEF given
<1>2. Moves(s, t, u, v)
  <2>1. "pmt" \in ScannerFields \ Aside
    BY DEF ScannerFields, Aside
  <2> QED  BY <2>1, MovesNot, MovesOn
<1>3. /\ PmtPacket(s, p).s = IF given.done = None THEN u ELSE ParsePmt(u, given.done)
      /\ PmtPacket(t, p).s = IF given.done = None THEN v ELSE ParsePmt(v, given.done)
  BY <1>1 DEF PmtPacket, Only, AfterPmt, given
<1> DEFINE section == given.done
<1> HIDE DEF u, v, section
<1>4. IsScanner(u) /\ IsScanner(v) /\ u.pmt_seen = v.pmt_seen /\ u.video = v.video
      /\ u.audio = v.audio
  BY <1>2, AlikeFields DEF Moves, Became
<1>5. Moves(s, t, PmtRead(u, section), PmtRead(v, section))
  <2> DEFINE video == FirstOf("video", Entries(section), u.video)
             audio == FirstOf("audio", Entries(section), u.audio)
             u1 == [u EXCEPT !["video"] = video]
             v1 == [v EXCEPT !["video"] = video]
             u2 == [u1 EXCEPT !["audio"] = audio]
             v2 == [v1 EXCEPT !["audio"] = audio]
             u3 == [u2 EXCEPT !["pmt_seen"] = TRUE]
             v3 == [v2 EXCEPT !["pmt_seen"] = TRUE]
  <2>1. PmtRead(u, section) = u3 /\ PmtRead(v, section) = v3
    BY <1>4 DEF PmtRead
  <2>2. {"video", "audio", "pmt_seen"} \subseteq ScannerFields \ Aside
    BY DEF ScannerFields, Aside
  <2> HIDE DEF video, audio
  <2>3. Moves(s, t, u1, v1)
    BY <1>2, <2>2, MovesOn
  <2> HIDE DEF u1, v1
  <2>4. Moves(s, t, u2, v2)
    BY <2>2, <2>3, MovesOn
  <2> HIDE DEF u2, v2
  <2>5. Moves(s, t, u3, v3)
    BY <2>2, <2>4, MovesOn
  <2> QED  BY <2>1, <2>5
<1>6. Moves(s, t, ParsePmt(u, section), ParsePmt(v, section))
  <2>1. CASE section[1] # 2 \/ Len(section) <= SectionHeader \/ u.pmt_seen
    <3>1. ParsePmt(u, section) = u /\ ParsePmt(v, section) = v
      BY <1>4, <2>1, PmtIsRead
    <3> QED  BY <1>2, <3>1
  <2>2. CASE ~(section[1] # 2 \/ Len(section) <= SectionHeader \/ u.pmt_seen)
    <3>1. /\ ParsePmt(u, section) = PmtRead(u, section)
          /\ ParsePmt(v, section) = PmtRead(v, section)
      BY <1>4, <2>2, PmtIsRead
    <3> QED  BY <1>5, <3>1
  <2> QED  BY <2>1, <2>2
<1> QED  BY <1>2, <1>3, <1>6 DEF section

\* What a packet makes of two scanners that are alike is alike, and begins a keyframe to
\* both or to none; what they hold stays.
LEMMA PacketAlike ==
  ASSUME NEW s, NEW t, IsScanner(s), IsScanner(t), Alike(s, t), NEW p
  PROVE  /\ Moves(s, t, OnPacket(s, p).s, OnPacket(t, p).s)
         /\ OnPacket(s, p).key = OnPacket(t, p).key
<1> DEFINE a == OnPacket(s, p)
           b == OnPacket(t, p)
<1>1. s.pmt_pid = t.pmt_pid /\ s.audio = t.audio /\ s.video = t.video
  BY AlikeFields
<1>2. CASE a = Only(s) /\ b = Only(t)
  BY <1>2, MovesNot DEF Only
<1>3. CASE a = PatPacket(s, p) /\ b = PatPacket(t, p)
  <2>1. a.key = b.key
    BY <1>3 DEF PatPacket, Only
  <2> QED  BY <1>3, <2>1, PatAlike
<1>4. CASE a = PmtPacket(s, p) /\ b = PmtPacket(t, p)
  <2>1. a.key = b.key
    BY <1>4 DEF PmtPacket, Only
  <2> QED  BY <1>4, <2>1, PmtAlike
<1>5. CASE a = AudioPacket(s, p) /\ b = AudioPacket(t, p)
  <2> DEFINE x == [s.audio EXCEPT !.is.name = MpegAudioLayer(p.pes)]
  <2>1. /\ a.s = [s EXCEPT !["audio"] = x] /\ b.s = [t EXCEPT !["audio"] = x]
        /\ a.key = b.key
    BY <1>1, <1>5 DEF AudioPacket, Only
  <2>2. "audio" \in ScannerFields \ Aside
    BY DEF ScannerFields, Aside
  <2> HIDE DEF x, a, b
  <2>3. Moves(s, t, a.s, b.s)
    BY <2>1, <2>2, MovesNot, MovesOn
  <2> QED  BY <2>1, <2>3 DEF a, b
<1>6. CASE a = VideoPacket(s, p) /\ b = VideoPacket(t, p)
  <2> DEFINE x == p.pes.pts
  <2>1. /\ a.s = IF x = None THEN s ELSE [s EXCEPT !["latest_video_pts"] = x]
        /\ b.s = IF x = None THEN t ELSE [t EXCEPT !["latest_video_pts"] = x]
        /\ a.key = b.key
    BY <1>1, <1>6 DEF VideoPacket
  <2>2. "latest_video_pts" \in ScannerFields \ Aside
    BY DEF ScannerFields, Aside
  <2> HIDE DEF x, a, b
  <2>3. Moves(s, t, [s EXCEPT !["latest_video_pts"] = x], [t EXCEPT !["latest_video_pts"] = x])
    BY <2>2, MovesNot, MovesOn
  <2> QED  BY <2>1, <2>3, MovesNot DEF a, b
<1>7. \/ a = Only(s) /\ b = Only(t)
      \/ a = PatPacket(s, p) /\ b = PatPacket(t, p)
      \/ a = PmtPacket(s, p) /\ b = PmtPacket(t, p)
      \/ a = AudioPacket(s, p) /\ b = AudioPacket(t, p)
      \/ a = VideoPacket(s, p) /\ b = VideoPacket(t, p)
  BY <1>1 DEF OnPacket
<1> QED  BY <1>2, <1>3, <1>4, <1>5, <1>6, <1>7

-----------------------------------------------------------------------------
(* TsScanner: what the packets of the stream tell a scanner, whatever chunks *)
(* they come in.                                                           *)

PacketAt(o) == Packet(Run(o, PACKET))

\* The scanner after the packet that begins o bytes in, and the keyframe it begins.
Heard(s, o) ==
  [OnPacket(s, PacketAt(o)).s EXCEPT
     !["handled"] = OnPacket(s, PacketAt(o)).s.handled \cup {o + 1}]
HeardKey(s, o) ==
  IF OnPacket(s, PacketAt(o)).key THEN <<[at |-> o, pts |-> PacketAt(o).pes.pts]>>
  ELSE <<>>

\* Scanners that differ in what they hold at most.
Twins(s, t) == IsScanner(s) /\ IsScanner(t) /\ Alike(s, t) /\ s.handled = t.handled

LEMMA TwinsHear ==
  ASSUME NEW s, NEW t, Twins(s, t), NEW o
  PROVE  Twins(Heard(s, o), Heard(t, o)) /\ HeardKey(s, o) = HeardKey(t, o)
<1> DEFINE p == PacketAt(o)
           a == OnPacket(s, p)
           b == OnPacket(t, p)
           u == [a.s EXCEPT !["handled"] = a.s.handled \cup {o + 1}]
           v == [b.s EXCEPT !["handled"] = b.s.handled \cup {o + 1}]
<1>1. Moves(s, t, a.s, b.s) /\ a.key = b.key
  BY PacketAlike DEF Twins
<1>2. u = Heard(s, o) /\ v = Heard(t, o) /\ HeardKey(s, o) = HeardKey(t, o)
  BY <1>1 DEF Heard, HeardKey
<1> HIDE DEF p, a, b
<1>3. "handled" \in ScannerFields /\ \A g \in ScannerFields \ Aside : g # "handled"
  BY DEF ScannerFields, Aside
<1>4. IsScanner(a.s) /\ IsScanner(b.s) /\ a.s.handled = b.s.handled
  BY <1>1 DEF Moves, Became, Twins
<1>5. /\ IsScanner(u) /\ u.handled = a.s.handled \cup {o + 1}
      /\ \A g \in ScannerFields \ {"handled"} : u[g] = a.s[g]
  BY <1>3, <1>4, FieldSet
<1>6. /\ IsScanner(v) /\ v.handled = b.s.handled \cup {o + 1}
      /\ \A g \in ScannerFields \ {"handled"} : v[g] = b.s[g]
  BY <1>3, <1>4, FieldSet
<1> HIDE DEF u, v
<1>7. Alike(u, v)
  BY <1>1, <1>3, <1>5, <1>6 DEF Alike, Moves
<1>8. Twins(u, v)
  BY <1>4, <1>5, <1>6, <1>7 DEF Twins
<1> QED  BY <1>2, <1>8

LEMMA HearHandles ==
  ASSUME NEW s, IsScanner(s), NEW o
  PROVE  Heard(s, o).handled = s.handled \cup {o + 1}
<1> DEFINE a == OnPacket(s, PacketAt(o))
<1>1. IsScanner(a.s) /\ a.s.handled = s.handled
  BY PacketAlike DEF Moves, Became, Alike
<1> HIDE DEF a
<1>2. "handled" \in ScannerFields
  BY DEF ScannerFields
<1> DEFINE u == [a.s EXCEPT !["handled"] = a.s.handled \cup {o + 1}]
<1>3. /\ IsScanner(u) /\ u.handled = a.s.handled \cup {o + 1}
      /\ \A g \in ScannerFields \ {"handled"} : u[g] = a.s[g]
  BY <1>1, <1>2, FieldSet
<1>4. u = Heard(s, o)
  BY DEF Heard, a
<1> HIDE DEF u
<1> QED  BY <1>1, <1>3, <1>4

\* What a packet of a buffer tells is what the packet of the stream there does.
Hearing(acc, t, o) ==
  t.s = Heard(acc.s, o) /\ t.found = Cat(acc.found, HeardKey(acc.s, o))

LEMMA StepHears ==
  ASSUME NEW acc, NEW base, NEW m, NEW i, Ready(acc, base, m, i)
  PROVE  Hearing(acc, ScanStep(acc, Run(base, m), base, i), base + i)
<1> /\ base \in Nat /\ m \in Nat /\ i \in Nat /\ i + PACKET <= m
    /\ DOMAIN acc = {"s", "found", "at"} /\ IsScanner(acc.s) /\ acc.found \in Seq(Marks)
  BY DEF Ready
<1> PICK t : t = ScanStep(acc, Run(base, m), base, i)
  OBVIOUS
<1>0. PACKET \in Nat /\ PACKET >= 1
  BY PacketAssumption
<1> DEFINE buf == Run(base, m)
           p == PacketAt(base + i)
           r == OnPacket(acc.s, p)
           k == [at |-> base + i, pts |-> p.pes.pts]
<1>1. SubSeq(buf, i + 1, i + PACKET) = Run(base + i, PACKET)
  <2>1. buf \in Seq(Nat) /\ Len(buf) = m /\ \A j \in 1..m : buf[j] = base + j
    BY RunFacts
  <2> HIDE DEF buf
  <2> DEFINE part == SubSeq(buf, i + 1, i + PACKET)
  <2>2. /\ \A j \in (i + 1)..(i + PACKET) : buf[j] \in Nat
        /\ i + 1 \in Int /\ i + PACKET \in Int /\ i + 1 <= i + PACKET
    <3>1. \A j \in (i + 1)..(i + PACKET) : j \in 1..m /\ j \in 1..Len(buf)
      BY <1>0, <2>1
    <3> QED  BY <1>0, <2>1, <3>1, ElementOfSeq
  <2>3. /\ part \in Seq(Nat) /\ Len(part) = (i + PACKET) - (i + 1) + 1
        /\ \A j \in 1..((i + PACKET) - (i + 1) + 1) : part[j] = buf[(i + 1) + j - 1]
    BY <2>2, SubSeqProperties
  <2>4. (i + PACKET) - (i + 1) + 1 = PACKET
    BY <1>0
  <2> HIDE DEF part
  <2>5. \A j \in 1..PACKET : part[j] = (base + i) + j
    <3> SUFFICES ASSUME NEW j \in 1..PACKET PROVE part[j] = (base + i) + j
      OBVIOUS
    <3>1. part[j] = buf[(i + 1) + j - 1] /\ (i + 1) + j - 1 = i + j
      <4>1. j \in 1..((i + PACKET) - (i + 1) + 1)
        BY <2>4
      <4>2. (i + 1) + j - 1 = i + j
        BY <1>0
      <4> QED  BY <2>3, <4>1, <4>2
    <3>2. i + j \in 1..m /\ base + (i + j) = (base + i) + j
      BY <1>0
    <3> QED  BY <2>1, <3>1, <3>2
  <2>6. part = [j \in 1..PACKET |-> (base + i) + j]
    <3>1. part = [j \in 1..Len(part) |-> part[j]]
      BY <2>3, LenProperties
    <3> QED  BY <2>3, <2>4, <2>5, <3>1
  <2> QED  BY <2>6 DEF part, Run
<1>2. buf[i + 1] = base + i + 1
  <2>1. i + 1 \in 1..m /\ base + (i + 1) = base + i + 1
    BY <1>0
  <2> QED  BY <2>1, RunFacts
<1> HIDE DEF buf
<1>3. t = Noted(acc, base + i + 1, base + i, p, r)
  BY <1>1, <1>2 DEF ScanStep, WithPacket, PacketAt, buf
<1>4. Follows(acc.s, r.s)
  BY PacketFollows
<1>5. /\ t.s = [r.s EXCEPT !["handled"] = r.s.handled \cup {base + i + 1}]
      /\ t.found = IF r.key THEN Append(acc.found, k) ELSE acc.found
  <2>1. r.s["handled"] = r.s.handled /\ DOMAIN r.s = ScannerFields /\ "handled" \in ScannerFields
    BY <1>4 DEF Follows, IsScanner, ScannerFields
  <2> HIDE DEF r, p
  <2> QED  BY <1>3, <2>1 DEF Noted
<1>6. t.s = Heard(acc.s, base + i)
  BY <1>5 DEF Heard
<1>7. HeardKey(acc.s, base + i) = IF r.key THEN <<k>> ELSE <<>>
  BY DEF HeardKey
<1> HIDE DEF r, p, k
<1>8. t.found = Cat(acc.found, HeardKey(acc.s, base + i))
  <2>1. Cat(acc.found, <<>>) = acc.found
    BY CatFacts
  <2>2. Cat(acc.found, <<k>>) = Append(acc.found, k)
    BY AppendIsConcat DEF Cat
  <2> QED  BY <1>5, <1>7, <2>1, <2>2
<1> QED  BY <1>6, <1>8 DEF Hearing

LEMMA HeardKeyTyped ==
  ASSUME NEW s, IsScanner(s), NEW o \in Nat
  PROVE  HeardKey(s, o) \in Seq(Marks)
<1> DEFINE p == PacketAt(o)
           k == [at |-> o, pts |-> p.pes.pts]
<1>1. CASE OnPacket(s, p).key
  <2>1. p.payload # None
    BY <1>1, PacketFollows
  <2>2. Run(o, PACKET)[1] = o + 1
    BY PacketAssumption, RunFacts
  <2>3. o + 1 \in DOMAIN input.packets /\ p = input.packets[o + 1]
    BY <2>1, <2>2 DEF PacketAt, Packet, Garbage
  <2> HIDE DEF p
  <2>4. o \in Starts \cap Nat
    <3>1. (o + 1) - 1 = o
      OBVIOUS
    <3> QED  BY <2>3, <3>1 DEF Starts
  <2>5. k \in Marks
    BY <2>3, <2>4 DEF Marks
  <2> HIDE DEF k
  <2>6. <<k>> \in Seq(Marks)
    BY <2>5
  <2> QED  BY <1>1, <2>6 DEF HeardKey, k, p
<1>2. CASE ~OnPacket(s, p).key
  BY <1>2 DEF HeardKey
<1> QED  BY <1>1, <1>2

\* What there is after each of the first x places of the stream, as h has it.
Tells(h, x) ==
  /\ h[0] = [s |-> NewScanner, found |-> <<>>]
  /\ \A y \in 0..(x - 1) :
       h[y + 1] = IF y \in Starts
                    THEN [s |-> Heard(h[y].s, y),
                          found |-> Cat(h[y].found, HeardKey(h[y].s, y))]
                    ELSE h[y]

\* s, with f found, is what the packets that begin before x make of a new scanner.
Yields(s, f, x) == \E h : Tells(h, x) /\ Twins(h[x].s, s) /\ h[x].found = f

LEMMA YieldsNothing == IsScanner(NewScanner) /\ Yields(NewScanner, <<>>, 0)
<1>1. IsScanner(NewScanner)
  BY DEF NewScanner, IsScanner, ScannerFields
<1>2. Twins(NewScanner, NewScanner)
  BY <1>1 DEF Twins, Alike
<1> DEFINE h == [y \in {0} |-> [s |-> NewScanner, found |-> <<>>]]
<1>3. Tells(h, 0) /\ h[0].s = NewScanner /\ h[0].found = <<>>
  BY DEF Tells
<1> HIDE DEF h
<1> QED  BY <1>1, <1>2, <1>3 DEF Yields

LEMMA TwinsJoin ==
  ASSUME NEW s, NEW t, NEW u, Twins(s, t), Twins(t, u)
  PROVE  Twins(s, u)
BY DEF Twins, Alike

LEMMA TwinsTurn ==
  ASSUME NEW s, NEW t, Twins(s, t)
  PROVE  Twins(t, s)
BY DEF Twins, Alike

LEMMA YieldsSame ==
  ASSUME NEW s, NEW t, NEW f, NEW x, Yields(s, f, x), Twins(s, t)
  PROVE  Yields(t, f, x)
<1>1. PICK h : Tells(h, x) /\ Twins(h[x].s, s) /\ h[x].found = f
  BY DEF Yields
<1>2. Twins(h[x].s, t)
  BY <1>1, TwinsJoin
<1> QED  BY <1>1, <1>2 DEF Yields

\* h goes on as it is from x to y.
LEMMA TellsLater ==
  ASSUME NEW h, NEW x \in Nat, NEW y \in Nat, x <= y, Tells(h, x),
         NEW g, \A z \in 0..x : g[z] = h[z],
         \A z \in x..(y - 1) :
           g[z + 1] = IF z \in Starts
                        THEN [s |-> Heard(g[z].s, z),
                              found |-> Cat(g[z].found, HeardKey(g[z].s, z))]
                        ELSE g[z]
  PROVE  Tells(g, y)
<1>2. g[0] = h[0]
  OBVIOUS
<1>3. ASSUME NEW z \in 0..(y - 1)
      PROVE  g[z + 1] = IF z \in Starts
                          THEN [s |-> Heard(g[z].s, z),
                                found |-> Cat(g[z].found, HeardKey(g[z].s, z))]
                          ELSE g[z]
  <2>1. CASE z < x
    <3>1. z \in 0..(x - 1) /\ z \in 0..x /\ z + 1 \in 0..x
      BY <2>1
    <3>2. g[z] = h[z] /\ g[z + 1] = h[z + 1]
      BY <3>1
    <3> QED  BY <3>1, <3>2 DEF Tells
  <2>2. CASE ~(z < x)
    <3>1. z \in x..(y - 1)
      BY <2>2
    <3> QED  BY <3>1
  <2> QED  BY <2>1, <2>2
<1> QED  BY <1>2, <1>3 DEF Tells

\* Where no packet begins nothing is told.
LEMMA YieldsPast ==
  ASSUME NEW s, NEW f, NEW x \in Nat, NEW y \in Nat, x <= y, Yields(s, f, x),
         \A z \in x..(y - 1) : z \notin Starts
  PROVE  Yields(s, f, y)
<1>1. PICK h : Tells(h, x) /\ Twins(h[x].s, s) /\ h[x].found = f
  BY DEF Yields
<1> DEFINE g == [z \in 0..y |-> IF z <= x THEN h[z] ELSE h[x]]
<1>2. \A z \in x..y : g[z] = h[x]
  BY DEF g
<1>3. \A z \in 0..x : g[z] = h[z]
  BY DEF g
<1> HIDE DEF g
<1>4. \A z \in x..(y - 1) : z \in x..y /\ z + 1 \in x..y
  OBVIOUS
<1>5. Tells(g, y)
  <2>1. \A z \in x..(y - 1) : g[z + 1] = g[z]
    BY <1>2, <1>4
  <2>2. \A z \in x..(y - 1) :
          g[z + 1] = IF z \in Starts
                       THEN [s |-> Heard(g[z].s, z),
                             found |-> Cat(g[z].found, HeardKey(g[z].s, z))]
                       ELSE g[z]
    BY <2>1
  <2> QED  BY <1>1, <1>3, <2>2, TellsLater
<1>6. g[y] = h[x]
  <2>1. y \in x..y
    OBVIOUS
  <2> QED  BY <1>2, <2>1
<1> QED  BY <1>1, <1>5, <1>6 DEF Yields

\* Where one begins it is told.
LEMMA YieldsOn ==
  ASSUME NEW s, NEW f, NEW x \in Nat, x \in Starts, Yields(s, f, x)
  PROVE  Yields(Heard(s, x), Cat(f, HeardKey(s, x)), x + 1)
<1>1. PICK h : Tells(h, x) /\ Twins(h[x].s, s) /\ h[x].found = f
  BY DEF Yields
<1> DEFINE last == [s |-> Heard(h[x].s, x), found |-> Cat(h[x].found, HeardKey(h[x].s, x))]
           g == [z \in 0..(x + 1) |-> IF z <= x THEN h[z] ELSE last]
<1>2. g[x] = h[x] /\ g[x + 1] = last /\ \A z \in 0..x : g[z] = h[z]
  <2> HIDE DEF last
  <2> QED  OBVIOUS
<1> HIDE DEF g
<1>3. Tells(g, x + 1)
  <2>1. \A z \in x..((x + 1) - 1) : z = x
    OBVIOUS
  <2>2. \A z \in x..((x + 1) - 1) :
          g[z + 1] = IF z \in Starts
                       THEN [s |-> Heard(g[z].s, z),
                             found |-> Cat(g[z].found, HeardKey(g[z].s, z))]
                       ELSE g[z]
    BY <1>2, <2>1
  <2> DEFINE y == x + 1
  <2>3. y \in Nat /\ x <= y /\ Tells(h, x) /\ \A z \in 0..x : g[z] = h[z]
    BY <1>1, <1>2
  <2>5. \A z \in x..(y - 1) :
          g[z + 1] = IF z \in Starts
                       THEN [s |-> Heard(g[z].s, z),
                             found |-> Cat(g[z].found, HeardKey(g[z].s, z))]
                       ELSE g[z]
    BY <2>2
  <2> HIDE DEF y
  <2>4. Tells(g, y)
    BY <2>3, <2>5, TellsLater
  <2> QED  BY <2>4 DEF y
<1>4. Twins(Heard(h[x].s, x), Heard(s, x)) /\ HeardKey(h[x].s, x) = HeardKey(s, x)
  BY <1>1, TwinsHear
<1>5. g[x + 1].s = Heard(h[x].s, x) /\ g[x + 1].found = Cat(f, HeardKey(s, x))
  BY <1>1, <1>2, <1>4
<1> QED  BY <1>3, <1>4, <1>5 DEF Yields

\* There is one thing they make of it.
LEMMA YieldsOnce ==
  ASSUME NEW s, NEW t, NEW f, NEW g, NEW x \in Nat, Yields(s, f, x), Yields(t, g, x)
  PROVE  Twins(s, t) /\ f = g
<1>1. PICK h : Tells(h, x) /\ Twins(h[x].s, s) /\ h[x].found = f
  BY DEF Yields
<1>2. PICK k : Tells(k, x) /\ Twins(k[x].s, t) /\ k[x].found = g
  BY DEF Yields
<1> DEFINE T == {y \in Nat : y <= x => h[y] = k[y]}
<1>3. 0 \in T
  BY <1>1, <1>2 DEF Tells
<1>4. ASSUME NEW y \in Nat, y \in T
      PROVE  y + 1 \in T
  <2> SUFFICES ASSUME y + 1 <= x PROVE h[y + 1] = k[y + 1]
    OBVIOUS
  <2>1. y \in 0..(x - 1) /\ h[y] = k[y]
    BY <1>4
  <2> QED  BY <1>1, <1>2, <2>1 DEF Tells
<1> HIDE DEF T
<1>5. x \in T
  BY <1>3, <1>4, SetInduction
<1>6. h[x] = k[x]
  BY <1>5 DEF T
<1>7. Twins(s, h[x].s)
  BY <1>1, TwinsTurn
<1> QED  BY <1>1, <1>2, <1>6, <1>7, TwinsJoin

-----------------------------------------------------------------------------
(* TsScanner: what a scan takes and what it goes past. *)

LEMMA WalkRises ==
  ASSUME NEW w, NEW i, NEW buf, NEW stop, NEW n \in Nat, n + 1 = Len(w),
         WalkFrom(w, i, buf, stop), \A k \in 1..(n + 1) : w[k] \in Nat
  PROVE  \A j, k \in 1..(n + 1) : j < k => w[j] + PACKET <= w[k]
<1>0. PACKET \in Nat
  BY PacketAssumption
<1>1. \A k \in 1..n : w[k] + PACKET <= w[k + 1]
  <2>1. (n + 1) - 1 = n
    OBVIOUS
  <2> QED  BY <2>1 DEF WalkFrom
<1> DEFINE T == {k \in Nat : \A j \in 1..(n + 1) : j < k /\ k <= n + 1 => w[j] + PACKET <= w[k]}
<1>2. 0 \in T
  OBVIOUS
<1>3. ASSUME NEW k \in Nat, k \in T
      PROVE  k + 1 \in T
  <2> SUFFICES ASSUME NEW j \in 1..(n + 1), j < k + 1, k + 1 <= n + 1
               PROVE  w[j] + PACKET <= w[k + 1]
    OBVIOUS
  <2>1. k \in 1..n /\ k \in 1..(n + 1) /\ k + 1 \in 1..(n + 1)
    OBVIOUS
  <2>2. w[k] + PACKET <= w[k + 1] /\ w[k] \in Nat /\ w[k + 1] \in Nat /\ w[j] \in Nat
    BY <1>1, <2>1
  <2>3. CASE j = k
    BY <2>2, <2>3
  <2>4. CASE j # k
    <3>1. j < k /\ k <= n + 1
      BY <2>4
    <3>2. w[j] + PACKET <= w[k]
      BY <1>3, <3>1
    <3> QED  BY <1>0, <2>2, <3>2
  <2> QED  BY <2>3, <2>4
<1> HIDE DEF T
<1>4. \A k \in Nat : k \in T
  BY <1>2, <1>3, SetInduction
<1>5. \A k \in 1..(n + 1) : k \in T /\ k <= n + 1
  BY <1>4
<1> QED  BY <1>5 DEF T

\* A packet may begin o bytes into a stream of which the first x are known.
Convinces(o, x) == IsSync(o + 1) /\ (o + PACKET < x => IsSync(o + PACKET + 1))

LEMMA SyncedIs ==
  ASSUME NEW base \in Nat, NEW m \in Nat, NEW i \in Nat, i < m
  PROVE  Synced(Run(base, m), i) <=> Convinces(base + i, base + m)
<1>0. PACKET \in Nat
  BY PacketAssumption
<1> DEFINE buf == Run(base, m)
<1>1. Len(buf) = m /\ \A k \in 1..m : buf[k] = base + k
  BY RunFacts
<1> HIDE DEF buf
<1>2. buf[i + 1] = base + i + 1
  <2>1. i + 1 \in 1..m /\ base + (i + 1) = base + i + 1
    OBVIOUS
  <2> QED  BY <1>1, <2>1
<1>3. CASE i + PACKET < m
  <2>1. i + PACKET + 1 \in 1..m /\ base + (i + PACKET + 1) = base + i + PACKET + 1
    BY <1>0, <1>3
  <2>2. buf[i + PACKET + 1] = base + i + PACKET + 1
    BY <1>1, <2>1
  <2>3. base + i + PACKET < base + m
    BY <1>0, <1>3
  <2> QED  BY <1>1, <1>2, <1>3, <2>2, <2>3 DEF Synced, Convinces, buf
<1>4. CASE ~(i + PACKET < m)
  <2>1. ~(base + i + PACKET < base + m)
    BY <1>0, <1>4
  <2> QED  BY <1>1, <1>2, <1>4, <2>1 DEF Synced, Convinces, buf
<1> QED  BY <1>3, <1>4

\* From lo on, the n packets that begin at p are taken out of the stream up to x, and
\* nothing else that may be one before the place where the next might begin.
Places(p, n, lo, x) ==
  /\ n \in Nat /\ \A k \in 1..(n + 1) : p[k] \in Nat /\ lo <= p[k]
  /\ p[n + 1] <= x
  /\ \A k \in 1..n : p[k] + PACKET <= x /\ Convinces(p[k], x)
  /\ \A j, k \in 1..(n + 1) : j < k => p[j] + PACKET <= p[k]
  /\ \A y \in Nat : lo <= y /\ y < p[n + 1] =>
       \/ \E k \in 1..n : p[k] <= y /\ y < p[k] + PACKET
       \/ y + PACKET <= x /\ ~Convinces(y, x)

LEMMA TakenPlaces ==
  ASSUME NEW s, NEW base \in Nat, NEW m \in Nat, NEW stop \in Nat, NEW from \in 0..m,
         NEW acc, NEW w, NEW n, Takes(acc, w, n, s, Run(base, m), base, from, stop),
         NEW p, p = [k \in 1..(n + 1) |-> base + w[k]]
  PROVE  Places(p, n, base + from, base + m)
<1>0. PACKET \in Nat /\ PACKET >= 1
  BY PacketAssumption
<1> DEFINE buf == Run(base, m)
<1>1. Len(buf) = m
  BY RunFacts
<1>2. /\ n \in Nat /\ n + 1 = Len(w) /\ \A k \in 1..(n + 1) : w[k] \in Nat
  BY DEF Takes
<1>3. WalkFrom(w, from, buf, stop)
  BY DEF Takes
<1>4. \A i \in Nat : i < m => (Synced(buf, i) <=> Convinces(base + i, base + m))
  BY SyncedIs
<1> HIDE DEF buf
<1>5. \A j, k \in 1..(n + 1) : j < k => w[j] + PACKET <= w[k]
  BY <1>2, <1>3, WalkRises
<1>6. \A k \in 1..(n + 1) : p[k] = base + w[k]
  OBVIOUS
<1>7. \A k \in 1..(n + 1) : p[k] \in Nat /\ base + from <= p[k]
  <2> SUFFICES ASSUME NEW k \in 1..(n + 1) PROVE p[k] \in Nat /\ base + from <= p[k]
    OBVIOUS
  <2>1. w[k] \in Nat /\ w[k] >= from
    BY <1>2, <1>3 DEF WalkFrom
  <2> QED  BY <1>6, <2>1
<1>8. n + 1 \in 1..(n + 1) /\ w[n + 1] \in Nat /\ w[n + 1] <= m
  <2>1. n + 1 \in 1..(n + 1)
    BY <1>2
  <2>2. from <= Len(buf)
    BY <1>1
  <2>3. w[Len(w)] <= Len(buf)
    BY <1>3, <2>2 DEF WalkFrom
  <2> QED  BY <1>1, <1>2, <2>1, <2>3
<1>9. p[n + 1] <= base + m
  BY <1>6, <1>8
<1>10. ASSUME NEW k \in 1..n
       PROVE  p[k] + PACKET <= base + m /\ Convinces(p[k], base + m)
  <2>1. k \in 1..(n + 1) /\ k \in 1..(Len(w) - 1)
    BY <1>2
  <2>2. w[k] \in Nat /\ w[k] + PACKET <= m /\ Synced(buf, w[k])
    BY <1>1, <1>2, <1>3, <2>1 DEF WalkFrom
  <2>3. w[k] < m
    BY <1>0, <2>2
  <2>4. Convinces(base + w[k], base + m)
    BY <1>4, <2>2, <2>3
  <2>5. (base + w[k]) + PACKET <= base + m
    BY <1>0, <2>2
  <2> QED  BY <1>6, <2>1, <2>4, <2>5
<1>11. \A j, k \in 1..(n + 1) : j < k => p[j] + PACKET <= p[k]
  <2> SUFFICES ASSUME NEW j \in 1..(n + 1), NEW k \in 1..(n + 1), j < k
               PROVE  p[j] + PACKET <= p[k]
    OBVIOUS
  <2>1. w[j] \in Nat /\ w[k] \in Nat /\ w[j] + PACKET <= w[k]
    BY <1>2, <1>5
  <2>2. (base + w[j]) + PACKET <= base + w[k]
    BY <1>0, <2>1
  <2> QED  BY <1>6, <2>2
<1>12. ASSUME NEW y \in Nat, base + from <= y, y < p[n + 1]
       PROVE  \/ \E k \in 1..n : p[k] <= y /\ y < p[k] + PACKET
              \/ y + PACKET <= base + m /\ ~Convinces(y, base + m)
  <2> DEFINE i == y - base
  <2>1. i \in Nat /\ from <= i /\ i < w[n + 1] /\ base + i = y
    BY <1>6, <1>8, <1>12
  <2> HIDE DEF i
  <2>2. i < m
    BY <1>8, <2>1
  <2>3. ASSUME NEW k \in 1..(Len(w) - 1), w[k] <= i, i < w[k] + PACKET
        PROVE  \E j \in 1..n : p[j] <= y /\ y < p[j] + PACKET
    <3>1. k \in 1..n /\ k \in 1..(n + 1) /\ w[k] \in Nat
      <4>1. Len(w) - 1 = n /\ n \in Nat
        BY <1>2
      <4>2. k \in 1..n /\ k \in 1..(n + 1)
        BY <4>1
      <4> QED  BY <1>2, <4>2
    <3>2. base + w[k] <= base + i /\ base + i < (base + w[k]) + PACKET
      BY <1>0, <2>1, <2>3, <3>1
    <3> QED  BY <1>6, <2>1, <3>1, <3>2
  <2>4. ASSUME i + PACKET <= m, ~Synced(buf, i)
        PROVE  y + PACKET <= base + m /\ ~Convinces(y, base + m)
    <3>1. y + PACKET <= base + m
      BY <1>0, <2>1, <2>4
    <3> QED  BY <1>4, <2>1, <2>2, <2>4, <3>1
  <2>5. \/ \E k \in 1..(Len(w) - 1) : w[k] <= i /\ i < w[k] + PACKET
        \/ i < stop /\ i + PACKET <= Len(buf) /\ ~Synced(buf, i)
    <3>1. PassesOver(w, from, buf, stop)
      BY <1>3 DEF WalkFrom
    <3> QED  BY <1>2, <2>1, <3>1 DEF PassesOver
  <2> QED  BY <1>1, <2>3, <2>4, <2>5
<1> QED  BY <1>2, <1>7, <1>9, <1>10, <1>11, <1>12 DEF Places

\* acc[k] is what the first k of the packets at p make of s.
Hears(acc, p, n, s) ==
  /\ acc[0].s = s /\ acc[0].found = <<>>
  /\ \A k \in 0..n : IsScanner(acc[k].s) /\ acc[k].found \in Seq(Marks)
  /\ \A k \in 1..n : /\ acc[k].s = Heard(acc[k - 1].s, p[k])
                     /\ acc[k].found = Cat(acc[k - 1].found, HeardKey(acc[k - 1].s, p[k]))

LEMMA TakenHears ==
  ASSUME NEW s, IsScanner(s), NEW base \in Nat, NEW m \in Nat, NEW stop \in Nat,
         NEW from \in 0..m, NEW acc, NEW w, NEW n,
         Takes(acc, w, n, s, Run(base, m), base, from, stop),
         NEW p, p = [k \in 1..(n + 1) |-> base + w[k]]
  PROVE  Hears(acc, p, n, s)
<1> DEFINE buf == Run(base, m)
<1>1. Len(buf) = m
  BY RunFacts
<1>2. /\ n \in Nat /\ n + 1 = Len(w) /\ \A k \in 1..(n + 1) : w[k] \in Nat
  BY DEF Takes
<1>3. WalkFrom(w, from, buf, stop)
  BY DEF Takes
<1>4. Finds(acc, w, n, s, base, from)
  BY ScanFinds
<1>5. \A k \in 1..n : acc[k] = ScanStep(acc[k - 1], buf, base, w[k])
  BY DEF Takes
<1>6. acc[0].s = s /\ acc[0].found = <<>>
  BY DEF Takes, ScanStart
<1>7. \A k \in 0..n : /\ DOMAIN acc[k] = {"s", "found", "at"} /\ IsScanner(acc[k].s)
                      /\ acc[k].found \in Seq(Marks)
  BY <1>4 DEF Finds, Follows, Rising
<1>8. ASSUME NEW k \in 1..n
      PROVE  /\ acc[k].s = Heard(acc[k - 1].s, p[k])
             /\ acc[k].found = Cat(acc[k - 1].found, HeardKey(acc[k - 1].s, p[k]))
  <2>1. k \in 1..(n + 1) /\ k \in 1..(Len(w) - 1) /\ k - 1 \in 0..n
    BY <1>2
  <2>2. w[k] \in Nat /\ w[k] + PACKET <= m
    BY <1>1, <1>2, <1>3, <2>1 DEF WalkFrom
  <2> DEFINE a == acc[k - 1]
             i == w[k]
  <2>3. DOMAIN a = {"s", "found", "at"} /\ a.found \in Seq(Marks) /\ IsScanner(a.s)
    BY <1>7, <2>1
  <2>4. acc[k] = ScanStep(a, Run(base, m), base, i) /\ p[k] = base + i
    BY <1>5, <2>1
  <2> HIDE DEF a, i, buf
  <2>5. i \in Nat /\ i + PACKET <= m
    BY <2>2 DEF i
  <2>6. Hearing(a, acc[k], base + i)
    <3>1. Ready(a, base, m, i)
      BY <2>3, <2>5 DEF Ready
    <3>2. Hearing(a, ScanStep(a, Run(base, m), base, i), base + i)
      BY <3>1, StepHears
    <3> QED  BY <2>4, <3>2
  <2> QED  BY <2>4, <2>6 DEF Hearing, a
<1> QED  BY <1>6, <1>7, <1>8 DEF Hears

\* The first bytes of the first n packets at p.
FirstBytes(p, n) == {p[k] + 1 : k \in 1..n}

\* t has handled what s has and the first n of the places p.
HandledToo(t, s, p, n) == t.handled = s.handled \cup FirstBytes(p, n)

LEMMA HandledThen ==
  ASSUME NEW acc, NEW p, NEW n \in Nat, NEW s, Hears(acc, p, n, s)
  PROVE  HandledToo(acc[n].s, s, p, n)
<1> DEFINE T == {k \in Nat : k <= n => acc[k].s.handled = s.handled \cup {p[j] + 1 : j \in 1..k}}
<1>1. 0 \in T
  BY DEF Hears
<1>2. ASSUME NEW k \in Nat, k \in T
      PROVE  k + 1 \in T
  <2> SUFFICES ASSUME k + 1 <= n
               PROVE  acc[k + 1].s.handled = s.handled \cup {p[j] + 1 : j \in 1..(k + 1)}
    OBVIOUS
  <2>1. k + 1 \in 1..n /\ (k + 1) - 1 = k /\ k \in 0..n
    OBVIOUS
  <2>2. acc[k].s.handled = s.handled \cup {p[j] + 1 : j \in 1..k}
    BY <1>2
  <2>3. acc[k + 1].s = Heard(acc[k].s, p[k + 1]) /\ IsScanner(acc[k].s)
    BY <2>1 DEF Hears
  <2>4. acc[k + 1].s.handled = acc[k].s.handled \cup {p[k + 1] + 1}
    BY <2>3, HearHandles
  <2>5. 1..(k + 1) = (1..k) \cup {k + 1}
    OBVIOUS
  <2>6. {p[j] + 1 : j \in 1..(k + 1)} = {p[j] + 1 : j \in 1..k} \cup {p[k + 1] + 1}
    BY <2>5
  <2> QED  BY <2>2, <2>4, <2>6
<1> HIDE DEF T
<1>3. n \in T
  BY <1>1, <1>2, SetInduction
<1> QED  BY <1>3 DEF T, FirstBytes, HandledToo

\* Of the packets taken, each ends by x.
EndsBy(handled, x) == \A b \in handled : b \in Nat /\ b + PACKET <= x + 1

\* Up to x, none is missed that begins where one taken ends, or after a packet's length
\* without a sync byte.
NoneMissed(handled, x) ==
  \A o \in Starts :
    /\ o + PACKET \in Starts /\ o < x
    /\ \/ o - PACKET + 1 \in handled
       \/ \A y \in (o - PACKET + 1)..(o - 1) : ~IsSync(y + 1)
    => o + 1 \in handled

LEMMA StartsTyped ==
  ASSUME input \in Inputs
  PROVE  /\ \A o \in Starts : o \in Nat /\ o + 1 \in DOMAIN input.packets /\ IsSync(o + 1)
         /\ \A o, q \in Starts : o < q => o + PACKET <= q
<1>1. /\ DOMAIN input.packets \subseteq (Nat \ {0}) \cap input.syncs
      /\ \A p, q \in DOMAIN input.packets : p < q => p + PACKET <= q
  BY InputAssumption
<1>2. ASSUME NEW o \in Starts
      PROVE  o \in Nat /\ o + 1 \in DOMAIN input.packets /\ IsSync(o + 1)
  <2>1. PICK p \in DOMAIN input.packets : o = p - 1
    BY DEF Starts
  <2>2. p \in Nat \ {0} /\ p \in input.syncs
    BY <1>1
  <2>3. o \in Nat /\ o + 1 = p
    BY <2>1, <2>2
  <2> QED  BY <2>2, <2>3 DEF IsSync
<1>3. ASSUME NEW o \in Starts, NEW q \in Starts, o < q
      PROVE  o + PACKET <= q
  <2>1. o + 1 < q + 1 /\ o \in Nat /\ q \in Nat
    BY <1>2, <1>3
  <2>2. (o + 1) + PACKET <= q + 1
    BY <1>1, <1>2, <2>1
  <2> QED  BY <2>1, <2>2, PacketAssumption
<1> QED  BY <1>2, <1>3

\* A scan misses none either: what it takes ends where it goes on, and a packet that
\* it does not see begins inside another that has a sync byte.
LEMMA TakenMisses ==
  ASSUME input \in Inputs, NEW p, NEW n, NEW lo \in Nat, NEW x \in Nat, Places(p, n, lo, x),
         NEW h, EndsBy(h, lo), NoneMissed(h, lo),
         NEW g, g = h \cup FirstBytes(p, n)
  PROVE  EndsBy(g, p[n + 1]) /\ NoneMissed(g, p[n + 1])
<1>0. PACKET \in Nat /\ PACKET >= 1
  BY PacketAssumption
<1> DEFINE end == p[n + 1]
<1> USE DEF FirstBytes
<1>1. /\ n \in Nat /\ \A k \in 1..(n + 1) : p[k] \in Nat /\ lo <= p[k]
      /\ \A j, k \in 1..(n + 1) : j < k => p[j] + PACKET <= p[k]
      /\ n + 1 \in 1..(n + 1) /\ \A k \in 1..n : k \in 1..(n + 1) /\ k < n + 1
  BY DEF Places
<1>2. end \in Nat /\ lo <= end /\ \A k \in 1..n : p[k] \in Nat /\ p[k] + PACKET <= end
  BY <1>1
<1>3. \A k \in 1..n : Convinces(p[k], x)
  BY DEF Places
<1> HIDE DEF end
<1>4. EndsBy(g, end)
  <2> SUFFICES ASSUME NEW b \in g PROVE b \in Nat /\ b + PACKET <= end + 1
    BY DEF EndsBy
  <2>1. CASE b \in h
    <3>1. b \in Nat /\ b + PACKET <= lo + 1
      BY <2>1 DEF EndsBy
    <3> QED  BY <1>0, <1>2, <3>1
  <2>2. ASSUME NEW k \in 1..n, b = p[k] + 1
        PROVE  b \in Nat /\ b + PACKET <= end + 1
    BY <1>0, <1>2, <2>2
  <2> QED  BY <2>1, <2>2
<1>5. NoneMissed(g, end)
  <2> SUFFICES ASSUME NEW o \in Starts, o + PACKET \in Starts, o < end, o + 1 \notin g,
                      \/ o - PACKET + 1 \in g
                      \/ \A y \in (o - PACKET + 1)..(o - 1) : ~IsSync(y + 1)
               PROVE  FALSE
    BY DEF NoneMissed
  <2>1. o \in Nat /\ IsSync(o + 1) /\ IsSync(o + PACKET + 1)
    BY StartsTyped
  <2>2. \A k \in 1..n : p[k] # o
    OBVIOUS
  <2>3. CASE o < lo
    <3>1. o - PACKET + 1 \notin h
          /\ ~(\A y \in (o - PACKET + 1)..(o - 1) : ~IsSync(y + 1))
      BY <2>3 DEF NoneMissed
    <3>2. PICK k \in 1..n : o - PACKET + 1 = p[k] + 1
      BY <3>1
    <3>3. p[k] \in Nat /\ lo <= p[k]
      BY <1>1
    <3> QED  BY <1>0, <2>1, <2>3, <3>2, <3>3
  <2>4. CASE ~(o < lo)
    <3>1. lo <= o
      BY <2>1, <2>4
    <3>2. ~(o + PACKET <= x /\ ~Convinces(o, x))
      BY <2>1 DEF Convinces
    <3>3. PICK k \in 1..n : p[k] <= o /\ o < p[k] + PACKET
      BY <2>1, <3>1, <3>2 DEF Places, end
    <3>4. p[k] \in Nat /\ lo <= p[k] /\ p[k] < o /\ IsSync(p[k] + 1) /\ k \in 1..(n + 1)
      <4>1. p[k] \in Nat /\ lo <= p[k] /\ p[k] # o
        BY <1>1, <2>2
      <4> QED  BY <1>1, <1>3, <2>1, <3>3, <4>1 DEF Convinces
    <3>5. p[k] \in (o - PACKET + 1)..(o - 1)
      BY <1>0, <2>1, <3>3, <3>4
    <3>6. o - PACKET + 1 \in g
      BY <3>4, <3>5
    <3>7. CASE o - PACKET + 1 \in h
      <4>1. (o - PACKET + 1) + PACKET <= lo + 1
        BY <3>7 DEF EndsBy
      <4> QED  BY <1>0, <2>1, <3>4, <4>1
    <3>8. ASSUME NEW j \in 1..n, o - PACKET + 1 = p[j] + 1
          PROVE  FALSE
      <4>1. p[j] \in Nat /\ p[j] + PACKET = o /\ j \in 1..(n + 1)
        BY <1>0, <1>1, <2>1, <3>8
      <4>2. ~(j < k)
        <5>1. j < k => p[j] + PACKET <= p[k]
          BY <1>1, <3>4, <4>1
        <5>2. p[k] < o /\ p[j] + PACKET = o
          BY <3>4, <4>1
        <5>3. p[j] \in Nat /\ p[k] \in Nat /\ o \in Nat /\ j \in Nat /\ k \in Nat
          BY <1>1, <2>1, <3>4, <4>1
        <5> QED  BY <1>0, <5>1, <5>2, <5>3
      <4>3. ~(k < j)
        <5>1. k < j => p[k] + PACKET <= p[j]
          BY <1>1, <3>4, <4>1
        <5> QED  BY <1>0, <2>1, <3>3, <3>4, <4>1, <5>1
      <4>4. k = j
        BY <4>2, <4>3
      <4> QED  BY <1>0, <3>3, <4>1, <4>4
    <3> QED  BY <3>6, <3>7, <3>8
  <2> QED  BY <2>3, <2>4
<1> QED  BY <1>4, <1>5 DEF end

-----------------------------------------------------------------------------
(* TsScanner: in a clean stream a scan takes the packets there are. *)

\* No packet has begun before x that ends after it.
Free(x) == \A o \in Starts : ~(o < x /\ x < o + PACKET)

\* Before x there is no such place that another packet does not follow up to e.
Reaches(x, e) == \A y \in Nat : y < x /\ Free(y) => y + PACKET <= e

LEMMA CleanConvinces ==
  ASSUME input \in Inputs, Clean, NEW o \in Nat, NEW x \in Nat, x <= input.len
  PROVE  Convinces(o, x) <=> o \in Starts
<1>0. PACKET \in Nat /\ input.len \in Nat /\ DOMAIN input.packets \subseteq Nat
  BY PacketAssumption, InputAssumption
<1>1. ASSUME NEW q \in Nat
      PROVE  IsSync(q + 1) <=> q \in Starts
  <2>1. IsSync(q + 1) <=> q + 1 \in DOMAIN input.packets
    BY DEF IsSync, Clean
  <2>2. q + 1 \in DOMAIN input.packets => q \in Starts
    <3>1. (q + 1) - 1 = q
      OBVIOUS
    <3> QED  BY <3>1 DEF Starts
  <2>3. q \in Starts => q + 1 \in DOMAIN input.packets
    BY StartsTyped
  <2> QED  BY <2>1, <2>2, <2>3
<1>2. o \in Starts => (o + PACKET < x => IsSync(o + PACKET + 1))
  <2> SUFFICES ASSUME o \in Starts, o + PACKET < x PROVE IsSync(o + PACKET + 1)
    OBVIOUS
  <2>1. ~(o + PACKET >= input.len) /\ o + PACKET \in Nat
    BY <1>0
  <2>2. o + PACKET \in Starts
    BY <2>1 DEF Clean
  <2> QED  BY <1>1, <2>1, <2>2
<1> QED  BY <1>1, <1>2 DEF Convinces

\* The packets of a clean stream from lo to where the scan ends are those it takes.
LEMMA TakenStarts ==
  ASSUME input \in Inputs, Clean, NEW p, NEW n, NEW lo \in Nat, NEW x \in Nat,
         x <= input.len, Places(p, n, lo, x)
  PROVE  /\ \A k \in 1..n : p[k] \in Starts
         /\ \A y \in Starts : lo <= y /\ y < p[n + 1] => \E k \in 1..n : y = p[k]
<1>1. /\ n \in Nat /\ \A k \in 1..n : k \in 1..(n + 1)
      /\ \A k \in 1..(n + 1) : p[k] \in Nat
  BY DEF Places
<1>2. ASSUME NEW k \in 1..n
      PROVE  p[k] \in Starts
  <2>1. p[k] \in Nat /\ Convinces(p[k], x)
    BY <1>1 DEF Places
  <2> QED  BY <2>1, CleanConvinces
<1>3. ASSUME NEW y \in Starts, lo <= y, y < p[n + 1]
      PROVE  \E k \in 1..n : y = p[k]
  <2>1. y \in Nat
    BY StartsTyped
  <2>2. Convinces(y, x)
    BY <2>1, CleanConvinces
  <2>3. PICK k \in 1..n : p[k] <= y /\ y < p[k] + PACKET
    BY <1>3, <2>1, <2>2 DEF Places
  <2>4. p[k] \in Starts /\ p[k] \in Nat
    BY <1>1, <1>2
  <2>5. ~(p[k] < y)
    <3>1. p[k] < y => p[k] + PACKET <= y
      BY <2>4, StartsTyped
    <3> QED  BY <2>1, <2>3, <2>4, <3>1, PacketAssumption
  <2>6. y = p[k]
    BY <2>1, <2>3, <2>4, <2>5
  <2> QED  BY <2>6
<1> QED  BY <1>2, <1>3

LEMMA TakenYields ==
  ASSUME input \in Inputs, Clean, NEW p, NEW n, NEW lo \in Nat, NEW x \in Nat,
         x <= input.len, Places(p, n, lo, x),
         NEW acc, NEW s, Hears(acc, p, n, s), NEW f \in Seq(Marks), Yields(s, f, lo)
  PROVE  Yields(acc[n].s, Cat(f, acc[n].found), p[n + 1])
<1>0. PACKET \in Nat /\ PACKET >= 1
  BY PacketAssumption
<1>1. /\ n \in Nat /\ \A k \in 1..(n + 1) : p[k] \in Nat /\ lo <= p[k]
      /\ \A j, k \in 1..(n + 1) : j < k => p[j] + PACKET <= p[k]
  BY DEF Places
<1>2. /\ \A k \in 1..n : p[k] \in Starts
      /\ \A y \in Starts : lo <= y /\ y < p[n + 1] => \E k \in 1..n : y = p[k]
  BY TakenStarts
<1>3. \A k \in 1..(n + 1) : p[k] <= p[n + 1]
  <2> SUFFICES ASSUME NEW k \in 1..(n + 1) PROVE p[k] <= p[n + 1]
    OBVIOUS
  <2>1. n + 1 \in 1..(n + 1) /\ p[k] \in Nat /\ p[n + 1] \in Nat
    BY <1>1
  <2>2. k < n + 1 => p[k] + PACKET <= p[n + 1]
    BY <1>1, <2>1
  <2>3. k = n + 1 \/ k < n + 1
    BY <1>1
  <2> QED  BY <1>0, <2>1, <2>2, <2>3
<1> DEFINE Now(k) == Yields(acc[k].s, Cat(f, acc[k].found), p[k + 1])
           T == {k \in Nat : k <= n => Now(k)}
<1>4. 0 \in T
  <2>1. acc[0].s = s /\ acc[0].found = <<>> /\ Cat(f, <<>>) = f
    BY CatFacts DEF Hears
  <2>2. 1 \in 1..(n + 1) /\ p[1] \in Nat /\ lo <= p[1]
    BY <1>1
  <2>3. \A y \in lo..(p[1] - 1) : y \notin Starts
    <3> SUFFICES ASSUME NEW y \in lo..(p[1] - 1), y \in Starts PROVE FALSE
      OBVIOUS
    <3>1. y \in Nat /\ lo <= y /\ y < p[1]
      BY <2>2
    <3>2. p[1] <= p[n + 1] /\ p[n + 1] \in Nat
      <4>1. n + 1 \in 1..(n + 1)
        BY <1>1
      <4> QED  BY <1>1, <1>3, <2>2, <4>1
    <3>3. PICK k \in 1..n : y = p[k]
      BY <1>2, <2>2, <3>1, <3>2
    <3>4. k \in 1..(n + 1) /\ (1 < k => p[1] + PACKET <= p[k])
      BY <1>1, <2>2
    <3>5. k = 1 \/ 1 < k
      OBVIOUS
    <3> QED  BY <1>0, <2>2, <3>1, <3>3, <3>4, <3>5
  <2>4. Yields(s, f, p[1])
    BY <2>2, <2>3, YieldsPast
  <2>5. 0 + 1 = 1
    OBVIOUS
  <2> QED  BY <2>1, <2>4, <2>5
<1>5. ASSUME NEW k \in Nat, k \in T
      PROVE  k + 1 \in T
  <2> SUFFICES ASSUME k + 1 <= n PROVE Now(k + 1)
    OBVIOUS
  <2> DEFINE j == k + 1
  <2>1. /\ j \in 1..n /\ j - 1 = k /\ k \in 0..n /\ j \in 1..(n + 1) /\ j + 1 \in 1..(n + 1)
        /\ k <= n /\ j < j + 1 /\ n + 1 \in 1..(n + 1)
    BY <1>1
  <2>2. Now(k)
    BY <1>5, <2>1
  <2>3. /\ acc[j].s = Heard(acc[k].s, p[j])
        /\ acc[j].found = Cat(acc[k].found, HeardKey(acc[k].s, p[j]))
        /\ IsScanner(acc[k].s) /\ acc[k].found \in Seq(Marks)
    BY <2>1 DEF Hears
  <2>4. Yields(acc[k].s, Cat(f, acc[k].found), p[j])
    BY <2>2
  <2> HIDE DEF j
  <2>5. /\ p[j] \in Nat /\ p[j + 1] \in Nat /\ p[j] \in Starts /\ p[j] + PACKET <= p[j + 1]
        /\ lo <= p[j] /\ p[j + 1] <= p[n + 1] /\ p[n + 1] \in Nat
    BY <1>1, <1>2, <1>3, <2>1
  <2>6. Yields(acc[j].s, Cat(Cat(f, acc[k].found), HeardKey(acc[k].s, p[j])), p[j] + 1)
    BY <2>3, <2>4, <2>5, YieldsOn
  <2>7. Cat(Cat(f, acc[k].found), HeardKey(acc[k].s, p[j])) = Cat(f, acc[j].found)
    <3>1. HeardKey(acc[k].s, p[j]) \in Seq(Marks)
      BY <2>3, <2>5, HeardKeyTyped
    <3> QED  BY <2>3, <3>1, CatAssociative
  <2>8. \A y \in (p[j] + 1)..(p[j + 1] - 1) : y \notin Starts
    <3> SUFFICES ASSUME NEW y \in (p[j] + 1)..(p[j + 1] - 1), y \in Starts PROVE FALSE
      OBVIOUS
    <3>1. y \in Nat /\ lo <= y /\ p[j] < y /\ y < p[j + 1] /\ y < p[n + 1]
      BY <2>5
    <3>2. PICK i \in 1..n : y = p[i]
      BY <1>2, <3>1
    <3>3. i \in 1..(n + 1) /\ (i = j \/ i < j \/ i = j + 1 \/ j + 1 < i)
      BY <1>1, <2>1
    <3>4. /\ i < j => p[i] + PACKET <= p[j]
          /\ j + 1 < i => p[j + 1] + PACKET <= p[i]
      BY <1>1, <2>1, <3>3
    <3>5. p[i] \in Nat /\ p[j] \in Nat /\ p[j + 1] \in Nat
      BY <1>1, <2>5, <3>3
    <3>6. ~(i < j)
      BY <1>0, <3>1, <3>2, <3>4, <3>5
    <3>7. ~(j + 1 < i)
      BY <1>0, <3>1, <3>2, <3>4, <3>5
    <3>8. i = j \/ i = j + 1
      BY <3>3, <3>6, <3>7
    <3> QED  BY <3>1, <3>2, <3>5, <3>8
  <2>9. p[j] + 1 \in Nat /\ p[j] + 1 <= p[j + 1]
    BY <1>0, <2>5
  <2>10. Yields(acc[j].s, Cat(f, acc[j].found), p[j + 1])
    BY <2>5, <2>6, <2>7, <2>8, <2>9, YieldsPast
  <2> QED  BY <2>10 DEF j
<1> HIDE DEF T, Now
<1>6. n \in T
  BY <1>1, <1>4, <1>5, SetInduction
<1>7. Now(n)
  BY <1>1, <1>6 DEF T
<1> QED  BY <1>7 DEF Now

\* Where it ends no packet is under way, and up to there none is left out.
LEMMA TakenFree ==
  ASSUME input \in Inputs, Clean, NEW p, NEW n, NEW lo \in Nat, NEW x \in Nat,
         x <= input.len, Places(p, n, lo, x), Free(lo)
  PROVE  /\ Free(p[n + 1])
         /\ \A y \in Nat : lo <= y /\ y < p[n + 1] /\ Free(y) => y + PACKET <= x
<1>0. PACKET \in Nat /\ PACKET >= 1
  BY PacketAssumption
<1>1. /\ n \in Nat /\ \A k \in 1..(n + 1) : p[k] \in Nat /\ lo <= p[k]
      /\ \A j, k \in 1..(n + 1) : j < k => p[j] + PACKET <= p[k]
      /\ n + 1 \in 1..(n + 1) /\ \A k \in 1..n : k \in 1..(n + 1) /\ k < n + 1
      /\ \A k \in 1..n : p[k] + PACKET <= x
  BY DEF Places
<1>2. /\ \A k \in 1..n : p[k] \in Starts
      /\ \A y \in Starts : lo <= y /\ y < p[n + 1] => \E k \in 1..n : y = p[k]
  BY TakenStarts
<1>3. Free(p[n + 1])
  <2> SUFFICES ASSUME NEW o \in Starts, o < p[n + 1], p[n + 1] < o + PACKET PROVE FALSE
    BY DEF Free
  <2>1. o \in Nat
    BY StartsTyped
  <2>2. p[n + 1] \in Nat /\ lo <= p[n + 1]
    BY <1>1
  <2>3. CASE lo <= o
    <3>1. PICK k \in 1..n : o = p[k]
      BY <1>2, <2>3
    <3>2. p[k] + PACKET <= p[n + 1] /\ p[k] \in Nat
      BY <1>1
    <3> QED  BY <1>0, <2>2, <3>1, <3>2
  <2>4. CASE ~(lo <= o)
    <3>1. ~(o < lo /\ lo < o + PACKET)
      BY DEF Free
    <3> QED  BY <1>0, <2>1, <2>2, <2>4, <3>1
  <2> QED  BY <2>3, <2>4
<1>4. ASSUME NEW y \in Nat, lo <= y, y < p[n + 1], Free(y)
      PROVE  y + PACKET <= x
  <2>1. \/ \E k \in 1..n : p[k] <= y /\ y < p[k] + PACKET
        \/ y + PACKET <= x
    BY <1>4 DEF Places
  <2>2. ASSUME NEW k \in 1..n, p[k] <= y, y < p[k] + PACKET
        PROVE  y + PACKET <= x
    <3>1. p[k] \in Starts /\ p[k] \in Nat /\ p[k] + PACKET <= x
      BY <1>1, <1>2
    <3>2. ~(p[k] < y /\ y < p[k] + PACKET)
      BY <1>4, <3>1 DEF Free
    <3>3. p[k] = y
      BY <2>2, <3>1, <3>2
    <3> QED  BY <3>1, <3>3
  <2> QED  BY <2>1, <2>2
<1> QED  BY <1>3, <1>4

-----------------------------------------------------------------------------
(* TsScanner: how far the stream has been taken. *)

\* s, with f found, has taken what it should of the stream up to x: whatever that is, no
\* packet it could tell, and of a clean one every packet and no other.
AsFar(s, f, x) ==
  /\ EndsBy(s.handled, x) /\ NoneMissed(s.handled, x)
  /\ Clean => Free(x) /\ Yields(s, f, x)

LEMMA AsFarSame ==
  ASSUME NEW s, NEW t, NEW f, NEW x, AsFar(s, f, x), Twins(s, t)
  PROVE  AsFar(t, f, x)
<1>1. t.handled = s.handled
  BY DEF Twins
<1> QED  BY <1>1, YieldsSame DEF AsFar

LEMMA ScanGoes ==
  ASSUME input \in Inputs, NEW s, IsScanner(s), NEW base \in Nat, NEW m \in Nat,
         NEW stop \in Nat, NEW from \in 0..m,
         NEW e \in Nat, base + m <= e, e <= input.len,
         NEW f \in Seq(Marks), AsFar(s, f, base + from), Clean => Reaches(base + from, e)
  PROVE  LET r == Scan(s, Run(base, m), from, stop, base)
         IN AsFar(r.s, Cat(f, r.found), base + r.at) /\ (Clean => Reaches(base + r.at, e))
<1> DEFINE r == Scan(s, Run(base, m), from, stop, base)
           lo == base + from
           x == base + m
<1>1. PICK acc, w, n : Takes(acc, w, n, s, Run(base, m), base, from, stop)
  BY ScanTakes
<1> DEFINE p == [k \in 1..(n + 1) |-> base + w[k]]
<1>2. /\ lo \in Nat /\ x \in Nat /\ x <= e /\ x <= input.len
      /\ n \in Nat /\ n + 1 \in 1..(n + 1) /\ n \in 0..n
  <2>1. n \in Nat
    BY <1>1 DEF Takes
  <2>2. n + 1 \in 1..(n + 1) /\ n \in 0..n
    BY <2>1
  <2>3. input.len \in Nat
    BY InputAssumption
  <2> QED  BY <2>1, <2>2, <2>3
<1>3. Places(p, n, lo, x) /\ Hears(acc, p, n, s)
  BY <1>1, TakenPlaces, TakenHears
<1>4. r = acc[n] /\ base + r.at = p[n + 1]
  <2>1. r = acc[n]
    BY <1>1 DEF Takes
  <2>2. Finds(acc, w, n, s, base, from)
    BY <1>1, ScanFinds
  <2>3. acc[n].at = w[n + 1]
    BY <1>2, <2>2 DEF Finds
  <2> HIDE DEF r
  <2> QED  BY <1>2, <2>1, <2>3
<1>5. EndsBy(s.handled, lo) /\ NoneMissed(s.handled, lo) /\ (Clean => Free(lo) /\ Yields(s, f, lo))
  BY DEF AsFar
<1> HIDE DEF r, lo, x, p
<1>6. r.s.handled = s.handled \cup FirstBytes(p, n)
  <2>1. HandledToo(acc[n].s, s, p, n)
    BY <1>2, <1>3, HandledThen
  <2>2. HandledToo(r.s, s, p, n)
    BY <1>4, <2>1
  <2> QED  BY <2>2 DEF HandledToo
<1>7. EndsBy(r.s.handled, p[n + 1]) /\ NoneMissed(r.s.handled, p[n + 1])
  BY <1>2, <1>3, <1>5, <1>6, TakenMisses
<1>8. Clean => Yields(r.s, Cat(f, r.found), p[n + 1])
  BY <1>2, <1>3, <1>4, <1>5, TakenYields
<1>9. Clean => /\ Free(p[n + 1])
               /\ \A y \in Nat : lo <= y /\ y < p[n + 1] /\ Free(y) => y + PACKET <= x
  BY <1>2, <1>3, <1>5, TakenFree
<1>10. AsFar(r.s, Cat(f, r.found), p[n + 1])
  BY <1>7, <1>8, <1>9 DEF AsFar
<1>11. Clean => Reaches(p[n + 1], e)
  <2> SUFFICES ASSUME Clean, NEW y \in Nat, y < p[n + 1], Free(y) PROVE y + PACKET <= e
    BY DEF Reaches
  <2>1. y < lo => y + PACKET <= e
    BY DEF Reaches, lo
  <2>2. ~(y < lo) => y + PACKET <= x
    BY <1>2, <1>9
  <2> QED  BY <1>2, <2>1, <2>2, PacketAssumption
<1> QED  BY <1>4, <1>10, <1>11 DEF r

\* To be carried over changes nothing but what is held.
LEMMA CarriedTwins ==
  ASSUME NEW r, IsScanner(r.s), NEW buf, NEW base, NEW found0
  PROVE  LET c == Carried(buf, base, found0, r)
         IN /\ c = [s |-> c.s, found |-> Cat(found0, r.found)]
            /\ Twins(r.s, c.s) /\ c.s.pos = base + r.at
<1> DEFINE v == r.s
           rest == SubSeq(buf, r.at + 1, Len(buf))
           u == [v EXCEPT !["carry"] = rest]
           place == base + r.at
           t == [u EXCEPT !["pos"] = place]
           c == Carried(buf, base, found0, r)
<1>1. IsScanner(v) /\ DOMAIN v = ScannerFields /\ {"carry", "pos"} \subseteq ScannerFields
  BY DEF IsScanner, ScannerFields
<1>2. c = [s |-> t, found |-> Cat(found0, r.found)]
  <2> HIDE DEF rest, place
  <2> QED  BY <1>1 DEF Carried, Cat, rest, place
<1> HIDE DEF v, rest, place
<1>3. IsScanner(u) /\ \A g \in ScannerFields \ {"carry"} : u[g] = v[g]
  BY <1>1, FieldSet
<1> HIDE DEF u
<1>4. IsScanner(t) /\ t.pos = place /\ \A g \in ScannerFields \ {"pos"} : t[g] = u[g]
  BY <1>1, <1>3, FieldSet
<1> HIDE DEF t
<1>5. Alike(v, t)
  BY <1>3, <1>4 DEF Alike, Aside
<1>6. t.handled = v.handled
  BY <1>3, <1>4 DEF ScannerFields
<1>7. Twins(v, t)
  BY <1>1, <1>4, <1>5, <1>6 DEF Twins
<1> HIDE DEF c
<1> QED  BY <1>2, <1>4, <1>7 DEF v, c, place

\* A scan whose rest is carried over.
LEMMA CarriedGoes ==
  ASSUME NEW j, IsScanner(j.s), j.found \in Seq(Marks), NEW base, NEW buf,
         NEW f \in Seq(Marks), NEW found0 \in Seq(Marks),
         NEW x, x = base + j.at,
         AsFar(j.s, Cat(Cat(f, found0), j.found), x),
         NEW r, r = Carried(buf, base, found0, j)
  PROVE  /\ r = [s |-> r.s, found |-> r.found]
         /\ AsFar(r.s, Cat(f, r.found), r.s.pos) /\ r.s.pos = x
<1>1. /\ r = [s |-> r.s, found |-> Cat(found0, j.found)]
      /\ Twins(j.s, r.s) /\ r.s.pos = x
  BY CarriedTwins
<1>2. r.found = Cat(found0, j.found)
  BY <1>1
<1>3. Cat(Cat(f, found0), j.found) = Cat(f, Cat(found0, j.found))
  BY CatAssociative
<1>4. AsFar(r.s, Cat(f, r.found), r.s.pos)
  BY <1>1, <1>2, <1>3, AsFarSame
<1> QED  BY <1>1, <1>2, <1>4

\* Wherever the chunks are cut, as much is taken as can be.
LEMMA FeedGoes ==
  ASSUME input \in Inputs, NEW e \in Nat, NEW n \in Nat, e + n <= input.len,
         NEW s, Holding(s, e), NEW f \in Seq(Marks), AsFar(s, f, s.pos),
         Clean => Reaches(s.pos, e)
  PROVE  LET r == Feed(s, Run(e, n))
         IN /\ r = [s |-> r.s, found |-> r.found]
            /\ AsFar(r.s, Cat(f, r.found), r.s.pos) /\ (Clean => Reaches(r.s.pos, e + n))
<1> DEFINE r == Feed(s, Run(e, n))
           end == e + n
<1>1. /\ IsScanner(s) /\ s.pos \in Nat /\ end \in Nat /\ e <= end
      /\ end <= input.len /\ s.pos + 0 = s.pos
  BY DEF Holding
<1>2. \/ \E m, stop : FeedsOnce(r, s, e, n, m, stop)
      \/ \E m, stop, from : FeedsTwice(r, s, e, n, m, stop, from)
  BY FeedIs
<1>3. Clean => Reaches(s.pos, end)
  <2> SUFFICES ASSUME Clean, NEW y \in Nat, y < s.pos, Free(y) PROVE y + PACKET <= end
    BY DEF Reaches
  <2>1. y + PACKET <= e
    BY DEF Reaches
  <2> QED  BY <1>1, <2>1, PacketAssumption
<1>4. <<>> \in Seq(Marks) /\ Cat(f, <<>>) = f
  BY CatFacts
<1> HIDE DEF r
<1>5. ASSUME NEW m \in Nat, NEW stop \in Nat, s.pos + m <= end
      PROVE  LET j == Scan(s, Run(s.pos, m), 0, stop, s.pos)
             IN /\ IsScanner(j.s) /\ j.found \in Seq(Marks)
                /\ AsFar(j.s, Cat(f, j.found), s.pos + j.at)
                /\ Clean => Reaches(s.pos + j.at, end)
  <2> DEFINE j == Scan(s, Run(s.pos, m), 0, stop, s.pos)
  <2>1. 0 \in 0..m
    OBVIOUS
  <2>2. Scanned(j, s, s.pos, m, 0, stop)
    BY <1>1, <2>1, ScanFacts
  <2> HIDE DEF end
  <2>3. AsFar(j.s, Cat(f, j.found), s.pos + j.at) /\ (Clean => Reaches(s.pos + j.at, end))
    BY <1>1, <1>3, <1>5, <2>1, ScanGoes
  <2> HIDE DEF j
  <2>4. IsScanner(j.s) /\ j.found \in Seq(Marks)
    BY <2>2 DEF Scanned, Follows, Rising
  <2> QED  BY <2>3, <2>4 DEF j
<1> HIDE DEF end
<1>6. ASSUME NEW m, NEW stop, FeedsOnce(r, s, e, n, m, stop)
      PROVE  /\ r = [s |-> r.s, found |-> r.found]
             /\ AsFar(r.s, Cat(f, r.found), r.s.pos) /\ (Clean => Reaches(r.s.pos, end))
  <2> DEFINE j == Scan(s, Run(s.pos, m), 0, stop, s.pos)
  <2>1. /\ r = Carried(Run(s.pos, m), s.pos, <<>>, j)
        /\ m \in Nat /\ stop \in Nat /\ s.pos + m <= end
    BY <1>1, <1>6 DEF FeedsOnce, end
  <2>2. /\ IsScanner(j.s) /\ j.found \in Seq(Marks)
        /\ AsFar(j.s, Cat(f, j.found), s.pos + j.at)
        /\ Clean => Reaches(s.pos + j.at, end)
    BY <1>5, <2>1
  <2> HIDE DEF j
  <2> DEFINE nothing == <<>>
  <2>3. /\ nothing \in Seq(Marks) /\ r = Carried(Run(s.pos, m), s.pos, nothing, j)
        /\ AsFar(j.s, Cat(Cat(f, nothing), j.found), s.pos + j.at)
    BY <1>4, <2>1, <2>2
  <2> HIDE DEF nothing
  <2>4. /\ r = [s |-> r.s, found |-> r.found]
        /\ AsFar(r.s, Cat(f, r.found), r.s.pos) /\ r.s.pos = s.pos + j.at
    BY <2>2, <2>3, CarriedGoes
  <2> QED  BY <2>2, <2>4
<1>7. ASSUME NEW m, NEW stop, NEW from, FeedsTwice(r, s, e, n, m, stop, from)
      PROVE  /\ r = [s |-> r.s, found |-> r.found]
             /\ AsFar(r.s, Cat(f, r.found), r.s.pos) /\ (Clean => Reaches(r.s.pos, end))
  <2> DEFINE j == Scan(s, Run(s.pos, m), 0, stop, s.pos)
             i == Scan(j.s, Run(e, n), from, n, e)
             g == Cat(f, j.found)
  <2>1. /\ r = Carried(Run(e, n), e, j.found, i)
        /\ m \in Nat /\ stop \in Nat /\ s.pos + m <= end
        /\ from \in 0..n /\ s.pos + j.at = e + from
    BY <1>7 DEF FeedsTwice, end
  <2>2. /\ IsScanner(j.s) /\ j.found \in Seq(Marks)
        /\ AsFar(j.s, g, s.pos + j.at)
        /\ Clean => Reaches(s.pos + j.at, end)
    BY <1>5, <2>1
  <2> HIDE DEF j
  <2>3. g \in Seq(Marks) /\ e + n <= end
    <3>1. e + n <= end
      BY <1>1 DEF end
    <3>2. g \in Seq(Marks)
      BY <2>2, CatFacts DEF g
    <3> QED  BY <3>1, <3>2
  <2> HIDE DEF g
  <2>4. AsFar(i.s, Cat(g, i.found), e + i.at) /\ (Clean => Reaches(e + i.at, end))
    <3>1. AsFar(j.s, g, e + from) /\ (Clean => Reaches(e + from, end))
      BY <2>1, <2>2
    <3> QED  BY <1>1, <2>1, <2>2, <2>3, <3>1, ScanGoes
  <2>5. Scanned(i, j.s, e, n, from, n)
    BY <2>1, <2>2, ScanFacts
  <2> HIDE DEF i
  <2>6. IsScanner(i.s) /\ i.found \in Seq(Marks)
    BY <2>5 DEF Scanned, Follows, Rising
  <2>7. AsFar(i.s, Cat(Cat(f, j.found), i.found), e + i.at)
    BY <2>4 DEF g
  <2>8. /\ r = [s |-> r.s, found |-> r.found]
        /\ AsFar(r.s, Cat(f, r.found), r.s.pos) /\ r.s.pos = e + i.at
    BY <2>1, <2>2, <2>6, <2>7, CarriedGoes
  <2> QED  BY <2>4, <2>8
<1> QED  BY <1>2, <1>6, <1>7 DEF r, end

-----------------------------------------------------------------------------
(* Replay: the chunks follow each other. *)

EndOf(c) == c.start + Len(c.data)

\* The chunks hold the stream up to e without a gap, none is empty, and each came
\* no earlier than the one before it and by time t.
Rows(c, e, t) ==
  /\ \A k \in 1..Len(c) : /\ c[k].data # <<>> /\ c[k].data = Run(c[k].start, Len(c[k].data))
                          /\ EndOf(c[k]) <= e /\ c[k].at <= t
  /\ \A j, k \in 1..Len(c) : j < k => EndOf(c[j]) <= c[k].start /\ c[j].at <= c[k].at
  /\ \A k \in 1..(Len(c) - 1) : EndOf(c[k]) = c[k + 1].start
  /\ c # <<>> => EndOf(c[Len(c)]) = e

LEMMA PieceFacts ==
  ASSUME NEW c \in Seq(Pieces), NEW k \in 1..Len(c)
  PROVE  /\ c[k].at \in Nat /\ c[k].start \in Nat /\ c[k].data \in Seq(Nat)
         /\ Len(c[k].data) \in Nat /\ EndOf(c[k]) \in Nat
          /\ EndOf(c[k]) = c[k].start + Len(c[k].data)
<1>1. c[k] \in Pieces
  BY ElementOfSeq
<1>2. c[k].at \in Nat /\ c[k].start \in Nat /\ c[k].data \in Seq(Nat)
  BY <1>1 DEF Pieces
<1>3. Len(c[k].data) \in Nat
  BY <1>2, LenProperties
<1> QED  BY <1>2, <1>3 DEF EndOf

LEMMA RowsGrow ==
  ASSUME NEW c \in Seq(Pieces), NEW e \in Nat, NEW n \in Nat \ {0}, NEW t \in Nat,
         Rows(c, e, t), NEW x, x = [at |-> t, start |-> e, data |-> Run(e, n)]
  PROVE  Rows(Append(c, x), e + n, t)
<1> DEFINE g == Append(c, x)
           l == Len(c)
<1>1. /\ x.at = t /\ x.start = e /\ x.data = Run(e, n) /\ Len(x.data) = n /\ EndOf(x) = e + n
      /\ x \in Pieces /\ x.data # <<>>
  <2>1. Run(e, n) \in Seq(Nat) /\ Len(Run(e, n)) = n
    <3>1. n \in Nat
      OBVIOUS
    <3> QED  BY <3>1, RunFacts
  <2>2. x.at = t /\ x.start = e /\ x.data = Run(e, n)
    OBVIOUS
  <2>3. x \in Pieces
    BY <2>1 DEF Pieces
  <2>4. Run(e, n) # <<>>
    <3>1. Len(<<>>) = 0
      BY EmptySeq
    <3> QED  BY <2>1, <3>1
  <2> QED  BY <2>1, <2>2, <2>3, <2>4 DEF EndOf
<1>2. /\ l \in Nat /\ g \in Seq(Pieces) /\ Len(g) = l + 1 /\ g[l + 1] = x
      /\ \A i \in 1..l : g[i] = c[i]
  BY <1>1, AppendProperties, LenProperties
<1> HIDE DEF g, l
<1>3. ASSUME NEW i \in 1..l
      PROVE  /\ g[i] = c[i] /\ c[i].at \in Nat /\ c[i].start \in Nat /\ EndOf(c[i]) \in Nat
             /\ c[i].data # <<>> /\ c[i].data = Run(c[i].start, Len(c[i].data))
             /\ EndOf(c[i]) <= e /\ c[i].at <= t
  BY <1>2, PieceFacts DEF Rows, l
<1>4. ASSUME NEW i \in 1..Len(g)
      PROVE  i \in 1..l \/ (i = l + 1 /\ g[i] = x)
  BY <1>2
<1>5. ASSUME NEW i \in 1..Len(g)
      PROVE  /\ g[i].data # <<>> /\ g[i].data = Run(g[i].start, Len(g[i].data))
             /\ EndOf(g[i]) <= e + n /\ g[i].at <= t
  <2>1. CASE i \in 1..l
    BY <1>3, <2>1
  <2>2. CASE g[i] = x
    BY <1>1, <2>2
  <2> QED  BY <1>4, <2>1, <2>2
<1>6. ASSUME NEW i \in 1..Len(g), NEW j \in 1..Len(g), i < j
      PROVE  EndOf(g[i]) <= g[j].start /\ g[i].at <= g[j].at
  <2>1. i \in 1..l
    BY <1>2, <1>6
  <2>2. CASE j \in 1..l
    BY <1>2, <1>6, <2>1, <2>2 DEF Rows, l
  <2>3. CASE g[j] = x
    BY <1>1, <1>3, <2>1, <2>3
  <2> QED  BY <1>4, <2>2, <2>3
<1>7. ASSUME NEW i \in 1..(Len(g) - 1)
      PROVE  EndOf(g[i]) = g[i + 1].start
  <2>1. i \in 1..l
    BY <1>2
  <2>2. CASE i = l
    <3>1. c # <<>>
      <4>1. Len(<<>>) = 0
        BY EmptySeq
      <4> QED  BY <1>2, <2>1, <4>1 DEF l
    <3>2. EndOf(c[l]) = e
      BY <3>1 DEF Rows, l
    <3> QED  BY <1>1, <1>2, <2>1, <2>2, <3>2
  <2>3. CASE i # l
    <3>1. i \in 1..(l - 1) /\ i + 1 \in 1..l
      BY <1>2, <2>1, <2>3
    <3>2. EndOf(c[i]) = c[i + 1].start
      BY <3>1 DEF Rows, l
    <3> QED  BY <1>2, <2>1, <3>1, <3>2
  <2> QED  BY <2>2, <2>3
<1>8. EndOf(g[Len(g)]) = e + n
  BY <1>1, <1>2
<1>9. Rows(g, e + n, t)
  BY <1>5, <1>6, <1>7, <1>8 DEF Rows
<1> QED  BY <1>9 DEF g

LEMMA RowsLeft ==
  ASSUME NEW c \in Seq(Pieces), NEW e, NEW t, Rows(c, e, t), NEW k \in 1..Len(c)
  PROVE  Rows(From(c, k), e, t)
<1> DEFINE f == From(c, k)
<1>1. /\ Len(c) \in Nat /\ f \in Seq(Pieces) /\ Len(f) = Len(c) - k + 1
      /\ \A i \in 1..(Len(c) - k + 1) : f[i] = c[k + i - 1]
  BY FromFacts
<1> HIDE DEF f
<1>2. ASSUME NEW i \in 1..Len(f)
      PROVE  k + i - 1 \in 1..Len(c) /\ f[i] = c[k + i - 1]
  <2>1. i \in 1..(Len(c) - k + 1) /\ k + i - 1 \in 1..Len(c)
    BY <1>1
  <2> QED  BY <1>1, <2>1
<1>3. ASSUME NEW i \in 1..Len(f), NEW j \in 1..Len(f), i < j
      PROVE  EndOf(f[i]) <= f[j].start /\ f[i].at <= f[j].at
  <2>1. k + i - 1 < k + j - 1
    BY <1>1, <1>3
  <2> QED  BY <1>2, <2>1 DEF Rows
<1>4. ASSUME NEW i \in 1..(Len(f) - 1)
      PROVE  EndOf(f[i]) = f[i + 1].start
  <2>1. /\ i \in 1..Len(f) /\ i + 1 \in 1..Len(f) /\ k + i - 1 \in 1..(Len(c) - 1)
        /\ k + (i + 1) - 1 = (k + i - 1) + 1
    BY <1>1
  <2>2. f[i] = c[k + i - 1] /\ f[i + 1] = c[(k + i - 1) + 1]
    BY <1>2, <2>1
  <2>3. EndOf(c[k + i - 1]) = c[(k + i - 1) + 1].start
    BY <2>1 DEF Rows
  <2> QED  BY <2>2, <2>3
<1>5. EndOf(f[Len(f)]) = e
  <2>1. Len(f) \in 1..Len(f) /\ k + Len(f) - 1 = Len(c)
    BY <1>1
  <2>2. c # <<>>
    <3>1. Len(<<>>) = 0
      BY EmptySeq
    <3> QED  BY <1>1, <3>1
  <2>3. f[Len(f)] = c[Len(c)]
    BY <1>2, <2>1
  <2> QED  BY <2>2, <2>3 DEF Rows
<1>6. Rows(f, e, t)
  BY <1>2, <1>3, <1>4, <1>5 DEF Rows
<1> QED  BY <1>6 DEF f

LEMMA RowsLater ==
  ASSUME NEW c \in Seq(Pieces), NEW e, NEW t \in Nat, NEW u \in Nat, t <= u, Rows(c, e, t)
  PROVE  Rows(c, e, u)
<1>1. \A k \in 1..Len(c) : c[k].at \in Nat
  BY PieceFacts
<1> QED  BY <1>1 DEF Rows

-----------------------------------------------------------------------------
(* Replay: the keyframes that are kept are the last of those found. *)

\* kfs is f without its first d.
After(kfs, f, d) ==
  /\ d \in 0..Len(f) /\ kfs \in Seq(Marks) /\ Len(kfs) = Len(f) - d
  /\ \A k \in 1..Len(kfs) : kfs[k] = f[d + k]

\* kfs are those of f that are at the floor or later.
KeptOf(kfs, f, floor) ==
  \E d \in 0..Len(f) : /\ After(kfs, f, d)
                       /\ \A k \in 1..d : f[k].at < floor
                       /\ \A k \in 1..Len(kfs) : kfs[k].at >= floor

LEMMA AfterGrows ==
  ASSUME NEW kfs, NEW f \in Seq(Marks), NEW g \in Seq(Marks), NEW d, After(kfs, f, d)
  PROVE  After(Cat(kfs, g), Cat(f, g), d) /\ \A k \in 1..d : Cat(f, g)[k] = f[k]
<1> DEFINE h == Cat(kfs, g)
           i == Cat(f, g)
<1>1. /\ d \in 0..Len(f) /\ kfs \in Seq(Marks) /\ Len(kfs) = Len(f) - d
      /\ \A k \in 1..Len(kfs) : kfs[k] = f[d + k]
  BY DEF After
<1>2. /\ h \in Seq(Marks) /\ Len(h) = Len(kfs) + Len(g)
      /\ i \in Seq(Marks) /\ Len(i) = Len(f) + Len(g)
  BY <1>1, CatFacts
<1>3. /\ Len(kfs) \in Nat /\ Len(g) \in Nat /\ Len(f) \in Nat
      /\ \A k \in 1..Len(kfs) : h[k] = kfs[k]
      /\ \A k \in 1..Len(g) : h[Len(kfs) + k] = g[k]
  <2>1. kfs \in Seq(Marks)
    BY <1>1
  <2> QED  BY <2>1, CatNth, LenProperties
<1>4. /\ \A k \in 1..Len(f) : i[k] = f[k]
      /\ \A k \in 1..Len(g) : i[Len(f) + k] = g[k]
  BY CatNth
<1> HIDE DEF h, i
<1>5. ASSUME NEW k \in 1..Len(h)
      PROVE  h[k] = i[d + k]
  <2>1. CASE k <= Len(kfs)
    <3>1. k \in 1..Len(kfs) /\ d + k \in 1..Len(f)
      BY <1>1, <1>3, <2>1
    <3> QED  BY <1>1, <1>3, <1>4, <3>1
  <2>2. CASE ~(k <= Len(kfs))
    <3> DEFINE j == k - Len(kfs)
    <3>1. j \in 1..Len(g) /\ k = Len(kfs) + j /\ d + k = Len(f) + j
      BY <1>1, <1>2, <1>3, <2>2
    <3> HIDE DEF j
    <3> QED  BY <1>3, <1>4, <3>1
  <2> QED  BY <2>1, <2>2
<1>6. d \in 0..Len(i) /\ Len(h) = Len(i) - d
  BY <1>1, <1>2, <1>3
<1>7. After(h, i, d)
  BY <1>2, <1>5, <1>6 DEF After
<1>8. \A k \in 1..d : i[k] = f[k]
  <2>1. \A k \in 1..d : k \in 1..Len(f)
    BY <1>1, <1>3
  <2> QED  BY <1>4, <2>1
<1> QED  BY <1>7, <1>8 DEF h, i

LEMMA KeptFacts ==
  ASSUME NEW floor \in Nat, NEW h, NEW f, NEW lo, NEW hi, Rising(f, lo, hi),
         NEW d, After(h, f, d), \A k \in 1..d : f[k].at < floor
  PROVE  KeptOf(Kept(h, floor), f, floor)
<1> DEFINE I == {i \in 1..Len(h) : h[i].at >= floor}
<1>1. /\ Len(f) \in Nat /\ Len(h) \in Nat /\ d \in 0..Len(f) /\ h \in Seq(Marks)
      /\ Len(h) = Len(f) - d /\ f \in Seq(Marks)
      /\ \A k \in 1..Len(h) : h[k] = f[d + k] /\ d + k \in 1..Len(f)
  <2>1. /\ d \in 0..Len(f) /\ h \in Seq(Marks) /\ Len(h) = Len(f) - d /\ f \in Seq(Marks)
        /\ \A k \in 1..Len(h) : h[k] = f[d + k]
    BY DEF After, Rising
  <2>2. Len(f) \in Nat /\ Len(h) \in Nat
    BY <2>1, LenProperties
  <2>3. \A k \in 1..Len(h) : d + k \in 1..Len(f)
    BY <2>1, <2>2
  <2> QED  BY <2>1, <2>2, <2>3
<1>2. \A k \in 1..Len(f) : f[k].at \in Nat
  BY <1>1, ElementOfSeq, MarksTyped
<1>3. CASE I = {}
  <2>1. Kept(h, floor) = <<>>
    BY <1>3 DEF Kept, SelectInSeq
  <2>2. ASSUME NEW k \in 1..Len(f)
        PROVE  f[k].at < floor
    <3>1. CASE k <= d
      <4>1. k \in 1..d
        BY <1>1, <3>1
      <4> QED  BY <4>1
    <3>2. CASE ~(k <= d)
      <4> DEFINE j == k - d
      <4>1. j \in 1..Len(h) /\ d + j = k
        BY <1>1, <3>2
      <4> HIDE DEF j
      <4>2. h[j] = f[k] /\ ~(h[j].at >= floor)
        BY <1>1, <1>3, <4>1
      <4> QED  BY <1>2, <4>2
    <3> QED  BY <3>1, <3>2
  <2>3. After(<<>>, f, Len(f)) /\ Len(f) \in 0..Len(f) /\ 1..Len(<<>>) = {}
    <3>1. <<>> \in Seq(Marks) /\ Len(<<>>) = 0 /\ 1..0 = {} /\ Len(f) - Len(f) = 0
          /\ Len(f) \in 0..Len(f)
      BY <1>1, EmptySeq
    <3>2. 1..Len(<<>>) = {}
      BY <3>1
    <3>3. \A k \in 1..Len(<<>>) : <<>>[k] = f[Len(f) + k]
      BY <3>2
    <3> QED  BY <3>1, <3>2, <3>3 DEF After
  <2> QED  BY <2>1, <2>2, <2>3 DEF KeptOf
<1>4. CASE I # {}
  <2> DEFINE m == Min(I)
  <2>1. m \in I /\ \A i \in I : m <= i
    <3>1. I \in SUBSET Nat
      BY <1>1
    <3>2. \E a \in I : \A i \in I : a <= i
      <4> HIDE DEF I
      <4> QED  BY <1>4, <3>1, Least
    <3> HIDE DEF I
    <3> QED  BY <3>2 DEF Min
  <2>2. Kept(h, floor) = From(h, m)
    <3>1. m # 0
      BY <1>1, <2>1
    <3> QED  BY <1>4, <3>1 DEF Kept, SelectInSeq, From
  <2>3. m \in 1..Len(h) /\ h[m].at >= floor
    BY <2>1
  <2>4. ASSUME NEW k \in 1..Len(h), k < m
        PROVE  h[k].at < floor
    <3>1. ~(h[k].at >= floor)
      <4>1. k \notin I
        <5> HIDE DEF I
        <5> QED  BY <1>1, <2>1, <2>3, <2>4
      <4> QED  BY <4>1
    <3>2. h[k].at \in Nat
      BY <1>1, <1>2
    <3> QED  BY <3>1, <3>2
  <2> HIDE DEF m, I
  <2> DEFINE r == From(h, m)
             e == d + m - 1
  <2>5. /\ r \in Seq(Marks) /\ Len(r) = Len(h) - m + 1
        /\ \A i \in 1..(Len(h) - m + 1) : r[i] = h[m + i - 1]
    <3>1. h \in Seq(Marks) /\ m \in 1..Len(h)
      BY <1>1, <2>3
    <3> QED  BY <3>1, FromFacts
  <2> HIDE DEF r
  <2>6. e \in 0..Len(f) /\ Len(r) = Len(f) - e /\ e = d + m - 1
    BY <1>1, <2>3, <2>5
  <2> HIDE DEF e
  <2>7. ASSUME NEW i \in 1..Len(r)
        PROVE  r[i] = f[e + i] /\ r[i].at >= floor
    <3> DEFINE j == m + i - 1
    <3>1. j \in 1..Len(h) /\ i \in 1..(Len(h) - m + 1) /\ d + j = e + i /\ m <= j
      BY <1>1, <2>3, <2>5, <2>6
    <3>2. r[i] = h[j]
      BY <2>5, <3>1
    <3> HIDE DEF j
    <3>3. h[j] = f[d + j] /\ d + j \in 1..Len(f) /\ h[m] = f[d + m] /\ d + m \in 1..Len(f)
      BY <1>1, <2>3, <3>1
    <3>4. f[d + m].at <= f[d + j].at
      <4>1. CASE m = j
        BY <1>2, <3>3, <4>1
      <4>2. CASE m # j
        <5>1. d + m < d + j
          BY <1>1, <2>3, <3>1, <4>2
        <5>2. f[d + m].at < f[d + j].at
          BY <3>3, <5>1 DEF Rising
        <5> QED  BY <1>2, <3>3, <5>2
      <4> QED  BY <4>1, <4>2
    <3>5. r[i] = f[e + i]
      BY <3>1, <3>2, <3>3
    <3>6. f[d + m].at >= floor /\ f[d + m].at \in Nat /\ f[d + j].at \in Nat
      BY <1>2, <2>3, <3>3
    <3>7. f[d + j].at >= floor
      BY <3>4, <3>6
    <3> QED  BY <3>2, <3>3, <3>5, <3>7
  <2>8. ASSUME NEW k \in 1..e
        PROVE  f[k].at < floor
    <3>1. CASE k <= d
      <4>1. k \in 1..d
        BY <1>1, <3>1
      <4> QED  BY <4>1
    <3>2. CASE ~(k <= d)
      <4> DEFINE j == k - d
      <4>1. j \in 1..Len(h) /\ d + j = k /\ j < m
        BY <1>1, <2>3, <2>6, <3>2
      <4> HIDE DEF j
      <4> QED  BY <1>1, <2>4, <4>1
    <3> QED  BY <3>1, <3>2
  <2>9. After(r, f, e)
    BY <2>5, <2>6, <2>7 DEF After
  <2>10. KeptOf(r, f, floor)
    BY <2>6, <2>7, <2>8, <2>9 DEF KeptOf
  <2> QED  BY <2>2, <2>10 DEF r
<1> QED  BY <1>3, <1>4

-----------------------------------------------------------------------------
(* Replay: what is read from the window. *)

Later(i, j) == IF i <= j THEN j ELSE i

\* What a chunk holds after the first off bytes of the stream.
CutFrom(c, off) ==
  SubSeq(c.data, 1 + (IF off > c.start THEN off - c.start ELSE 0), Len(c.data))

LEMMA CutIs ==
  ASSUME NEW c \in Pieces, c.data = Run(c.start, Len(c.data)), NEW off \in Nat
  PROVE  CutFrom(c, off) = Run(Later(off, c.start), Later(off, EndOf(c)) - Later(off, c.start))
<1> DEFINE s == c.start
           l == Len(c.data)
<1>1. s \in Nat /\ l \in Nat /\ c.data = Run(s, l) /\ EndOf(c) = s + l
  BY LenProperties DEF Pieces, EndOf
<1> HIDE DEF s, l
<1>2. CutFrom(c, off) = SubSeq(Run(s, l), 1 + (IF off > s THEN off - s ELSE 0), l)
  BY <1>1 DEF CutFrom, s, l
<1>3. CASE off > s + l
  <2>1. Later(off, s + l) = off /\ Later(off, s) = off /\ off > s
    BY <1>1, <1>3 DEF Later
  <2>2. 1 + (off - s) \in Int /\ l \in Int /\ l < 1 + (off - s)
    BY <1>1, <1>3
  <2>3. SubSeq(Run(s, l), 1 + (off - s), l) = <<>>
    BY <2>2, SubSeqEmpty
  <2>4. Run(off, off - off) = <<>>
    <3>1. off - off = 0
      OBVIOUS
    <3>2. Run(off, 0) \in Seq(Nat) /\ Len(Run(off, 0)) = 0
      BY RunFacts
    <3> QED  BY <3>1, <3>2, EmptySeq
  <2>5. CutFrom(c, off) = <<>>
    BY <1>2, <2>1, <2>3
  <2> QED  BY <1>1, <2>1, <2>4, <2>5 DEF s
<1>4. CASE off <= s + l
  <2> DEFINE a == IF off > s THEN off - s ELSE 0
  <2>1. a \in 0..l /\ Later(off, s) = s + a /\ Later(off, s + l) = s + l
        /\ (s + l) - (s + a) = l - a /\ 1 + a = a + 1
    BY <1>1, <1>4 DEF Later
  <2>2. CutFrom(c, off) = SubSeq(Run(s, l), 1 + a, l)
    BY <1>2
  <2> HIDE DEF a
  <2>3. SubSeq(Run(s, l), a + 1, l) = Run(s + a, l - a)
    BY <1>1, <2>1, RunFrom
  <2>4. EndOf(c) = s + l /\ c.start = s
    BY <1>1 DEF s
  <2> QED  BY <2>1, <2>2, <2>3, <2>4
<1>5. off > s + l \/ off <= s + l
  BY <1>1
<1> QED  BY <1>3, <1>4, <1>5

LEMMA FloorFacts ==
  ASSUME NEW c \in Seq(Pieces), NEW e \in Nat, NEW t, Rows(c, e, t)
  PROVE  /\ Floor(c, e) \in Nat /\ Floor(c, e) <= e /\ Len(c) \in Nat
         /\ \A k \in 1..Len(c) : Floor(c, e) <= c[k].start /\ 1 \in 1..Len(c)
         /\ Len(c) > 0 => Floor(c, e) = c[1].start
<1>1. Len(c) \in Nat /\ (c = <<>> <=> Len(c) = 0)
  BY LenProperties, EmptySeq
<1>2. CASE c = <<>>
  BY <1>1, <1>2 DEF Floor
<1>3. CASE c # <<>>
  <2>1. 1 \in 1..Len(c) /\ Floor(c, e) = c[1].start
    BY <1>1, <1>3 DEF Floor
  <2>2. c[1].start \in Nat /\ Len(c[1].data) \in Nat /\ EndOf(c[1]) = c[1].start + Len(c[1].data)
    BY <2>1, PieceFacts
  <2>3. EndOf(c[1]) <= e
    BY <2>1 DEF Rows
  <2>4. c[1].start <= EndOf(c[1]) /\ EndOf(c[1]) \in Nat
    BY <2>2
  <2>5. ASSUME NEW k \in 1..Len(c)
        PROVE  c[1].start <= c[k].start
    <3>1. CASE k = 1
      BY <2>2, <3>1
    <3>2. CASE k # 1
      <4>1. 1 < k /\ c[k].start \in Nat
        BY <1>1, <3>2, PieceFacts
      <4>2. EndOf(c[1]) <= c[k].start
        BY <2>1, <4>1 DEF Rows
      <4> QED  BY <2>2, <2>4, <4>1, <4>2
    <3> QED  BY <3>1, <3>2
  <2> QED  BY <1>1, <2>1, <2>2, <2>3, <2>4, <2>5
<1> QED  BY <1>2, <1>3

LEMMA BytesFromIs ==
  ASSUME chunks \in Seq(Pieces), NEW e \in Nat, NEW t, Rows(chunks, e, t),
         NEW off \in Nat, Floor(chunks, e) <= off, off <= e
  PROVE  BytesFrom(off) = Run(off, e - off)
<1> DEFINE C == [data : Seq(Nat)]
           cs == [k \in DOMAIN chunks |-> [data |-> CutFrom(chunks[k], off)]]
           l == Len(chunks)
           Upto(k) == IF k = 0 THEN off ELSE Later(off, EndOf(chunks[k]))
           Reads(k) == AllData(SubSeq(cs, 1, k)) = Run(off, Upto(k) - off)
           T == {k \in Nat : k <= l => Reads(k)}
<1>1. BytesFrom(off) = AllData(cs)
  BY DataIs DEF BytesFrom, CutFrom
<1>2. l \in Nat /\ DOMAIN chunks = 1..l
  BY LenProperties
<1>3. ASSUME NEW k \in 1..l
      PROVE  /\ chunks[k] \in Pieces /\ chunks[k].start \in Nat /\ EndOf(chunks[k]) \in Nat
             /\ chunks[k].start <= EndOf(chunks[k]) /\ EndOf(chunks[k]) <= e
             /\ CutFrom(chunks[k], off)
                  = Run(Later(off, chunks[k].start),
                        Later(off, EndOf(chunks[k])) - Later(off, chunks[k].start))
  <2>1. chunks[k] \in Pieces
    BY <1>3, ElementOfSeq
  <2>2. chunks[k].data = Run(chunks[k].start, Len(chunks[k].data)) /\ EndOf(chunks[k]) <= e
    BY <1>3 DEF Rows
  <2>3. /\ chunks[k].start \in Nat /\ Len(chunks[k].data) \in Nat
        /\ EndOf(chunks[k]) \in Nat /\ EndOf(chunks[k]) = chunks[k].start + Len(chunks[k].data)
    BY <1>3, PieceFacts
  <2>4. chunks[k].start <= EndOf(chunks[k])
    BY <2>3
  <2> QED  BY <2>1, <2>2, <2>3, <2>4, CutIs
<1>4. ASSUME NEW k \in 1..l
      PROVE  /\ Later(off, chunks[k].start) \in Nat /\ Later(off, EndOf(chunks[k])) \in Nat
             /\ Later(off, chunks[k].start) <= Later(off, EndOf(chunks[k]))
             /\ off <= Later(off, chunks[k].start)
             /\ CutFrom(chunks[k], off) \in Seq(Nat)
  <2>1. /\ Later(off, chunks[k].start) \in Nat /\ Later(off, EndOf(chunks[k])) \in Nat
        /\ Later(off, chunks[k].start) <= Later(off, EndOf(chunks[k]))
        /\ off <= Later(off, chunks[k].start)
    BY <1>3 DEF Later
  <2>2. Later(off, EndOf(chunks[k])) - Later(off, chunks[k].start) \in Nat
    BY <2>1
  <2>3. CutFrom(chunks[k], off) \in Seq(Nat)
    BY <1>3, <2>1, <2>2, RunFacts
  <2> QED  BY <2>1, <2>3
<1>5. Holds(C, Nat)
  BY DEF Holds
<1>6. cs \in Seq(C) /\ Len(cs) = l /\ \A k \in 1..l : cs[k].data = CutFrom(chunks[k], off)
  <2>1. cs = [k \in 1..l |-> [data |-> CutFrom(chunks[k], off)]]
    BY <1>2
  <2>2. \A k \in 1..l : [data |-> CutFrom(chunks[k], off)] \in C
    BY <1>4
  <2> HIDE DEF C, cs
  <2>3. cs \in [1..l -> C]
    BY <2>1, <2>2
  <2>4. cs \in Seq(C) /\ Len(cs) = l
    BY <1>2, <2>1, <2>3
  <2>5. \A k \in 1..l : cs[k] = [data |-> CutFrom(chunks[k], off)]
    BY <2>1
  <2>6. \A k \in 1..l : cs[k].data = CutFrom(chunks[k], off)
    <3>1. ASSUME NEW x
          PROVE  [data |-> x].data = x
      OBVIOUS
    <3> HIDE DEF l
    <3> QED  BY <2>5, <3>1
  <2> QED  BY <2>4, <2>6
<1> HIDE DEF C, cs
<1>7. 0 \in T
  <2>1. SubSeq(cs, 1, 0) = <<>>
    BY SubSeqEmpty
  <2>2. AllData(<<>>) = <<>>
    BY DataEmpty
  <2>3. Run(off, off - off) = <<>>
    <3>1. off - off = 0
      OBVIOUS
    <3>2. Run(off, 0) \in Seq(Nat) /\ Len(Run(off, 0)) = 0
      BY RunFacts
    <3> QED  BY <3>1, <3>2, EmptySeq
  <2> QED  BY <2>1, <2>2, <2>3
<1>8. ASSUME NEW k \in Nat, k \in T, k + 1 <= l
      PROVE  Reads(k + 1)
  <2> DEFINE i == k + 1
  <2>1. i \in 1..l /\ i - 1 = k /\ k <= l
    BY <1>2, <1>8
  <2>2. SubSeq(cs, 1, i) = Append(SubSeq(cs, 1, k), cs[i]) /\ SubSeq(cs, 1, k) \in Seq(C)
        /\ cs[i] \in C
    <3>1. 1 \in 1..Len(cs) /\ i \in 1..Len(cs) /\ cs[i] \in C
      BY <1>2, <1>6, <2>1, ElementOfSeq
    <3>2. SubSeq(cs, 1, i) = SubSeq(cs, 1, i - 1) \o <<cs[i]>>
      BY <1>6, <3>1, SubSeqRecursiveSecond
    <3>3. SubSeq(cs, 1, k) \in Seq(C)
      <4>1. 1 \in Int /\ k \in Int /\ \A q \in 1..k : q \in 1..Len(cs)
        BY <1>6, <2>1
      <4>2. \A q \in 1..k : cs[q] \in C
        BY <1>6, <4>1, ElementOfSeq
      <4> QED  BY <4>1, <4>2, SubSeqProperties
    <3> HIDE DEF i
    <3> QED  BY <2>1, <3>1, <3>2, <3>3, AppendIsConcat
  <2>3. AllData(SubSeq(cs, 1, i)) = Cat(AllData(SubSeq(cs, 1, k)), CutFrom(chunks[i], off))
    <3>1. AllData(Append(SubSeq(cs, 1, k), cs[i])) = Cat(AllData(SubSeq(cs, 1, k)), cs[i].data)
      <4>1. Holds(C, Nat) /\ SubSeq(cs, 1, k) \in Seq(C) /\ cs[i] \in C
        BY <1>5, <2>2
      <4> DEFINE a == SubSeq(cs, 1, k)
                 x == cs[i]
      <4>2. Holds(C, Nat) /\ a \in Seq(C) /\ x \in C
        BY <4>1
      <4> HIDE DEF i, a, x
      <4>3. AllData(Append(a, x)) = Cat(AllData(a), x.data)
        BY <4>2, DataAppend
      <4> QED  BY <4>3 DEF a, x
    <3> QED  BY <1>6, <2>1, <2>2, <3>1
  <2>4. AllData(SubSeq(cs, 1, k)) = Run(off, Upto(k) - off)
    BY <1>8, <2>1
  <2>5. Upto(k) = Later(off, chunks[i].start)
    <3>1. CASE k = 0
      <4>1. chunks[1].start <= off
        <5>1. l > 0
          BY <1>2, <2>1
        <5> QED  BY <5>1, FloorFacts
      <4>2. chunks[1].start \in Nat
        BY <1>3, <2>1, <3>1
      <4> QED  BY <3>1, <4>1, <4>2 DEF Later
    <3>2. CASE k # 0
      <4>1. k \in 1..(Len(chunks) - 1)
        BY <1>2, <2>1, <3>2
      <4>2. EndOf(chunks[k]) = chunks[k + 1].start
        BY <4>1 DEF Rows
      <4> QED  BY <3>2, <4>2
    <3> QED  BY <3>1, <3>2
  <2> DEFINE a == Later(off, chunks[i].start)
             b == Later(off, EndOf(chunks[i]))
  <2>6. a \in Nat /\ b \in Nat /\ a <= b /\ off <= a /\ CutFrom(chunks[i], off) = Run(a, b - a)
    BY <1>3, <1>4, <2>1
  <2>7. Upto(i) = b
    BY <2>1
  <2> HIDE DEF a, b, Upto, i
  <2>8. Cat(Run(off, a - off), Run(a, b - a)) = Run(off, b - off)
    <3>1. a - off \in Nat /\ b - a \in Nat /\ off + (a - off) = a /\ (a - off) + (b - a) = b - off
      BY <2>6
    <3>2. Cat(Run(off, a - off), Run(off + (a - off), b - a)) = Run(off, (a - off) + (b - a))
      BY <3>1, RunsJoin
    <3> QED  BY <3>1, <3>2
  <2>9. Upto(k) = a
    BY <2>5 DEF a
  <2> QED  BY <2>3, <2>4, <2>6, <2>7, <2>8, <2>9 DEF i
<1>9. \A k \in Nat : k \in T => k + 1 \in T
  BY <1>8
<1> HIDE DEF T
<1>10. \A k \in Nat : k \in T
  BY <1>7, <1>9, SetInduction
<1>11. Reads(l)
  <2>1. l \in T /\ l <= l
    BY <1>2, <1>10
  <2> QED  BY <2>1 DEF T
<1>12. SubSeq(cs, 1, l) = cs
  BY <1>6, SubSeqFull
<1>13. Upto(l) = e
  <2>1. CASE l = 0
    <3>1. chunks = <<>>
      BY <2>1, EmptySeq
    <3>2. off = e
      BY <3>1 DEF Floor
    <3> QED  BY <2>1, <3>2
  <2>2. CASE l # 0
    <3>1. chunks # <<>>
      BY <2>2, EmptySeq
    <3>2. EndOf(chunks[l]) = e
      BY <3>1 DEF Rows
    <3> QED  BY <2>2, <3>2 DEF Later
  <2> QED  BY <2>1, <2>2
<1> QED  BY <1>1, <1>11, <1>12, <1>13

-----------------------------------------------------------------------------
(* Replay: the window, its scanner and its keyframes belong together. *)

ReplayInv ==
  /\ WindowInv
  /\ input \in Inputs /\ head <= input.len /\ now <= MaxTime
  /\ Holding(scanner, head)
  /\ Rising(found, 0, scanner.pos)
  /\ Rows(chunks, head, now)
  /\ KeptOf(keyframes, found, Floor(chunks, head))
  /\ latest_pts_at \in 0..now \cup {None}
  /\ (latest_pts_at = None) = (scanner.latest_video_pts = None)

LEMMA ReplayBegins == Init => ReplayInv
<1> SUFFICES ASSUME Init PROVE ReplayInv
  OBVIOUS
<1>1. /\ WindowInv /\ input \in Inputs /\ head = 0 /\ now = 0 /\ chunks = <<>>
      /\ keyframes = <<>> /\ found = <<>> /\ scanner = NewScanner /\ latest_pts_at = None
  BY WindowInit DEF Init
<1>2. head <= input.len /\ now <= MaxTime /\ head \in Nat
  BY <1>1, InputAssumption, WindowAssumption
<1>3. Run(0, 0) = <<>> /\ <<>> \in Seq(Marks) /\ Len(<<>>) = 0 /\ 1..0 = {}
  <2>1. Run(0, 0) \in Seq(Nat) /\ Len(Run(0, 0)) = 0
    BY RunFacts
  <2> QED  BY <2>1, EmptySeq
<1>4. Holding(scanner, head)
  <2>1. IsScanner(scanner) /\ scanner.pos = 0 /\ scanner.carry = <<>>
    BY <1>1 DEF IsScanner, ScannerFields, NewScanner
  <2>2. 0 - 0 = 0 /\ 0 < PACKET
    BY PacketAssumption
  <2> QED  BY <1>1, <1>3, <2>1, <2>2 DEF Holding
<1>5. Rising(found, 0, scanner.pos)
  BY <1>1, NoneRises
<1>6. Rows(chunks, head, now)
  <2>1. 1..Len(<<>>) = {} /\ 1..(Len(<<>>) - 1) = {}
    BY <1>3
  <2> QED  BY <1>1, <2>1 DEF Rows
<1>7. KeptOf(keyframes, found, Floor(chunks, head))
  <2>1. 0 \in 0..Len(<<>>) /\ 1..Len(<<>>) = {} /\ Len(<<>>) = Len(<<>>) - 0
    BY <1>3
  <2>2. After(<<>>, <<>>, 0)
    BY <1>3, <2>1 DEF After
  <2> QED  BY <1>1, <1>3, <2>1, <2>2 DEF KeptOf
<1>8. scanner.latest_video_pts = None
  BY <1>1 DEF NewScanner
<1> QED  BY <1>1, <1>2, <1>4, <1>5, <1>6, <1>7, <1>8 DEF ReplayInv

\* A push, in terms of what was there.
LEMMA PushIs ==
  ASSUME ReplayInv, NEW n \in Sizes, Push(n)
  PROVE  LET given == Feed(scanner, Run(head, n))
             x == [at |-> now, start |-> head, data |-> Run(head, n)]
             g == Append(chunks, x)
         IN /\ n \in Nat \ {0} /\ head \in Nat /\ now \in Nat /\ head + n <= input.len
            /\ x \in Pieces /\ g \in Seq(Pieces)
            /\ scanner' = given.s /\ found' = Cat(found, given.found) /\ head' = head + n
            /\ latest_pts_at' = (IF given.s.latest_video_pts # scanner.latest_video_pts
                                   THEN now ELSE latest_pts_at)
            /\ UNCHANGED <<input, now>>
            /\ \E k \in 1..Len(g) :
                 /\ chunks' = From(g, k)
                 /\ keyframes' = Kept(Cat(keyframes, given.found), Floor(From(g, k), head + n))
<1> DEFINE given == Feed(scanner, Run(head, n))
           x == [at |-> now, start |-> head, data |-> Run(head, n)]
           g == Append(chunks, x)
<1>1. /\ n \in Nat \ {0} /\ n \in Nat /\ now \in Nat /\ head \in Nat /\ chunks \in Seq(Pieces)
      /\ bytes = Len(DataOf(chunks)) /\ Tiled(chunks, head)
  BY WindowAssumption DEF ReplayInv, WindowInv
<1>2. Bytes(head, head + n) = Run(head, n)
  <2>1. Bytes(head, head + n) = Run(head, (head + n) - head) /\ (head + n) - head = n
    <3>1. head + n \in Nat /\ head <= head + n /\ (head + n) - head = n
      BY <1>1
    <3> QED  BY <1>1, <3>1, BytesFacts
  <2> QED  BY <2>1
<1>3. x \in Pieces /\ Len(DataOf(g)) = bytes + n
  <2>1. /\ x = [at |-> now, start |-> head, data |-> Bytes(head, head + n)]
    BY <1>2
  <2> QED  BY <1>1, <2>1, PushTiles
<1>4. g \in Seq(Pieces) /\ g # <<>>
  <2>1. Len(chunks) \in Nat /\ g \in Seq(Pieces) /\ Len(g) = Len(chunks) + 1
    BY <1>1, <1>3, AppendProperties, LenProperties
  <2> HIDE DEF g
  <2>2. Len(g) # 0
    BY <2>1
  <2> QED  BY <2>1, <2>2, EmptySeq
<1> HIDE DEF given, x, g
<1>5. /\ scanner' = given.s /\ found' = found \o given.found /\ head' = head + n
      /\ head + n <= input.len
      /\ latest_pts_at' = (IF given.s.latest_video_pts # scanner.latest_video_pts
                             THEN now ELSE latest_pts_at)
      /\ UNCHANGED <<input, now>>
      /\ chunks' = Trimmed(g, bytes + n)
      /\ keyframes' = Kept(keyframes \o given.found, Floor(Trimmed(g, bytes + n), head'))
  BY <1>2 DEF Push, Store, given, g, x
<1>6. PICK k \in 1..Len(g) : Trimmed(g, bytes + n) = From(g, k)
  BY <1>3, <1>4, TrimmedFacts
<1>7. /\ chunks' = From(g, k)
      /\ keyframes' = Kept(Cat(keyframes, given.found), Floor(From(g, k), head + n))
  BY <1>5, <1>6 DEF Cat
<1> QED  BY <1>1, <1>3, <1>4, <1>5, <1>6, <1>7 DEF given, x, g, Cat

LEMMA PushReplays ==
  ASSUME ReplayInv, NEW n \in Sizes, Push(n)
  PROVE  /\ ReplayInv'
         /\ Program(scanner) # None => Program(scanner') = Program(scanner)
<1> DEFINE given == Feed(scanner, Run(head, n))
           x == [at |-> now, start |-> head, data |-> Run(head, n)]
           g == Append(chunks, x)
           e == head + n
<1>1. /\ n \in Nat \ {0} /\ head \in Nat /\ now \in Nat /\ e \in Nat /\ e <= input.len
      /\ head <= e
      /\ x \in Pieces /\ g \in Seq(Pieces)
      /\ scanner' = given.s /\ found' = Cat(found, given.found) /\ head' = e
      /\ latest_pts_at' = (IF given.s.latest_video_pts # scanner.latest_video_pts
                             THEN now ELSE latest_pts_at)
      /\ UNCHANGED <<input, now>>
  BY PushIs
<1>2. PICK k \in 1..Len(g) :
        /\ chunks' = From(g, k)
        /\ keyframes' = Kept(Cat(keyframes, given.found), Floor(From(g, k), e))
  BY PushIs
<1>3. /\ input \in Inputs /\ now <= MaxTime /\ Holding(scanner, head)
      /\ Rising(found, 0, scanner.pos) /\ Rows(chunks, head, now)
      /\ KeptOf(keyframes, found, Floor(chunks, head))
      /\ latest_pts_at \in 0..now \cup {None}
      /\ (latest_pts_at = None) = (scanner.latest_video_pts = None)
      /\ chunks \in Seq(Pieces)
  BY DEF ReplayInv, WindowInv
<1>4. FedTo(scanner, given.s, given.found, e)
  BY <1>1, <1>3, FeedFacts
<1>5. Rows(g, e, now)
  BY <1>1, <1>3, RowsGrow
<1>6. Len(g) \in Nat /\ Len(g) = Len(chunks) + 1 /\ g[Len(g)] = x /\ Len(chunks) \in Nat
      /\ \A i \in 1..Len(chunks) : g[i] = chunks[i]
  BY <1>1, <1>3, AppendProperties, LenProperties
<1>7. x.start = head
  OBVIOUS
<1> HIDE DEF given, x, g, e
<1> DEFINE rest == From(g, k)
           all == Cat(found, given.found)
           both == Cat(keyframes, given.found)
<1>8. /\ rest \in Seq(Pieces) /\ Rows(rest, e, now) /\ Len(rest) \in Nat /\ Len(rest) > 0
      /\ rest[1] = g[k] /\ Floor(rest, e) = g[k].start
  <2>1. /\ rest \in Seq(Pieces) /\ Len(rest) = Len(g) - k + 1
        /\ \A i \in 1..(Len(g) - k + 1) : rest[i] = g[k + i - 1]
    BY <1>1, FromFacts
  <2>2. Len(rest) \in Nat /\ Len(rest) > 0 /\ 1 \in 1..(Len(g) - k + 1) /\ k + 1 - 1 = k
    BY <1>6, <2>1
  <2>3. rest[1] = g[k]
    BY <2>1, <2>2
  <2>4. Rows(rest, e, now)
    BY <1>1, <1>5, RowsLeft
  <2> HIDE DEF rest
  <2>5. Floor(rest, e) = rest[1].start
    BY <1>1, <2>1, <2>2, <2>4, FloorFacts
  <2> QED  BY <2>1, <2>2, <2>3, <2>4, <2>5
<1> HIDE DEF rest
<1>9. /\ Floor(chunks, head) \in Nat /\ Floor(rest, e) \in Nat
      /\ Floor(chunks, head) <= Floor(rest, e)
  <2>1. /\ Floor(chunks, head) \in Nat /\ Floor(chunks, head) <= head
        /\ \A i \in 1..Len(chunks) : Floor(chunks, head) <= chunks[i].start
    BY <1>1, <1>3, FloorFacts
  <2>2. Floor(rest, e) \in Nat
    BY <1>1, <1>8, FloorFacts
  <2>3. CASE k = Len(g)
    BY <1>6, <1>7, <1>8, <2>1, <2>2, <2>3
  <2>4. CASE k # Len(g)
    <3>1. k \in 1..Len(chunks)
      BY <1>6, <2>4
    <3> QED  BY <1>6, <1>8, <2>1, <2>2, <3>1
  <2> QED  BY <2>3, <2>4
<1>10. /\ scanner.pos \in Nat /\ given.s.pos \in Nat /\ scanner.pos <= given.s.pos
       /\ Rising(given.found, scanner.pos, given.s.pos)
  BY <1>3, <1>4 DEF FedTo, Holding
<1>11. Rising(all, 0, given.s.pos)
  BY <1>3, <1>10, RisesOn
<1>12. KeptOf(Kept(both, Floor(rest, e)), all, Floor(rest, e))
  <2>1. found \in Seq(Marks) /\ given.found \in Seq(Marks)
    BY <1>3, <1>10 DEF Rising
  <2>2. PICK d \in 0..Len(found) : /\ After(keyframes, found, d)
                                   /\ \A i \in 1..d : found[i].at < Floor(chunks, head)
    BY <1>3 DEF KeptOf
  <2>3. After(both, all, d) /\ \A i \in 1..d : all[i] = found[i]
    <3> DEFINE q == given.found
    <3>1. q \in Seq(Marks) /\ found \in Seq(Marks) /\ After(keyframes, found, d)
      BY <2>1, <2>2
    <3> HIDE DEF q
    <3>2. After(Cat(keyframes, q), Cat(found, q), d)
      BY <3>1, AfterGrows
    <3>3. \A i \in 1..d : Cat(found, q)[i] = found[i]
      <4>1. \A i \in 1..d : i \in 1..Len(found)
        BY <2>2, <3>1, LenProperties
      <4>2. \A i \in 1..Len(found) : Cat(found, q)[i] = found[i]
        BY <3>1, CatNth
      <4> QED  BY <4>1, <4>2
    <3> QED  BY <3>2, <3>3 DEF q
  <2>4. \A i \in 1..d : found[i].at \in Nat
    <3>1. \A i \in 1..d : i \in 1..Len(found)
      BY <2>1, <2>2, LenProperties
    <3>2. \A i \in 1..Len(found) : found[i].at \in Nat
      BY <2>1, ElementOfSeq, MarksTyped
    <3> QED  BY <3>1, <3>2
  <2> DEFINE floor == Floor(rest, e)
  <2> HIDE DEF both, all, floor
  <2>5. \A i \in 1..d : all[i].at < floor
    BY <1>9, <2>2, <2>3, <2>4 DEF floor
  <2>6. floor \in Nat
    BY <1>9 DEF floor
  <2>7. KeptOf(Kept(both, floor), all, floor)
    BY <1>11, <2>3, <2>5, <2>6, KeptFacts
  <2> QED  BY <2>7 DEF floor
<1>13. Holding(given.s, e)
  BY <1>4 DEF FedTo, Holding
<1>14. /\ latest_pts_at' \in 0..now \cup {None}
       /\ (latest_pts_at' = None) = (given.s.latest_video_pts = None)
  <2>1. given.s.latest_video_pts # scanner.latest_video_pts => given.s.latest_video_pts # None
    BY <1>4 DEF FedTo
  <2>2. now \in 0..now /\ now # None
    BY <1>1, ClockAssumption
  <2> QED  BY <1>1, <1>3, <2>1, <2>2
<1>15. WindowInv'
  BY PushKeeps DEF ReplayInv
<1>16. /\ chunks' = rest /\ found' = all /\ keyframes' = Kept(both, Floor(rest, e))
       /\ scanner' = given.s /\ head' = e /\ now' = now /\ input' = input
  BY <1>1, <1>2 DEF rest
<1> HIDE DEF all, both
<1>17. Holding(scanner, head)'
  <2>1. Holding(scanner', head')
    BY <1>13, <1>16
  <2> QED  BY <2>1 DEF Holding, IsScanner, Run
<1>18. Rising(found, 0, scanner.pos)'
  BY <1>11, <1>16 DEF Rising, Marks, Starts
<1>19. Rows(chunks, head, now)'
  BY <1>8, <1>16 DEF Rows, EndOf, Run
<1>20. KeptOf(keyframes, found, Floor(chunks, head))'
  BY <1>12, <1>16 DEF KeptOf, After, Marks, Starts, Floor
<1>21. ReplayInv'
  BY <1>1, <1>3, <1>14, <1>15, <1>16, <1>17, <1>18, <1>19, <1>20 DEF ReplayInv
<1>22. Program(scanner) # None => Program(scanner') = Program(scanner)
  BY <1>4, <1>16 DEF FedTo
<1> QED  BY <1>21, <1>22

\* What is not told the time does not change with it.
LEMMA StreamRests ==
  ASSUME ReplayInv, UNCHANGED <<input, chunks, head, keyframes, scanner, found>>
  PROVE  /\ Holding(scanner, head)' /\ Program(scanner)' = Program(scanner)
         /\ Rising(found, 0, scanner.pos)' /\ KeptOf(keyframes, found, Floor(chunks, head))'
<1>1. Holding(scanner, head)'
  <2>1. Holding(scanner, head)
    BY DEF ReplayInv
  <2> QED  BY <2>1 DEF Holding, IsScanner, Run
<1>2. Program(scanner)' = Program(scanner)
  BY DEF Program
<1>3. Rising(found, 0, scanner.pos)'
  <2>1. Rising(found, 0, scanner.pos)
    BY DEF ReplayInv
  <2> QED  BY <2>1 DEF Rising, Marks, Starts
<1>4. KeptOf(keyframes, found, Floor(chunks, head))'
  <2>1. KeptOf(keyframes, found, Floor(chunks, head))
    BY DEF ReplayInv
  <2>2. Floor(chunks, head)' = Floor(chunks, head)
    BY DEF Floor
  <2>3. PICK d \in 0..Len(found) :
          /\ After(keyframes, found, d)
          /\ \A k \in 1..d : found[k].at < Floor(chunks, head)
          /\ \A k \in 1..Len(keyframes) : keyframes[k].at >= Floor(chunks, head)
    BY <2>1 DEF KeptOf
  <2>4. keyframes' = keyframes /\ found' = found
    OBVIOUS
  <2>5. /\ After(keyframes', found', d)
        /\ \A k \in 1..d : found'[k].at < Floor(chunks, head)'
        /\ \A k \in 1..Len(keyframes') : keyframes'[k].at >= Floor(chunks, head)'
    BY <2>2, <2>3, <2>4
  <2> QED  BY <2>3, <2>4, <2>5 DEF KeptOf, After, Marks, Starts
<1> QED  BY <1>1, <1>2, <1>3, <1>4

LEMMA ReplayStep ==
  ReplayInv /\ [Next]_vars
    => ReplayInv' /\ (Program(scanner) # None => Program(scanner)' = Program(scanner))
<1> SUFFICES ASSUME ReplayInv, [Next]_vars
             PROVE  ReplayInv' /\ (Program(scanner) # None => Program(scanner)' = Program(scanner))
  OBVIOUS
<1>1. CASE Tick
  <2>1. /\ now' = now + 1 /\ now < MaxTime /\ now \in Nat /\ MaxTime \in Nat
        /\ UNCHANGED <<input, chunks, bytes, head, keyframes, scanner, latest_pts_at, found>>
    BY <1>1, WindowAssumption DEF Tick, ReplayInv, WindowInv
  <2>2. now + 1 \in Nat /\ now <= now + 1 /\ now + 1 <= MaxTime
    BY <2>1
  <2>3. Rows(chunks, head, now + 1)
    BY <2>1, <2>2, RowsLater DEF ReplayInv, WindowInv
  <2>4. Rows(chunks, head, now)'
    BY <2>1, <2>3 DEF Rows, EndOf, Run
  <2>5. WindowInv'
    BY WindowStep DEF ReplayInv
  <2>6. /\ Holding(scanner, head)' /\ Program(scanner)' = Program(scanner)
        /\ Rising(found, 0, scanner.pos)' /\ KeptOf(keyframes, found, Floor(chunks, head))'
    BY <2>1, StreamRests
  <2>7. /\ latest_pts_at' \in 0..now' \cup {None}
        /\ (latest_pts_at' = None) = (scanner'.latest_video_pts = None)
    <3>1. latest_pts_at \in 0..now \cup {None}
          /\ (latest_pts_at = None) = (scanner.latest_video_pts = None)
      BY DEF ReplayInv
    <3>2. 0..now \subseteq 0..(now + 1)
      BY <2>1
    <3> QED  BY <2>1, <3>1, <3>2
  <2>8. input' \in Inputs' /\ head' <= input'.len /\ now' <= MaxTime'
    BY <2>1, <2>2 DEF ReplayInv
  <2> QED  BY <2>4, <2>5, <2>6, <2>7, <2>8 DEF ReplayInv
<1>2. ASSUME NEW n \in Sizes, Push(n)
      PROVE  ReplayInv' /\ (Program(scanner) # None => Program(scanner)' = Program(scanner))
  BY <1>2, PushReplays DEF Program
<1>3. CASE UNCHANGED vars
  <2>1. UNCHANGED <<input, now, chunks, bytes, head, keyframes, scanner, latest_pts_at, found>>
    BY <1>3 DEF vars
  <2>2. WindowInv'
    BY WindowStep DEF ReplayInv
  <2>3. Rows(chunks, head, now)'
    BY <2>1 DEF ReplayInv, Rows, EndOf, Run
  <2>4. /\ Holding(scanner, head)' /\ Program(scanner)' = Program(scanner)
        /\ Rising(found, 0, scanner.pos)' /\ KeptOf(keyframes, found, Floor(chunks, head))'
    BY <2>1, StreamRests
  <2> QED  BY <2>1, <2>2, <2>3, <2>4 DEF ReplayInv
<1> QED  BY <1>1, <1>2, <1>3 DEF Next

\* Once PAT and PMT, and where it takes one an audio frame, have told what the program
\* carries, no later table, repeated or not and however it is cut, changes that
\* (Scanner::program, parse_pmt, packet).
THEOREM ProgramSettled == Spec => Settled
<1>1. Init => ReplayInv
  BY ReplayBegins
<1>2. ReplayInv /\ [Next]_vars => ReplayInv'
  BY ReplayStep
<1>3. ReplayInv /\ [Next]_vars
        => [Program(scanner) # None => Program(scanner)' = Program(scanner)]_vars
  BY ReplayStep
<1> QED  BY <1>1, <1>2, <1>3, PTL DEF Spec, Settled

LEMMA ReplayTyping == ReplayInv => TypeOK
<1> SUFFICES ASSUME ReplayInv PROVE TypeOK
  OBVIOUS
<1>1. /\ now \in Nat /\ head \in Nat /\ chunks \in Seq(Pieces) /\ now <= MaxTime
      /\ head <= input.len /\ input \in Inputs /\ Rows(chunks, head, now)
      /\ Holding(scanner, head)
  BY DEF ReplayInv, WindowInv
<1>2. now \in 0..MaxTime /\ head \in 0..input.len
  BY <1>1, WindowAssumption, InputAssumption
<1>3. ASSUME NEW k \in DOMAIN chunks
      PROVE  chunks[k].data # <<>> /\ chunks[k].at \in 0..now
  <2>1. k \in 1..Len(chunks)
    BY <1>1
  <2>2. chunks[k].at \in Nat
    BY <1>1, <2>1, PieceFacts
  <2>3. chunks[k].data # <<>> /\ chunks[k].at <= now
    BY <1>1, <2>1 DEF Rows
  <2> QED  BY <1>1, <2>2, <2>3
<1>4. Len(scanner.carry) < PACKET
  <2>1. /\ scanner.pos \in Nat /\ head - scanner.pos \in Nat /\ head - scanner.pos < PACKET
        /\ scanner.carry = Run(scanner.pos, head - scanner.pos)
    BY <1>1 DEF Holding
  <2>2. Len(Run(scanner.pos, head - scanner.pos)) = head - scanner.pos
    BY <2>1, RunFacts
  <2> QED  BY <2>1, <2>2
<1> QED  BY <1>2, <1>3, <1>4 DEF TypeOK, ReplayInv

\* Every chunk holds something and none is newer than now, the clock of the newest
\* frame is known exactly when a frame is, and less than a packet is carried over
\* (Replay::push, Scanner::scan).
THEOREM ReplayTypeCorrect == Spec => []TypeOK
<1>1. Init => ReplayInv
  BY ReplayBegins
<1>2. ReplayInv /\ [Next]_vars => ReplayInv'
  BY ReplayStep
<1>3. ReplayInv => TypeOK
  BY ReplayTyping
<1> QED  BY <1>1, <1>2, <1>3, PTL DEF Spec

-----------------------------------------------------------------------------
(* Replay: the scanner keeps in step with the stream. *)

\* What has come has been taken as far as it can be.
StepInv ==
  /\ ReplayInv
  /\ AsFar(scanner, found, scanner.pos) /\ (Clean => Reaches(scanner.pos, head))

LEMMA NewIsAsFar ==
  ASSUME input \in Inputs
  PROVE  Holding(NewScanner, 0) /\ AsFar(NewScanner, <<>>, 0) /\ Reaches(0, 0)
<1>1. IsScanner(NewScanner) /\ Yields(NewScanner, <<>>, 0)
  BY YieldsNothing
<1>2. NewScanner.pos = 0 /\ NewScanner.carry = <<>> /\ NewScanner.handled = {}
  BY DEF NewScanner
<1>3. Holding(NewScanner, 0)
  <2>1. Run(0, 0) = <<>> /\ 0 - 0 = 0 /\ 0 < PACKET
    <3>1. Run(0, 0) \in Seq(Nat) /\ Len(Run(0, 0)) = 0
      BY RunFacts
    <3> QED  BY <3>1, EmptySeq, PacketAssumption
  <2> QED  BY <1>1, <1>2, <2>1 DEF Holding
<1>4. EndsBy({}, 0) /\ NoneMissed({}, 0) /\ Free(0)
  BY StartsTyped DEF EndsBy, NoneMissed, Free
<1>5. Reaches(0, 0)
  BY DEF Reaches
<1> QED  BY <1>1, <1>2, <1>3, <1>4, <1>5 DEF AsFar

LEMMA StepBegins == Init => StepInv
<1> SUFFICES ASSUME Init PROVE StepInv
  OBVIOUS
<1>1. ReplayInv
  BY ReplayBegins
<1>2. scanner = NewScanner /\ found = <<>> /\ head = 0 /\ input \in Inputs
  BY DEF Init
<1>3. scanner.pos = 0
  BY <1>2 DEF NewScanner
<1> QED  BY <1>1, <1>2, <1>3, NewIsAsFar DEF StepInv

\* What the stream tells does not change.
LEMMA StreamTellsAgain ==
  ASSUME input' = input
  PROVE  \A h, x : Tells(h, x)' = Tells(h, x)
<1>1. Starts' = Starts
  BY DEF Starts
<1>2. \A o : PacketAt(o)' = PacketAt(o)
  BY DEF PacketAt, Packet
<1>3. \A s, o : Heard(s, o)' = Heard(s, o) /\ HeardKey(s, o)' = HeardKey(s, o)
  BY <1>2 DEF Heard, HeardKey
<1> QED  BY <1>1, <1>3 DEF Tells

LEMMA StepKeeps == StepInv /\ [Next]_vars => StepInv'
<1> SUFFICES ASSUME StepInv, [Next]_vars PROVE StepInv'
  OBVIOUS
<1>1. ReplayInv /\ ReplayInv'
  BY ReplayStep DEF StepInv
<1>2. input' = input
  <2>1. CASE Tick
    BY <2>1 DEF Tick
  <2>2. ASSUME NEW n \in Sizes, Push(n)
        PROVE  input' = input
    BY <2>2 DEF Push
  <2>3. CASE UNCHANGED vars
    BY <2>3 DEF vars
  <2> QED  BY <2>1, <2>2, <2>3 DEF Next
<1>3. AsFar(scanner', found', scanner'.pos) /\ (Clean => Reaches(scanner'.pos, head'))
  <2>1. ASSUME NEW n \in Sizes, Push(n)
        PROVE  AsFar(scanner', found', scanner'.pos) /\ (Clean => Reaches(scanner'.pos, head'))
    <3> DEFINE r == Feed(scanner, Run(head, n))
    <3>1. /\ n \in Nat /\ head \in Nat /\ head + n <= input.len
          /\ scanner' = r.s /\ found' = Cat(found, r.found) /\ head' = head + n
      BY <1>1, <2>1, PushIs
    <3>2. input \in Inputs /\ Holding(scanner, head) /\ found \in Seq(Marks)
      BY <1>1 DEF ReplayInv, Rising
    <3>3. AsFar(scanner, found, scanner.pos) /\ (Clean => Reaches(scanner.pos, head))
      BY DEF StepInv
    <3>4. AsFar(r.s, Cat(found, r.found), r.s.pos) /\ (Clean => Reaches(r.s.pos, head + n))
      BY <3>1, <3>2, <3>3, FeedGoes
    <3> HIDE DEF r
    <3> QED  BY <3>1, <3>4
  <2>2. CASE UNCHANGED <<scanner, found, head>>
    BY <2>2 DEF StepInv
  <2>3. Tick \/ UNCHANGED vars => UNCHANGED <<scanner, found, head>>
    BY DEF Tick, vars
  <2> QED  BY <2>1, <2>2, <2>3 DEF Next
<1>4. AsFar(scanner, found, scanner.pos)' /\ (Clean => Reaches(scanner.pos, head))'
  <2>1. /\ Starts' = Starts /\ Clean' = Clean /\ \A b : IsSync(b)' = IsSync(b)
        /\ \A x : Free(x)' = Free(x)
    BY <1>2 DEF Starts, Clean, IsSync, Free
  <2>2. Clean' => Reaches(scanner.pos, head)'
    BY <1>3, <2>1 DEF Reaches
  <2>3. EndsBy(scanner.handled, scanner.pos)' /\ NoneMissed(scanner.handled, scanner.pos)'
    BY <1>3, <2>1 DEF AsFar, EndsBy, NoneMissed
  <2>4. \A h, x : Tells(h, x)' = Tells(h, x)
    BY <1>2, <2>1, StreamTellsAgain
  <2>5. Clean' => Free(scanner.pos)' /\ Yields(scanner, found, scanner.pos)'
    BY <1>3, <2>1, <2>4 DEF AsFar, Yields, Free
  <2> QED  BY <2>2, <2>3, <2>5 DEF AsFar
<1> QED  BY <1>1, <1>4 DEF StepInv

\* There is one place that far.
LEMMA AsFarOnce ==
  ASSUME NEW x \in Nat, NEW y \in Nat, NEW e \in Nat, Free(x), Free(y),
         Reaches(x, e), Reaches(y, e), e - x < PACKET, e - y < PACKET
  PROVE  x = y
<1>1. PACKET \in Nat
  BY PacketAssumption
<1>2. ~(x < y)
  <2>1. x < y => x + PACKET <= e
    BY DEF Reaches
  <2> QED  BY <1>1, <2>1
<1>3. ~(y < x)
  <2>1. y < x => y + PACKET <= e
    BY DEF Reaches
  <2> QED  BY <1>1, <2>1
<1> QED  BY <1>2, <1>3

LEMMA StepIsCutFree == StepInv => CutFree
<1> SUFFICES ASSUME StepInv, Clean
             PROVE  [s |-> scanner, found |-> found] = Feed(NewScanner, Bytes(0, head))
  BY DEF CutFree
<1> DEFINE r == Feed(NewScanner, Run(0, head))
<1>1. /\ input \in Inputs /\ head \in Nat /\ head <= input.len /\ Holding(scanner, head)
      /\ Free(scanner.pos) /\ Yields(scanner, found, scanner.pos) /\ Reaches(scanner.pos, head)
  BY DEF StepInv, ReplayInv, WindowInv, AsFar
<1>2. Bytes(0, head) = Run(0, head)
  <2>1. Bytes(0, head) = Run(0, head - 0) /\ head - 0 = head
    BY <1>1, BytesFacts
  <2> QED  BY <2>1
<1>3. Holding(NewScanner, 0) /\ AsFar(NewScanner, <<>>, NewScanner.pos)
      /\ Reaches(NewScanner.pos, 0)
  <2>1. NewScanner.pos = 0
    BY DEF NewScanner
  <2> QED  BY <1>1, <2>1, NewIsAsFar
<1>4. 0 + head = head
  BY <1>1
<1>5. <<>> \in Seq(Marks) /\ r.found \in Seq(Marks) /\ Holding(r.s, head)
  <2>1. FedTo(NewScanner, r.s, r.found, 0 + head)
    BY <1>1, <1>3, FeedFacts
  <2> HIDE DEF r
  <2> QED  BY <1>4, <2>1 DEF FedTo, Holding, Rising
<1>6. /\ r = [s |-> r.s, found |-> r.found]
      /\ AsFar(r.s, Cat(<<>>, r.found), r.s.pos) /\ Reaches(r.s.pos, head)
  <2> DEFINE nothing == <<>>
  <2>1. nothing \in Seq(Marks) /\ AsFar(NewScanner, nothing, NewScanner.pos)
    BY <1>3, <1>5
  <2> HIDE DEF nothing
  <2>2. /\ r = [s |-> r.s, found |-> r.found]
        /\ AsFar(r.s, Cat(nothing, r.found), r.s.pos)
        /\ Clean => Reaches(r.s.pos, 0 + head)
    BY <1>1, <1>3, <1>4, <2>1, FeedGoes
  <2> HIDE DEF r
  <2> QED  BY <1>4, <2>2 DEF nothing
<1> HIDE DEF r
<1>7. Free(r.s.pos) /\ Yields(r.s, r.found, r.s.pos)
  <2>1. Cat(<<>>, r.found) = r.found
    BY <1>5, CatFacts
  <2> QED  BY <1>6, <2>1 DEF AsFar
<1>8. r.s.pos = scanner.pos
  <2> DEFINE x == r.s.pos
             y == scanner.pos
  <2>1. /\ x \in Nat /\ y \in Nat /\ head - x < PACKET /\ head - y < PACKET
        /\ Free(x) /\ Free(y) /\ Reaches(x, head) /\ Reaches(y, head)
    BY <1>1, <1>5, <1>6, <1>7 DEF Holding
  <2> HIDE DEF x, y
  <2>2. x = y
    BY <1>1, <2>1, AsFarOnce
  <2> QED  BY <2>2 DEF x, y
<1>9. Twins(r.s, scanner) /\ r.found = found
  <2>1. scanner.pos \in Nat
    BY <1>1 DEF Holding
  <2> QED  BY <1>1, <1>7, <1>8, <2>1, YieldsOnce
<1>10. r.s = scanner
  <2>1. r.s.carry = scanner.carry
    BY <1>1, <1>5, <1>8 DEF Holding
  <2>2. ASSUME NEW g \in ScannerFields
        PROVE  r.s[g] = scanner[g]
    <3>1. g \in {"carry", "pos", "handled"} \/ g \in ScannerFields \ Aside
      BY DEF Aside
    <3> QED  BY <1>8, <1>9, <2>1, <3>1 DEF Twins, Alike
  <2> QED  BY <1>9, <2>2 DEF Twins, IsScanner
<1> QED  BY <1>2, <1>6, <1>9, <1>10 DEF r

LEMMA StepRecovers == StepInv => Recovers
<1> SUFFICES ASSUME StepInv, NEW o \in Starts, o + PACKET \in Starts, o + PACKET < head,
                    \/ o - PACKET + 1 \in scanner.handled
                    \/ \A y \in (o - PACKET + 1)..(o - 1) : ~IsSync(y + 1)
             PROVE  o + 1 \in scanner.handled
  BY DEF Recovers
<1>1. /\ input \in Inputs /\ head \in Nat /\ scanner.pos \in Nat /\ head - scanner.pos < PACKET
      /\ NoneMissed(scanner.handled, scanner.pos)
  BY DEF StepInv, ReplayInv, WindowInv, Holding, AsFar
<1>2. o \in Nat
  BY <1>1, StartsTyped
<1>3. o < scanner.pos
  BY <1>1, <1>2, PacketAssumption
<1> QED  BY <1>1, <1>3 DEF NoneMissed

\* Wherever the engine's chunks are cut: of a clean stream the scanner makes what one call
\* with all of it would, and in any other it is in step at every packet that another one
\* follows and no stray sync byte precedes too closely, and from there on (Scanner::feed,
\* the test chunking_never_changes_what_is_found).
THEOREM ScannerInStep == Spec => []InStep
<1>1. Init => StepInv
  BY StepBegins
<1>2. StepInv /\ [Next]_vars => StepInv'
  BY StepKeeps
<1>3. StepInv => InStep
  BY StepIsCutFree, StepRecovers DEF InStep
<1> QED  BY <1>1, <1>2, <1>3, PTL DEF Spec

-----------------------------------------------------------------------------
(* TsScanner: whose timestamp is the newest. *)

\* s heeds the packets of its video: they are no tables, and do not name its audio.
Heeds(s) ==
  /\ s.video # None /\ s.video.pid # 0 /\ s.video.pid # s.pmt_pid
  /\ ~(s.audio # None /\ s.audio.pid = s.video.pid /\ s.audio.is.name = "layer")

\* It has learnt of streams from one PMT, and of that from a PAT.
Tabled(s) ==
  /\ IsScanner(s)
  /\ s.video # None => s.pmt_seen /\ s.pmt_pid # None
  /\ s.audio # None => DOMAIN s.audio = {"pid", "is"}

\* The packet p brings s a timestamp.
Noticed(s, p) ==
  /\ p.payload # None /\ p.pid # 0 /\ p.pid # s.pmt_pid /\ p.pusi
  /\ ~(s.audio # None /\ s.audio.pid = p.pid /\ s.audio.is.name = "layer")
  /\ s.video # None /\ s.video.pid = p.pid /\ p.pes.pts # None

\* From s to t the video does not change once it is heeded.
Saves(s, t) ==
  /\ Tabled(t) /\ t.handled = s.handled
  /\ Heeds(s) => Heeds(t) /\ t.video = s.video

LEMMA SavesItself ==
  ASSUME NEW s, Tabled(s)
  PROVE  Saves(s, s)
BY DEF Saves

LEMMA PatSaves ==
  ASSUME NEW s, Tabled(s), NEW p
  PROVE  Saves(s, PatPacket(s, p).s)
         /\ PatPacket(s, p).s.latest_video_pts = s.latest_video_pts
<1> DEFINE given == SectionFeed(s.pat, p.pusi, p.payload)
           t == [s EXCEPT !["pat"] = given.held]
<1>1. PatPacket(s, p).s = t \/ PatPacket(s, p).s = ParsePat(t, given.done)
  BY DEF PatPacket, Only, AfterPat
<1> HIDE DEF given
<1>2. {"pat", "pmt_pid", "pmt_seen", "video", "audio", "latest_video_pts", "handled"}
        \subseteq ScannerFields
  BY DEF ScannerFields
<1>3. /\ IsScanner(t) /\ t.video = s.video /\ t.audio = s.audio /\ t.pmt_pid = s.pmt_pid
      /\ t.pmt_seen = s.pmt_seen /\ t.handled = s.handled
      /\ t.latest_video_pts = s.latest_video_pts
  BY <1>2, FieldSet DEF Tabled
<1> HIDE DEF t
<1>4. Saves(s, t)
  BY <1>3 DEF Saves, Tabled, Heeds
<1>5. \/ ParsePat(t, given.done) = t
      \/ t.pmt_pid = None /\ \E v : ParsePat(t, given.done) = [t EXCEPT !["pmt_pid"] = v]
  BY DEF ParsePat
<1>6. ASSUME NEW v, t.pmt_pid = None
      PROVE  Saves(s, [t EXCEPT !["pmt_pid"] = v])
             /\ [t EXCEPT !["pmt_pid"] = v].latest_video_pts = s.latest_video_pts
  <2> DEFINE u == [t EXCEPT !["pmt_pid"] = v]
  <2>1. /\ IsScanner(u) /\ u.video = s.video /\ u.audio = s.audio
        /\ u.pmt_seen = s.pmt_seen /\ u.handled = s.handled
        /\ u.latest_video_pts = s.latest_video_pts
    BY <1>2, <1>3, FieldSet
  <2> HIDE DEF u
  <2>2. s.video = None
    BY <1>3, <1>6 DEF Tabled
  <2>3. Saves(s, u)
    BY <2>1, <2>2 DEF Saves, Tabled, Heeds
  <2> QED  BY <2>1, <2>3 DEF u
<1> DEFINE r == PatPacket(s, p).s
<1>7. CASE r = t
  BY <1>3, <1>4, <1>7
<1>8. CASE r = ParsePat(t, given.done) /\ ParsePat(t, given.done) # t
  <2>1. PICK v : r = [t EXCEPT !["pmt_pid"] = v] /\ t.pmt_pid = None
    BY <1>5, <1>8
  <2> HIDE DEF r
  <2> QED  BY <1>6, <2>1 DEF r
<1> QED  BY <1>1, <1>7, <1>8

LEMMA FirstOfTyped ==
  ASSUME NEW kind, NEW entries, NEW was, was # None => DOMAIN was = {"pid", "is"}
  PROVE  FirstOf(kind, entries, was) # None
           => DOMAIN FirstOf(kind, entries, was) = {"pid", "is"}
BY DEF FirstOf

LEMMA PmtSaves ==
  ASSUME NEW s, Tabled(s), NEW p, s.pmt_pid # None
  PROVE  Saves(s, PmtPacket(s, p).s)
         /\ PmtPacket(s, p).s.latest_video_pts = s.latest_video_pts
<1> DEFINE given == SectionFeed(s.pmt, p.pusi, p.payload)
           t == [s EXCEPT !["pmt"] = given.held]
           section == given.done
<1>1. PmtPacket(s, p).s = t \/ PmtPacket(s, p).s = ParsePmt(t, section)
  BY DEF PmtPacket, Only, AfterPmt
<1> HIDE DEF given, section
<1>2. {"pmt", "pmt_pid", "pmt_seen", "video", "audio", "latest_video_pts", "handled"}
        \subseteq ScannerFields
  BY DEF ScannerFields
<1>3. /\ IsScanner(t) /\ t.video = s.video /\ t.audio = s.audio /\ t.pmt_pid = s.pmt_pid
      /\ t.pmt_seen = s.pmt_seen /\ t.handled = s.handled
      /\ t.latest_video_pts = s.latest_video_pts
  BY <1>2, FieldSet DEF Tabled
<1> HIDE DEF t
<1>4. Saves(s, t)
  BY <1>3 DEF Saves, Tabled, Heeds
<1>5. CASE ParsePmt(t, section) = t
  BY <1>1, <1>3, <1>4, <1>5
<1>6. CASE ParsePmt(t, section) # t
  <2>1. ~t.pmt_seen
    BY <1>6 DEF ParsePmt
  <2> DEFINE first == FirstOf("audio", Entries(section), t.audio)
             u == [t EXCEPT !["video"] = FirstOf("video", Entries(section), t.video)]
             v == [u EXCEPT !["audio"] = first]
             w == [v EXCEPT !["pmt_seen"] = TRUE]
  <2>2. ParsePmt(t, section) = w
    <3>1. DOMAIN t = ScannerFields
      BY <1>3 DEF IsScanner
    <3>2. u["audio"] = t["audio"]
      BY <3>1 DEF ScannerFields
    <3> QED  BY <1>6, <3>2 DEF ParsePmt
  <2>3. /\ IsScanner(u) /\ u.pmt_pid = s.pmt_pid /\ u.handled = s.handled
        /\ u.latest_video_pts = s.latest_video_pts
    BY <1>2, <1>3, FieldSet
  <2>4. first # None => DOMAIN first = {"pid", "is"}
    BY <1>3, FirstOfTyped DEF Tabled
  <2> HIDE DEF u, first
  <2>5. /\ IsScanner(v) /\ v.audio = first /\ v.pmt_pid = s.pmt_pid /\ v.handled = s.handled
        /\ v.latest_video_pts = s.latest_video_pts
    BY <1>2, <2>3, FieldSet
  <2> HIDE DEF v
  <2>6. /\ IsScanner(w) /\ w.audio = first /\ w.pmt_pid = s.pmt_pid /\ w.handled = s.handled
        /\ w.latest_video_pts = s.latest_video_pts /\ w.pmt_seen = TRUE
    BY <1>2, <2>5, FieldSet
  <2> HIDE DEF w
  <2>7. s.video = None
    BY <1>3, <2>1 DEF Tabled
  <2>8. Saves(s, w)
    BY <2>4, <2>6, <2>7 DEF Saves, Tabled, Heeds
  <2> QED  BY <1>1, <1>3, <1>4, <2>2, <2>6, <2>8
<1> QED  BY <1>5, <1>6

LEMMA AudioSaves ==
  ASSUME NEW s, Tabled(s), NEW p, s.audio # None, s.audio.is.name = "layer"
  PROVE  Saves(s, AudioPacket(s, p).s)
         /\ AudioPacket(s, p).s.latest_video_pts = s.latest_video_pts
<1> DEFINE a == [s.audio EXCEPT !.is.name = MpegAudioLayer(p.pes)]
           t == [s EXCEPT !["audio"] = a]
<1>1. AudioPacket(s, p).s = t
  BY DEF AudioPacket, Only
<1>2. DOMAIN a = {"pid", "is"} /\ a.pid = s.audio.pid
  BY DEF Tabled
<1> HIDE DEF a
<1>3. {"pmt_pid", "pmt_seen", "video", "audio", "latest_video_pts", "handled"}
        \subseteq ScannerFields
  BY DEF ScannerFields
<1>4. /\ IsScanner(t) /\ t.video = s.video /\ t.audio = a /\ t.pmt_pid = s.pmt_pid
      /\ t.pmt_seen = s.pmt_seen /\ t.handled = s.handled
      /\ t.latest_video_pts = s.latest_video_pts
  BY <1>3, FieldSet DEF Tabled
<1> HIDE DEF t
<1>5. Saves(s, t)
  BY <1>2, <1>4 DEF Saves, Tabled, Heeds
<1> QED  BY <1>1, <1>4, <1>5

LEMMA VideoSaves ==
  ASSUME NEW s, Tabled(s), NEW p, p.pes.pts # None
  PROVE  Saves(s, VideoPacket(s, p).s)
         /\ VideoPacket(s, p).s.latest_video_pts = p.pes.pts
         /\ VideoPacket(s, p).s.video = s.video
         /\ VideoPacket(s, p).s.audio = s.audio
         /\ VideoPacket(s, p).s.pmt_pid = s.pmt_pid
<1> DEFINE t == [s EXCEPT !["latest_video_pts"] = p.pes.pts]
<1>1. VideoPacket(s, p).s = t
  BY DEF VideoPacket
<1>2. {"pmt_pid", "pmt_seen", "video", "audio", "latest_video_pts", "handled"}
        \subseteq ScannerFields
  BY DEF ScannerFields
<1>3. /\ IsScanner(t) /\ t.video = s.video /\ t.audio = s.audio /\ t.pmt_pid = s.pmt_pid
      /\ t.pmt_seen = s.pmt_seen /\ t.handled = s.handled
      /\ t.latest_video_pts = p.pes.pts
  BY <1>2, FieldSet DEF Tabled
<1> HIDE DEF t
<1>4. Saves(s, t)
  BY <1>3 DEF Saves, Tabled, Heeds
<1> QED  BY <1>1, <1>3, <1>4

\* A packet that brings no timestamp leaves the newest one alone.
LEMMA PacketSaves ==
  ASSUME NEW s, Tabled(s), NEW p, p.pid # None, NEW t, t = OnPacket(s, p).s
  PROVE  /\ Saves(s, t)
         /\ Noticed(s, p) => Heeds(t) /\ t.video = s.video /\ t.latest_video_pts = p.pes.pts
         /\ ~Noticed(s, p) => t.latest_video_pts = s.latest_video_pts
<1> DEFINE r == OnPacket(s, p)
<1>1. CASE Noticed(s, p)
  <2>1. r = VideoPacket(s, p)
    BY <1>1 DEF OnPacket, Noticed
  <2>2. p.pes.pts # None
    BY <1>1 DEF Noticed
  <2>3. /\ Saves(s, t) /\ t.latest_video_pts = p.pes.pts
        /\ t.video = s.video /\ t.audio = s.audio /\ t.pmt_pid = s.pmt_pid
    BY <2>1, <2>2, VideoSaves
  <2>4. Heeds(t)
    BY <1>1, <2>3 DEF Noticed, Heeds
  <2> QED  BY <1>1, <2>3, <2>4
<1>2. CASE ~Noticed(s, p)
  <2>1. \/ r.s = s
        \/ r = PatPacket(s, p)
        \/ r = PmtPacket(s, p) /\ s.pmt_pid # None
        \/ r = AudioPacket(s, p) /\ s.audio # None /\ s.audio.is.name = "layer"
    <3>1. CASE p.payload = None
      BY <3>1 DEF OnPacket, Only
    <3>2. CASE p.payload # None /\ p.pid = 0
      BY <3>2 DEF OnPacket
    <3>3. CASE p.payload # None /\ p.pid # 0 /\ p.pid = s.pmt_pid
      BY <3>3 DEF OnPacket
    <3>4. CASE p.payload # None /\ p.pid # 0 /\ p.pid # s.pmt_pid
      <4>1. r = IF ~p.pusi THEN Only(s)
                ELSE IF s.audio # None /\ s.audio.pid = p.pid /\ s.audio.is.name = "layer"
                THEN AudioPacket(s, p)
                ELSE IF s.video # None /\ s.video.pid = p.pid
                THEN VideoPacket(s, p)
                ELSE Only(s)
        BY <3>4 DEF OnPacket
      <4> HIDE DEF r
      <4>2. CASE ~p.pusi
        BY <4>1, <4>2 DEF Only
      <4>3. CASE p.pusi /\ s.audio # None /\ s.audio.pid = p.pid /\ s.audio.is.name = "layer"
        BY <4>1, <4>3
      <4>4. CASE /\ p.pusi /\ s.video # None /\ s.video.pid = p.pid
                 /\ ~(s.audio # None /\ s.audio.pid = p.pid /\ s.audio.is.name = "layer")
        <5>1. p.pes.pts = None
          BY <1>2, <3>4, <4>4 DEF Noticed
        <5> QED  BY <4>1, <4>4, <5>1 DEF VideoPacket
      <4>5. CASE /\ p.pusi /\ ~(s.video # None /\ s.video.pid = p.pid)
                 /\ ~(s.audio # None /\ s.audio.pid = p.pid /\ s.audio.is.name = "layer")
        BY <4>1, <4>5 DEF Only
      <4> QED  BY <4>2, <4>3, <4>4, <4>5
    <3> QED  BY <3>1, <3>2, <3>3, <3>4
  <2> HIDE DEF r
  <2>2. t = r.s
    BY DEF r
  <2>3. Saves(s, t) /\ t.latest_video_pts = s.latest_video_pts
    BY <2>1, <2>2, SavesItself, PatSaves, PmtSaves, AudioSaves
  <2> QED  BY <1>2, <2>3
<1> QED  BY <1>1, <1>2

\* The packets of the video that s has taken, by what it knows now, and the newest of
\* them the clock is from.
Shown(s) ==
  {o \in Starts :
     LET p == input.packets[o + 1]
     IN /\ o + 1 \in s.handled
        /\ s.video # None /\ p.pid = s.video.pid
        /\ p.pusi /\ p.payload # None /\ p.pes.pts # None}

Clocked(s, x) ==
  /\ Tabled(s) /\ \A b \in s.handled : b \in Nat /\ b <= x
  /\ s.latest_video_pts # None =>
       /\ Heeds(s)
       /\ \E o \in Shown(s) : /\ \A q \in Shown(s) : q <= o
                               /\ s.latest_video_pts = input.packets[o + 1].pes.pts

LEMMA StreamPacket ==
  ASSUME input \in Inputs, NEW o \in Starts
  PROVE  o \in Nat /\ PacketAt(o) = input.packets[o + 1] /\ PacketAt(o).pid # None
<1>1. o \in Nat /\ o + 1 \in DOMAIN input.packets
  BY StartsTyped
<1>2. Run(o, PACKET)[1] = o + 1
  <2>1. 1 \in 1..PACKET
    BY PacketAssumption
  <2> QED  BY <1>1, <2>1 DEF Run
<1>3. Bytes((o + 1) - 1, (o + 1) - 1 + PACKET) = Run(o, PACKET)
  <2>1. (o + 1) - 1 = o /\ (o + PACKET) - o = PACKET /\ o <= o + PACKET
        /\ o + PACKET \in Nat
    BY <1>1, PacketAssumption
  <2>2. Bytes(o, o + PACKET) = Run(o, (o + PACKET) - o)
    BY <1>1, <2>1, BytesFacts
  <2> QED  BY <2>1, <2>2
<1>4. PacketAt(o) = input.packets[o + 1]
  BY <1>1, <1>2, <1>3 DEF PacketAt, Packet
<1>5. input.packets[o + 1].pid \in Nat
  BY <1>1, TimeAssumption
<1> QED  BY <1>1, <1>4, <1>5, ClockAssumption

LEMMA HearClocks ==
  ASSUME input \in Inputs, NEW s, NEW o \in Starts, Clocked(s, o)
  PROVE  Clocked(Heard(s, o), o + 1)
<1> DEFINE p == PacketAt(o)
           a == OnPacket(s, p).s
           t == [a EXCEPT !["handled"] = a.handled \cup {o + 1}]
<1>0. o \in Nat /\ p = input.packets[o + 1] /\ p.pid # None
  BY StreamPacket
<1>1. t = Heard(s, o)
  BY DEF Heard
<1> HIDE DEF p
<1>2. Tabled(s) /\ \A b \in s.handled : b \in Nat /\ b <= o
  BY DEF Clocked
<1>3. /\ Saves(s, a)
      /\ Noticed(s, p) => Heeds(a) /\ a.video = s.video /\ a.latest_video_pts = p.pes.pts
      /\ ~Noticed(s, p) => a.latest_video_pts = s.latest_video_pts
  BY <1>0, <1>2, PacketSaves
<1> HIDE DEF a
<1>4. {"pmt_pid", "pmt_seen", "video", "audio", "latest_video_pts", "handled"}
        \subseteq ScannerFields
  BY DEF ScannerFields
<1>5. /\ IsScanner(t) /\ t.handled = s.handled \cup {o + 1}
      /\ t.video = a.video /\ t.audio = a.audio /\ t.pmt_pid = a.pmt_pid
      /\ t.pmt_seen = a.pmt_seen /\ t.latest_video_pts = a.latest_video_pts
  BY <1>3, <1>4, FieldSet DEF Saves, Tabled
<1> HIDE DEF t
<1>6. Tabled(t) /\ (Heeds(a) => Heeds(t))
  BY <1>3, <1>5 DEF Saves, Tabled, Heeds
<1>7. \A b \in t.handled : b \in Nat /\ b <= o + 1
  <2>1. \A b \in s.handled : b \in Nat /\ b <= o + 1
    BY <1>0, <1>2
  <2> QED  BY <1>0, <1>5, <2>1
<1>8. ASSUME t.latest_video_pts # None
      PROVE  /\ Heeds(t)
             /\ \E z \in Shown(t) : /\ \A q \in Shown(t) : q <= z
                                     /\ t.latest_video_pts = input.packets[z + 1].pes.pts
  <2>1. CASE Noticed(s, p)
    <3>1. t.video = s.video /\ t.latest_video_pts = p.pes.pts /\ Heeds(t)
      BY <1>3, <1>5, <1>6, <2>1
    <3>2. o \in Shown(t)
      BY <1>0, <1>5, <2>1, <3>1 DEF Shown, Noticed
    <3>3. \A q \in Shown(t) : q <= o
      <4> SUFFICES ASSUME NEW q \in Shown(t) PROVE q <= o
        OBVIOUS
      <4>1. q \in Starts /\ q + 1 \in t.handled
        BY DEF Shown
      <4>2. q \in Nat /\ q + 1 <= o + 1
        BY <1>7, <4>1, StartsTyped
      <4> QED  BY <1>0, <4>2
    <3> QED  BY <1>0, <3>1, <3>2, <3>3
  <2>2. CASE ~Noticed(s, p)
    <3>1. t.latest_video_pts = s.latest_video_pts /\ s.latest_video_pts # None
      BY <1>3, <1>5, <1>8, <2>2
    <3>2. Heeds(s) /\ Heeds(t) /\ t.video = s.video
      BY <1>3, <1>5, <1>6, <3>1 DEF Clocked, Saves
    <3>3. PICK z \in Shown(s) : /\ \A q \in Shown(s) : q <= z
                                /\ s.latest_video_pts = input.packets[z + 1].pes.pts
      BY <3>1 DEF Clocked
    <3>4. o \notin Shown(t)
      BY <1>0, <2>2, <3>2 DEF Shown, Noticed, Heeds
    <3>5. Shown(t) = Shown(s)
      <4>1. \A q \in Starts : q # o => (q + 1 \in t.handled <=> q + 1 \in s.handled)
        <5> SUFFICES ASSUME NEW q \in Starts, q # o, q + 1 \in t.handled
                     PROVE  q + 1 \in s.handled
          BY <1>5
        <5>1. q \in Nat
          BY StartsTyped
        <5>2. q + 1 # o + 1
          BY <1>0, <5>1
        <5> QED  BY <1>5, <5>2
      <4>2. o \notin Shown(s)
        BY <1>5, <3>2, <3>4 DEF Shown
      <4> QED  BY <3>2, <3>4, <4>1, <4>2 DEF Shown
    <3> QED  BY <3>1, <3>2, <3>3, <3>5
  <2> QED  BY <2>1, <2>2
<1>9. Clocked(t, o + 1)
  BY <1>6, <1>7, <1>8 DEF Clocked
<1> QED  BY <1>1, <1>9

LEMMA NewClocked == Clocked(NewScanner, 0)
<1>1. /\ NewScanner.latest_video_pts = None /\ NewScanner.handled = {}
      /\ NewScanner.video = None /\ NewScanner.audio = None
  BY DEF NewScanner
<1> QED  BY <1>1, YieldsNothing DEF Clocked, Tabled

LEMMA YieldsClocked ==
  ASSUME input \in Inputs, NEW s, NEW f, NEW x \in Nat, Yields(s, f, x),
         s.latest_video_pts # None
  PROVE  \E o \in Shown(s) : /\ \A q \in Shown(s) : q <= o
                             /\ s.latest_video_pts = input.packets[o + 1].pes.pts
<1>1. PICK h : Tells(h, x) /\ Twins(h[x].s, s) /\ h[x].found = f
  BY DEF Yields
<1> DEFINE T == {y \in Nat : y <= x => Clocked(h[y].s, y)}
<1>2. 0 \in T
  BY <1>1, NewClocked DEF Tells
<1>3. ASSUME NEW y \in Nat, y \in T
      PROVE  y + 1 \in T
  <2> SUFFICES ASSUME y + 1 <= x PROVE Clocked(h[y + 1].s, y + 1)
    OBVIOUS
  <2>1. y \in 0..(x - 1) /\ Clocked(h[y].s, y)
    BY <1>3
  <2>2. CASE y \in Starts
    <3>1. h[y + 1].s = Heard(h[y].s, y)
      <4>1. h[y + 1] = [s |-> Heard(h[y].s, y),
                        found |-> Cat(h[y].found, HeardKey(h[y].s, y))]
        BY <1>1, <2>1, <2>2 DEF Tells
      <4> QED  BY <4>1
    <3> QED  BY <2>1, <2>2, <3>1, HearClocks
  <2>3. CASE y \notin Starts
    <3>1. h[y + 1] = h[y]
      BY <1>1, <2>1, <2>3 DEF Tells
    <3>2. ASSUME NEW b \in h[y].s.handled PROVE b \in Nat /\ b <= y + 1
      <4>1. b \in Nat /\ b <= y
        BY <2>1 DEF Clocked
      <4> QED  BY <4>1
    <3> QED  BY <2>1, <3>1, <3>2 DEF Clocked
  <2> QED  BY <2>2, <2>3
<1> HIDE DEF T
<1>4. x \in T
  BY <1>2, <1>3, SetInduction
<1> DEFINE t == h[x].s
<1>5. Clocked(t, x)
  BY <1>4 DEF T
<1> HIDE DEF t
<1>6. t.handled = s.handled /\ t.video = s.video /\ t.latest_video_pts = s.latest_video_pts
  BY <1>1, AlikeFields DEF Twins, t
<1>7. Shown(t) = Shown(s)
  BY <1>6 DEF Shown
<1> QED  BY <1>5, <1>6, <1>7 DEF Clocked

-----------------------------------------------------------------------------
(* Replay: the lag that is reported. *)

LEMMA NoMultiple ==
  ASSUME NEW P \in Nat, P >= 1, NEW k \in Int, -P < P * k, P * k < P
  PROVE  k = 0
<1>1. CASE k >= 1
  <2>1. P * k = P + P * (k - 1) /\ P * (k - 1) >= 0
    BY <1>1
  <2> QED  BY <2>1
<1>2. CASE k <= -1
  <2>1. P * k = -P - P * (-1 - k) /\ P * (-1 - k) >= 0
    BY <1>2
  <2> QED  BY <2>1
<1> QED  BY <1>1, <1>2

LEMMA ModIs ==
  ASSUME NEW P \in Nat, P >= 1, NEW x \in Int
  PROVE  x % P \in 0..(P - 1) /\ x = P * (x \div P) + (x % P) /\ x \div P \in Int
OBVIOUS

LEMMA ModOnce ==
  ASSUME NEW P \in Nat, P >= 1, NEW x \in Int, NEW m \in Int, NEW r \in 0..(P - 1),
         x = P * m + r
  PROVE  x % P = r
<1> DEFINE d == x \div P
           s == x % P
<1>1. s \in 0..(P - 1) /\ x = P * d + s /\ d \in Int
  BY ModIs
<1> HIDE DEF d, s
<1>2. P * (m - d) = s - r
  BY <1>1
<1>3. m - d = 0
  BY <1>1, <1>2, NoMultiple
<1> QED  BY <1>1, <1>2, <1>3 DEF s

\* What the clock tells of two times a and b.
LEMMA GapIs ==
  ASSUME NEW a \in Nat, NEW b \in Nat, b - a \in Tellable
  PROVE  PtsGap(a % Period, b % Period) = IF b - a \in 0..MaxSaneGap THEN b - a ELSE None
<1> DEFINE ra == a % Period
           rb == b % Period
           qa == a \div Period
           qb == b \div Period
           g == b - a
           d == (rb - ra) % Period
<1>0. Period \in Nat /\ Period >= 1 /\ MaxSaneGap \in 0..(Period - 1)
  BY ClockAssumption
<1>1. ra \in 0..(Period - 1) /\ a = Period * qa + ra /\ qa \in Int
  BY <1>0, ModIs
<1>2. rb \in 0..(Period - 1) /\ b = Period * qb + rb /\ qb \in Int
  BY <1>0, ModIs
<1>3. PtsGap(ra, rb) = IF d <= MaxSaneGap THEN d ELSE None
  BY DEF PtsGap
<1> HIDE DEF ra, rb, qa, qb
<1>4. rb - ra \in Int /\ g \in Int /\ g \in (MaxSaneGap - Period + 1)..(Period - 1)
  BY <1>0, <1>1, <1>2 DEF Tellable
<1>5. CASE g >= 0
  <2>1. rb - ra = Period * (qa - qb) + g /\ qa - qb \in Int /\ g \in 0..(Period - 1)
    BY <1>0, <1>1, <1>2, <1>4, <1>5
  <2> HIDE DEF g
  <2>2. d = g
    BY <1>0, <1>4, <2>1, ModOnce
  <2>3. g \in 0..MaxSaneGap <=> d <= MaxSaneGap
    BY <1>0, <1>4, <1>5, <2>2
  <2> HIDE DEF d
  <2> QED  BY <1>3, <2>2, <2>3 DEF g, ra, rb
<1>6. CASE g < 0
  <2>1. rb - ra = Period * (qa - qb - 1) + (g + Period) /\ qa - qb - 1 \in Int
        /\ g + Period \in 0..(Period - 1) /\ g + Period > MaxSaneGap
    BY <1>0, <1>1, <1>2, <1>4, <1>6
  <2> HIDE DEF g
  <2>2. d = g + Period
    BY <1>0, <1>4, <2>1, ModOnce
  <2>3. g \notin 0..MaxSaneGap /\ ~(d <= MaxSaneGap)
    BY <1>0, <1>4, <1>6, <2>1, <2>2
  <2> HIDE DEF d
  <2> QED  BY <1>3, <2>3 DEF g, ra, rb
<1> QED  BY <1>4, <1>5, <1>6

LEMMA NewestIsMark ==
  ASSUME ReplayInv, keyframes # <<>>
  PROVE  keyframes[Len(keyframes)] \in Marks
<1>1. PICK d \in 0..Len(found) : After(keyframes, found, d)
  BY DEF ReplayInv, KeptOf
<1> QED  BY <1>1 DEF ReplayInv, Rising, After

LEMMA StepIsLagTrue == StepInv => LagTrue
<1> SUFFICES ASSUME StepInv, Clean, keyframes # <<>>, scanner.latest_video_pts # None
             PROVE  LagTrue
  BY DEF LagTrue
<1> DEFINE latest == scanner.latest_video_pts
           kf == keyframes[Len(keyframes)]
           edge == CHOOSE o \in LatestVideo : \A p \in LatestVideo : p <= o
           gap == TimeOf(edge) - TimeOf(kf.at)
<1>1. input \in Inputs /\ scanner.pos \in Nat /\ Yields(scanner, found, scanner.pos)
  BY DEF StepInv, ReplayInv, Holding, AsFar
<1>2. LatestVideo = Shown(scanner)
  BY DEF LatestVideo, Shown
<1>3. \E o \in LatestVideo : /\ \A p \in LatestVideo : p <= o
                             /\ latest = input.packets[o + 1].pes.pts
  BY <1>1, <1>2, YieldsClocked
<1>4. edge \in LatestVideo /\ latest = input.packets[edge + 1].pes.pts
  <2>1. PICK o \in LatestVideo : /\ \A p \in LatestVideo : p <= o
                                 /\ latest = input.packets[o + 1].pes.pts
    BY <1>3
  <2>2. edge \in LatestVideo /\ \A p \in LatestVideo : p <= edge
    BY <2>1
  <2>3. edge \in Nat /\ o \in Nat
    BY <1>1, <2>1, <2>2, StartsTyped DEF LatestVideo
  <2>4. edge = o
    BY <2>1, <2>2, <2>3
  <2> QED  BY <2>1, <2>2, <2>4
<1>5. NewestKeyframeLag = IF kf.pts = None THEN None ELSE PtsGap(kf.pts, latest)
  BY DEF NewestKeyframeLag
<1>6. PICK o \in Starts \cap Nat : kf = [at |-> o, pts |-> input.packets[o + 1].pes.pts]
  BY NewestIsMark DEF StepInv, Marks
<1> HIDE DEF kf, edge, latest
<1>7. CASE kf.pts = None
  BY <1>5, <1>7 DEF LagTrue, kf
<1>8. CASE kf.pts # None
  <2>1. TimeOf(kf.at) \in Nat /\ kf.pts = TimeOf(kf.at) % Period
    <3>1. o + 1 \in DOMAIN input.packets /\ kf.at = o /\ kf.pts = input.packets[o + 1].pes.pts
      BY <1>1, <1>6, StartsTyped
    <3> QED  BY <1>1, <1>8, <3>1, TimeAssumption DEF TimeOf
  <2>2. TimeOf(edge) \in Nat /\ latest = TimeOf(edge) % Period
    <3>1. edge + 1 \in DOMAIN input.packets
      BY <1>1, <1>4, StartsTyped DEF LatestVideo
    <3>2. latest # None
      BY DEF latest
    <3> QED  BY <1>1, <1>4, <3>1, <3>2, TimeAssumption DEF TimeOf
  <2>3. gap \in Tellable
          => NewestKeyframeLag = IF gap \in 0..MaxSaneGap THEN gap ELSE None
    BY <1>5, <1>8, <2>1, <2>2, GapIs
  <2> QED  BY <1>8, <2>3 DEF LagTrue, kf, edge
<1> QED  BY <1>7, <1>8

\* For any stream and chunks the lag reported is the content between the keyframe an
\* encoder would be primed with and the newest frame of its video, although the clock of
\* both has wrapped (newest_keyframe_lag, pts_gap).
THEOREM LagReported == Spec => []LagTrue
<1>1. Init => StepInv
  BY StepBegins
<1>2. StepInv /\ [Next]_vars => StepInv'
  BY StepKeeps
<1>3. StepInv => LagTrue
  BY StepIsLagTrue
<1> QED  BY <1>1, <1>2, <1>3, PTL DEF Spec

-----------------------------------------------------------------------------
(* Replay: what a new encoder is primed with. *)

LEMMA KeyframeWhole == ReplayInv => FromKeyframeWhole
<1> SUFFICES ASSUME ReplayInv PROVE FromKeyframeWhole
  OBVIOUS
<1> DEFINE floor == Floor(chunks, head)
           l == Len(found)
           inside == {k \in DOMAIN found : found[k].at >= floor}
<1>1. /\ head \in Nat /\ chunks \in Seq(Pieces) /\ Rows(chunks, head, now)
      /\ Rising(found, 0, scanner.pos) /\ scanner.pos \in Nat /\ scanner.pos <= head
      /\ KeptOf(keyframes, found, floor)
  BY DEF ReplayInv, WindowInv, Holding
<1>2. floor \in Nat /\ floor <= head
  BY <1>1, FloorFacts
<1> HIDE DEF floor
<1>3. found \in Seq(Marks) /\ l \in Nat /\ DOMAIN found = 1..l
      /\ \A k \in 1..l : found[k].at \in Nat /\ found[k].at \in Starts
  <2>1. found \in Seq(Marks)
    BY <1>1 DEF Rising
  <2>2. \A k \in 1..l : found[k] \in Marks
    BY <2>1, ElementOfSeq
  <2> QED  BY <2>1, <2>2, LenProperties, MarksTyped
<1>4. PICK d \in 0..l : /\ After(keyframes, found, d)
                        /\ \A k \in 1..d : found[k].at < floor
                        /\ \A k \in 1..Len(keyframes) : keyframes[k].at >= floor
  BY <1>1 DEF KeptOf
<1>5. /\ keyframes \in Seq(Marks) /\ Len(keyframes) = l - d /\ d \in Nat /\ d <= l
      /\ \A k \in 1..Len(keyframes) : keyframes[k] = found[d + k]
      /\ keyframes = <<>> <=> Len(keyframes) = 0
  <2>1. /\ keyframes \in Seq(Marks) /\ Len(keyframes) = l - d
        /\ \A k \in 1..Len(keyframes) : keyframes[k] = found[d + k]
    BY <1>4 DEF After
  <2>2. d \in Nat /\ d <= l
    BY <1>3
  <2>3. keyframes = <<>> <=> Len(keyframes) = 0
    BY <2>1, EmptySeq
  <2> QED  BY <2>1, <2>2, <2>3
<1> HIDE DEF l
<1>6. CASE inside = {}
  <2>1. Len(keyframes) = 0
    <3> SUFFICES ASSUME Len(keyframes) # 0 PROVE FALSE
      OBVIOUS
    <3>1. 1 \in 1..Len(keyframes) /\ d + 1 \in 1..l
      BY <1>3, <1>5
    <3>2. found[d + 1].at >= floor
      BY <1>4, <1>5, <3>1
    <3> QED  BY <1>3, <1>6, <3>1, <3>2
  <2> QED  BY <1>5, <1>6, <2>1 DEF FromKeyframeWhole, floor
<1>7. CASE inside # {}
  <2>1. PICK i \in 1..l : found[i].at >= floor
    BY <1>3, <1>7
  <2>2. ~(i <= d)
    <3> SUFFICES ASSUME i <= d PROVE FALSE
      OBVIOUS
    <3>1. i \in 1..d
      BY <1>5
    <3>2. found[i].at < floor /\ found[i].at \in Nat
      BY <1>3, <1>4, <3>1
    <3> QED  BY <1>2, <2>1, <3>2
  <2> DEFINE newest == found[l].at
  <2>3. l \in 1..l /\ Len(keyframes) \in 1..Len(keyframes) /\ d + Len(keyframes) = l
    BY <1>3, <1>5, <2>1, <2>2
  <2>4. keyframes # <<>> /\ keyframes[Len(keyframes)] = found[l]
        /\ keyframes[Len(keyframes)].at >= floor
    BY <1>4, <1>5, <2>3
  <2>5. /\ newest \in Nat /\ newest \in Starts /\ newest >= floor
        /\ newest < scanner.pos
    BY <1>1, <1>3, <2>3, <2>4 DEF Rising, l
  <2>6. newest <= head
    BY <1>1, <2>5
  <2> HIDE DEF newest
  <2>7. BytesFrom(newest) = Run(newest, head - newest)
    BY <1>1, <1>2, <2>5, <2>6, BytesFromIs DEF floor
  <2>8. Bytes(newest, head) = Run(newest, head - newest)
    BY <1>1, <2>5, <2>6, BytesFacts
  <2>9. FromKeyframe = BytesFrom(newest)
    BY <2>4 DEF FromKeyframe, newest
  <2>10. FromKeyframe = Bytes(found[Len(found)].at, head) /\ found[Len(found)].at \in Starts
    BY <2>5, <2>7, <2>8, <2>9 DEF newest, l
  <2> QED  BY <1>7, <2>10 DEF FromKeyframeWhole, floor
<1> QED  BY <1>6, <1>7

\* In a clean stream the first convincing byte is the first of a packet, since no
\* other byte is a sync byte and packets do not overlap.
LEMMA SyncTrimIs ==
  ASSUME Clean, input \in Inputs, head \in Nat, head <= input.len,
         NEW o \in Nat, o <= head, NEW b \in Boundary(o)
  PROVE  SyncTrim(Run(o, head - o)) = Bytes(b, head)
<1> DEFINE m == head - o
           data == Run(o, m)
           hl == IF Len(data) < 2 * PACKET THEN Len(data) ELSE 2 * PACKET
           starts == {i \in 0..(PACKET - 1) : i < hl /\ Synced(SubSeq(data, 1, hl), i)}
           z == b - o
<1>1. /\ PACKET \in Nat /\ PACKET >= 1 /\ m \in Nat /\ input.len \in Nat
      /\ DOMAIN input.packets \subseteq Nat
      /\ \A p, q \in DOMAIN input.packets : p < q => p + PACKET <= q
  BY PacketAssumption, InputAssumption
<1>2. b \in Starts /\ b + 1 \in DOMAIN input.packets /\ b \in Int /\ o <= b /\ b < o + PACKET
      /\ b < head
  <2>1. b \in Starts /\ o <= b /\ b < o + PACKET /\ b < head
    BY DEF Boundary
  <2>2. PICK p \in DOMAIN input.packets : b = p - 1
    BY <2>1 DEF Starts
  <2>3. p \in Nat /\ b + 1 = p
    BY <1>1, <2>2
  <2> QED  BY <2>1, <2>2, <2>3
<1>3. /\ hl \in 0..m /\ hl \in Nat /\ z \in 0..(PACKET - 1) /\ z < hl /\ o + z = b
      /\ hl <= m /\ hl <= 2 * PACKET /\ z \in 0..m /\ m - z = head - b
  <2>1. Len(data) = m
    BY <1>1, RunFacts
  <2> HIDE DEF data
  <2> QED  BY <1>1, <1>2, <2>1
<1> HIDE DEF hl, z
<1>4. SubSeq(data, 1, hl) = Run(o, hl) /\ Len(data) = m /\ Len(Run(o, hl)) = hl
  BY <1>1, <1>3, RunUpTo, RunFacts
<1>5. ASSUME NEW i \in 0..(PACKET - 1), i < hl
      PROVE  Synced(SubSeq(data, 1, hl), i)
               <=> /\ o + i + 1 \in input.syncs
                   /\ i + PACKET < hl => o + i + PACKET + 1 \in input.syncs
  <2> DEFINE h == Run(o, hl)
  <2>1. \A k \in 1..hl : h[k] = o + k
    BY <1>3, RunFacts
  <2>2. i + 1 \in 1..hl /\ o + (i + 1) = o + i + 1
    BY <1>1, <1>3, <1>5
  <2>3. i + PACKET < hl => i + PACKET + 1 \in 1..hl /\ o + (i + PACKET + 1) = o + i + PACKET + 1
    BY <1>1, <1>3, <1>5
  <2> HIDE DEF h
  <2>4. h[i + 1] = o + i + 1
    BY <2>1, <2>2
  <2>5. i + PACKET < hl => h[i + PACKET + 1] = o + i + PACKET + 1
    BY <2>1, <2>3
  <2>6. Len(h) = hl /\ SubSeq(data, 1, hl) = h
    BY <1>4 DEF h
  <2> QED  BY <2>4, <2>5, <2>6 DEF Synced, IsSync
<1>6. z \in starts
  <2>1. o + z + 1 = b + 1 /\ b + 1 \in input.syncs
    BY <1>2, <1>3 DEF Clean
  <2>2. z + PACKET < hl => o + z + PACKET + 1 \in input.syncs
    <3> SUFFICES ASSUME z + PACKET < hl PROVE o + z + PACKET + 1 \in input.syncs
      OBVIOUS
    <3>1. ~(b + PACKET >= input.len)
      BY <1>1, <1>2, <1>3
    <3>2. b + PACKET \in Starts
      BY <1>2, <3>1 DEF Clean
    <3>3. PICK p \in DOMAIN input.packets : b + PACKET = p - 1
      BY <3>2 DEF Starts
    <3>4. o + z + PACKET + 1 = p
      BY <1>1, <1>2, <1>3, <3>3
    <3> QED  BY <3>3, <3>4 DEF Clean
  <2> QED  BY <1>3, <1>5, <2>1, <2>2
<1>7. ASSUME NEW i \in starts
      PROVE  z <= i
  <2>1. i \in 0..(PACKET - 1) /\ o + i + 1 \in DOMAIN input.packets
    BY <1>5 DEF Clean
  <2>2. o + i + 1 < b + 1 => (o + i + 1) + PACKET <= b + 1
    BY <1>1, <1>2, <2>1
  <2> HIDE DEF starts
  <2>3. CASE o + i + 1 < b + 1
    BY <1>1, <1>2, <1>3, <2>1, <2>2, <2>3
  <2>4. CASE ~(o + i + 1 < b + 1)
    BY <1>1, <1>2, <1>3, <2>1, <2>4
  <2> QED  BY <2>3, <2>4
<1>8. \A i \in starts : i \in Int
  BY <1>1
<1> HIDE DEF starts
<1>9. (CHOOSE i \in starts : \A j \in starts : i <= j) = z
  <2>1. \A i \in starts : (\A j \in starts : i <= j) <=> i = z
    BY <1>6, <1>7, <1>8
  <2> QED  BY <1>6, <2>1
<1>10. SyncTrim(data) = SubSeq(data, 1 + z, m)
  <2>1. SyncTrim(data)
          = IF starts = {} THEN data
            ELSE SubSeq(data, 1 + CHOOSE i \in starts : \A j \in starts : i <= j, Len(data))
    <3> HIDE DEF data
    <3> QED  BY DEF SyncTrim, starts, hl
  <2> HIDE DEF data
  <2> QED  BY <1>4, <1>6, <1>9, <2>1
<1>11. SubSeq(data, z + 1, m) = Run(o + z, m - z) /\ 1 + z = z + 1
  <2>1. m \in Nat /\ z \in 0..m /\ data = Run(o, m)
    BY <1>1, <1>3
  <2> HIDE DEF m, data
  <2>2. SubSeq(Run(o, m), z + 1, m) = Run(o + z, m - z)
    BY <2>1, RunFrom
  <2> QED  BY <2>1, <2>2
<1>12. Bytes(b, head) = Run(b, head - b)
  <2>1. b \in Nat /\ b <= head
    BY <1>2
  <2> QED  BY <2>1, BytesFacts
<1> HIDE DEF data, m
<1> QED  BY <1>3, <1>10, <1>11, <1>12 DEF data, m

\* The tail begins with the oldest chunk that came within TailAge of the newest.
LEMMA TailStartIs ==
  ASSUME ReplayInv, chunks # <<>>
  PROVE  /\ TailStart \in Nat /\ Floor(chunks, head) <= TailStart /\ TailStart <= head
         /\ \A k \in 1..Len(chunks) :
              chunks[k].start >= TailStart <=> chunks[Len(chunks)].at - chunks[k].at <= TailAge
<1> DEFINE l == Len(chunks)
           I == {i \in 1..l : chunks[l].at - chunks[i].at <= TailAge}
           m == Min(I)
<1>1. /\ head \in Nat /\ chunks \in Seq(Pieces) /\ Rows(chunks, head, now) /\ TailAge \in Nat
  BY WindowAssumption DEF ReplayInv, WindowInv
<1>2. /\ l \in Nat /\ l \in 1..l
      /\ \A k \in 1..l : /\ chunks[k].at \in Nat /\ chunks[k].start \in Nat
                         /\ EndOf(chunks[k]) \in Nat /\ chunks[k].start < EndOf(chunks[k])
                         /\ EndOf(chunks[k]) <= head
  <2>1. l \in Nat /\ l # 0
    BY <1>1, LenProperties, EmptySeq
  <2>2. ASSUME NEW k \in 1..l
        PROVE  /\ chunks[k].at \in Nat /\ chunks[k].start \in Nat
               /\ EndOf(chunks[k]) \in Nat /\ chunks[k].start < EndOf(chunks[k])
               /\ EndOf(chunks[k]) <= head
    <3>1. /\ chunks[k].at \in Nat /\ chunks[k].start \in Nat /\ chunks[k].data \in Seq(Nat)
          /\ Len(chunks[k].data) \in Nat /\ EndOf(chunks[k]) \in Nat
          /\ EndOf(chunks[k]) = chunks[k].start + Len(chunks[k].data)
      BY <1>1, PieceFacts
    <3>2. chunks[k].data # <<>> /\ EndOf(chunks[k]) <= head
      BY <1>1 DEF Rows
    <3>3. Len(chunks[k].data) # 0
      BY <3>1, <3>2, EmptySeq
    <3> QED  BY <3>1, <3>2, <3>3
  <2> QED  BY <2>1, <2>2
<1> HIDE DEF l
<1>3. l \in I
  BY <1>1, <1>2
<1>4. m \in I /\ \A i \in I : m <= i
  <2>1. I \in SUBSET Nat
    BY <1>2
  <2>2. \E a \in I : \A i \in I : a <= i
    <3> HIDE DEF I
    <3> QED  BY <1>3, <2>1, Least
  <2> HIDE DEF I
  <2> QED  BY <2>2 DEF Min
<1>5. TailStart = chunks[m].start /\ m \in 1..l /\ chunks[l].at - chunks[m].at <= TailAge
  <2>1. m \in 1..l /\ chunks[l].at - chunks[m].at <= TailAge
    BY <1>4
  <2>2. m # 0 /\ I # {}
    BY <1>2, <1>3, <2>1
  <2>3. TailStart = chunks[m].start
    BY <2>2 DEF TailStart, SelectInSeq, l
  <2> QED  BY <2>1, <2>3
<1>6. ASSUME NEW i \in 1..l, NEW j \in 1..l, i < j
      PROVE  chunks[i].start < chunks[j].start /\ chunks[i].at <= chunks[j].at
  <2>1. EndOf(chunks[i]) <= chunks[j].start /\ chunks[i].at <= chunks[j].at
    BY <1>1, <1>6 DEF Rows, l
  <2> QED  BY <1>2, <2>1
<1>7. ASSUME NEW k \in 1..l
      PROVE  chunks[k].start >= TailStart <=> chunks[l].at - chunks[k].at <= TailAge
  <2>1. CASE k < m
    <3>1. k \notin I
      <4> HIDE DEF I
      <4> QED  BY <1>2, <1>4, <1>5, <2>1
    <3>2. ~(chunks[l].at - chunks[k].at <= TailAge)
      BY <3>1
    <3>3. chunks[k].start < chunks[m].start
      BY <1>5, <1>6, <2>1
    <3> HIDE DEF m
    <3> QED  BY <1>2, <1>5, <3>2, <3>3
  <2>2. CASE ~(k < m)
    <3> HIDE DEF m, I
    <3>1. chunks[m].start <= chunks[k].start /\ chunks[m].at <= chunks[k].at
      <4>1. CASE k = m
        BY <1>2, <4>1
      <4>2. CASE k # m
        <5>1. m < k
          BY <1>2, <1>5, <2>2, <4>2
        <5> QED  BY <1>2, <1>5, <1>6, <5>1
      <4> QED  BY <4>1, <4>2
    <3>2. chunks[k].start >= TailStart
      BY <1>2, <1>5, <3>1
    <3>3. /\ chunks[l].at \in Nat /\ chunks[k].at \in Nat /\ chunks[m].at \in Nat
      BY <1>2, <1>5
    <3>4. chunks[l].at - chunks[k].at <= TailAge
      <4>1. TailAge \in Nat /\ chunks[l].at - chunks[m].at <= TailAge
        BY <1>1, <1>5
      <4> QED  BY <3>1, <3>3, <4>1
    <3> QED  BY <3>2, <3>4
  <2> QED  BY <2>1, <2>2
<1> HIDE DEF m, I
<1>8. TailStart \in Nat /\ TailStart <= head
  BY <1>1, <1>2, <1>5
<1>9. Floor(chunks, head) <= TailStart
  BY <1>1, <1>5, FloorFacts DEF l
<1> QED  BY <1>7, <1>8, <1>9 DEF l

LEMMA TrimmedWell == ReplayInv => TrimmedToPacket
<1> SUFFICES ASSUME ReplayInv, Clean PROVE TrimmedToPacket
  BY DEF TrimmedToPacket
<1>1. /\ head \in Nat /\ chunks \in Seq(Pieces) /\ Rows(chunks, head, now)
      /\ input \in Inputs /\ head <= input.len
  BY DEF ReplayInv, WindowInv
<1>2. Floor(chunks, head) \in Nat /\ Floor(chunks, head) <= head
  BY <1>1, FloorFacts
<1>3. ASSUME NEW o \in Nat, Floor(chunks, head) <= o, o <= head, NEW b \in Boundary(o)
      PROVE  SyncTrim(BytesFrom(o)) = Bytes(b, head)
  <2>1. BytesFrom(o) = Run(o, head - o)
    BY <1>1, <1>3, BytesFromIs
  <2>2. SyncTrim(Run(o, head - o)) = Bytes(b, head)
    BY <1>1, <1>3, SyncTrimIs
  <2> QED  BY <2>1, <2>2
<1>4. TailStart \in Nat /\ Floor(chunks, head) <= TailStart /\ TailStart <= head
  <2>1. CASE chunks = <<>>
    <3>1. {i \in 1..Len(chunks) : chunks[Len(chunks)].at - chunks[i].at <= TailAge} = {}
      <4>1. Len(chunks) = 0
        BY <2>1, EmptySeq
      <4> QED  BY <4>1
    <3>2. TailStart = Floor(chunks, head)
      BY <3>1 DEF TailStart, SelectInSeq
    <3> QED  BY <1>1, <1>2, <3>2
  <2>2. CASE chunks # <<>>
    BY <2>2, TailStartIs
  <2> QED  BY <2>1, <2>2
<1>5. \A b \in Boundary(TailStart) : TailPrimed = Bytes(b, head)
  BY <1>3, <1>4 DEF TailPrimed
<1>6. keyframes = <<>> => \A b \in Boundary(Floor(chunks, head)) : FromKeyframe = Bytes(b, head)
  <2>1. Floor(chunks, head) <= Floor(chunks, head)
    BY <1>2
  <2> QED  BY <1>2, <1>3, <2>1 DEF FromKeyframe
<1>7. ASSUME NEW k \in DOMAIN chunks
      PROVE  (chunks[k].start >= TailStart) = (chunks[Len(chunks)].at - chunks[k].at <= TailAge)
  <2>1. k \in 1..Len(chunks) /\ chunks # <<>>
    BY <1>1
  <2>2. chunks[k].start >= TailStart <=> chunks[Len(chunks)].at - chunks[k].at <= TailAge
    BY <2>1, TailStartIs
  <2> QED  BY <2>2
<1> QED  BY <1>5, <1>6, <1>7 DEF TrimmedToPacket

\* Whatever the stream, the chunks and the bounds: an encoder primed from a keyframe is
\* given the newest one in the window, whole and from its first byte, and one primed
\* from a clean stream without, the window or its newest part from the first packet
\* on (Replay::snapshot, bytes_from, sync_trim, trim).
THEOREM EncoderPrimed == Spec => []Primed
<1>1. Init => ReplayInv
  BY ReplayBegins
<1>2. ReplayInv /\ [Next]_vars => ReplayInv'
  BY ReplayStep
<1>3. ReplayInv => Primed
  BY KeyframeWhole, TrimmedWell DEF Primed
<1> QED  BY <1>1, <1>2, <1>3, PTL DEF Spec
=============================================================================
