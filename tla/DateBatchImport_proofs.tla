----------------------- MODULE DateBatchImport_proofs -----------------------
(***************************************************************************)
(* Theorems about DateBatchImport, for any range, any registry entries and *)
(* any number of rows per day.                                             *)
(*                                                                         *)
(* The argument follows the cursor of the import, the day in front of      *)
(* which everything was asked for: the plan and the work list run from the *)
(* cursor to the end without a gap, nothing at or behind the cursor was    *)
(* written, and every day in front of it is accounted for.                 *)
(***************************************************************************)
EXTENDS DateBatchImport, NumberSets, SequenceTheorems

\* A plan for the days from .. to: ranges without a gap, from the first to the last.
Covers(seq, from, to) ==
    /\ Len(seq) > 0 /\ Tiles(seq)
    /\ seq[1].from = from /\ seq[Len(seq)].to = to

ChunkSet == [from : Days, to : Days]
ItemSet  == [from : Days, to : Days, depth : 0 .. MaxDepth]

-----------------------------------------------------------------------------
(***************************************************************************)
(* DateBatchSplitter.split.                                                *)
(***************************************************************************)
\* Counting in steps keeps the order.
LEMMA StepsGrow ==
    ASSUME NEW i \in Nat, NEW j \in Nat, i <= j, NEW n \in Nat
    PROVE  i * n <= j * n
<1>1. (j - i) \in Nat
  OBVIOUS
<1>2. (j - i) * n \in Nat
  BY <1>1
<1>3. j * n = i * n + (j - i) * n
  OBVIOUS
<1>4. i * n \in Nat /\ j * n \in Nat
  OBVIOUS
<1> QED
  BY <1>2, <1>3, <1>4

\* The chunks of a range cover it, for every chunk length; with one day per chunk
\* every chunk is a day.
LEMMA SplitCovers ==
    ASSUME NEW a \in Int, NEW b \in Int, a <= b, NEW n \in Nat \ {0}
    PROVE  /\ Split(a, b, n) \in Seq([from : a .. b, to : a .. b])
           /\ Covers(Split(a, b, n), a, b)
           /\ n = 1 => \A i \in DOMAIN Split(a, b, n) :
                           Split(a, b, n)[i].from = Split(a, b, n)[i].to
<1> DEFINE q == (b - a) \div n
           K == q + 1
           seq == Split(a, b, n)
           From(i) == a + (i - 1) * n
           To(i) == Earlier(a + i * n - 1, b)
<1>1. /\ q \in Nat /\ K \in Nat /\ 1 <= K /\ q * n \in Nat
      /\ q * n <= b - a /\ b - a < q * n + n
  OBVIOUS
<1> HIDE DEF q
<1>2. seq = [i \in 1 .. K |-> Chunk(From(i), To(i))]
  BY DEF Split, q
<1>3. ASSUME NEW i \in 1 .. K
      PROVE  /\ From(i) \in a .. b /\ To(i) \in a .. b /\ From(i) <= To(i)
             /\ i < K => To(i) = a + i * n - 1 /\ From(i + 1) = a + i * n
             /\ i = K => To(i) = b
  <2>1. i \in Nat /\ i - 1 \in Nat /\ i - 1 <= q
    BY <1>1
  <2>2. (i - 1) * n \in Nat /\ (i - 1) * n <= q * n
    BY <1>1, <2>1, StepsGrow
  <2>3. i * n = (i - 1) * n + n
    BY <2>1
  <2>4. From(i) \in a .. b
    BY <1>1, <2>2
  <2>5. To(i) \in a .. b /\ From(i) <= To(i)
    BY <1>1, <2>2, <2>3, <2>4 DEF Earlier
  <2>6. ASSUME i < K
        PROVE  To(i) = a + i * n - 1 /\ From(i + 1) = a + i * n
    <3>1. i <= q
      BY <1>1, <2>1, <2>6
    <3>2. i * n <= q * n
      BY <1>1, <2>1, <3>1, StepsGrow
    <3>3. i * n \in Nat
      BY <2>1
    <3>4. a + i * n - 1 <= b
      BY <1>1, <3>2, <3>3
    <3> QED
      BY <2>1, <3>4 DEF Earlier
  <2>7. ASSUME i = K
        PROVE  To(i) = b
    <3>1. i * n = q * n + n
      BY <1>1, <2>3, <2>7
    <3> QED
      BY <1>1, <3>1 DEF Earlier
  <2> QED
    BY <2>4, <2>5, <2>6, <2>7
<1>4. ASSUME NEW i \in 1 .. K
      PROVE  Chunk(From(i), To(i)) \in [from : a .. b, to : a .. b]
  BY <1>3 DEF Chunk
<1>5. ASSUME NEW i \in 1 .. K
      PROVE  seq[i] = Chunk(From(i), To(i))
  BY <1>2
<1>6. seq \in [1 .. K -> [from : a .. b, to : a .. b]]
  <2> HIDE DEF seq, From, To, K
  <2> QED
    BY <1>2, <1>4
<1>7. seq \in Seq([from : a .. b, to : a .. b]) /\ Len(seq) = K /\ DOMAIN seq = 1 .. K
  <2> DEFINE T == [from : a .. b, to : a .. b]
  <2> HIDE DEF seq, From, To, K, T
  <2>1. seq \in Seq(T)
    <3>1. seq \in [1 .. K -> T] /\ K \in Nat
      BY <1>1, <1>6 DEF T
    <3>2. Seq(T) = UNION {[1 .. k -> T] : k \in Nat}
      BY SeqDef
    <3> QED
      BY <3>1, <3>2
  <2>2. DOMAIN seq = 1 .. K /\ DOMAIN seq = 1 .. Len(seq) /\ Len(seq) \in Nat
    BY <1>6, <2>1, LenProperties DEF T
  <2>3. Len(seq) = K
    BY <1>1, <2>2
  <2> QED
    BY <2>1, <2>2, <2>3 DEF T
<1>8. ASSUME NEW i \in 1 .. K
      PROVE  seq[i].from = From(i) /\ seq[i].to = To(i)
  <2> HIDE DEF seq, From, To, K
  <2>1. seq[i] = [from |-> From(i), to |-> To(i)]
    BY <1>5 DEF Chunk
  <2> QED
    BY <2>1
<1> HIDE DEF seq
<1>9. 1 \in 1 .. K /\ K \in 1 .. K
  BY <1>1
<1>10. seq[1].from = a /\ seq[K].to = b
  <2>1. From(1) = a
    BY <1>1
  <2> QED
    BY <1>3, <1>8, <1>9, <2>1
<1>11. \A i \in 1 .. K : seq[i].from <= seq[i].to
  BY <1>3, <1>8
<1>12. ASSUME NEW i \in 1 .. K - 1
       PROVE  seq[i].to + 1 = seq[i + 1].from
  <2>1. i \in 1 .. K /\ i + 1 \in 1 .. K /\ i < K /\ i * n \in Nat
    BY <1>1
  <2>2. seq[i].to = a + i * n - 1 /\ seq[i + 1].from = a + i * n
    BY <1>3, <1>8, <2>1
  <2> QED
    BY <2>1, <2>2
<1>13. Covers(seq, a, b)
  BY <1>1, <1>7, <1>10, <1>11, <1>12 DEF Covers, Tiles
<1>14. ASSUME n = 1, NEW i \in 1 .. K
       PROVE  From(i) = To(i)
  <2>1. From(i) = a + i - 1 /\ a + i * n - 1 = a + i - 1 /\ i \in Int
    BY <1>1, <1>14
  <2>2. From(i) <= b
    BY <1>3
  <2> QED
    BY <2>1, <2>2 DEF Earlier
<1> QED
  BY <1>7, <1>8, <1>13, <1>14 DEF seq

\* The chunks by their number: so many, from there to there.
LEMMA SplitByNumber ==
    ASSUME NEW a \in Int, NEW b \in Int, a <= b, NEW n \in Nat \ {0}
    PROVE  /\ Split(a, b, n) \in Seq([from : Int, to : Int])
           /\ (b - a) \div n \in Nat
           /\ Len(Split(a, b, n)) = (b - a) \div n + 1
           /\ \A i \in 1 .. (b - a) \div n + 1 : Split(a, b, n)[i] =
                  [from |-> a + (i - 1) * n, to |-> Earlier(a + i * n - 1, b)]
<1>1. PICK K : K = (b - a) \div n + 1
  OBVIOUS
<1>2. (b - a) \div n \in Nat /\ K \in Nat
  BY <1>1
<1>3. PICK T : T = [from : Int, to : Int]
  OBVIOUS
<1>4. \A i \in 1 .. K : Chunk(a + (i - 1) * n, Earlier(a + i * n - 1, b)) \in T
  BY <1>2, <1>3 DEF Chunk, Earlier
<1>5. PICK seq : seq = Split(a, b, n)
  OBVIOUS
<1>6. seq = [i \in 1 .. K |-> Chunk(a + (i - 1) * n, Earlier(a + i * n - 1, b))]
  BY <1>1, <1>5 DEF Split
<1>7. seq \in [1 .. K -> T]
  BY <1>4, <1>6
<1>8. seq \in Seq(T)
  <2>1. Seq(T) = UNION {[1 .. k -> T] : k \in Nat}
    BY SeqDef
  <2> QED
    BY <1>2, <1>7, <2>1
<1>9. Len(seq) = K
  <2>1. DOMAIN seq = 1 .. K /\ DOMAIN seq = 1 .. Len(seq) /\ Len(seq) \in Nat
    BY <1>7, <1>8, LenProperties
  <2> QED
    BY <1>2, <2>1
<1>10. \A i \in 1 .. K :
          seq[i] = [from |-> a + (i - 1) * n, to |-> Earlier(a + i * n - 1, b)]
  BY <1>6 DEF Chunk
<1> QED
  BY <1>1, <1>2, <1>3, <1>5, <1>8, <1>9, <1>10

\* The first chunk, and the chunks of what is left.
Rest(x, b, n) == IF x > b THEN <<>> ELSE Split(x, b, n)
Turn(x, b, n) == Earlier(x + n - 1, b)

\* Cutting a range begins like the loop: with one chunk, and the rest behind it.
LEMMA SplitTakesOne ==
    ASSUME NEW a \in Int, NEW b \in Int, a <= b, NEW n \in Nat \ {0}
    PROVE  /\ Turn(a, b, n) \in a .. b
           /\ Split(a, b, n) =
                <<Chunk(a, Turn(a, b, n))>> \o Rest(Turn(a, b, n) + 1, b, n)
<1>1. PICK T : T = [from : Int, to : Int]
  OBVIOUS
<1>2. PICK last : last = Turn(a, b, n)
  OBVIOUS
<1>3. last = Earlier(a + n - 1, b) /\ last \in a .. b
  BY <1>2 DEF Turn, Earlier
<1>4. PICK x : x = [from |-> a, to |-> last]
  OBVIOUS
<1>5. /\ x \in T /\ <<x>> \in Seq(T) /\ Len(<<x>>) = 1 /\ <<x>>[1] = x
  BY <1>1, <1>3, <1>4
<1>6. PICK q : q = (b - a) \div n
  OBVIOUS
<1>7. /\ q \in Nat /\ q * n <= b - a /\ b - a < q * n + n /\ q * n \in Nat
  BY <1>6
<1>8. PICK s : s = Split(a, b, n)
  OBVIOUS
<1>9. /\ s \in Seq(T) /\ Len(s) = q + 1
      /\ \A i \in 1 .. q + 1 :
           s[i] = [from |-> a + (i - 1) * n, to |-> Earlier(a + i * n - 1, b)]
  BY <1>1, <1>6, <1>8, SplitByNumber
<1>10. s[1] = x
  <2>1. 1 \in 1 .. q + 1 /\ a + (1 - 1) * n = a /\ a + 1 * n - 1 = a + n - 1
    BY <1>7
  <2> QED
    BY <1>3, <1>4, <1>9, <2>1
<1>11. CASE last = b
  <2>1. q = 0
    <3>1. b <= a + n - 1
      BY <1>3, <1>11 DEF Earlier
    <3>2. CASE q >= 1
      <4>1. 1 * n <= q * n
        BY <1>7, <3>2, StepsGrow
      <4> QED
        BY <1>7, <3>1, <4>1
    <3> QED
      BY <1>7, <3>2
  <2>2. s = <<x>>
    <3>1. Len(s) = Len(<<x>>) /\ \A i \in 1 .. Len(s) : s[i] = <<x>>[i]
      BY <1>5, <1>9, <1>10, <2>1
    <3> QED
      BY <1>5, <1>9, <3>1, SeqEqual
  <2>3. Rest(last + 1, b, n) = <<>>
    BY <1>11 DEF Rest
  <2>4. <<x>> \o <<>> = <<x>>
    BY <1>5, ConcatEmptySeq
  <2> QED
    BY <1>2, <1>3, <1>4, <1>8, <2>2, <2>3, <2>4 DEF Chunk
<1>12. CASE last # b
  <2>1. PICK c : c = last + 1
    OBVIOUS
  <2>2. c = a + n /\ c \in Int /\ c <= b
    BY <1>3, <1>12, <2>1 DEF Earlier
  <2>3. q - 1 \in Nat /\ (b - c) \div n = q - 1
    <3>1. q # 0
      BY <1>7, <2>2
    <3>2. PICK k : k = (b - c) \div n
      OBVIOUS
    <3>3. k \in Nat /\ k * n <= b - c /\ b - c < k * n + n /\ k * n \in Nat
      BY <2>2, <3>2
    <3>4. (k + 1) * n = k * n + n
      BY <3>3
    <3>5. ~(k + 1 < q)
      <4>1. SUFFICES ASSUME k + 1 < q
                     PROVE  FALSE
        OBVIOUS
      <4>2. k + 2 <= q /\ k + 2 \in Nat /\ (k + 2) * n = k * n + n + n
        BY <1>7, <3>3, <4>1
      <4>3. (k + 2) * n <= q * n
        BY <1>7, <4>2, StepsGrow
      <4> QED
        BY <1>7, <2>2, <3>3, <4>2, <4>3
    <3>6. ~(q < k + 1)
      <4>1. SUFFICES ASSUME q < k + 1
                     PROVE  FALSE
        OBVIOUS
      <4>2. q <= k
        BY <1>7, <3>3, <4>1
      <4>3. q * n <= k * n
        BY <1>7, <3>3, <4>2, StepsGrow
      <4> QED
        BY <1>7, <2>2, <3>3, <4>3
    <3>7. k = q - 1
      BY <1>7, <3>3, <3>5, <3>6
    <3> QED
      BY <1>7, <3>1, <3>2, <3>7
  <2>4. PICK t : t = Split(c, b, n)
    OBVIOUS
  <2>5. /\ t \in Seq(T) /\ Len(t) = q
        /\ \A i \in 1 .. q :
             t[i] = [from |-> c + (i - 1) * n, to |-> Earlier(c + i * n - 1, b)]
    <3>1. (q - 1) + 1 = q
      BY <1>7
    <3>2. /\ Split(c, b, n) \in Seq([from : Int, to : Int])
          /\ Len(Split(c, b, n)) = (b - c) \div n + 1
          /\ \A i \in 1 .. (b - c) \div n + 1 : Split(c, b, n)[i] =
               [from |-> c + (i - 1) * n, to |-> Earlier(c + i * n - 1, b)]
      BY <2>2, SplitByNumber
    <3>3. (b - c) \div n + 1 = q
      BY <2>3, <3>1
    <3> QED
      BY <1>1, <2>4, <3>2, <3>3
  <2>6. PICK u : u = <<x>> \o t
    OBVIOUS
  <2>7. /\ u \in Seq(T) /\ Len(u) = q + 1
        /\ \A i \in 1 .. q + 1 : u[i] = IF i <= 1 THEN <<x>>[i] ELSE t[i - 1]
    <3>1. /\ u \in Seq(T) /\ Len(u) = Len(<<x>>) + Len(t)
          /\ \A i \in 1 .. Len(<<x>>) + Len(t) :
               u[i] = IF i <= Len(<<x>>) THEN <<x>>[i] ELSE t[i - Len(<<x>>)]
      BY <1>5, <2>5, <2>6, ConcatProperties
    <3>2. Len(<<x>>) + Len(t) = q + 1 /\ Len(<<x>>) = 1
      BY <1>5, <1>7, <2>5
    <3> QED
      BY <3>1, <3>2
  <2>8. ASSUME NEW i \in 1 .. q + 1
        PROVE  s[i] = u[i]
    <3>1. CASE i = 1
      BY <1>5, <1>10, <2>7, <3>1
    <3>2. CASE i # 1
      <4>1. i - 1 \in 1 .. q /\ i \in Nat
        BY <1>7, <3>2
      <4>2. u[i] = t[i - 1]
        BY <2>7, <3>2, <4>1
      <4>3. t[i - 1] = [from |-> c + ((i - 1) - 1) * n,
                        to |-> Earlier(c + (i - 1) * n - 1, b)]
        BY <2>5, <4>1
      <4>4. /\ c + ((i - 1) - 1) * n = a + (i - 1) * n
            /\ c + (i - 1) * n - 1 = a + i * n - 1
        BY <2>2, <4>1
      <4> QED
        BY <1>9, <4>2, <4>3, <4>4
    <3> QED
      BY <3>1, <3>2
  <2>9. s = u
    <3>1. Len(s) = Len(u) /\ \A i \in 1 .. Len(s) : s[i] = u[i]
      BY <1>9, <2>7, <2>8
    <3> QED
      BY <1>9, <2>7, <3>1, SeqEqual
  <2>10. Rest(last + 1, b, n) = t
    BY <2>1, <2>2, <2>4 DEF Rest
  <2> QED
    BY <1>2, <1>3, <1>4, <1>8, <2>6, <2>9, <2>10 DEF Chunk
<1> QED
  BY <1>11, <1>12

\* The plan of chunks is the one the loop of the source makes, for every range and every
\* chunk length: the loop's function is compared with Split at the latest cursor at which
\* they would differ.
THEOREM SplitIsTheLoop ==
    ASSUME NEW a \in Int, NEW b \in Int, a <= b, NEW n \in Nat \ {0}
    PROVE  Split(a, b, n) = SplitLoop(a, b, n)
<1> DEFINE S == a .. b + 1
           Body(f, x) == IF x > b THEN <<>>
                         ELSE LET last == Earlier(x + n - 1, b)
                              IN  <<Chunk(x, last)>> \o f[last + 1]
           Fits(f) == f = [x \in S |-> Body(f, x)]
           from == CHOOSE f : Fits(f)
           g == [x \in S |-> Rest(x, b, n)]
<1>1. ASSUME NEW x \in S
      PROVE  /\ x \in Int
             /\ x <= b => /\ Earlier(x + n - 1, b) = Turn(x, b, n)
                          /\ Turn(x, b, n) \in x .. b /\ Turn(x, b, n) + 1 \in S
                          /\ Rest(x, b, n) = <<Chunk(x, Turn(x, b, n))>>
                                               \o Rest(Turn(x, b, n) + 1, b, n)
  <2>1. x \in Int /\ a <= x
    OBVIOUS
  <2>2. CASE x <= b
    <3>1. /\ Turn(x, b, n) \in x .. b
          /\ Split(x, b, n) =
               <<Chunk(x, Turn(x, b, n))>> \o Rest(Turn(x, b, n) + 1, b, n)
      BY <2>1, <2>2, SplitTakesOne
    <3>2. Turn(x, b, n) + 1 \in S
      BY <2>1, <3>1
    <3>3. Rest(x, b, n) = Split(x, b, n)
      BY <2>1, <2>2 DEF Rest
    <3> QED
      BY <2>1, <3>1, <3>2, <3>3 DEF Turn
  <2> QED
    BY <2>1, <2>2
<1>2. Fits(g)
  <2>1. ASSUME NEW x \in S
        PROVE  Rest(x, b, n) = Body(g, x)
    <3>1. CASE x > b
      BY <3>1 DEF Rest
    <3>2. CASE ~(x > b)
      <4>1. x <= b
        <5>1. x \in Int
          OBVIOUS
        <5> QED
          BY <3>2, <5>1
      <4>2. g[Turn(x, b, n) + 1] = Rest(Turn(x, b, n) + 1, b, n)
        BY <1>1, <4>1
      <4>3. Body(g, x) = <<Chunk(x, Turn(x, b, n))>> \o g[Turn(x, b, n) + 1]
        BY <3>2 DEF Turn
      <4> QED
        BY <1>1, <4>1, <4>2, <4>3
    <3> QED
      BY <3>1, <3>2
  <2> QED
    BY <2>1
<1>3. Fits(from)
  <2> HIDE DEF Fits
  <2> QED
    BY <1>2
<1>4. SplitLoop(a, b, n) = from[a]
  BY DEF SplitLoop
<1>5. PICK f, h : f = from /\ h = g
  OBVIOUS
<1>6. /\ \A x \in S : f[x] = Body(f, x) /\ h[x] = Body(h, x)
  <2> HIDE DEF from, g, Body, S
  <2> QED
    BY <1>2, <1>3, <1>5
<1>7. ASSUME NEW x \in S, x <= b
      PROVE  /\ Turn(x, b, n) + 1 \in S /\ Turn(x, b, n) + 1 > x
             /\ f[x] = <<Chunk(x, Turn(x, b, n))>> \o f[Turn(x, b, n) + 1]
             /\ h[x] = <<Chunk(x, Turn(x, b, n))>> \o h[Turn(x, b, n) + 1]
  <2>1. x \in Int /\ ~(x > b)
    BY <1>7
  <2>2. Turn(x, b, n) \in x .. b /\ Turn(x, b, n) + 1 \in S
    BY <1>1, <1>7
  <2>3. Body(f, x) = <<Chunk(x, Turn(x, b, n))>> \o f[Turn(x, b, n) + 1]
    BY <2>1 DEF Turn
  <2>4. Body(h, x) = <<Chunk(x, Turn(x, b, n))>> \o h[Turn(x, b, n) + 1]
    BY <2>1 DEF Turn
  <2>5. Turn(x, b, n) + 1 > x
    BY <2>1, <2>2
  <2> HIDE DEF Body, S
  <2> QED
    BY <1>6, <1>7, <2>2, <2>3, <2>4, <2>5
<1>8. ASSUME NEW x \in S, x > b
      PROVE  f[x] = h[x]
  <2>1. Body(f, x) = <<>> /\ Body(h, x) = <<>>
    BY <1>8
  <2> HIDE DEF Body, S
  <2> QED
    BY <1>6, <1>8, <2>1
<1>9. PICK top : top = b + 1
  OBVIOUS
<1>10. top \in Int /\ S = a .. top
  BY <1>9
<1> DEFINE Bad == {k \in 0 .. top - a : f[top - k] # h[top - k]}
<1>11. Bad = {}
  <2>1. SUFFICES ASSUME Bad # {}
                 PROVE  FALSE
    OBVIOUS
  <2>2. Bad \in SUBSET Nat
    BY <1>10
  <2>3. PICK m \in Bad : \A k \in Bad : m <= k
    <3> HIDE DEF Bad
    <3> QED
      BY <2>1, <2>2, Smallest
  <2>4. m \in 0 .. top - a /\ f[top - m] # h[top - m]
    BY <2>3
  <2>5. PICK x : x = top - m
    OBVIOUS
  <2>6. x \in Int /\ a <= x /\ x <= top /\ m = top - x /\ m \in Nat
    BY <1>10, <2>4, <2>5
  <2>7. x \in S
    BY <1>10, <2>6
  <2>8. CASE x > b
    <3> HIDE DEF S
    <3> QED
      BY <1>8, <2>4, <2>5, <2>7, <2>8
  <2>9. CASE ~(x > b)
    <3>1. x <= b
      BY <2>6, <2>9
    <3>2. PICK y : y = Turn(x, b, n) + 1
      OBVIOUS
    <3>3. y \in S /\ y > x /\ f[x] = <<Chunk(x, Turn(x, b, n))>> \o f[y]
          /\ h[x] = <<Chunk(x, Turn(x, b, n))>> \o h[y]
      <4> HIDE DEF S
      <4> QED
        BY <1>7, <2>7, <3>1, <3>2
    <3>4. y \in Int /\ a <= y /\ y <= top
      BY <1>10, <3>3
    <3>5. PICK k : k = top - y
      OBVIOUS
    <3>6. k \in 0 .. top - a /\ k < m /\ top - k = y /\ k \in Nat
      BY <1>10, <2>6, <3>3, <3>4, <3>5
    <3>7. f[y] # h[y]
      BY <2>4, <2>5, <3>3
    <3>8. k \in Bad
      BY <3>6, <3>7
    <3>9. m <= k
      <4> HIDE DEF Bad
      <4> QED
        BY <2>3, <3>8
    <3> QED
      BY <2>6, <3>6, <3>9
  <2> QED
    BY <2>8, <2>9
<1>12. f[a] = h[a]
  <2>1. top - a \in 0 .. top - a /\ top - (top - a) = a
    BY <1>9
  <2>2. top - a \notin Bad
    BY <1>11
  <2> QED
    BY <2>1, <2>2
<1>13. g[a] = Split(a, b, n)
  BY DEF Rest
<1> HIDE DEF from, g
<1> QED
  BY <1>4, <1>5, <1>12, <1>13

-----------------------------------------------------------------------------
(***************************************************************************)
(* Sequences of ranges without a gap.                                      *)
(***************************************************************************)
Ranges(T) == \A x \in T : x.from \in Int /\ x.to \in Int

\* Every range of a plan lies within what the plan covers.
LEMMA Within ==
    ASSUME NEW T, Ranges(T), NEW seq \in Seq(T), NEW a, NEW b, Covers(seq, a, b)
    PROVE  \A i \in 1 .. Len(seq) : a <= seq[i].from /\ seq[i].to <= b
<1> DEFINE N == Len(seq)
<1>1. /\ N \in Nat \ {0} /\ DOMAIN seq = 1 .. N
      /\ \A i \in 1 .. N : seq[i].from \in Int /\ seq[i].to \in Int
  BY LenProperties, ElementOfSeq DEF Covers, Ranges
<1>2. /\ seq[1].from = a /\ seq[N].to = b
      /\ \A i \in 1 .. N : seq[i].from <= seq[i].to
      /\ \A i \in 1 .. N - 1 : seq[i].to + 1 = seq[i + 1].from
  BY <1>1 DEF Covers, Tiles
<1> HIDE DEF N
<1>3. \A i \in 1 .. N : a <= seq[i].from
  <2> DEFINE Bad == {i \in 1 .. N : ~(a <= seq[i].from)}
  <2>1. SUFFICES ASSUME Bad # {}
                 PROVE  FALSE
    OBVIOUS
  <2>2. Bad \in SUBSET Nat
    BY <1>1
  <2>3. PICK m \in Bad : \A k \in Bad : m <= k
    <3> HIDE DEF Bad
    <3> QED
      BY <2>1, <2>2, Smallest
  <2>4. m \in 1 .. N /\ ~(a <= seq[m].from)
    OBVIOUS
  <2>5. m # 1
    BY <1>1, <1>2, <2>4
  <2>6. m - 1 \in 1 .. N /\ m - 1 \notin Bad /\ m - 1 \in 1 .. N - 1
    <3> HIDE DEF Bad
    <3> QED
      BY <1>1, <2>3, <2>4, <2>5
  <2>7. a <= seq[m - 1].from
    BY <2>6
  <2>8. seq[m - 1].to + 1 = seq[m].from /\ seq[m - 1].from <= seq[m - 1].to
    <3>1. (m - 1) + 1 = m
      BY <1>1, <2>4
    <3> QED
      BY <1>2, <2>6, <3>1
  <2>9. 1 \in 1 .. N /\ seq[1].from \in Int
    BY <1>1
  <2> QED
    BY <1>1, <1>2, <2>4, <2>6, <2>7, <2>8, <2>9
<1>4. \A i \in 1 .. N : seq[i].to <= b
  <2> DEFINE Bad == {k \in 0 .. N : k < N /\ ~(seq[N - k].to <= b)}
  <2>1. SUFFICES ASSUME Bad # {}
                 PROVE  FALSE
    <3>1. ASSUME NEW i \in 1 .. N
          PROVE  N - i \in 0 .. N /\ N - i < N /\ N - (N - i) = i
      BY <1>1
    <3> QED
      BY <3>1
  <2>2. Bad \in SUBSET Nat
    BY <1>1
  <2>3. PICK m \in Bad : \A k \in Bad : m <= k
    <3> HIDE DEF Bad
    <3> QED
      BY <2>1, <2>2, Smallest
  <2>4. m \in 0 .. N /\ m < N /\ ~(seq[N - m].to <= b)
    OBVIOUS
  <2>5. N \in 1 .. N /\ seq[N].to \in Int
    BY <1>1
  <2>6. m # 0
    <3>1. N - 0 = N
      BY <1>1
    <3> QED
      BY <1>2, <2>4, <2>5, <3>1
  <2>7. m - 1 \in 0 .. N /\ m - 1 < N /\ m - 1 \notin Bad /\ N - m \in 1 .. N - 1
    <3> HIDE DEF Bad
    <3> QED
      BY <1>1, <2>3, <2>4, <2>6
  <2>8. seq[N - (m - 1)].to <= b
    BY <2>7
  <2>9. N - (m - 1) = (N - m) + 1 /\ (N - m) + 1 \in 1 .. N /\ N - m \in 1 .. N
    BY <1>1, <2>4, <2>7
  <2>10. seq[N - m].to + 1 = seq[(N - m) + 1].from
    BY <1>2, <2>7
  <2> QED
    BY <1>1, <1>2, <2>4, <2>5, <2>8, <2>9, <2>10
<1> QED
  BY <1>3, <1>4 DEF N

\* Two plans one behind the other are a plan.
LEMMA Joined ==
    ASSUME NEW T, Ranges(T), NEW s \in Seq(T), NEW t \in Seq(T),
           NEW a, NEW b \in Int, NEW c, Covers(s, a, b), Covers(t, b + 1, c)
    PROVE  Covers(s \o t, a, c)
<1> DEFINE u == s \o t
           M == Len(s)
           N == Len(t)
<1>1. /\ M \in Nat \ {0} /\ N \in Nat \ {0}
      /\ DOMAIN s = 1 .. M /\ DOMAIN t = 1 .. N
  BY LenProperties DEF Covers
<1>2. /\ u \in Seq(T) /\ Len(u) = M + N /\ DOMAIN u = 1 .. M + N
      /\ \A i \in 1 .. M + N : u[i] = IF i <= M THEN s[i] ELSE t[i - M]
  BY ConcatProperties, LenProperties
<1>3. /\ s[1].from = a /\ s[M].to = b /\ t[1].from = b + 1 /\ t[N].to = c
      /\ \A i \in 1 .. M : s[i].from <= s[i].to
      /\ \A i \in 1 .. M - 1 : s[i].to + 1 = s[i + 1].from
      /\ \A i \in 1 .. N : t[i].from <= t[i].to
      /\ \A i \in 1 .. N - 1 : t[i].to + 1 = t[i + 1].from
  BY <1>1 DEF Covers, Tiles
<1> HIDE DEF u, M, N
<1>4. u[1].from = a
  <2>1. 1 \in 1 .. M + N /\ 1 <= M
    BY <1>1
  <2> QED
    BY <1>2, <1>3, <2>1
<1>5. u[M + N].to = c
  <2>1. M + N \in 1 .. M + N /\ ~(M + N <= M) /\ (M + N) - M = N
    BY <1>1
  <2> QED
    BY <1>2, <1>3, <2>1
<1>6. ASSUME NEW i \in 1 .. M + N
      PROVE  u[i].from <= u[i].to
  <2>1. CASE i <= M
    <3>1. i \in 1 .. M
      BY <1>1, <2>1
    <3> QED
      BY <1>2, <1>3, <2>1, <3>1
  <2>2. CASE ~(i <= M)
    <3>1. i - M \in 1 .. N
      BY <1>1, <2>2
    <3> QED
      BY <1>2, <1>3, <2>2, <3>1
  <2> QED
    BY <2>1, <2>2
<1>7. ASSUME NEW i \in 1 .. (M + N) - 1
      PROVE  u[i].to + 1 = u[i + 1].from
  <2>1. i \in 1 .. M + N /\ i + 1 \in 1 .. M + N /\ i \in Int
    BY <1>1
  <2>2. CASE i < M
    <3>1. i \in 1 .. M - 1 /\ i <= M /\ i + 1 <= M
      BY <1>1, <2>2
    <3> QED
      BY <1>2, <1>3, <2>1, <3>1
  <2>3. CASE i = M
    <3>1. i <= M /\ ~(i + 1 <= M) /\ (i + 1) - M = 1
      BY <1>1, <2>3
    <3>2. u[i] = s[M] /\ u[i + 1] = t[1]
      BY <1>2, <2>1, <2>3, <3>1
    <3> QED
      BY <1>3, <3>2
  <2>4. CASE i > M
    <3>1. /\ i - M \in 1 .. N - 1 /\ ~(i <= M) /\ ~(i + 1 <= M)
          /\ (i + 1) - M = (i - M) + 1
      BY <1>1, <2>4
    <3>2. u[i] = t[i - M] /\ u[i + 1] = t[(i - M) + 1]
      BY <1>2, <2>1, <3>1
    <3> QED
      BY <1>3, <3>1, <3>2
  <2> QED
    BY <1>1, <2>1, <2>2, <2>3, <2>4
<1>8. Len(u) > 0 /\ Tiles(u)
  BY <1>1, <1>2, <1>6, <1>7 DEF Tiles
<1> QED
  BY <1>2, <1>4, <1>5, <1>8 DEF Covers, u

\* The first ranges of a plan are a plan.
LEMMA Begun ==
    ASSUME NEW T, Ranges(T), NEW s \in Seq(T), NEW a, NEW c, Covers(s, a, c),
           NEW k \in 1 .. Len(s)
    PROVE  /\ SubSeq(s, 1, k) \in Seq(T) /\ Len(SubSeq(s, 1, k)) = k
           /\ \A i \in 1 .. k : SubSeq(s, 1, k)[i] = s[i]
           /\ Covers(SubSeq(s, 1, k), a, s[k].to)
<1> DEFINE u == SubSeq(s, 1, k)
<1>1. k \in Nat \ {0} /\ Len(s) \in Nat \ {0} /\ DOMAIN s = 1 .. Len(s)
  BY LenProperties
<1>2. \A i \in 1 .. k : s[i] \in T
  BY <1>1, ElementOfSeq
<1>3. /\ u \in Seq(T) /\ Len(u) = k
      /\ \A i \in 1 .. k : u[i] = s[i]
  <2>1. /\ u \in Seq(T) /\ Len(u) = IF 1 <= k THEN k - 1 + 1 ELSE 0
        /\ \A i \in 1 .. k - 1 + 1 : u[i] = s[1 + i - 1]
    BY <1>1, <1>2, SubSeqProperties
  <2>2. k - 1 + 1 = k /\ 1 <= k /\ \A i \in 1 .. k : 1 + i - 1 = i
    BY <1>1
  <2> HIDE DEF u
  <2> QED
    BY <2>1, <2>2
<1>4. DOMAIN u = 1 .. k
  BY <1>3, LenProperties
<1> HIDE DEF u
<1>5. /\ s[1].from = a
      /\ \A i \in 1 .. Len(s) : s[i].from <= s[i].to
      /\ \A i \in 1 .. Len(s) - 1 : s[i].to + 1 = s[i + 1].from
  BY <1>1 DEF Covers, Tiles
<1>6. 1 \in 1 .. k /\ k \in 1 .. k
  BY <1>1
<1>7. \A i \in 1 .. k : u[i].from <= u[i].to
  BY <1>1, <1>3, <1>5
<1>8. ASSUME NEW i \in 1 .. k - 1
      PROVE  u[i].to + 1 = u[i + 1].from
  <2>1. i \in 1 .. k /\ i + 1 \in 1 .. k /\ i \in 1 .. Len(s) - 1
    BY <1>1
  <2> QED
    BY <1>3, <1>5, <2>1
<1>9. Covers(u, a, s[k].to)
  BY <1>1, <1>3, <1>4, <1>5, <1>6, <1>7, <1>8 DEF Covers, Tiles
<1> QED
  BY <1>3, <1>9 DEF u

\* Without its first range a plan starts where that range ends, or is done.
LEMMA Continued ==
    ASSUME NEW T, Ranges(T), NEW s \in Seq(T), NEW a, NEW c, Covers(s, a, c)
    PROVE  /\ s # <<>> /\ Head(s) = s[1] /\ Head(s) \in T
           /\ Tail(s) \in Seq(T)
           /\ Tail(s) = <<>> => s[1].to = c
           /\ Tail(s) # <<>> => Covers(Tail(s), s[1].to + 1, c)
<1> DEFINE u == Tail(s)
           N == Len(s)
<1>1. N \in Nat \ {0} /\ DOMAIN s = 1 .. N /\ s # <<>>
  BY LenProperties, EmptySeq DEF Covers
<1>2. /\ Head(s) \in T /\ u \in Seq(T) /\ Len(u) = N - 1
      /\ \A i \in 1 .. N - 1 : u[i] = s[i + 1]
  BY <1>1, HeadTailProperties
<1>3. Head(s) = s[1]
  OBVIOUS
<1>4. DOMAIN u = 1 .. N - 1
  BY <1>2, LenProperties
<1>5. /\ s[1].from = a /\ s[N].to = c
      /\ \A i \in 1 .. N : s[i].from <= s[i].to
      /\ \A i \in 1 .. N - 1 : s[i].to + 1 = s[i + 1].from
  BY <1>1 DEF Covers, Tiles
<1> HIDE DEF u, N
<1>6. ASSUME u = <<>>
      PROVE  s[1].to = c
  <2>1. N = 1
    BY <1>1, <1>2, <1>6
  <2> QED
    BY <1>5, <2>1
<1>7. ASSUME u # <<>>
      PROVE  Covers(u, s[1].to + 1, c)
  <2>1. Len(u) \in Nat \ {0}
    BY <1>2, <1>7, EmptySeq
  <2>2. 1 \in 1 .. N - 1 /\ N - 1 \in 1 .. N - 1 /\ (N - 1) + 1 = N
    BY <1>1, <1>2, <2>1
  <2>3. u[1].from = s[1].to + 1 /\ u[N - 1].to = c
    BY <1>2, <1>5, <2>2
  <2>4. ASSUME NEW i \in 1 .. N - 1
        PROVE  u[i].from <= u[i].to
    <3>1. i + 1 \in 1 .. N
      BY <1>1
    <3> QED
      BY <1>2, <1>5, <3>1
  <2>5. ASSUME NEW i \in 1 .. (N - 1) - 1
        PROVE  u[i].to + 1 = u[i + 1].from
    <3>1. i \in 1 .. N - 1 /\ i + 1 \in 1 .. N - 1
      BY <1>1
    <3> QED
      BY <1>2, <1>5, <3>1
  <2> QED
    BY <1>1, <1>2, <1>4, <2>1, <2>3, <2>4, <2>5 DEF Covers, Tiles
<1> QED
  BY <1>1, <1>2, <1>3, <1>6, <1>7 DEF u, N
-----------------------------------------------------------------------------
(***************************************************************************)
(* What the import does with its plan and its work list.                   *)
(***************************************************************************)
LEMMA TypesAreRanges ==
    /\ LastDay \in Nat \ {0} /\ Ranges(ChunkSet) /\ Ranges(ItemSet)
    /\ \A a \in Days, b \in Days : [from : a .. b, to : a .. b] \subseteq ChunkSet
<1>1. LastDay \in Nat \ {0} /\ Days = 1 .. LastDay
  BY RangeAssumption DEF Days
<1>2. ASSUME NEW a \in Days, NEW b \in Days
      PROVE  [from : a .. b, to : a .. b] \subseteq ChunkSet
  <2>1. a .. b \subseteq Days
    BY <1>1
  <2> QED
    BY <2>1 DEF ChunkSet
<1> QED
  BY <1>1, <1>2 DEF Ranges, ChunkSet, ItemSet

\* The halves of an item cover its days, one level deeper.
LEMMA HalvesCover ==
    ASSUME NEW item \in ItemSet, CanSplit(item)
    PROVE  Halves(item) \in Seq(ItemSet) /\ Covers(Halves(item), item.from, item.to)
<1> DEFINE a == item.from
           b == item.to
           n == Later((b - a + 1) \div 2, 1)
           subs == Split(a, b, n)
           halves == Halves(item)
<1>1. /\ a \in Days /\ b \in Days /\ a \in Int /\ b \in Int /\ a <= b
      /\ item.depth + 1 \in 0 .. MaxDepth /\ b - a + 1 \in Nat
  BY TypesAreRanges, LimitsAssumption DEF ItemSet, CanSplit, Days
<1>2. n \in Nat \ {0}
  BY <1>1 DEF Later
<1>3. subs \in Seq([from : a .. b, to : a .. b]) /\ Covers(subs, a, b)
  <2> HIDE DEF a, b, n
  <2> QED
    BY <1>1, <1>2, SplitCovers
<1>4. halves = [i \in DOMAIN subs |-> Item(subs[i], item.depth + 1)]
  BY DEF Halves
<1> HIDE DEF a, b, n, subs, halves
<1>5. subs \in Seq(ChunkSet)
  BY <1>1, <1>3, TypesAreRanges, SeqMonotonic
<1>6. Len(subs) \in Nat /\ Len(subs) > 0 /\ DOMAIN subs = 1 .. Len(subs)
  BY <1>3, <1>5, LenProperties DEF Covers
<1>7. ASSUME NEW i \in 1 .. Len(subs)
      PROVE  /\ halves[i] \in ItemSet
             /\ halves[i].from = subs[i].from /\ halves[i].to = subs[i].to
  <2>1. subs[i] \in ChunkSet
    BY <1>5, ElementOfSeq
  <2>2. halves[i] = [from |-> subs[i].from, to |-> subs[i].to, depth |-> item.depth + 1]
    BY <1>4, <1>6 DEF Item
  <2> QED
    BY <1>1, <2>1, <2>2 DEF ItemSet, ChunkSet
<1>8. halves \in [1 .. Len(subs) -> ItemSet]
  BY <1>4, <1>6, <1>7
<1>9. halves \in Seq(ItemSet)
  <2>1. Seq(ItemSet) = UNION {[1 .. k -> ItemSet] : k \in Nat}
    BY SeqDef
  <2> QED
    BY <1>6, <1>8, <2>1
<1>10. Len(halves) = Len(subs) /\ DOMAIN halves = 1 .. Len(subs)
  <2>1. DOMAIN halves = 1 .. Len(halves) /\ Len(halves) \in Nat
    BY <1>9, LenProperties
  <2>2. DOMAIN halves = 1 .. Len(subs)
    BY <1>8
  <2> HIDE DEF a, b, n
  <2>3. 1 .. Len(halves) = 1 .. Len(subs)
    BY <2>1, <2>2
  <2>4. Len(halves) = Len(subs)
    <3>1. Len(subs) \in 1 .. Len(halves)
      <4>1. Len(subs) \in 1 .. Len(subs)
        BY <1>6
      <4> QED
        BY <2>3, <4>1
    <3>2. Len(halves) \in 1 .. Len(subs)
      <4>1. Len(halves) \in 1 .. Len(halves)
        BY <2>1, <3>1
      <4> QED
        BY <2>3, <4>1
    <3> QED
      BY <2>1, <3>1, <3>2
  <2> QED
    BY <2>2, <2>4
<1>11. /\ Len(subs) > 0 /\ subs[1].from = a /\ subs[Len(subs)].to = b
       /\ \A i \in 1 .. Len(subs) : subs[i].from <= subs[i].to
       /\ \A i \in 1 .. Len(subs) - 1 : subs[i].to + 1 = subs[i + 1].from
  BY <1>3, <1>6 DEF Covers, Tiles
<1>12. 1 \in 1 .. Len(subs) /\ Len(subs) \in 1 .. Len(subs)
  BY <1>6, <1>11
<1>13. \A i \in 1 .. Len(subs) : halves[i].from <= halves[i].to
  BY <1>7, <1>11
<1>14. ASSUME NEW i \in 1 .. Len(subs) - 1
       PROVE  halves[i].to + 1 = halves[i + 1].from
  <2>1. i \in 1 .. Len(subs) /\ i + 1 \in 1 .. Len(subs)
    BY <1>6
  <2> QED
    BY <1>7, <1>11, <2>1
<1>15. Covers(halves, a, b)
  BY <1>7, <1>10, <1>11, <1>12, <1>13, <1>14 DEF Covers, Tiles
<1> QED
  BY <1>9, <1>15 DEF a, b, halves

\* Every range of the sequence is a single day.
SingleDays(seq) == \A i \in DOMAIN seq : seq[i].from = seq[i].to

\* The plan after a chunk: it keeps what was done, still covers the whole range, and
\* goes on behind the chunk unless that was the last one.
LEMMA NewChunksCover ==
    ASSUME chunks \in Seq(ChunkSet), Covers(chunks, 1, LastDay),
           index \in 1 .. Len(chunks), step \in Nat \ {0}
    PROVE  /\ NewChunks \in Seq(ChunkSet) /\ Covers(NewChunks, 1, LastDay)
           /\ \A i \in 1 .. index : NewChunks[i] = chunks[i]
           /\ index = Len(chunks) => NewChunks = chunks
           /\ index < Len(chunks) =>
                  /\ index < Len(NewChunks)
                  /\ NewChunks[index + 1].from = chunks[index].to + 1
           /\ step = 1 /\ SingleDays(chunks) => SingleDays(NewChunks) /\ HalfStep = 1
           /\ HalfStep \in Nat \ {0}
<1> DEFINE N == Len(chunks)
           a == chunks[index + 1].from
           rest == Split(a, LastDay, HalfStep)
           done == SubSeq(chunks, 1, index)
<1>0. /\ Ranges(ChunkSet) /\ LastDay \in Days /\ LastDay \in Int
      /\ \A x \in ChunkSet : x.from \in Days /\ x.to \in Days
  BY TypesAreRanges DEF ChunkSet, Days
<1>1. N \in Nat /\ index \in Nat \ {0} /\ DOMAIN chunks = 1 .. N
  BY LenProperties
<1>2. HalfStep \in Nat \ {0} /\ (step = 1 => HalfStep = 1)
  BY DEF HalfStep, Later
<1>3. chunks[N].to = LastDay
  BY DEF Covers
<1>4. CASE ~(Shrinks /\ index < N)
  <2>1. NewChunks = chunks
    BY <1>4 DEF NewChunks
  <2>2. ASSUME index < N
        PROVE  chunks[index].to + 1 = chunks[index + 1].from
    <3>1. index \in 1 .. N - 1
      BY <1>1, <2>2
    <3> QED
      BY <3>1 DEF Covers, Tiles
  <2> QED
    BY <1>2, <2>1, <2>2
<1>5. CASE Shrinks /\ index < N
  <2>1. /\ index + 1 \in 1 .. N /\ index \in 1 .. N - 1 /\ index \in 1 .. N
        /\ index # N
    <3> HIDE DEF N
    <3> QED
      BY <1>1, <1>5
  <2>2. chunks[index] \in ChunkSet /\ chunks[index + 1] \in ChunkSet
    BY <2>1, ElementOfSeq
  <2>3. a = chunks[index].to + 1 /\ a \in Days /\ chunks[index].to \in Int
    BY <1>0, <2>1, <2>2 DEF Covers, Tiles, Days
  <2>4. a \in Int /\ a <= LastDay
    BY <1>0, <2>3 DEF Days
  <2>5. /\ rest \in Seq([from : a .. LastDay, to : a .. LastDay])
        /\ Covers(rest, a, LastDay)
        /\ HalfStep = 1 => SingleDays(rest)
    <3> HIDE DEF a
    <3> QED
      BY <1>0, <1>2, <2>4, SplitCovers DEF SingleDays
  <2>6. rest \in Seq(ChunkSet)
    <3> HIDE DEF a, rest
    <3> QED
      BY <1>0, <2>3, <2>5, TypesAreRanges, SeqMonotonic
  <2>7. /\ done \in Seq(ChunkSet) /\ Len(done) = index
        /\ \A i \in 1 .. index : done[i] = chunks[i]
        /\ Covers(done, 1, chunks[index].to)
    BY <1>0, <2>1, Begun
  <2>8. NewChunks = done \o rest
    BY <1>3, <1>5 DEF NewChunks, RestFrom
  <2> HIDE DEF a, rest, done
  <2>9. /\ NewChunks \in Seq(ChunkSet) /\ Len(NewChunks) = index + Len(rest)
        /\ \A i \in 1 .. index + Len(rest) :
               NewChunks[i] = IF i <= index THEN done[i] ELSE rest[i - index]
    BY <2>6, <2>7, <2>8, ConcatProperties
  <2>10. Covers(NewChunks, 1, LastDay)
    BY <1>0, <2>3, <2>5, <2>6, <2>7, <2>8, Joined
  <2>11. Len(rest) \in Nat \ {0} /\ DOMAIN rest = 1 .. Len(rest) /\ rest[1].from = a
    BY <2>5, <2>6, LenProperties DEF Covers
  <2>12. \A i \in 1 .. index : NewChunks[i] = chunks[i]
    <3>1. \A i \in 1 .. index : i \in 1 .. index + Len(rest) /\ i <= index
      BY <1>1, <2>11
    <3> QED
      BY <2>7, <2>9, <3>1
  <2>13. index < Len(NewChunks) /\ NewChunks[index + 1] = rest[1]
    <3>1. /\ index + 1 \in 1 .. index + Len(rest) /\ ~(index + 1 <= index)
          /\ (index + 1) - index = 1
      BY <1>1, <2>11
    <3>2. index < Len(NewChunks)
      BY <1>1, <2>9, <2>11
    <3>3. NewChunks[index + 1] = rest[(index + 1) - index]
      BY <2>9, <3>1
    <3> QED
      BY <3>1, <3>2, <3>3
  <2>14. ASSUME step = 1, SingleDays(chunks)
         PROVE  SingleDays(NewChunks)
    <3>1. SingleDays(rest) /\ DOMAIN NewChunks = 1 .. index + Len(rest)
      BY <1>2, <2>5, <2>9, <2>14, LenProperties
    <3>2. ASSUME NEW i \in 1 .. index + Len(rest)
          PROVE  NewChunks[i].from = NewChunks[i].to
      <4>1. CASE i <= index
        <5>1. i \in 1 .. index /\ i \in 1 .. N
          BY <1>1, <4>1
        <5> QED
          BY <1>1, <2>12, <2>14, <5>1 DEF SingleDays
      <4>2. CASE ~(i <= index)
        <5>1. i - index \in 1 .. Len(rest)
          BY <1>1, <2>11, <4>2
        <5> QED
          BY <2>9, <2>11, <3>1, <4>2, <5>1 DEF SingleDays
      <4> QED
        BY <4>1, <4>2
    <3> QED
      BY <3>1, <3>2 DEF SingleDays
  <2> QED
    BY <1>2, <2>1, <2>3, <2>9, <2>10, <2>11, <2>12, <2>13, <2>14
<1> QED
  BY <1>4, <1>5
-----------------------------------------------------------------------------
(***************************************************************************)
(* The inductive invariant.                                                *)
(***************************************************************************)
Busy == pc \in {"poll", "call"}

\* The first day that was not asked for yet; a chunk that is over was asked for.
Cursor == IF Busy THEN work[1].from
          ELSE IF pc = "account" THEN chunks[index].to + 1 ELSE LastDay + 1

\* The plan covers the range, and the work list runs from the cursor to the end of the
\* chunk.
PlanOK ==
    /\ Covers(chunks, 1, LastDay)
    /\ Busy => /\ Covers(work, work[1].from, chunks[index].to)
               /\ chunks[index].from <= work[1].from
               /\ ~ raised

\* An import that is to report its end has a status.
EndNamed == pc = "finish" => result # "none"

\* Nothing at the cursor or behind it was written, and nothing was written twice.
AheadUntouched ==
    /\ \A d \in Days : Cursor <= d =>
           stored[d] = 0 /\ \A r \in clipped : d \notin DaysOf(r)
    /\ WrittenOnce

\* The import owns up to the day, or has its rows.
Accounted(d) ==
    \/ rows[d] = 0 \/ stored[d] = 1
    \/ \E r \in warned \cup failedChunks : d \in DaysOf(r)

\* What lies in front of the cursor is accounted for, or will be with its chunk.
BehindKnown ==
    Busy \/ pc = "account" =>
        \A d \in Days : d < Cursor =>
            Accounted(d) \/ (d \in DaysOf(chunks[index]) /\ (truncated \/ raised))

\* An import that calls itself completed came to its end.
EndKnown ==
    /\ result = "completed" => pc \in {"finish", "done"} /\ \A d \in Days : Accounted(d)
    /\ progress.status = "completed" => result = "completed"

\* An interface that is asked for the first day of a range is asked day by day.
AskedByDay ==
    config.loop => step = 1 /\ SingleDays(chunks) /\ SingleDays(work)

-----------------------------------------------------------------------------
\* The rows a call finds are a natural number, and at least as many as any of its days.
LEMMA RowsAreThere ==
    ASSUME rows \in [Days -> RowCounts], NEW item \in ItemSet
    PROVE  /\ Available(item) \in Nat
           /\ \A d \in Asked(item) : d \in Days /\ rows[d] \in Nat /\ Available(item) >= rows[d]
           /\ item.from <= item.to => item.from \in Asked(item)
<1> DEFINE S == Asked(item)
<1>1. /\ item.from \in Days /\ item.to \in Days /\ item.from \in Int /\ item.to \in Int
      /\ Days = 1 .. LastDay /\ LastDay \in Nat
  BY TypesAreRanges DEF ItemSet, Days
<1>2. DaysOf(item) \subseteq Days /\ IsFiniteSet(DaysOf(item))
  <2>1. item.from .. item.to \subseteq Days
    BY <1>1
  <2>2. IsFiniteSet(item.from .. item.to)
    BY <1>1, FS_Interval
  <2> QED
    BY <2>1, <2>2 DEF DaysOf
<1>3. S \subseteq Days /\ IsFiniteSet(S)
  BY <1>1, <1>2, FS_Singleton DEF Asked
<1>4. \A d \in S : d \in Days /\ rows[d] \in Nat
  BY <1>3, LimitsAssumption
<1>5. item.from <= item.to => item.from \in S
  BY <1>1 DEF Asked, DaysOf
<1> HIDE DEF S
<1>6. Sums(rows, S)[S] \in Nat /\ \A d \in S : Sums(rows, S)[S] >= rows[d]
  BY <1>3, <1>4, SumOfNat
<1>7. Available(item) = Sums(rows, S)[S]
  BY DEF Available, MapThenSumSet, MapThenFoldSet, Sums, AddUp, S
<1> QED
  BY <1>4, <1>5, <1>6, <1>7 DEF S

\* What the type invariant says of single variables.
LEMMA Typed ==
    ASSUME TypeOK
    PROVE  /\ rows \in [Days -> RowCounts] /\ config \in Configs
           /\ chunks \in Seq(ChunkSet) /\ index \in 1 .. Len(chunks)
           /\ work \in Seq(ItemSet) /\ step \in Nat \ {0}
           /\ chunks[index] \in ChunkSet
<1>1. chunks \in Seq(ChunkSet) /\ index \in 1 .. Len(chunks) /\ work \in Seq(ItemSet)
  BY DEF TypeOK, ChunkSet, ItemSet
<1>2. chunks[index] \in ChunkSet
  BY <1>1, ElementOfSeq
<1> QED
  BY <1>1, <1>2 DEF TypeOK

\* The item in hand: it starts at the cursor and ends within the chunk.
LEMMA InHand ==
    ASSUME TypeOK, PlanOK, Busy
    PROVE  /\ Head(work) \in ItemSet /\ Head(work) = work[1]
           /\ Head(work).from = Cursor /\ Head(work).from <= Head(work).to
           /\ chunks[index].from <= Head(work).from
           /\ Head(work).to <= chunks[index].to
           /\ Tail(work) \in Seq(ItemSet)
           /\ Tail(work) = <<>> => Head(work).to = chunks[index].to
           /\ Tail(work) # <<>> =>
                  Covers(Tail(work), Head(work).to + 1, chunks[index].to)
<1>1. work \in Seq(ItemSet) /\ Covers(work, work[1].from, chunks[index].to)
  BY Typed DEF PlanOK
<1>2. Ranges(ItemSet)
  BY TypesAreRanges
<1>3. /\ Head(work) = work[1] /\ Head(work) \in ItemSet
      /\ Tail(work) \in Seq(ItemSet)
      /\ Tail(work) = <<>> => work[1].to = chunks[index].to
      /\ Tail(work) # <<>> => Covers(Tail(work), work[1].to + 1, chunks[index].to)
  BY <1>1, <1>2, Continued
<1>4. 1 \in 1 .. Len(work) /\ DOMAIN work = 1 .. Len(work)
  BY <1>1, LenProperties DEF Covers
<1>5. work[1].from <= work[1].to
  BY <1>1, <1>4 DEF Covers, Tiles
<1>6. work[1].to <= chunks[index].to
  BY <1>1, <1>2, <1>4, Within
<1>7. Cursor = work[1].from /\ chunks[index].from <= work[1].from
  BY DEF Cursor, PlanOK
<1> QED
  BY <1>3, <1>5, <1>6, <1>7

-----------------------------------------------------------------------------
(***************************************************************************)
(* The plan and the types: what the steps do to the work list.             *)
(***************************************************************************)
SamePlan == chunks' = chunks /\ index' = index /\ raised' = raised

\* An item that is done with: the cursor is behind it.
LEMMA ItemDone ==
    ASSUME TypeOK, PlanOK, Busy, Continue(Tail(work)), SamePlan
    PROVE  /\ work' \in Seq(ItemSet) /\ PlanOK' /\ pc' \in {"poll", "account"}
           /\ Cursor' = Head(work).to + 1 /\ (work' = <<>> \/ work' = Tail(work))
<1>1. /\ Head(work) \in ItemSet /\ chunks[index].from <= Head(work).from
      /\ Head(work).from <= Head(work).to
      /\ Tail(work) \in Seq(ItemSet)
      /\ Tail(work) = <<>> => Head(work).to = chunks[index].to
      /\ Tail(work) # <<>> => Covers(Tail(work), Head(work).to + 1, chunks[index].to)
  BY InHand
<1>2. work' = Tail(work) /\ pc' = IF Tail(work) = <<>> THEN "account" ELSE "poll"
  BY DEF Continue
<1>3. Covers(chunks', 1, LastDay)
  BY DEF SamePlan, PlanOK
<1>4. CASE Tail(work) = <<>>
  <2>1. pc' = "account" /\ Cursor' = Head(work).to + 1
    BY <1>1, <1>2, <1>4 DEF Cursor, Busy, SamePlan
  <2> QED
    BY <1>1, <1>2, <1>3, <2>1 DEF PlanOK, Busy
<1>5. CASE Tail(work) # <<>>
  <2>1. pc' = "poll" /\ Busy' /\ Covers(work', Head(work).to + 1, chunks'[index'].to)
    BY <1>1, <1>2, <1>5 DEF Busy, SamePlan
  <2>2. work'[1].from = Head(work).to + 1
    BY <2>1 DEF Covers
  <2>3. Cursor' = Head(work).to + 1
    BY <2>1, <2>2 DEF Cursor
  <2>4. chunks[index].from <= Head(work).to + 1
    <3>1. /\ Head(work).from \in Int /\ Head(work).to \in Int
          /\ chunks[index].from \in Int
      BY <1>1, Typed, TypesAreRanges DEF Ranges
    <3> QED
      BY <1>1, <3>1
  <2>5. ~ raised'
    BY DEF PlanOK, SamePlan
  <2>6. chunks'[index'].from <= work'[1].from
    BY <2>2, <2>4 DEF SamePlan
  <2> QED
    BY <1>1, <1>2, <1>3, <2>1, <2>2, <2>3, <2>5, <2>6 DEF PlanOK
<1> QED
  BY <1>4, <1>5

\* An item that is cut into halves: the cursor stays.
LEMMA ItemCut ==
    ASSUME TypeOK, PlanOK, Busy, CanSplit(Head(work)),
           Continue(Halves(Head(work)) \o Tail(work)), SamePlan
    PROVE  /\ work' \in Seq(ItemSet) /\ PlanOK' /\ pc' = "poll" /\ Cursor' = Cursor
<1> DEFINE item == Head(work)
           halves == Halves(item)
           rest == Tail(work)
           end == chunks[index].to
<1>1. /\ item \in ItemSet /\ chunks[index].from <= item.from /\ item.from = Cursor
      /\ rest \in Seq(ItemSet) /\ item.from \in Int /\ item.to \in Int
      /\ rest = <<>> => item.to = end
      /\ rest # <<>> => Covers(rest, item.to + 1, end)
  BY InHand, TypesAreRanges DEF Ranges
<1>2. halves \in Seq(ItemSet) /\ Covers(halves, item.from, item.to)
  BY <1>1, HalvesCover
<1> HIDE DEF item, halves, rest, end
<1>3. /\ work' = halves \o rest
      /\ pc' = IF halves \o rest = <<>> THEN "account" ELSE "poll"
  BY DEF Continue, item, halves, rest
<1>4. work' \in Seq(ItemSet) /\ Len(work') = Len(halves) + Len(rest)
  BY <1>1, <1>2, <1>3, ConcatProperties
<1>5. Covers(work', item.from, end)
  <2>1. CASE rest = <<>>
    <3>1. work' = halves
      BY <1>2, <1>3, <2>1, ConcatEmptySeq
    <3> QED
      BY <1>1, <1>2, <2>1, <3>1
  <2>2. CASE rest # <<>>
    <3>1. Ranges(ItemSet)
      BY TypesAreRanges
    <3> QED
      BY <1>1, <1>2, <1>3, <2>2, <3>1, Joined
  <2> QED
    BY <2>1, <2>2
<1>6. work' # <<>>
  BY <1>4, <1>5, EmptySeq DEF Covers
<1>7. pc' = "poll" /\ Busy' /\ work'[1].from = item.from
  BY <1>3, <1>5, <1>6 DEF Busy, Covers
<1>8. Cursor' = Cursor
  BY <1>1, <1>7 DEF Cursor
<1>9. /\ Covers(chunks', 1, LastDay) /\ ~ raised'
      /\ chunks'[index'].to = end /\ chunks'[index'].from <= work'[1].from
  BY <1>1, <1>7 DEF PlanOK, SamePlan, end
<1> QED
  BY <1>4, <1>5, <1>7, <1>8, <1>9 DEF PlanOK

\* The end of a chunk: the next one of the new plan, or the end of the import.
LEMMA ChunkDone ==
    ASSUME TypeOK, PlanOK, AccountChunk
    PROVE  /\ chunks' \in Seq(ChunkSet) /\ index' \in 1 .. Len(chunks')
           /\ work' \in Seq(ItemSet) /\ step' \in Nat \ {0} /\ PlanOK'
           /\ Cursor' = chunks[index].to + 1
           /\ \/ /\ pc' = "poll" /\ result' = result
                 /\ work' = <<Item(chunks'[index'], 0)>>
              \/ /\ pc' = "finish" /\ result' = "completed" /\ work' = work
                 /\ Cursor' = LastDay + 1
           /\ step = 1 /\ SingleDays(chunks) => step' = 1 /\ SingleDays(chunks')
<1>1. /\ chunks \in Seq(ChunkSet) /\ index \in 1 .. Len(chunks) /\ step \in Nat \ {0}
      /\ Covers(chunks, 1, LastDay) /\ work \in Seq(ItemSet)
      /\ Len(chunks) \in Nat
  BY Typed, LenProperties DEF PlanOK
<1>2. /\ NewChunks \in Seq(ChunkSet) /\ Covers(NewChunks, 1, LastDay)
      /\ \A i \in 1 .. index : NewChunks[i] = chunks[i]
      /\ index = Len(chunks) => NewChunks = chunks
      /\ index < Len(chunks) =>
             /\ index < Len(NewChunks)
             /\ NewChunks[index + 1].from = chunks[index].to + 1
      /\ step = 1 /\ SingleDays(chunks) => SingleDays(NewChunks) /\ HalfStep = 1
      /\ HalfStep \in Nat \ {0}
  BY <1>1, NewChunksCover
<1>3. /\ chunks' = NewChunks /\ NextChunk /\ raised' = FALSE
      /\ step' = IF Shrinks THEN HalfStep ELSE step
  BY DEF AccountChunk
<1>4. Len(NewChunks) \in Nat /\ DOMAIN NewChunks = 1 .. Len(NewChunks)
  BY <1>2, LenProperties
<1>5. /\ step' \in Nat \ {0}
      /\ step = 1 /\ SingleDays(chunks) => step' = 1 /\ SingleDays(chunks')
  BY <1>1, <1>2, <1>3
<1>6. CASE index < Len(NewChunks)
  <2>1. index < Len(chunks)
    BY <1>1, <1>2, <1>6
  <2>2. /\ index' = index + 1 /\ pc' = "poll" /\ result' = result
        /\ work' = <<Item(NewChunks[index + 1], 0)>>
    BY <1>3, <1>6 DEF NextChunk
  <2>3. index' \in 1 .. Len(NewChunks)
    BY <1>1, <1>4, <1>6, <2>2
  <2> DEFINE chunk == NewChunks[index + 1]
             item == Item(chunk, 0)
  <2>4. chunk \in ChunkSet
    BY <1>2, <2>2, <2>3, ElementOfSeq
  <2>5. chunk.from <= chunk.to /\ chunk.from = chunks[index].to + 1
    BY <1>2, <1>4, <2>1, <2>2, <2>3 DEF Covers, Tiles
  <2> HIDE DEF chunk
  <2>6. item \in ItemSet /\ item.from = chunk.from /\ item.to = chunk.to
    BY <2>4, LimitsAssumption DEF Item, ItemSet, ChunkSet
  <2> HIDE DEF item
  <2>7. work' = <<item>>
    BY <2>2 DEF item, chunk
  <2>8. /\ work' \in Seq(ItemSet) /\ Len(work') = 1 /\ work'[1] = item
        /\ DOMAIN work' = 1 .. 1
    BY <2>6, <2>7
  <2>9. Covers(work', chunk.from, chunk.to)
    BY <2>5, <2>6, <2>8 DEF Covers, Tiles
  <2>10. Busy' /\ chunks'[index'] = chunk /\ work'[1].from = chunk.from
    BY <1>3, <2>2, <2>6, <2>8 DEF Busy, chunk
  <2>11. Cursor' = chunks[index].to + 1
    BY <2>5, <2>10 DEF Cursor
  <2>12. chunk.from <= chunk.from
    BY <2>4, TypesAreRanges DEF Ranges
  <2>13. PlanOK'
    BY <1>2, <1>3, <2>9, <2>10, <2>12 DEF PlanOK
  <2> QED
    BY <1>2, <1>3, <1>5, <2>2, <2>3, <2>8, <2>11, <2>13
<1>7. CASE ~(index < Len(NewChunks))
  <2>1. index = Len(chunks) /\ NewChunks = chunks
    BY <1>1, <1>2, <1>7
  <2>2. index' = index /\ pc' = "finish" /\ result' = "completed" /\ work' = work
    BY <1>3, <1>7 DEF NextChunk
  <2>3. ~Busy' /\ Cursor' = LastDay + 1
    BY <2>2 DEF Busy, Cursor
  <2>4. chunks[index].to = LastDay
    BY <1>1, <2>1 DEF Covers
  <2>5. PlanOK'
    BY <1>1, <1>3, <2>1, <2>3 DEF PlanOK
  <2> QED
    BY <1>1, <1>3, <1>5, <2>1, <2>2, <2>3, <2>4, <2>5
<1> QED
  BY <1>6, <1>7

\* A step that leaves the chunk, its work list and the place in it alone.
LEMMA PlanStays ==
    ASSUME PlanOK, SamePlan, work' = work, Busy' => Busy
    PROVE  PlanOK'
BY DEF PlanOK, SamePlan

\* The types and the plan are inductive together.
LEMMA PlanStep ==
    ASSUME TypeOK, PlanOK, EndNamed, [Next]_vars
    PROVE  TypeOK' /\ PlanOK' /\ EndNamed'
<1>0. /\ chunks \in Seq(ChunkSet) /\ index \in 1 .. Len(chunks)
      /\ work \in Seq(ItemSet) /\ chunks[index] \in ChunkSet
      /\ rows \in [Days -> RowCounts]
  BY Typed
<1>1. CASE RequestStop
  <2>1. PlanOK'
    BY <1>1, PlanStays DEF RequestStop, planVars, chunkVars, SamePlan, Busy
  <2> QED
    BY <1>1, <2>1 DEF EndNamed, RequestStop, TypeOK, planVars, chunkVars, reportVars,
       dataVars
<1>2. CASE PollStops
  <2>1. PlanOK'
    BY <1>2, PlanStays DEF PollStops, planVars, chunkVars, SamePlan, Busy
  <2>2. totalRecords' \in Nat
    BY <1>2 DEF PollStops, TypeOK
  <2> QED
    BY <1>2, <2>1, <2>2 DEF EndNamed, PollStops, TypeOK, planVars, chunkVars, dataVars
<1>3. CASE PollContinues
  <2>1. PlanOK'
    BY <1>3, PlanStays DEF PollContinues, planVars, chunkVars, SamePlan, Busy
  <2> QED
    BY <1>3, <2>1 DEF EndNamed, PollContinues, TypeOK, planVars, chunkVars, reportVars,
       dataVars
<1>4. CASE FetchNothing
  <2>1. Busy /\ Continue(Tail(work)) /\ SamePlan
    BY <1>4 DEF FetchNothing, planVars, SamePlan, Busy
  <2>2. work' \in Seq(ItemSet) /\ PlanOK' /\ pc' \in {"poll", "account"}
    BY <2>1, ItemDone
  <2> QED
    BY <1>4, <2>2 DEF EndNamed, FetchNothing, TypeOK, planVars, reportVars, dataVars,
       ItemSet
<1>5. CASE FetchAndSplit
  <2>1. /\ Busy /\ SamePlan /\ CanSplit(Head(work))
        /\ Continue(Halves(Head(work)) \o Tail(work))
    BY <1>5 DEF FetchAndSplit, planVars, SamePlan, Busy
  <2>2. work' \in Seq(ItemSet) /\ PlanOK' /\ pc' = "poll"
    BY <2>1, ItemCut
  <2> QED
    BY <1>5, <2>2 DEF EndNamed, FetchAndSplit, TypeOK, planVars, reportVars, dataVars,
       ItemSet
<1>6. CASE FetchClipped
  <2>1. Busy /\ Continue(Tail(work)) /\ SamePlan
    BY <1>6 DEF FetchClipped, planVars, SamePlan, Busy
  <2>2. work' \in Seq(ItemSet) /\ PlanOK' /\ pc' \in {"poll", "account"}
    BY <2>1, ItemDone
  <2>3. Head(work) \in ItemSet
    BY <2>1, InHand
  <2>4. Chunk(Head(work).from, Head(work).to) \in [from : Days, to : Days]
    BY <2>3 DEF Chunk, ItemSet
  <2>5. clipped' \subseteq [from : Days, to : Days]
    BY <1>6, <2>4 DEF FetchClipped, TypeOK
  <2>6. records' \in Nat /\ truncated' \in BOOLEAN
    BY <1>6, LimitsAssumption DEF FetchClipped, TypeOK
  <2> QED
    BY <1>6, <2>2, <2>5, <2>6 DEF EndNamed, FetchClipped, TypeOK, planVars, reportVars,
       ItemSet
<1>7. CASE FetchAll
  <2>1. Busy /\ Continue(Tail(work)) /\ SamePlan
    BY <1>7 DEF FetchAll, planVars, SamePlan, Busy
  <2>2. work' \in Seq(ItemSet) /\ PlanOK' /\ pc' \in {"poll", "account"}
    BY <2>1, ItemDone
  <2>3. Available(Head(work)) \in Nat
    <3>1. Head(work) \in ItemSet
      BY <2>1, InHand
    <3> QED
      BY <1>0, <3>1, RowsAreThere
  <2>4. records' \in Nat
    <3>1. records \in Nat /\ records' = records + Available(Head(work))
      BY <1>7 DEF FetchAll, TypeOK
    <3> QED
      BY <2>3, <3>1
  <2>5. stored' \in [Days -> Nat]
    <3>1. stored' = [d \in Days |-> stored[d] + IF d \in Asked(Head(work)) THEN 1 ELSE 0]
      BY <1>7 DEF FetchAll
    <3>2. \A d \in Days : stored[d] + (IF d \in Asked(Head(work)) THEN 1 ELSE 0) \in Nat
      BY DEF TypeOK
    <3> QED
      BY <3>1, <3>2
  <2> QED
    BY <1>7, <2>2, <2>4, <2>5 DEF EndNamed, FetchAll, TypeOK, planVars, reportVars, ItemSet
<1>8. CASE ChunkRaises
  <2>1. work' = <<>> /\ pc' = "account" /\ raised' = TRUE
    BY <1>8 DEF ChunkRaises, Continue
  <2>2. work' \in Seq(ItemSet)
    BY <2>1
  <2>3. PlanOK'
    BY <1>8, <2>1 DEF ChunkRaises, PlanOK, Busy, planVars
  <2>4. failures' \in 0 .. MaxFailures
    BY <1>8, LimitsAssumption DEF ChunkRaises, TypeOK
  <2> QED
    BY <1>8, <2>1, <2>2, <2>3, <2>4
       DEF EndNamed, ChunkRaises, TypeOK, planVars, reportVars, dataVars, ItemSet
<1>9. CASE ImportRaises
  <2>1. PlanOK'
    BY <1>9, PlanStays DEF ImportRaises, planVars, chunkVars, SamePlan, Busy
  <2>2. failures' \in 0 .. MaxFailures
    BY <1>9, LimitsAssumption DEF ImportRaises, TypeOK
  <2> QED
    BY <1>9, <2>1, <2>2 DEF EndNamed, ImportRaises, TypeOK, planVars, chunkVars, dataVars
<1>10. CASE AccountChunk
  <2>1. /\ chunks' \in Seq(ChunkSet) /\ index' \in 1 .. Len(chunks')
        /\ work' \in Seq(ItemSet) /\ step' \in Nat \ {0} /\ PlanOK'
        /\ \/ pc' = "poll" /\ result' = result
           \/ pc' = "finish" /\ result' = "completed"
    BY <1>10, ChunkDone
  <2>2. totalRecords' \in Nat /\ streak' \in Nat
    <3>1. totalRecords \in Nat /\ records \in Nat /\ streak \in Nat
      BY DEF TypeOK
    <3>2. /\ totalRecords' = totalRecords \/ totalRecords' = totalRecords + records
          /\ streak' \in {streak, streak + 1, 0}
      BY <1>10 DEF AccountChunk
    <3> QED
      BY <3>1, <3>2
  <2>3. /\ warned' \subseteq [from : Days, to : Days]
        /\ failedChunks' \subseteq [from : Days, to : Days]
    BY <1>0, <1>10 DEF AccountChunk, TypeOK, ChunkSet
  <2>4. /\ progress'.status = progress.status
        /\ progress' \in [status : {"running", "completed", "failed", "stopped"},
                          total : Nat, completed : Nat]
    <3>1. /\ progress' = [progress EXCEPT !.total = Len(NewChunks),
                                          !.completed = Later(@, index)]
          /\ chunks' = NewChunks
      BY <1>10 DEF AccountChunk, ReportChunk
    <3>2. Len(NewChunks) \in Nat /\ index \in Nat
      BY <1>0, <2>1, <3>1, LenProperties
    <3>3. progress.completed \in Nat /\ Later(progress.completed, index) \in Nat
      BY <3>2 DEF TypeOK, Later
    <3> QED
      BY <3>1, <3>2, <3>3 DEF TypeOK
  <2>5. /\ raised' \in BOOLEAN /\ truncated' \in BOOLEAN /\ records' \in Nat
        /\ shrunk' \in BOOLEAN
    BY <1>10 DEF AccountChunk
  <2>6. result' \in {"none", "completed", "failed", "stopped"}
    BY <2>1 DEF TypeOK
  <2> QED
    BY <1>10, <2>1, <2>2, <2>3, <2>4, <2>5, <2>6
       DEF EndNamed, AccountChunk, TypeOK, dataVars, ItemSet, ChunkSet
<1>11. CASE Finish
  <2>1. PlanOK'
    BY <1>11, PlanStays DEF Finish, planVars, chunkVars, SamePlan, Busy
  <2>2. progress' \in [status : {"running", "completed", "failed", "stopped"},
                       total : Nat, completed : Nat]
    <3>1. pc = "finish" /\ progress' = IF result = "failed"
                         THEN [progress EXCEPT !.status = "failed"]
                         ELSE [status |-> result, total |-> totalRecords,
                               completed |-> Later(progress.completed, totalRecords)]
      BY <1>11 DEF Finish
    <3>2. result \in {"completed", "failed", "stopped"} /\ totalRecords \in Nat
      BY <3>1 DEF TypeOK, EndNamed
    <3>3. progress.completed \in Nat /\ Later(progress.completed, totalRecords) \in Nat
      BY <3>2 DEF TypeOK, Later
    <3> QED
      BY <3>1, <3>2, <3>3 DEF TypeOK
  <2> QED
    BY <1>11, <2>1, <2>2 DEF EndNamed, Finish, TypeOK, planVars, chunkVars, reportVars,
       dataVars
<1>12. CASE UNCHANGED vars
  <2>1. PlanOK'
    BY <1>12, PlanStays DEF vars, SamePlan, Busy
  <2> QED
    BY <1>12, <2>1 DEF EndNamed, vars, TypeOK
<1> QED
  BY <1>1, <1>2, <1>3, <1>4, <1>5, <1>6, <1>7, <1>8, <1>9, <1>10, <1>11, <1>12
     DEF Next, Work, Fetch

\* The import starts with a plan for its range and the first chunk in hand.
LEMMA PlanInit ==
    ASSUME Init
    PROVE  TypeOK /\ PlanOK /\ EndNamed /\ Cursor = 1
<1> DEFINE chunk == chunks[1]
           item == Item(chunk, 0)
<1>1. /\ 1 \in Int /\ LastDay \in Int /\ 1 <= LastDay /\ 1 \in Days /\ LastDay \in Days
      /\ config.step \in Nat \ {0}
  BY TypesAreRanges, ConfigsAssumption DEF Days, Init
<1>2. /\ chunks \in Seq([from : 1 .. LastDay, to : 1 .. LastDay])
      /\ Covers(chunks, 1, LastDay)
  BY <1>1, SplitCovers DEF Init
<1>3. chunks \in Seq(ChunkSet) /\ Len(chunks) \in Nat /\ DOMAIN chunks = 1 .. Len(chunks)
  BY <1>2, LenProperties DEF ChunkSet, Days
<1>4. 1 \in 1 .. Len(chunks)
  BY <1>2, <1>3 DEF Covers
<1>5. chunk \in ChunkSet /\ chunk.from <= chunk.to /\ chunk.from = 1
  BY <1>2, <1>3, <1>4, ElementOfSeq DEF Covers, Tiles
<1> HIDE DEF chunk
<1>6. item \in ItemSet /\ item.from = chunk.from /\ item.to = chunk.to
  BY <1>5, LimitsAssumption DEF Item, ItemSet, ChunkSet
<1> HIDE DEF item
<1>7. work = <<item>> /\ index = 1 /\ pc = "poll" /\ raised = FALSE /\ chunks[index] = chunk
  BY DEF Init, item, chunk
<1>8. /\ work \in Seq(ItemSet) /\ Len(work) = 1 /\ work[1] = item
      /\ DOMAIN work = 1 .. 1
  BY <1>6, <1>7
<1>9. Covers(work, chunk.from, chunk.to)
  BY <1>5, <1>6, <1>8 DEF Covers, Tiles
<1>10. PlanOK /\ EndNamed /\ Cursor = 1
  BY <1>2, <1>5, <1>6, <1>7, <1>8, <1>9 DEF PlanOK, EndNamed, Busy, Cursor
<1>11. /\ progress \in [status : {"running", "completed", "failed", "stopped"},
                        total : Nat, completed : Nat]
       /\ stored \in [Days -> Nat] /\ failures \in 0 .. MaxFailures
       /\ step \in Nat \ {0}
  BY <1>1, <1>3, LimitsAssumption DEF Init
<1>12. TypeOK
  BY <1>3, <1>4, <1>7, <1>8, <1>11 DEF Init, TypeOK, ChunkSet, ItemSet
<1> QED
  BY <1>10, <1>12

\* Every variable keeps to its values, whatever the interface returns.
THEOREM TypeCorrect == Spec => []TypeOK
<1>1. Init => TypeOK /\ PlanOK /\ EndNamed
  BY PlanInit
<1>2. TypeOK /\ PlanOK /\ EndNamed /\ [Next]_vars => TypeOK' /\ PlanOK' /\ EndNamed'
  BY PlanStep
<1> QED
  BY <1>1, <1>2, PTL DEF Spec

\* The plan of the chunks is kept, and the import has a status when it ends.
LEMMA PlanKept == Spec => [](TypeOK /\ PlanOK /\ EndNamed)
<1>1. Init => TypeOK /\ PlanOK /\ EndNamed
  BY PlanInit
<1>2. TypeOK /\ PlanOK /\ EndNamed /\ [Next]_vars => TypeOK' /\ PlanOK' /\ EndNamed'
  BY PlanStep
<1> QED
  BY <1>1, <1>2, PTL DEF Spec

\* The plan always covers the whole range once, also after it was cut anew, and what is
\* left of a chunk in the middle of a recursion runs without a gap to the chunk's end.
THEOREM RangeCovered == Spec => []PlanCoversRange
<1>1. PlanOK => PlanCoversRange
  BY DEF PlanOK, PlanCoversRange, Covers, Busy
<1> QED
  BY <1>1, PlanKept, PTL

-----------------------------------------------------------------------------
(***************************************************************************)
(* What was written, once and in order.                                    *)
(***************************************************************************)
\* A call asks for days of its item; day by day, for all of them.
LEMMA AskedDays ==
    ASSUME NEW item \in ItemSet, item.from <= item.to
    PROVE  /\ Asked(item) \subseteq DaysOf(item) /\ DaysOf(item) \subseteq Days
           /\ \A d \in DaysOf(item) : d \in Int /\ item.from <= d /\ d <= item.to
           /\ (~ config.loop \/ item.from = item.to) => Asked(item) = DaysOf(item)
<1>1. /\ item.from \in Int /\ item.to \in Int /\ 1 <= item.from /\ item.to <= LastDay
      /\ LastDay \in Int
  BY TypesAreRanges DEF ItemSet, Days
<1>2. DaysOf(item) \subseteq Days
  BY <1>1 DEF DaysOf, Days
<1>3. \A d \in DaysOf(item) : d \in Int /\ item.from <= d /\ d <= item.to
  BY <1>1 DEF DaysOf
<1>4. item.from \in DaysOf(item)
  BY <1>1 DEF DaysOf
<1>5. ASSUME item.from = item.to
      PROVE  DaysOf(item) = {item.from}
  BY <1>1, <1>5 DEF DaysOf
<1> QED
  BY <1>2, <1>3, <1>4, <1>5 DEF Asked

\* The cursor is a number, and a number is what the days are compared with.
LEMMA CursorIsNumber ==
    ASSUME TypeOK, PlanOK
    PROVE  Cursor \in Int /\ \A d \in Days : d \in Int /\ d < LastDay + 1
<1>1. LastDay \in Int /\ chunks[index].to \in Int /\ \A d \in Days : d \in Int /\ d < LastDay + 1
  BY Typed, TypesAreRanges DEF Ranges, Days
<1>2. CASE Busy
  <2>1. Head(work) \in ItemSet /\ Head(work).from = Cursor
    BY <1>2, InHand
  <2> QED
    BY <1>1, <2>1, TypesAreRanges DEF Ranges
<1>3. CASE ~Busy
  BY <1>1, <1>3 DEF Cursor
<1> QED
  BY <1>1, <1>2, <1>3

\* Nothing is written and the cursor does not go back.
LEMMA AheadStays ==
    ASSUME TypeOK, PlanOK, AheadUntouched, dataVars' = dataVars,
           Cursor' \in Int, Cursor <= Cursor'
    PROVE  AheadUntouched'
<1>1. stored' = stored /\ clipped' = clipped
  BY DEF dataVars
<1>2. WrittenOnce'
  BY <1>1 DEF AheadUntouched, WrittenOnce
<1>3. ASSUME NEW d \in Days, Cursor' <= d
      PROVE  stored'[d] = 0 /\ \A r \in clipped' : d \notin DaysOf(r)
  <2>1. Cursor <= d
    BY <1>3, CursorIsNumber
  <2> QED
    BY <1>1, <2>1 DEF AheadUntouched
<1> QED
  BY <1>2, <1>3 DEF AheadUntouched

\* The item is done with, and the cursor behind it.
LEMMA Behind ==
    ASSUME TypeOK, PlanOK, FetchNothing \/ FetchClipped \/ FetchAll
    PROVE  /\ Busy /\ Head(work) \in ItemSet /\ Head(work).from <= Head(work).to
           /\ Cursor = Head(work).from /\ Cursor' = Head(work).to + 1
           /\ Cursor \in Int /\ Cursor' \in Int /\ Cursor < Cursor'
           /\ chunks[index].from <= Cursor /\ Head(work).to <= chunks[index].to
           /\ SamePlan /\ pc' \in {"poll", "account"}
           /\ (work' = <<>> \/ work' = Tail(work))
<1>1. Busy /\ Continue(Tail(work)) /\ SamePlan
  BY DEF FetchNothing, FetchClipped, FetchAll, Busy, SamePlan, planVars
<1>2. /\ Head(work) \in ItemSet /\ Head(work).from = Cursor
      /\ Head(work).from <= Head(work).to
      /\ chunks[index].from <= Cursor /\ Head(work).to <= chunks[index].to
  BY <1>1, InHand
<1>3. /\ Cursor' = Head(work).to + 1 /\ pc' \in {"poll", "account"}
      /\ (work' = <<>> \/ work' = Tail(work))
  BY <1>1, ItemDone
<1>4. Head(work).from \in Int /\ Head(work).to \in Int
  BY <1>2, TypesAreRanges DEF Ranges
<1> QED
  BY <1>1, <1>2, <1>3, <1>4

\* No step writes at or behind the cursor where it leads, or a day twice.
LEMMA AheadStep ==
    ASSUME TypeOK, PlanOK, AheadUntouched, [Next]_vars
    PROVE  AheadUntouched'
<1>0. Cursor \in Int /\ LastDay + 1 \in Int /\ \A d \in Days : d \in Int /\ d < LastDay + 1
  BY CursorIsNumber, TypesAreRanges
<1>a. Cursor <= LastDay + 1
  <2>1. CASE Busy
    <3>1. Head(work) \in ItemSet /\ Head(work).from = Cursor
      BY <2>1, InHand
    <3> QED
      BY <1>0, <3>1 DEF ItemSet
  <2>2. CASE ~Busy
    <3>1. chunks[index].to \in Days
      BY Typed DEF ChunkSet
    <3> QED
      BY <1>0, <2>2, <3>1, TypesAreRanges DEF Cursor
  <2> QED
    BY <2>1, <2>2
<1>1. CASE RequestStop \/ PollContinues \/ UNCHANGED vars
  <2>1. Cursor' = Cursor /\ dataVars' = dataVars
    BY <1>1 DEF RequestStop, PollContinues, vars, planVars, chunkVars, dataVars, Cursor,
                Busy
  <2> QED
    BY <1>0, <2>1, AheadStays
<1>2. CASE PollStops \/ ImportRaises \/ Finish
  <2>1. Cursor' = LastDay + 1 /\ dataVars' = dataVars
    BY <1>2 DEF PollStops, ImportRaises, Finish, Cursor, Busy, dataVars
  <2> QED
    BY <1>0, <1>a, <2>1, AheadStays
<1>3. CASE FetchNothing
  <2>1. Cursor \in Int /\ Cursor' \in Int /\ Cursor < Cursor'
    BY <1>3, Behind
  <2>2. dataVars' = dataVars
    BY <1>3 DEF FetchNothing, dataVars
  <2> QED
    BY <2>1, <2>2, AheadStays
<1>4. CASE FetchAndSplit
  <2>1. /\ Busy /\ SamePlan /\ CanSplit(Head(work)) /\ dataVars' = dataVars
        /\ Continue(Halves(Head(work)) \o Tail(work))
    BY <1>4 DEF FetchAndSplit, planVars, dataVars, SamePlan, Busy
  <2>2. Cursor' = Cursor
    BY <2>1, ItemCut
  <2> QED
    BY <1>0, <2>1, <2>2, AheadStays
<1>5. CASE FetchClipped
  <2> DEFINE item == Head(work)
             new == Chunk(item.from, item.to)
  <2>1. /\ item \in ItemSet /\ item.from <= item.to /\ Cursor = item.from
        /\ Cursor' = item.to + 1 /\ Cursor' \in Int /\ Cursor < Cursor'
    BY <1>5, Behind
  <2>2. stored' = stored /\ clipped' = clipped \cup {new}
    BY <1>5 DEF FetchClipped
  <2>3. \A d \in DaysOf(new) : d \in Days /\ d \in Int /\ Cursor <= d /\ d < Cursor'
    <3>1. DaysOf(new) = DaysOf(item)
      BY DEF DaysOf, Chunk
    <3>2. item.to \in Int
      BY <2>1, TypesAreRanges DEF Ranges
    <3> HIDE DEF new, item
    <3> QED
      BY <2>1, <3>1, <3>2, AskedDays
  <2> HIDE DEF new, item
  <2>4. ASSUME NEW d \in Days, Cursor' <= d
        PROVE  stored'[d] = 0 /\ \A r \in clipped' : d \notin DaysOf(r)
    <3>1. Cursor <= d /\ d \in Int
      BY <1>0, <2>1, <2>4
    <3>2. d \notin DaysOf(new)
      BY <2>1, <2>3, <2>4, <3>1
    <3> QED
      BY <2>2, <3>1, <3>2 DEF AheadUntouched
  <2>5. \A d \in DaysOf(new) : stored[d] = 0
    BY <2>3 DEF AheadUntouched
  <2>6. WrittenOnce'
    BY <2>2, <2>5 DEF AheadUntouched, WrittenOnce
  <2> QED
    BY <2>4, <2>6 DEF AheadUntouched
<1>6. CASE FetchAll
  <2> DEFINE item == Head(work)
  <2>1. /\ item \in ItemSet /\ item.from <= item.to /\ Cursor = item.from
        /\ Cursor' = item.to + 1 /\ Cursor' \in Int /\ Cursor < Cursor'
    BY <1>6, Behind
  <2>2. /\ stored' = [d \in Days |-> stored[d] + IF d \in Asked(item) THEN 1 ELSE 0]
        /\ clipped' = clipped /\ clipped \subseteq ChunkSet
    BY <1>6 DEF FetchAll, TypeOK, ChunkSet
  <2>3. \A d \in Asked(item) : d \in Days /\ d \in Int /\ Cursor <= d /\ d < Cursor'
    <3>1. item.to \in Int
      BY <2>1, TypesAreRanges DEF Ranges
    <3> HIDE DEF item
    <3> QED
      BY <2>1, <3>1, AskedDays
  <2> HIDE DEF item
  <2>4. \A d \in Days : /\ stored[d] \in Nat
                        /\ d \in Asked(item) => stored[d] = 0 /\ stored'[d] = 1
                        /\ d \notin Asked(item) => stored'[d] = stored[d]
    <3>1. \A d \in Days : stored[d] \in Nat
      BY DEF TypeOK
    <3>2. \A d \in Asked(item) : stored[d] = 0
      BY <2>3 DEF AheadUntouched
    <3> QED
      BY <2>2, <3>1, <3>2
  <2>5. ASSUME NEW d \in Days, Cursor' <= d
        PROVE  stored'[d] = 0 /\ \A r \in clipped' : d \notin DaysOf(r)
    <3>1. Cursor <= d /\ d \in Int
      BY <1>0, <2>1, <2>5
    <3>2. d \notin Asked(item)
      BY <2>1, <2>3, <2>5, <3>1
    <3> QED
      BY <2>2, <2>4, <3>1, <3>2 DEF AheadUntouched
  <2>6. \A d \in Days : stored'[d] <= 1
    BY <2>4 DEF AheadUntouched, WrittenOnce
  <2>7. ASSUME NEW r \in clipped, NEW d \in DaysOf(r)
        PROVE  stored'[d] = 0
    <3>1. d \in Days
      BY <2>2, <2>7, TypesAreRanges DEF ChunkSet, DaysOf, Days
    <3>2. stored[d] = 0
      BY <2>7 DEF AheadUntouched, WrittenOnce
    <3>3. d \notin Asked(item)
      BY <2>3, <2>7 DEF AheadUntouched
    <3> QED
      BY <2>4, <3>1, <3>2, <3>3
  <2> QED
    BY <2>2, <2>5, <2>6, <2>7 DEF AheadUntouched, WrittenOnce
<1>7. CASE ChunkRaises
  <2>1. Cursor' = chunks[index].to + 1 /\ dataVars' = dataVars
    BY <1>7 DEF ChunkRaises, Continue, Cursor, Busy, planVars, dataVars
  <2>2. Cursor <= chunks[index].to /\ chunks[index].to \in Int
    <3>1. /\ Head(work) \in ItemSet /\ Head(work).from = Cursor
          /\ Head(work).from <= Head(work).to /\ Head(work).to <= chunks[index].to
      BY <1>7, InHand DEF ChunkRaises, Busy
    <3>2. Head(work).to \in Int /\ chunks[index].to \in Int
      BY <3>1, Typed, TypesAreRanges DEF Ranges
    <3> QED
      BY <1>0, <3>1, <3>2
  <2> QED
    BY <1>0, <2>1, <2>2, AheadStays
<1>8. CASE AccountChunk
  <2>1. Cursor' = chunks[index].to + 1
    BY <1>8, ChunkDone
  <2>2. Cursor = chunks[index].to + 1 /\ dataVars' = dataVars
    BY <1>8 DEF AccountChunk, Cursor, Busy, dataVars
  <2> QED
    BY <1>0, <2>1, <2>2, AheadStays
<1> QED
  BY <1>1, <1>2, <1>3, <1>4, <1>5, <1>6, <1>7, <1>8 DEF Next, Work, Fetch

\* No row is written by two calls: halves and re-cut chunks never fetch what was kept
\* before.
THEOREM NothingTwice == Spec => []WrittenOnce
<1>1. Init => AheadUntouched
  BY DEF Init, AheadUntouched, WrittenOnce
<1>2. TypeOK /\ PlanOK /\ AheadUntouched /\ [Next]_vars => AheadUntouched'
  BY AheadStep
<1>3. AheadUntouched => WrittenOnce
  BY DEF AheadUntouched
<1> QED
  BY <1>1, <1>2, <1>3, PlanKept, PTL DEF Spec

-----------------------------------------------------------------------------
(***************************************************************************)
(* What the import knows of the days in front of the cursor.               *)
(***************************************************************************)
\* Interfaces that are asked by trade_date have chunks of one day.
DayByDay == \A c \in Configs : c.loop => c.step = 1

\* An interface that is asked by trade_date keeps to single days, also when its rest
\* is cut anew.
LEMMA DaysStay ==
    ASSUME DayByDay, TypeOK, PlanOK, AskedByDay, [Next]_vars
    PROVE  AskedByDay'
<1>0. /\ config' = config /\ (config.loop => step = 1 /\ SingleDays(chunks) /\ SingleDays(work))
      /\ work \in Seq(ItemSet)
  BY Typed DEF Next, Work, Fetch, RequestStop, PollStops, PollContinues, FetchNothing,
               FetchAndSplit, FetchClipped, FetchAll, ChunkRaises, ImportRaises,
               AccountChunk, Finish, vars, AskedByDay
<1>1. CASE RequestStop \/ PollStops \/ PollContinues \/ ImportRaises \/ Finish \/ UNCHANGED vars
  BY <1>0, <1>1 DEF RequestStop, PollStops, PollContinues, ImportRaises, Finish, vars,
                    planVars, chunkVars, AskedByDay
<1>2. CASE FetchNothing \/ FetchClipped \/ FetchAll
  <2>1. SamePlan /\ Busy /\ (work' = <<>> \/ work' = Tail(work))
    BY <1>2, Behind
  <2>2. step' = step
    BY <1>2 DEF FetchNothing, FetchClipped, FetchAll, planVars
  <2>3. ASSUME SingleDays(work)
        PROVE  SingleDays(work')
    <3>1. CASE work' = <<>>
      BY <3>1 DEF SingleDays
    <3>2. CASE work' = Tail(work)
      <4>1. work # <<>> /\ Len(work) \in Nat /\ DOMAIN work = 1 .. Len(work)
        BY <1>0, <2>1, EmptySeq, LenProperties DEF PlanOK, Covers
      <4>2. /\ work' \in Seq(ItemSet) /\ Len(work') = Len(work) - 1
            /\ \A i \in 1 .. Len(work') : work'[i] = work[i + 1]
        BY <1>0, <3>2, <4>1, HeadTailProperties
      <4>3. DOMAIN work' = 1 .. Len(work')
        BY <4>2, LenProperties
      <4>4. \A i \in 1 .. Len(work') : i + 1 \in 1 .. Len(work)
        BY <4>1, <4>2
      <4> QED
        BY <2>3, <4>1, <4>2, <4>3, <4>4 DEF SingleDays
    <3> QED
      BY <2>1, <3>1, <3>2
  <2> QED
    BY <1>0, <2>1, <2>2, <2>3 DEF AskedByDay, SamePlan
<1>3. CASE FetchAndSplit
  <2>1. Busy /\ Head(work) = work[1] /\ Head(work).from < Head(work).to
    BY <1>3, InHand DEF FetchAndSplit, CanSplit, Busy
  <2>2. 1 \in DOMAIN work /\ work[1] \in ItemSet
    BY <1>0, <2>1, LenProperties, ElementOfSeq DEF PlanOK, Covers
  <2>3. ~ config.loop
    BY <1>0, <2>1, <2>2, TypesAreRanges DEF SingleDays, Ranges
  <2> QED
    BY <1>0, <2>3 DEF AskedByDay
<1>4. CASE ChunkRaises
  <2>1. work' = <<>> /\ step' = step /\ chunks' = chunks
    BY <1>4 DEF ChunkRaises, Continue, planVars
  <2> QED
    BY <1>0, <2>1 DEF AskedByDay, SingleDays
<1>5. CASE AccountChunk
  <2>1. /\ chunks' \in Seq(ChunkSet) /\ index' \in 1 .. Len(chunks')
        /\ work' = work \/ work' = <<Item(chunks'[index'], 0)>>
        /\ config.loop => step' = 1 /\ SingleDays(chunks')
    BY <1>0, <1>5, ChunkDone
  <2>2. ASSUME config.loop
        PROVE  SingleDays(work')
    <3>1. CASE work' = work
      BY <1>0, <2>2, <3>1
    <3>2. CASE work' = <<Item(chunks'[index'], 0)>>
      <4>1. chunks'[index'].from = chunks'[index'].to
        BY <2>1, <2>2, LenProperties DEF SingleDays
      <4>2. \A i \in DOMAIN work' : i = 1 /\ work'[i] = Item(chunks'[index'], 0)
        BY <3>2
      <4> QED
        BY <4>1, <4>2 DEF SingleDays, Item
    <3> QED
      BY <2>1, <3>1, <3>2
  <2> QED
    BY <1>0, <2>1, <2>2 DEF AskedByDay
<1> QED
  BY <1>1, <1>2, <1>3, <1>4, <1>5 DEF Next, Work, Fetch

\* A call that is done with leaves its days accounted for, or to its chunk.
LEMMA ItemKnown ==
    ASSUME TypeOK, PlanOK, AheadUntouched, AskedByDay, BehindKnown,
           FetchNothing \/ FetchClipped \/ FetchAll
    PROVE  BehindKnown'
<1> DEFINE item == Head(work)
           chunk == chunks[index]
<1>1. /\ Busy /\ item \in ItemSet /\ item.from <= item.to
      /\ Cursor = item.from /\ Cursor' = item.to + 1
      /\ chunk.from <= item.from /\ item.to <= chunk.to /\ SamePlan
  BY Behind
<1>2. /\ rows' = rows /\ raised' = raised /\ warned' = warned
      /\ failedChunks' = failedChunks /\ chunks'[index'] = chunk
  BY <1>1 DEF FetchNothing, FetchClipped, FetchAll, reportVars, SamePlan
<1>3. item.from = item.to \/ ~ config.loop
  <2>1. 1 \in DOMAIN work /\ item = work[1]
    BY <1>1, Typed, InHand, LenProperties DEF PlanOK, Covers
  <2> QED
    BY <2>1 DEF AskedByDay, SingleDays
<1>4. /\ Asked(item) = DaysOf(item)
      /\ \A d \in DaysOf(item) : d \in Int /\ item.from <= d /\ d <= item.to
  <2> HIDE DEF item
  <2> QED
    BY <1>1, <1>3, AskedDays
<1>5. /\ item.from \in Int /\ item.to \in Int /\ chunk.from \in Int /\ chunk.to \in Int
      /\ \A d \in Days : d \in Int
  BY <1>1, Typed, TypesAreRanges, CursorIsNumber DEF Ranges
<1>6. /\ Available(item) \in Nat
      /\ \A d \in Asked(item) : d \in Days /\ rows[d] \in Nat /\ Available(item) >= rows[d]
  <2> HIDE DEF item
  <2> QED
    BY <1>1, Typed, RowsAreThere
<1> HIDE DEF item, chunk
<1>7. ASSUME NEW d \in Days, d < Cursor'
      PROVE  Accounted(d)' \/ (d \in DaysOf(chunk) /\ (truncated' \/ raised'))
  <2>1. CASE d < Cursor
    <3>1. Accounted(d) \/ (d \in DaysOf(chunk) /\ (truncated \/ raised))
      BY <1>1, <2>1 DEF BehindKnown, chunk
    <3>2. d \notin Asked(item)
      BY <1>1, <1>4, <1>5, <2>1
    <3>3. stored'[d] = stored[d]
      <4>1. stored[d] \in Nat
        BY DEF TypeOK
      <4> QED
        BY <3>2, <4>1 DEF FetchNothing, FetchClipped, FetchAll, dataVars, item
    <3>4. truncated => truncated'
      BY DEF FetchNothing, FetchClipped, FetchAll
    <3> QED
      BY <1>2, <3>1, <3>3, <3>4 DEF Accounted
  <2>2. CASE ~(d < Cursor)
    <3>1. d \in DaysOf(item) /\ d \in DaysOf(chunk)
      BY <1>1, <1>5, <1>7, <2>2 DEF DaysOf
    <3>2. CASE FetchNothing
      <4>1. rows[d] = 0
        BY <1>4, <1>6, <3>1, <3>2 DEF FetchNothing, item
      <4> QED
        BY <1>2, <4>1 DEF Accounted
    <3>3. CASE FetchClipped
      BY <3>1, <3>3 DEF FetchClipped
    <3>4. CASE FetchAll
      <4>1. stored[d] = 0
        BY <1>1, <1>5, <2>2 DEF AheadUntouched
      <4>2. stored'[d] = stored[d] + 1
        BY <1>4, <3>1, <3>4 DEF FetchAll, item
      <4> QED
        BY <4>1, <4>2 DEF Accounted
    <3> QED
      BY <3>2, <3>3, <3>4
  <2> QED
    BY <2>1, <2>2
<1> QED
  BY <1>2, <1>7 DEF BehindKnown

\* Whatever lies in front of the cursor stays accounted for.
LEMMA KnownStep ==
    ASSUME TypeOK, PlanOK, AheadUntouched, AskedByDay, BehindKnown, EndKnown, [Next]_vars
    PROVE  BehindKnown' /\ EndKnown'
<1>0. Cursor \in Int /\ \A d \in Days : d \in Int /\ d < LastDay + 1
  BY CursorIsNumber
<1>1. CASE RequestStop \/ PollContinues \/ UNCHANGED vars
  <2>1. /\ Cursor' = Cursor /\ (Busy' \/ pc' = "account" <=> Busy \/ pc = "account")
        /\ chunks' = chunks /\ index' = index /\ truncated' = truncated /\ raised' = raised
        /\ \A d \in Days : Accounted(d)' <=> Accounted(d)
        /\ result' = result /\ progress' = progress
        /\ pc \in {"finish", "done"} => pc' = pc
    BY <1>1 DEF RequestStop, PollContinues, vars, planVars, chunkVars, reportVars, dataVars,
                Cursor, Busy, Accounted
  <2> QED
    BY <2>1 DEF BehindKnown, EndKnown
<1>2. CASE PollStops \/ ImportRaises
  <2>1. /\ ~Busy' /\ pc' # "account" /\ result' # "completed" /\ progress' = progress
        /\ pc \notin {"finish", "done"}
    BY <1>2 DEF PollStops, ImportRaises, Busy
  <2> QED
    BY <2>1 DEF BehindKnown, EndKnown
<1>3. CASE FetchNothing \/ FetchClipped \/ FetchAll
  <2>1. BehindKnown'
    BY <1>3, ItemKnown
  <2>2. result' = result /\ progress' = progress /\ pc \notin {"finish", "done"}
    BY <1>3 DEF FetchNothing, FetchClipped, FetchAll
  <2> QED
    BY <2>1, <2>2 DEF EndKnown
<1>4. CASE FetchAndSplit
  <2>1. /\ Busy /\ SamePlan /\ CanSplit(Head(work))
        /\ Continue(Halves(Head(work)) \o Tail(work))
    BY <1>4 DEF FetchAndSplit, planVars, SamePlan, Busy
  <2>2. Cursor' = Cursor
    BY <2>1, ItemCut
  <2>3. /\ truncated' = truncated /\ \A d \in Days : Accounted(d)' <=> Accounted(d)
        /\ result' = result /\ progress' = progress /\ pc \notin {"finish", "done"}
    BY <1>4 DEF FetchAndSplit, reportVars, dataVars, Accounted
  <2> QED
    BY <2>1, <2>2, <2>3 DEF BehindKnown, EndKnown, SamePlan
<1>5. CASE ChunkRaises
  <2>1. /\ Cursor' = chunks[index].to + 1 /\ raised' /\ chunks'[index'] = chunks[index]
        /\ Busy /\ \A d \in Days : Accounted(d)' <=> Accounted(d)
        /\ result' = result /\ progress' = progress /\ pc \notin {"finish", "done"}
    BY <1>5 DEF ChunkRaises, Continue, Cursor, Busy, planVars, reportVars, dataVars,
                Accounted
  <2>2. chunks[index].from <= Cursor
    BY <2>1, InHand
  <2>3. chunks[index].from \in Int /\ chunks[index].to \in Int
    BY Typed, TypesAreRanges DEF Ranges
  <2>4. ASSUME NEW d \in Days, d < Cursor'
        PROVE  Accounted(d)' \/ d \in DaysOf(chunks[index])
    <3>1. CASE d < Cursor
      BY <2>1, <3>1 DEF BehindKnown
    <3>2. CASE ~(d < Cursor)
      BY <1>0, <2>1, <2>2, <2>3, <2>4, <3>2 DEF DaysOf
    <3> QED
      BY <3>1, <3>2
  <2> QED
    BY <2>1, <2>4 DEF BehindKnown, EndKnown
<1>6. CASE AccountChunk
  <2>1. /\ Cursor' = chunks[index].to + 1
        /\ \/ pc' = "poll" /\ result' = result
           \/ pc' = "finish" /\ result' = "completed" /\ Cursor' = LastDay + 1
    BY <1>6, ChunkDone
  <2>2. pc = "account" /\ ~Busy /\ Cursor = chunks[index].to + 1
    BY <1>6 DEF AccountChunk, Busy, Cursor
  <2>3. /\ rows' = rows /\ stored' = stored
        /\ warned \cup failedChunks \subseteq warned' \cup failedChunks'
        /\ truncated \/ raised => chunks[index] \in warned' \cup failedChunks'
    BY <1>6 DEF AccountChunk, dataVars
  <2>4. ASSUME NEW d \in Days, d < Cursor'
        PROVE  Accounted(d)'
    <3>1. Accounted(d) \/ (d \in DaysOf(chunks[index]) /\ (truncated \/ raised))
      BY <2>1, <2>2, <2>4 DEF BehindKnown
    <3> QED
      BY <2>3, <3>1 DEF Accounted
  <2>5. progress'.status = progress.status
    BY <1>6 DEF AccountChunk, ReportChunk, TypeOK
  <2> QED
    BY <1>0, <2>1, <2>2, <2>4, <2>5 DEF BehindKnown, EndKnown
<1>7. CASE Finish
  <2>1. /\ pc = "finish" /\ pc' = "done" /\ ~Busy' /\ result' = result
        /\ \A d \in Days : Accounted(d)' <=> Accounted(d)
    BY <1>7 DEF Finish, Busy, reportVars, dataVars, Accounted
  <2>2. progress'.status = "completed" => result = "completed"
    BY <1>7 DEF Finish, TypeOK
  <2> QED
    BY <2>1, <2>2 DEF BehindKnown, EndKnown
<1> QED
  BY <1>1, <1>2, <1>3, <1>4, <1>5, <1>6, <1>7 DEF Next, Work, Fetch

\* An import that ends "completed" says which data it does not have: a day with rows is
\* stored, or its chunk is in truncation_warnings or in failed_chunks.  The assumption is
\* the registry's: the entries with batch_by_date and use_trade_date_loop all have
\* date_chunk_days 1.  The fallback strategy takes entries without batch_by_date in chunks
\* of 30 days, and there data is lost (run batch_fallback).
THEOREM NothingLost ==
    ASSUME DayByDay
    PROVE  Spec => []NothingSilentlyLost
<1>1. Init => AheadUntouched /\ BehindKnown /\ EndKnown
  <2> SUFFICES ASSUME Init
               PROVE  AheadUntouched /\ BehindKnown /\ EndKnown
    OBVIOUS
  <2>1. Cursor = 1 /\ \A d \in Days : ~(d < 1)
    BY PlanInit, TypesAreRanges DEF Days
  <2>2. AheadUntouched
    BY DEF Init, AheadUntouched, WrittenOnce
  <2>3. BehindKnown
    BY <2>1 DEF BehindKnown
  <2> QED
    BY <2>2, <2>3 DEF Init, EndKnown
<1>2. Init => AskedByDay
  <2> SUFFICES ASSUME Init, config.loop
               PROVE  step = 1 /\ SingleDays(chunks) /\ SingleDays(work)
    BY DEF AskedByDay
  <2>1. config.step = 1
    BY DEF DayByDay, Init
  <2>2. SingleDays(chunks)
    <3>1. 1 \in Int /\ LastDay \in Int /\ 1 <= LastDay /\ config.step \in Nat \ {0}
      BY TypesAreRanges, ConfigsAssumption DEF Init
    <3>2. chunks = Split(1, LastDay, config.step)
      BY DEF Init
    <3>3. config.step = 1 => \A i \in DOMAIN Split(1, LastDay, config.step) :
              Split(1, LastDay, config.step)[i].from = Split(1, LastDay, config.step)[i].to
      BY <3>1, SplitCovers
    <3> QED
      BY <2>1, <3>2, <3>3 DEF SingleDays
  <2>3. 1 \in DOMAIN chunks
    BY PlanInit, Typed, LenProperties DEF PlanOK, Covers
  <2>4. \A i \in DOMAIN work : i = 1 /\ work[i] = Item(chunks[1], 0)
    BY DEF Init
  <2> QED
    BY <2>1, <2>2, <2>3, <2>4 DEF Init, SingleDays, Item
<1>3. TypeOK /\ PlanOK /\ AskedByDay /\ [Next]_vars => AskedByDay'
  BY DaysStay
<1>4. TypeOK /\ PlanOK /\ AheadUntouched /\ [Next]_vars => AheadUntouched'
  BY AheadStep
<1>5. TypeOK /\ PlanOK /\ AheadUntouched /\ AskedByDay /\ BehindKnown /\ EndKnown /\ [Next]_vars
      => BehindKnown' /\ EndKnown'
  BY KnownStep
<1>6. EndKnown => NothingSilentlyLost
  BY DEF EndKnown, NothingSilentlyLost, Accounted
<1> QED
  BY <1>1, <1>2, <1>3, <1>4, <1>5, <1>6, PlanKept, PTL DEF Spec
=============================================================================
