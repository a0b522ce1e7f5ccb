---------------------------- MODULE CodecProofs -----------------------------
(***************************************************************************)
(* The three invariants of Codec for inputs of every length, and what they *)
(* rest on: numbers of 32 bits, pieces and what they make when they are    *)
(* joined, Base64, rotations, messages and the frames of a stream.         *)
(*                                                                         *)
(* FlattenSeq and the loop over the frames are recursive functions.  That  *)
(* they exist, and what they compute, is proved by induction for sets of   *)
(* numbers (Induction), which follows from the order being well-founded.   *)
(***************************************************************************)
EXTENDS Codec, SequenceTheorems, WellFoundedInduction, TLAPS

-----------------------------------------------------------------------------
(* Arithmetic *)

\* Division leaves a remainder.
LEMMA Division ==
  ASSUME NEW n \in Nat, NEW d \in Nat \ {0}
  PROVE  /\ n \div d \in Nat
         /\ n % d \in 0 .. d - 1
         /\ n = d * (n \div d) + (n % d)
  BY SMTT(30)

\* The remainder is the only number of its kind.
LEMMA Remainder ==
  ASSUME NEW d \in Nat \ {0}, NEW q \in Nat, NEW r \in 0 .. d - 1
  PROVE  (d * q + r) % d = r /\ (d * q + r) \div d = q
<1>1. d * q + r \in Nat
  BY SMT
<1> DEFINE n == d * q + r
<1>2. /\ n \div d \in Nat /\ n % d \in 0 .. d - 1
      /\ n = d * (n \div d) + (n % d)
  BY <1>1, Division
<1> HIDE DEF n
<1>3. \A a, b \in Nat : a < b => d * a + d <= d * b
  BY SMTT(30)
<1>4. n \div d = q
  BY <1>2, <1>3, SMT DEF n
<1> QED
  BY <1>2, <1>4, SMT DEF n

\* What a sum that wraps around at most once leaves.
LEMMA Wrap ==
  ASSUME NEW n \in Nat \ {0}, NEW x \in 0 .. n - 1
  PROVE  x % n = x /\ (x + n) % n = x
<1>1. n * 0 + x = x /\ n * 1 + x = x + n
  BY SMT
<1>2. (n * 0 + x) % n = x /\ (n * 1 + x) % n = x
  BY Remainder
<1> QED
  BY <1>1, <1>2

\* From the start of one piece to that of the next.
LEMMA NextMultiple ==
  ASSUME NEW i \in Nat \ {0}, NEW n \in Nat
  PROVE  (i - 1) * n \in Nat /\ ((i + 1) - 1) * n = (i - 1) * n + n
<1>1. i - 1 \in Nat /\ (i + 1) - 1 = (i - 1) + 1
  OBVIOUS
<1>2. \A j \in Nat : j * n \in Nat /\ (j + 1) * n = j * n + n
  BY SMTT(30)
<1> QED
  BY <1>1, <1>2, Zenon

-----------------------------------------------------------------------------
(* Induction *)

\* A set of numbers that is not empty has a least one: the order of the numbers
\* is well-founded.
LEMMA Least ==
  ASSUME NEW T \in SUBSET Nat, T # {}
  PROVE  \E x \in T : \A y \in T : x <= y
<1> DEFINE R == {ss \in Nat \X Nat : ss[1] < ss[2]}
<1>1. IsWellFoundedOn(R, Nat)
  BY NatLessThanWellFounded DEF OpToRel
<1> HIDE DEF R
<1>2. PICK x \in T : \A y \in T : <<y, x>> \notin R
  BY <1>1, WFMin
<1>3. ASSUME NEW y \in T PROVE x <= y
  <2>1. <<y, x>> \in R <=> y < x
    BY DEF R
  <2>2. ~(y < x)
    BY <1>2, <2>1
  <2> QED
    BY <2>2
<1> QED
  BY <1>3

\* Induction, for what can be said by a set.
LEMMA Induction ==
  ASSUME NEW T \in SUBSET Nat, 0 \in T, \A n \in T : n + 1 \in T
  PROVE  T = Nat
<1> SUFFICES ASSUME Nat \ T # {} PROVE FALSE
  OBVIOUS
<1>1. PICK x \in Nat \ T : \A y \in Nat \ T : x <= y
  BY Least
<1>2. x # 0 /\ x - 1 \in Nat /\ x - 1 \in T
  BY <1>1
<1> QED
  BY <1>1, <1>2

-----------------------------------------------------------------------------
(* Sequences *)

\* What a concatenation holds, and where.
LEMMA Joined ==
  ASSUME NEW S, NEW s \in Seq(S), NEW t \in Seq(S)
  PROVE  /\ s \o t \in Seq(S)
         /\ Len(s \o t) = Len(s) + Len(t)
         /\ \A i \in 1 .. Len(s) : (s \o t)[i] = s[i]
         /\ \A i \in 1 .. Len(t) : (s \o t)[Len(s) + i] = t[i]
  OBVIOUS

\* A function on the first numbers is a sequence.
LEMMA Listed ==
  ASSUME NEW S, NEW n \in Nat, NEW f, f = [i \in 1 .. n |-> f[i]],
         \A i \in 1 .. n : f[i] \in S
  PROVE  f \in Seq(S) /\ Len(f) = n
  OBVIOUS

\* The entries of a sequence over a set are members of the set.
LEMMA Entries ==
  ASSUME NEW S, NEW s \in Seq(S), NEW i \in 1 .. Len(s)
  PROVE  s[i] \in S
  OBVIOUS

\* A piece is as long as it was cut, and its elements are those it was cut
\* from.
LEMMA Slice ==
  ASSUME NEW S, NEW s \in Seq(S), NEW a \in Nat \ {0}, NEW b \in Nat,
         a <= b, b <= Len(s)
  PROVE  /\ Len(SubSeq(s, a, b)) = b - a + 1
         /\ \A i \in 1 .. b - a + 1 : SubSeq(s, a, b)[i] = s[a + i - 1]
  BY SMTT(30)

\* FlattenSeq joins the members one after the other.
LEMMA FlattenSteps ==
  ASSUME NEW p, NEW n \in Nat \ {0}, Len(p) = n
  PROVE  \E g : /\ FlattenSeq(p) = g[n]
                /\ g[1] = p[1]
                /\ \A i \in 2 .. n : g[i] = g[i - 1] \o p[i]
<1> DEFINE Solves(g, m) ==
             g = [i \in 1 .. m |-> IF i = 1 THEN p[i] ELSE g[i - 1] \o p[i]]
           T == {m \in Nat : \E g : Solves(g, m)}
<1>1. 0 \in T
  <2> DEFINE g == [i \in 1 .. 0 |-> p[1]]
  <2>1. Solves(g, 0)
    OBVIOUS
  <2> QED
    BY <2>1
<1>2. ASSUME NEW m \in T PROVE m + 1 \in T
  <2>1. PICK g : Solves(g, m)
    OBVIOUS
  <2> DEFINE h == [i \in 1 .. m + 1 |-> IF i <= m THEN g[i]
                                     ELSE IF i = 1 THEN p[i] ELSE g[i - 1] \o p[i]]
  <2>2. ASSUME NEW i \in 1 .. m + 1
        PROVE  h[i] = IF i = 1 THEN p[i] ELSE h[i - 1] \o p[i]
    <3>1. CASE i <= m
      <4>1. i \in 1 .. m /\ (i # 1 => i - 1 \in 1 .. m)
        BY <3>1
      <4>2. h[i] = g[i] /\ (i # 1 => h[i - 1] = g[i - 1])
        BY <3>1, <4>1
      <4>3. g[i] = IF i = 1 THEN p[i] ELSE g[i - 1] \o p[i]
        BY <2>1, <4>1
      <4> QED
        BY <4>2, <4>3
    <3>2. CASE ~(i <= m)
      <4>1. i # 1 => i - 1 \in 1 .. m + 1 /\ i - 1 <= m
        OBVIOUS
      <4>2. i # 1 => h[i - 1] = g[i - 1]
        BY <4>1
      <4>3. h[i] = IF i = 1 THEN p[i] ELSE g[i - 1] \o p[i]
        BY <3>2
      <4> HIDE DEF h
      <4> QED
        BY <4>2, <4>3
    <3> QED
      BY <3>1, <3>2
  <2>3. h = [i \in 1 .. m + 1 |-> h[i]]
    OBVIOUS
  <2> HIDE DEF h
  <2>4. Solves(h, m + 1)
    BY <2>2, <2>3
  <2>5. m + 1 \in Nat
    OBVIOUS
  <2> HIDE DEF Solves
  <2> QED
    BY <2>4, <2>5, Zenon
<1>3. n \in T
  <2> HIDE DEF T
  <2>1. T \subseteq Nat
    BY DEF T
  <2> QED
    BY <1>1, <1>2, <2>1, Induction
<1>4. \E g : g = [i \in 1 .. Len(p) |-> IF i = 1 THEN p[i] ELSE g[i - 1] \o p[i]]
  BY <1>3
<1>5. \E g : /\ g = [i \in 1 .. Len(p) |-> IF i = 1 THEN p[i] ELSE g[i - 1] \o p[i]]
             /\ FlattenSeq(p) = g[Len(p)]
  BY <1>4, Zenon DEF FlattenSeq
<1>6. PICK g : /\ g = [i \in 1 .. Len(p) |-> IF i = 1 THEN p[i] ELSE g[i - 1] \o p[i]]
               /\ FlattenSeq(p) = g[Len(p)]
  BY <1>5
<1>7. FlattenSeq(p) = g[n]
  BY <1>6
<1>8. ASSUME NEW i \in 1 .. n
      PROVE  g[i] = IF i = 1 THEN p[i] ELSE g[i - 1] \o p[i]
  <2>1. n = Len(p)
    OBVIOUS
  <2> QED
    BY <1>6, <2>1, Zenon
<1>9. g[1] = p[1]
  <2>1. 1 \in 1 .. n
    OBVIOUS
  <2> QED
    BY <1>8, <2>1, Zenon
<1>10. ASSUME NEW i \in 2 .. n PROVE g[i] = g[i - 1] \o p[i]
  <2>1. i \in 1 .. n /\ i # 1
    OBVIOUS
  <2> QED
    BY <1>8, <2>1, Zenon
<1> QED
  BY <1>7, <1>9, <1>10

-----------------------------------------------------------------------------
(* Lengths *)

\* A length that fits into 32 bits is read as it was written (the head of a
\* frame in encrypt_stream_for_client, the token in encode_qr_payload).
THEOREM LengthsAreRead ==
  ASSUME NEW n \in Nat, n < 4294967296
  PROVE  from_be_bytes(to_be_bytes(n)) = n
<1> DEFINE a == n \div 16777216
           b == n \div 65536
           c == n \div 256
<1>1. a \in Nat /\ b \in Nat /\ c \in Nat
  BY SMT
<1>2. a % 256 = a
  BY SMT
<1>3. b = 256 * a + (b % 256)
  BY SMT
<1>4. c = 256 * b + (c % 256)
  BY SMT
<1>5. n = 256 * c + (n % 256)
  BY SMT
<1>6. /\ a % 256 \in Nat /\ b % 256 \in Nat /\ c % 256 \in Nat
      /\ n % 256 \in Nat
  BY SMT
<1>7. to_be_bytes(n) = <<a % 256, b % 256, c % 256, n % 256>>
  BY SMT DEF to_be_bytes
<1> HIDE DEF a, b, c
<1>8. from_be_bytes(<<a % 256, b % 256, c % 256, n % 256>>) =
        (a % 256) * 16777216 + (b % 256) * 65536 + (c % 256) * 256 + (n % 256)
  BY SMT DEF from_be_bytes
<1> QED
  BY <1>1, <1>2, <1>3, <1>4, <1>5, <1>6, <1>7, <1>8, SMT

-----------------------------------------------------------------------------
(* Pieces *)

\* Where the pieces of s begin, how long they are and what is in them.
IsCut(S, s, n, p) ==
  /\ p \in Seq(Seq(S))
  /\ Len(p) \in Nat /\ Len(p) = div_ceil(Len(s), n)
  /\ n * Len(p) \in Nat /\ Len(s) <= n * Len(p) /\ n * Len(p) < Len(s) + n
  /\ \A i \in 1 .. Len(p) :
       /\ (i - 1) * n \in Nat
       /\ p[i] \in Seq(S)
       /\ Len(p[i]) \in 1 .. n
       /\ i < Len(p) => Len(p[i]) = n
       /\ i = Len(p) => Len(p[i]) = Len(s) - (i - 1) * n
       /\ (i - 1) * n + Len(p[i]) <= Len(s)
       /\ \A m \in 1 .. Len(p[i]) : p[i][m] = s[(i - 1) * n + m]

LEMMA Cut ==
  ASSUME NEW S, NEW s \in Seq(S), NEW n \in Nat \ {0}
  PROVE  IsCut(S, s, n, chunks(s, n))
<1> DEFINE L == Len(s)
           c == (L + n - 1) \div n
           end(i) == IF i * n < L THEN i * n ELSE L
<1>1. L \in Nat /\ L + n - 1 \in Nat
  BY SMT
<1>2. c \in Nat /\ n * c \in Nat /\ L <= n * c /\ n * c < L + n
  <2> DEFINE r == (L + n - 1) % n
  <2>1. c \in Nat /\ r \in 0 .. n - 1 /\ L + n - 1 = n * c + r
    BY <1>1, Division
  <2> HIDE DEF c, r, L
  <2>2. n * c \in Nat
    BY <2>1, SMT
  <2> QED
    BY <1>1, <2>1, <2>2, SMT
<1>3. div_ceil(Len(s), n) = c
  BY DEF div_ceil
<1>4. chunks(s, n) = [i \in 1 .. c |-> SubSeq(s, (i - 1) * n + 1, end(i))]
  BY DEF chunks
<1> HIDE DEF L, c
<1>5. \A a, b \in Nat : a < b => n * a + n <= n * b
  BY SMTT(30)
<1>6. ASSUME NEW i \in 1 .. c
      PROVE  /\ (i - 1) * n \in Nat /\ (i - 1) * n < L
             /\ i < c => end(i) = (i - 1) * n + n
             /\ i = c => end(i) = L /\ L <= (i - 1) * n + n
             /\ end(i) \in Nat /\ end(i) <= L
  <2>1. /\ (i - 1) * n \in Nat /\ i * n = n * i /\ n * i \in Nat
        /\ i * n = (i - 1) * n + n
    BY <1>2, SMTT(30)
  <2>2. i < c => n * i + n <= n * c
    BY <1>2, <1>5
  <2> QED
    BY <1>1, <1>2, <2>1, <2>2, SMT
<1>7. ASSUME NEW i \in 1 .. c
      PROVE  /\ Len(chunks(s, n)[i]) = end(i) - (i - 1) * n
             /\ \A m \in 1 .. end(i) - (i - 1) * n :
                  chunks(s, n)[i][m] = s[(i - 1) * n + m]
  <2> DEFINE a == (i - 1) * n + 1
  <2>1. a \in Nat \ {0} /\ end(i) \in Nat /\ a <= end(i) /\ end(i) <= Len(s)
    BY <1>1, <1>2, <1>6, SMT DEF L
  <2>2. chunks(s, n)[i] = SubSeq(s, a, end(i))
    BY <1>4
  <2> HIDE DEF a, end
  <2>3. /\ Len(SubSeq(s, a, end(i))) = end(i) - a + 1
        /\ \A m \in 1 .. end(i) - a + 1 : SubSeq(s, a, end(i))[m] = s[a + m - 1]
    BY <2>1, Slice
  <2>4. (i - 1) * n \in Nat /\ a = (i - 1) * n + 1
    BY <1>6 DEF a
  <2> QED
    BY <2>1, <2>2, <2>3, <2>4, SMTT(30)
<1>8. Len(chunks(s, n)) = c
  BY <1>2, <1>4
<1>9. ASSUME NEW i \in 1 .. c
      PROVE  /\ chunks(s, n)[i] \in Seq(S)
             /\ Len(chunks(s, n)[i]) \in 1 .. n
             /\ i < c => Len(chunks(s, n)[i]) = n
             /\ i = c => Len(chunks(s, n)[i]) = L - (i - 1) * n
             /\ (i - 1) * n + Len(chunks(s, n)[i]) <= L
  <2> DEFINE e == end(i)
             b == (i - 1) * n
  <2>1. /\ b \in Nat /\ b < L /\ e \in Nat /\ e <= L
        /\ i < c => e = b + n
        /\ i = c => e = L /\ L <= b + n
        /\ Len(chunks(s, n)[i]) = e - b
    BY <1>6, <1>7
  <2>2. chunks(s, n)[i] = SubSeq(s, b + 1, e)
    BY <1>4
  <2> HIDE DEF e, b
  <2>3. SubSeq(s, b + 1, e) \in Seq(S)
    BY <2>1, SubSeqProperties DEF L
  <2>4. i < c \/ i = c
    BY <1>2
  <2>5. e - b \in 1 .. n
    BY <1>1, <2>1, <2>4
  <2>6. /\ i < c => e - b = n
        /\ b + (e - b) <= L
    BY <1>1, <2>1
  <2> QED
    BY <2>1, <2>2, <2>3, <2>5, <2>6 DEF b
<1>10. chunks(s, n) \in Seq(Seq(S))
  <2>1. chunks(s, n) = [i \in 1 .. c |-> chunks(s, n)[i]]
    BY <1>4
  <2>2. \A i \in 1 .. c : chunks(s, n)[i] \in Seq(S)
    BY <1>9
  <2> QED
    BY <1>2, <2>1, <2>2, Listed, Zenon
<1> QED
  <2>1. \A i \in 1 .. c : \A m \in 1 .. Len(chunks(s, n)[i]) :
          chunks(s, n)[i][m] = s[(i - 1) * n + m]
    BY <1>7
  <2>2. \A i \in 1 .. c : (i - 1) * n \in Nat
    BY <1>6
  <2> HIDE DEF end
  <2> DEFINE p == chunks(s, n)
  <2>3. Len(p) = c /\ L = Len(s)
    BY <1>8 DEF L
  <2>4. p \in Seq(Seq(S)) /\ c = div_ceil(Len(s), n)
    BY <1>3, <1>10 DEF p
  <2>5. /\ \A i \in 1 .. c : \A m \in 1 .. Len(p[i]) : p[i][m] = s[(i - 1) * n + m]
        /\ \A i \in 1 .. c :
             /\ p[i] \in Seq(S)
             /\ Len(p[i]) \in 1 .. n
             /\ i < c => Len(p[i]) = n
             /\ i = c => Len(p[i]) = Len(s) - (i - 1) * n
             /\ (i - 1) * n + Len(p[i]) <= Len(s)
    BY <1>9, <2>1 DEF p, L
  <2> HIDE DEF p
  <2>6. IsCut(S, s, n, p)
    BY <1>2, <2>2, <2>3, <2>4, <2>5 DEF IsCut
  <2> QED
    BY <2>6 DEF p

\* Cutting anew loses nothing: there are as many pieces as the receiver
\* counts, all of the size it asked for but the last, which is not empty, and
\* byte j is found where the receiver looks for it (slice::chunks and div_ceil
\* in upload_completed_push_to_target, encode_txt_record).
THEOREM PiecesFit ==
  ASSUME NEW S, NEW s \in Seq(S), NEW n \in Nat \ {0}
  PROVE  LET pieces == chunks(s, n)
             count == div_ceil(Len(s), n)
         IN  /\ Len(pieces) = count
             /\ \A i \in 1 .. count - 1 : Len(pieces[i]) = n
             /\ count > 0 => Len(pieces[count]) \in 1 .. n
             /\ \A j \in 1 .. Len(s) :
                  /\ 1 + ((j - 1) \div n) \in 1 .. count
                  /\ 1 + ((j - 1) % n) \in
                       1 .. Len(pieces[1 + ((j - 1) \div n)])
                  /\ pieces[1 + ((j - 1) \div n)][1 + ((j - 1) % n)] = s[j]
<1> DEFINE L == Len(s)
           p == chunks(s, n)
           k == Len(p)
<1>1. L \in Nat
  OBVIOUS
<1>a. IsCut(S, s, n, p)
  BY Cut
<1>k. k = Len(p)
  OBVIOUS
<1> HIDE DEF p, k
<1>2. /\ k \in Nat /\ k = div_ceil(Len(s), n)
      /\ n * k \in Nat /\ Len(s) <= n * k
      /\ \A i \in 1 .. k :
           /\ (i - 1) * n \in Nat
           /\ Len(p[i]) \in 1 .. n
           /\ i < k => Len(p[i]) = n
           /\ i = k => Len(p[i]) = Len(s) - (i - 1) * n
           /\ \A m \in 1 .. Len(p[i]) : p[i][m] = s[(i - 1) * n + m]
  BY <1>a, <1>k DEF IsCut
<1>b. L = Len(s)
  OBVIOUS
<1> HIDE DEF L
<1>3. ASSUME NEW j \in 1 .. L
      PROVE  /\ 1 + ((j - 1) \div n) \in 1 .. k
             /\ 1 + ((j - 1) % n) \in 1 .. Len(p[1 + ((j - 1) \div n)])
             /\ p[1 + ((j - 1) \div n)][1 + ((j - 1) % n)] = s[j]
  <2> DEFINE q == (j - 1) \div n
             r == (j - 1) % n
             i == 1 + q
  <2>1. q \in Nat /\ r \in 0 .. n - 1 /\ j - 1 = n * q + r /\ n * q \in Nat
    <3>1. j - 1 \in Nat
      BY <1>1
    <3>2. q \in Nat /\ r \in 0 .. n - 1 /\ j - 1 = n * q + r
      BY <3>1, Division
    <3> HIDE DEF q, r
    <3>3. n * q \in Nat
      BY <3>2, SMT
    <3> QED
      BY <3>2, <3>3
  <2> HIDE DEF q, r
  <2>2. i \in 1 .. k
    <3>1. \A a, b \in Nat : a <= b => n * a <= n * b
      BY SMTT(30)
    <3>2. k <= q => n * k <= n * q
      BY <1>2, <2>1, <3>1
    <3> QED
      BY <1>1, <1>2, <1>b, <2>1, <3>2, SMT
  <2>3. (i - 1) * n = n * q
    BY <2>1, SMT
  <2>4. r + 1 \in 1 .. Len(p[i])
    <3>1. CASE i < k
      <4>1. Len(p[i]) = n
        BY <1>2, <2>2, <3>1
      <4> QED
        BY <2>1, <4>1
    <3>2. CASE i = k
      <4>1. Len(p[i]) = L - n * q
        BY <1>2, <1>b, <2>2, <2>3, <3>2
      <4> QED
        BY <1>1, <2>1, <4>1
    <3> QED
      BY <1>2, <2>2, <3>1, <3>2
  <2>5. p[i][r + 1] = s[(i - 1) * n + (r + 1)]
    BY <1>2, <2>2, <2>4
  <2>6. (i - 1) * n + (r + 1) = j /\ r + 1 = 1 + r
    BY <2>1, <2>3, SMT
  <2> QED
    BY <2>2, <2>4, <2>5, <2>6 DEF q, r
<1>4. ASSUME NEW i \in 1 .. k - 1 PROVE Len(p[i]) = n
  <2>1. i \in 1 .. k /\ i < k
    BY <1>2
  <2> QED
    BY <1>2, <2>1, Zenon
<1>5. k > 0 => Len(p[k]) \in 1 .. n
  <2>1. k > 0 => k \in 1 .. k
    BY <1>2
  <2> QED
    BY <1>2, <2>1, Zenon
<1> QED
  BY <1>2, <1>3, <1>4, <1>5 DEF L, p, k

\* e is what the pieces p make when all but the last have n elements.
IsJoin(p, n, e) ==
  /\ Len(e) = (Len(p) - 1) * n + Len(p[Len(p)])
  /\ \A i \in 1 .. Len(p) : \A x \in 1 .. Len(p[i]) :
       /\ (i - 1) * n + x \in 1 .. Len(e)
       /\ e[(i - 1) * n + x] = p[i][x]

\* Pieces of equal size are found in what they make.
LEMMA Join ==
  ASSUME NEW S, NEW p \in Seq(Seq(S)), p # << >>, NEW n \in Nat \ {0},
         \A i \in 1 .. Len(p) - 1 : Len(p[i]) = n
  PROVE  FlattenSeq(p) \in Seq(S) /\ IsJoin(p, n, FlattenSeq(p))
<1> DEFINE k == Len(p)
<1>1. k \in Nat \ {0}
  BY EmptySeq
<1>2. \A i \in 1 .. k : p[i] \in Seq(S) /\ Len(p[i]) \in Nat
  OBVIOUS
<1>3. PICK g : /\ FlattenSeq(p) = g[k]
               /\ g[1] = p[1]
               /\ \A i \in 2 .. k : g[i] = g[i - 1] \o p[i]
  BY <1>1, FlattenSteps
<1>4. \A i \in 1 .. k : i < k => Len(p[i]) = n
  BY <1>1
<1>k. k = Len(p)
  OBVIOUS
<1> HIDE DEF k
<1> DEFINE Holds(i, h, x) ==
             /\ (h - 1) * n + x \in 1 .. Len(g[i])
             /\ g[i][(h - 1) * n + x] = p[h][x]
           Upto(i) ==
             /\ g[i] \in Seq(S)
             /\ Len(g[i]) = (i - 1) * n + Len(p[i])
             /\ \A h \in 1 .. i : \A x \in 1 .. Len(p[h]) : Holds(i, h, x)
<1>5. Upto(1)
  <2>1. 1 \in 1 .. k /\ (1 - 1) * n = 0
    BY <1>1
  <2>2. p[1] \in Seq(S) /\ Len(p[1]) \in Nat
    BY <1>2, <2>1
  <2>3. ASSUME NEW x \in 1 .. Len(p[1]) PROVE Holds(1, 1, x)
    <3>1. (1 - 1) * n + x = x
      BY <2>1
    <3> QED
      BY <1>3, <3>1
  <2>4. Len(g[1]) = (1 - 1) * n + Len(p[1]) /\ g[1] \in Seq(S)
    <3>1. \A a \in Nat : (1 - 1) * n + a = a
      BY <2>1
    <3> QED
      BY <1>3, <2>2, <3>1, Zenon
  <2>5. \A h \in 1 .. 1 : h = 1
    OBVIOUS
  <2> HIDE DEF Holds
  <2> QED
    BY <2>3, <2>4, <2>5
<1>6. ASSUME NEW i \in 1 .. k, i < k, Upto(i) PROVE Upto(i + 1)
  <2> DEFINE j == i + 1
  <2>1. j \in 2 .. k /\ j \in 1 .. k /\ j - 1 = i
    BY <1>1, <1>6
  <2>2. g[j] = g[i] \o p[j]
    BY <1>3, <2>1
  <2>3. i * n \in Nat /\ i * n = (i - 1) * n + n /\ (j - 1) * n = i * n
    BY <1>1, SMTT(30)
  <2>4. g[i] \in Seq(S) /\ p[j] \in Seq(S) /\ Len(p[j]) \in Nat /\ Len(g[i]) = i * n
    BY <1>2, <1>4, <1>6, <2>1, <2>3
  <2> HIDE DEF j
  <2>5. /\ g[i] \o p[j] \in Seq(S)
        /\ Len(g[i] \o p[j]) = Len(g[i]) + Len(p[j])
        /\ \A x \in 1 .. Len(g[i]) : (g[i] \o p[j])[x] = g[i][x]
        /\ \A x \in 1 .. Len(p[j]) : (g[i] \o p[j])[Len(g[i]) + x] = p[j][x]
    <3>1. \A s, t \in Seq(S) :
            /\ s \o t \in Seq(S)
            /\ Len(s \o t) = Len(s) + Len(t)
            /\ \A x \in 1 .. Len(s) : (s \o t)[x] = s[x]
            /\ \A x \in 1 .. Len(t) : (s \o t)[Len(s) + x] = t[x]
      BY Joined
    <3> QED
      BY <2>4, <3>1, Zenon
  <2>6. ASSUME NEW h \in 1 .. j, NEW x \in 1 .. Len(p[h]) PROVE Holds(j, h, x)
    <3> DEFINE a == (h - 1) * n + x
    <3>1. CASE h = j
      <4>1. a = Len(g[i]) + x
        BY <2>3, <2>4, <3>1
      <4>2. Len(g[i]) + x \in 1 .. Len(g[i]) + Len(p[j])
        BY <2>3, <2>4, <3>1
      <4>3. (g[i] \o p[j])[Len(g[i]) + x] = p[h][x]
        BY <2>5, <3>1
      <4> HIDE DEF a
      <4>4. a \in 1 .. Len(g[j]) /\ g[j][a] = p[h][x]
        BY <2>2, <2>5, <4>1, <4>2, <4>3
      <4> QED
        BY <4>4 DEF a
    <3>2. CASE h # j
      <4>1. h \in 1 .. i
        BY <2>1, <3>2 DEF j
      <4>2. a \in 1 .. Len(g[i]) /\ g[i][a] = p[h][x]
        BY <1>6, <4>1
      <4> HIDE DEF a
      <4>3. a \in 1 .. Len(g[i]) + Len(p[j])
        <5>1. \A u, v \in Nat : a \in 1 .. u => a \in 1 .. u + v
          OBVIOUS
        <5>2. Len(g[i]) \in Nat
          BY <2>3, <2>4, Zenon
        <5> QED
          BY <2>4, <4>2, <5>1, <5>2, Zenon
      <4>4. (g[i] \o p[j])[a] = p[h][x] /\ Len(g[j]) = Len(g[i]) + Len(p[j])
        BY <2>2, <2>5, <4>2, Zenon
      <4>5. a \in 1 .. Len(g[j]) /\ g[j][a] = p[h][x]
        BY <2>2, <4>3, <4>4, Zenon
      <4> QED
        BY <4>5 DEF a
    <3> QED
      BY <3>1, <3>2
  <2>7. g[j] \in Seq(S) /\ Len(g[j]) = (j - 1) * n + Len(p[j])
    BY <2>2, <2>3, <2>4, <2>5
  <2> HIDE DEF Holds
  <2>8. Upto(j)
    BY <2>6, <2>7
  <2> QED
    BY <2>8 DEF j
<1>7. Upto(k)
  <2> DEFINE T == {m \in Nat : m + 1 \in 1 .. k => Upto(m + 1)}
  <2> HIDE DEF Upto
  <2>1. 0 \in T
    BY <1>5
  <2>2. ASSUME NEW m \in T PROVE m + 1 \in T
    <3> DEFINE i == m + 1
    <3>1. m \in Nat /\ i \in Nat
      OBVIOUS
    <3>2. i + 1 \in 1 .. k => i \in 1 .. k /\ i < k
      BY <1>1, <3>1
    <3>3. i \in 1 .. k => Upto(i)
      OBVIOUS
    <3> HIDE DEF i
    <3>4. i + 1 \in 1 .. k => Upto(i + 1)
      BY <1>6, <3>2, <3>3
    <3>5. i \in T
      BY <3>1, <3>4
    <3> QED
      BY <3>5 DEF i
  <2>3. k - 1 \in Nat /\ (k - 1) + 1 = k /\ k \in 1 .. k
    BY <1>1
  <2>4. T = Nat
    <3> HIDE DEF T
    <3>1. T \subseteq Nat
      BY DEF T
    <3> QED
      BY <2>1, <2>2, <3>1, Induction
  <2>5. k - 1 \in T
    BY <2>3, <2>4
  <2>6. (k - 1) + 1 \in 1 .. k => Upto((k - 1) + 1)
    BY <2>5
  <2> QED
    BY <2>3, <2>6
<1> QED
  BY <1>3, <1>7, <1>k DEF IsJoin

\* Nothing joined is nothing.
LEMMA JoinNothing ==
  ASSUME NEW S, NEW p \in Seq(S), Len(p) = 0
  PROVE  p = << >> /\ FlattenSeq(p) = << >>
<1>1. p = << >>
  OBVIOUS
<1> QED
  BY <1>1 DEF FlattenSeq

\* What was cut into pieces of any size is the same when they are joined
\* (read_completed_push of what store_push_chunk cut, what a target makes of
\* its chunks, what a client makes of the entries of the mDNS record).
THEOREM PiecesRejoin ==
  ASSUME NEW S, NEW s \in Seq(S), NEW n \in Nat \ {0}
  PROVE  FlattenSeq(chunks(s, n)) = s
<1> DEFINE p == chunks(s, n)
           k == Len(p)
           e == FlattenSeq(p)
           L == Len(s)
<1>1. IsCut(S, s, n, p)
  BY Cut
<1>2. /\ k = Len(p) /\ L = Len(s) /\ L \in Nat
      /\ e = FlattenSeq(p) /\ p = chunks(s, n)
  OBVIOUS
<1> HIDE DEF p, k, e, L
<1>3. /\ p \in Seq(Seq(S)) /\ k \in Nat
      /\ n * k \in Nat /\ L <= n * k /\ n * k < L + n
      /\ \A i \in 1 .. k :
           /\ i < k => Len(p[i]) = n
           /\ i = k => Len(p[i]) = L - (i - 1) * n
           /\ \A x \in 1 .. Len(p[i]) : p[i][x] = s[(i - 1) * n + x]
  BY <1>1, <1>2 DEF IsCut
<1>4. CASE k = 0
  <2>1. n * k = 0
    BY <1>4
  <2>2. L = 0
    BY <1>2, <1>3, <2>1
  <2>3. s = << >>
    BY <1>2, <2>2, EmptySeq
  <2>4. e = << >>
    BY <1>2, <1>3, <1>4, JoinNothing
  <2> QED
    BY <1>2, <2>3, <2>4
<1>5. CASE k # 0
  <2>1. p # << >>
    BY <1>2, <1>5, EmptySeq
  <2>2. \A i \in 1 .. k - 1 : Len(p[i]) = n
    <3>1. \A i \in 1 .. k - 1 : i \in 1 .. k /\ i < k
      BY <1>3
    <3> QED
      BY <1>3, <3>1, Zenon
  <2>3. e \in Seq(S) /\ IsJoin(p, n, e)
    BY <1>2, <1>3, <2>1, <2>2, Join
  <2>4. Len(e) = L
    <3>1. k \in 1 .. k /\ (k - 1) * n \in Int
      BY <1>3, <1>5, SMT
    <3>2. Len(p[k]) = L - (k - 1) * n
      BY <1>3, <3>1
    <3>3. Len(e) = (k - 1) * n + Len(p[k])
      BY <1>2, <2>3 DEF IsJoin
    <3> DEFINE b == (k - 1) * n
    <3> HIDE DEF b
    <3>4. b + (L - b) = L
      BY <1>2, <3>1 DEF b
    <3> QED
      BY <3>2, <3>3, <3>4 DEF b
  <2>5. ASSUME NEW j \in 1 .. L PROVE e[j] = s[j]
    <3> DEFINE i == 1 + ((j - 1) \div n)
               x == 1 + ((j - 1) % n)
    <3>1. i \in 1 .. k /\ x \in 1 .. Len(p[i])
      <4>1. Len(chunks(s, n)) = div_ceil(Len(s), n)
        BY <1>1, <1>2 DEF IsCut
      <4>2. /\ i \in 1 .. div_ceil(Len(s), n)
            /\ x \in 1 .. Len(chunks(s, n)[i])
        BY <1>2, PiecesFit
      <4> QED
        BY <1>2, <4>1, <4>2
    <3>2. (i - 1) * n + x = j
      <4> DEFINE q == (j - 1) \div n
                 r == (j - 1) % n
      <4>1. j - 1 \in Nat
        BY <1>2
      <4>2. q \in Nat /\ r \in 0 .. n - 1 /\ j - 1 = n * q + r
        BY <4>1, Division
      <4> HIDE DEF q, r
      <4>3. (1 + q - 1) * n = n * q /\ n * q \in Nat
        BY <4>2, SMT
      <4>4. (1 + q - 1) * n + (1 + r) = j
        BY <1>2, <4>2, <4>3
      <4> QED
        BY <4>4 DEF q, r
    <3> HIDE DEF i, x
    <3>3. p[i][x] = s[(i - 1) * n + x]
      BY <1>3, <3>1
    <3>4. e[(i - 1) * n + x] = p[i][x]
      BY <1>2, <2>3, <3>1 DEF IsJoin
    <3> QED
      BY <3>2, <3>3, <3>4
  <2> QED
    BY <1>2, <2>3, <2>4, <2>5, SeqEqual
<1> QED
  BY <1>4, <1>5

\* Pieces of equal size are cut from what they make.
LEMMA Recut ==
  ASSUME NEW S, NEW p \in Seq(Seq(S)), p # << >>, NEW n \in Nat \ {0},
         \A i \in 1 .. Len(p) - 1 : Len(p[i]) = n,
         Len(p[Len(p)]) \in 1 .. n
  PROVE  chunks(FlattenSeq(p), n) = p
<1> DEFINE e == FlattenSeq(p)
           q == chunks(e, n)
           k == Len(p)
           c == Len(q)
           m == Len(p[k])
<1>1. e \in Seq(S) /\ IsJoin(p, n, e)
  BY Join
<1>2. IsCut(S, e, n, q)
  <2> HIDE DEF e
  <2> QED
    BY <1>1, Cut
<1>3. k \in Nat \ {0}
  BY EmptySeq
<1>4. /\ k = Len(p) /\ c = Len(q) /\ m = Len(p[k]) /\ m \in 1 .. n
      /\ q = chunks(FlattenSeq(p), n)
  OBVIOUS
<1> HIDE DEF e, q, k, c, m
<1>5. /\ Len(e) = (k - 1) * n + m
      /\ \A i \in 1 .. k : \A x \in 1 .. Len(p[i]) : e[(i - 1) * n + x] = p[i][x]
  BY <1>1, <1>4 DEF IsJoin
<1>6. /\ q \in Seq(Seq(S)) /\ c \in Nat
      /\ n * c \in Nat /\ Len(e) <= n * c /\ n * c < Len(e) + n
      /\ \A i \in 1 .. c :
           /\ q[i] \in Seq(S)
           /\ i < c => Len(q[i]) = n
           /\ i = c => Len(q[i]) = Len(e) - (i - 1) * n
           /\ \A x \in 1 .. Len(q[i]) : q[i][x] = e[(i - 1) * n + x]
  BY <1>2, <1>4 DEF IsCut
<1>7. c = k
  <2> DEFINE b == (k - 1) * n
  <2>1. b \in Nat /\ n * (k - 1) = b /\ n * k = b + n /\ k - 1 \in Nat
    BY <1>3, SMTT(30)
  <2>2. \A u, v \in Nat : u < v => n * u + n <= n * v
    BY SMTT(30)
  <2> HIDE DEF b
  <2>3. Len(e) = b + m
    BY <1>5 DEF b
  <2>4. ~(c < k)
    <3>1. c < k => n * c + n <= n * k
      BY <1>3, <1>6, <2>2
    <3> QED
      BY <1>3, <1>4, <1>6, <2>1, <2>3, <3>1
  <2>5. ~(k < c)
    <3>1. k < c => n * k + n <= n * c
      BY <1>3, <1>6, <2>2
    <3> QED
      BY <1>3, <1>4, <1>6, <2>1, <2>3, <3>1
  <2> QED
    BY <1>3, <1>6, <2>4, <2>5
<1>8. ASSUME NEW i \in 1 .. k PROVE q[i] = p[i]
  <2>1. Len(q[i]) = Len(p[i])
    <3>1. CASE i < k
      <4>1. i \in 1 .. k - 1
        BY <1>3, <3>1
      <4>2. Len(p[i]) = n
        BY <1>4, <4>1
      <4> QED
        BY <1>6, <1>7, <3>1, <4>2
    <3>2. CASE i = k
      <4> DEFINE b == (k - 1) * n
      <4>1. b \in Nat
        BY <1>3, SMTT(30)
      <4>2. Len(q[i]) = Len(e) - b
        BY <1>6, <1>7, <3>2
      <4> HIDE DEF b
      <4>3. Len(e) = b + m
        BY <1>5 DEF b
      <4>4. (b + m) - b = m
        BY <1>4, <4>1
      <4> QED
        BY <1>4, <3>2, <4>2, <4>3, <4>4
    <3> QED
      BY <1>3, <3>1, <3>2
  <2>2. q[i] \in Seq(S) /\ p[i] \in Seq(S)
    BY <1>4, <1>6, <1>7
  <2>3. \A x \in 1 .. Len(q[i]) : q[i][x] = p[i][x]
    BY <1>5, <1>6, <1>7, <2>1
  <2> QED
    BY <2>1, <2>2, <2>3, SeqEqual
<1>9. q = p
  BY <1>4, <1>6, <1>7, <1>8, SeqEqual
<1> QED
  BY <1>4, <1>9

\* A target is refused, or gets every byte of the file at the place where it
\* belongs, in as many chunks as the target expects; one that knows the size
\* of the file is not refused (upload_completed_push_to_target).
THEOREM UploadsAreWhole ==
  ASSUME NEW pieces, NEW S, read_completed_push(pieces) \in Seq(S),
         NEW size \in Nat, NEW count \in Nat
  PROVE  LET source == read_completed_push(pieces)
             result == upload_completed_push_to_target(pieces, size, count)
         IN  /\ result.ok =>
                  /\ Len(result.posted) = count
                  /\ \A i \in 1 .. count - 1 : Len(result.posted[i]) = size
                  /\ count > 0 => Len(result.posted[count]) \in 1 .. size
                  /\ \A j \in 1 .. Len(source) :
                       result.posted[1 + ((j - 1) \div size)][1 + ((j - 1) % size)]
                         = source[j]
             /\ size > 0 /\ count = (Len(source) + size - 1) \div size => result.ok
<1> DEFINE source == read_completed_push(pieces)
           result == upload_completed_push_to_target(pieces, size, count)
<1>1. ASSUME result.ok
      PROVE  /\ size \in Nat \ {0} /\ div_ceil(Len(source), size) = count
             /\ result.posted = chunks(source, size)
  BY <1>1 DEF upload_completed_push_to_target
<1>2. size > 0 /\ count = (Len(source) + size - 1) \div size => result.ok
  BY DEF upload_completed_push_to_target, div_ceil
<1> HIDE DEF result, source
<1>3. ASSUME result.ok
      PROVE  /\ Len(result.posted) = count
             /\ \A i \in 1 .. count - 1 : Len(result.posted[i]) = size
             /\ count > 0 => Len(result.posted[count]) \in 1 .. size
             /\ \A j \in 1 .. Len(source) :
                  result.posted[1 + ((j - 1) \div size)][1 + ((j - 1) % size)]
                    = source[j]
  <2>1. source \in Seq(S)
    BY DEF source
  <2>2. size \in Nat \ {0}
    BY <1>1, <1>3
  <2>3. /\ Len(chunks(source, size)) = div_ceil(Len(source), size)
        /\ \A i \in 1 .. div_ceil(Len(source), size) - 1 :
             Len(chunks(source, size)[i]) = size
        /\ div_ceil(Len(source), size) > 0 =>
             Len(chunks(source, size)[div_ceil(Len(source), size)]) \in 1 .. size
        /\ \A j \in 1 .. Len(source) :
             chunks(source, size)[1 + ((j - 1) \div size)][1 + ((j - 1) % size)]
               = source[j]
    <3> HIDE DEF source
    <3> QED
      BY <2>1, <2>2, PiecesFit, ZenonT(60)
  <2>4. result.posted = chunks(source, size) /\ div_ceil(Len(source), size) = count
    BY <1>1, <1>3
  <2> QED
    BY <2>3, <2>4
<1> QED
  BY <1>2, <1>3 DEF result, source

-----------------------------------------------------------------------------
(* Base64 *)

\* What a u8 holds.
Bytes == 0 .. 255

\* The number that three bytes make, and its four digits.
IsNumber(n, a, b, c) == n = a * 65536 + b * 256 + c
AreDigits(h, i, j, k, n) ==
  h = n \div 262144 /\ i = (n \div 4096) % 64 /\ j = (n \div 64) % 64 /\ k = n % 64

\* The digits make the number again, and the bytes are found in it.
DigitsMake(h, i, j, k, n) ==
  /\ h \in Nat /\ i \in Nat /\ j \in Nat /\ k \in Nat
  /\ h * 262144 + i * 4096 + j * 64 + k = n
BytesOf(n, a, b, c) ==
  n \div 65536 = a /\ (n \div 256) % 256 = b /\ n % 256 = c

\* What is assumed of the bytes.
AreBytes(a, b, c) == a \in Bytes /\ b \in Bytes /\ c \in Bytes
\* Bytes that are 0 leave the last digits 0.
EndIn(b, c, j, k) == (c = 0 => k = 0) /\ (b = 0 /\ c = 0 => j = 0)

\* Three bytes are read from the digits of their number.
LEMMA SixBits ==
  ASSUME NEW a, NEW b, NEW c, AreBytes(a, b, c),
         NEW n, IsNumber(n, a, b, c),
         NEW h, NEW i, NEW j, NEW k, AreDigits(h, i, j, k, n)
  PROVE  /\ DigitsMake(h, i, j, k, n)
         /\ BytesOf(n, a, b, c)
         /\ EndIn(b, c, j, k)
<1>b. a \in 0 .. 255 /\ b \in 0 .. 255 /\ c \in 0 .. 255
  BY DEF AreBytes, Bytes
<1> USE <1>b
<1>a. n = a * 65536 + b * 256 + c
  BY DEF IsNumber
<1> USE <1>a
<1>1. n \in Nat
  BY SMT
<1>2. n \div 65536 = a /\ (n \div 256) % 256 = b /\ n % 256 = c
  <2>1. n \div 65536 = a
    BY SMT
  <2>2. n \div 256 = a * 256 + b /\ n % 256 = c
    BY SMT
  <2>3. (a * 256 + b) % 256 = b
    BY SMT
  <2> QED
    BY <2>1, <2>2, <2>3
<1> DEFINE u == n \div 64
           v == n \div 4096
           w == n \div 262144
<1>3. u \in Nat /\ v \in Nat /\ w \in Nat
  BY <1>1, SMT
<1>4. /\ n = 64 * u + (n % 64) /\ n % 64 \in 0 .. 63
      /\ u = 64 * v + (u % 64) /\ u % 64 \in 0 .. 63
      /\ v = 64 * w + (v % 64) /\ v % 64 \in 0 .. 63
  <2>1. n = 64 * u + (n % 64) /\ n % 64 \in 0 .. 63
    BY <1>1, SMT
  <2>2. u = 64 * v + (u % 64) /\ u % 64 \in 0 .. 63
    BY <1>1, SMT
  <2>3. v = 64 * w + (v % 64) /\ v % 64 \in 0 .. 63
    BY <1>1, SMT
  <2> QED
    BY <2>1, <2>2, <2>3
<1>5. c = 0 => n % 64 = 0
  BY SMT
<1>6. b = 0 /\ c = 0 => u % 64 = 0
  BY SMT
<1>7. w * 262144 + (v % 64) * 4096 + (u % 64) * 64 + (n % 64) = n
  <2> HIDE DEF u, v, w
  <2> QED
    BY <1>1, <1>3, <1>4, SMT
<1>8. v % 64 \in Nat /\ u % 64 \in Nat /\ n % 64 \in Nat
  BY <1>4
<1>9. h = w /\ i = v % 64 /\ j = u % 64 /\ k = n % 64
  BY DEF AreDigits
<1> HIDE DEF u, v, w
<1>10. DigitsMake(h, i, j, k, n)
  BY <1>3, <1>7, <1>8, <1>9 DEF DigitsMake
<1>11. BytesOf(n, a, b, c)
  BY <1>2 DEF BytesOf
<1>12. EndIn(b, c, j, k)
  BY <1>5, <1>6, <1>9 DEF EndIn
<1> QED
  BY <1>10, <1>11, <1>12

\* What is left of a short sequence that is cut off.
LEMMA Leading ==
  ASSUME NEW S, NEW t \in Seq(S), NEW k \in 0 .. Len(t)
  PROVE  /\ SubSeq(t, 1, k) \in Seq(S)
         /\ Len(SubSeq(t, 1, k)) = k
         /\ \A i \in 1 .. k : SubSeq(t, 1, k)[i] = t[i]
  BY SMTT(30)

\* Entry i of a sequence, or 0 behind its end.
Padded(s, i) == IF i <= Len(s) THEN s[i] ELSE 0

\* One to three bytes are two to four digits, which are read as the bytes
\* (the B64 engine that secure.rs, hub.rs and sync_info.rs share).
LEMMA DigitsAreRead ==
  ASSUME NEW s \in Seq(Bytes), NEW l \in 1 .. 3, Len(s) = l
  PROVE  /\ Digits(s) \in Seq(Nat)
         /\ Len(Digits(s)) = l + 1
         /\ Undigits(Digits(s)) = s
<1> DEFINE a == Padded(s, 1)
           b == Padded(s, 2)
           c == Padded(s, 3)
           n == a * 65536 + b * 256 + c
           w == n \div 262144
           x == (n \div 4096) % 64
           y == (n \div 64) % 64
           z == n % 64
<1>1. /\ a \in 0 .. 255 /\ b \in 0 .. 255 /\ c \in 0 .. 255
      /\ l < 3 => c = 0
      /\ l < 2 => b = 0
  <2>1. /\ s[1] \in 0 .. 255
        /\ 2 <= l => s[2] \in 0 .. 255
        /\ 3 <= l => s[3] \in 0 .. 255
    <3>1. \A i \in 1 .. l : s[i] \in 0 .. 255
      BY Entries DEF Bytes
    <3>2. /\ 1 \in 1 .. l
          /\ 2 <= l => 2 \in 1 .. l
          /\ 3 <= l => 3 \in 1 .. l
      OBVIOUS
    <3> QED
      BY <3>1, <3>2, Zenon
  <2>2. 0 \in 0 .. 255
    OBVIOUS
  <2>3. a \in 0 .. 255
    BY <2>1 DEF Padded
  <2>4. b \in 0 .. 255 /\ (l < 2 => b = 0)
    BY <2>1, <2>2 DEF Padded
  <2>5. c \in 0 .. 255 /\ (l < 3 => c = 0)
    BY <2>1, <2>2 DEF Padded
  <2> HIDE DEF a, b, c
  <2> QED
    BY <2>3, <2>4, <2>5
<1>2. Digits(s) = SubSeq(<<w, x, y, z>>, 1, l + 1)
  BY DEF Digits, Padded
<1>3. \A i \in 1 .. l : <<a, b, c>>[i] = s[i]
  <2>1. ASSUME NEW i \in 1 .. l
        PROVE  i \in {1, 2, 3} /\ Padded(s, i) = s[i]
    <3>1. i \in {1, 2, 3} /\ i <= l
      OBVIOUS
    <3> QED
      BY <3>1, Zenon DEF Padded
  <2>2. a = Padded(s, 1) /\ b = Padded(s, 2) /\ c = Padded(s, 3)
    OBVIOUS
  <2> HIDE DEF a, b, c
  <2>3. <<a, b, c>>[1] = a /\ <<a, b, c>>[2] = b /\ <<a, b, c>>[3] = c
    OBVIOUS
  <2> HIDE DEF Padded
  <2> QED
    BY <2>1, <2>2, <2>3, Zenon
<1> HIDE DEF a, b, c
<1>n. IsNumber(n, a, b, c)
  BY DEF IsNumber
<1> HIDE DEF n
<1>4. AreDigits(w, x, y, z, n)
  BY DEF AreDigits
<1> HIDE DEF w, x, y, z
<1>b. AreBytes(a, b, c)
  BY <1>1 DEF AreBytes, Bytes
<1>s. DigitsMake(w, x, y, z, n) /\ BytesOf(n, a, b, c) /\ EndIn(b, c, y, z)
  BY <1>n, <1>4, <1>b, SixBits
<1>5. /\ DigitsMake(w, x, y, z, n)
      /\ BytesOf(n, a, b, c)
      /\ c = 0 => z = 0
      /\ b = 0 /\ c = 0 => y = 0
  BY <1>s DEF EndIn
<1> DEFINE e == <<n \div 65536, (n \div 256) % 256, n % 256>>
<1>6. e = <<a, b, c>>
  BY <1>5 DEF BytesOf
<1> DEFINE d == Digits(s)
<1>7. /\ d \in Seq(Nat)
      /\ Len(d) = l + 1
      /\ d[1] = w /\ d[2] = x
      /\ l >= 2 => d[3] = y
      /\ l = 3 => d[4] = z
  <2> DEFINE t == <<w, x, y, z>>
  <2>1. w \in Nat /\ x \in Nat /\ y \in Nat /\ z \in Nat
    BY <1>5 DEF DigitsMake
  <2>2. t \in Seq(Nat) /\ Len(t) = 4
    BY <2>1
  <2>3. t[1] = w /\ t[2] = x /\ t[3] = y /\ t[4] = z
    OBVIOUS
  <2>4. d = SubSeq(t, 1, l + 1)
    BY <1>2
  <2> HIDE DEF t, d
  <2>5. l + 1 \in 0 .. Len(t)
    BY <2>2
  <2>6. /\ d \in Seq(Nat)
        /\ Len(d) = l + 1
        /\ \A i \in 1 .. l + 1 : d[i] = t[i]
    BY <2>2, <2>4, <2>5, Leading, Zenon
  <2>7. /\ 1 \in 1 .. l + 1 /\ 2 \in 1 .. l + 1
        /\ l >= 2 => 3 \in 1 .. l + 1
        /\ l = 3 => 4 \in 1 .. l + 1
    OBVIOUS
  <2> QED
    BY <2>3, <2>6, <2>7, Zenon
<1> HIDE DEF d
<1>8. Padded(d, 1) = w /\ Padded(d, 2) = x /\ Padded(d, 3) = y /\ Padded(d, 4) = z
  <2>1. Padded(d, 1) = d[1] /\ Padded(d, 2) = d[2]
    BY <1>7 DEF Padded
  <2>2. Padded(d, 3) = IF l >= 2 THEN d[3] ELSE 0
    BY <1>7 DEF Padded
  <2>3. Padded(d, 4) = IF l = 3 THEN d[4] ELSE 0
    BY <1>7 DEF Padded
  <2> HIDE DEF Padded
  <2>4. l \in {1, 2, 3}
    OBVIOUS
  <2> QED
    BY <1>1, <1>5, <1>7, <2>1, <2>2, <2>3, <2>4
<1>9. Undigits(d) = SubSeq(e, 1, l)
  <2> DEFINE m == Padded(d, 1) * 262144 + Padded(d, 2) * 4096
                    + Padded(d, 3) * 64 + Padded(d, 4)
  <2>1. Undigits(d) =
          SubSeq(<<m \div 65536, (m \div 256) % 256, m % 256>>, 1, Len(d) - 1)
    BY DEF Undigits, Padded
  <2>2. m = n
    BY <1>5, <1>8 DEF DigitsMake
  <2>3. Len(d) - 1 = l
    BY <1>7
  <2> HIDE DEF m
  <2> QED
    BY <2>1, <2>2, <2>3
<1>10. SubSeq(<<a, b, c>>, 1, l) = s
  <2> DEFINE t == <<a, b, c>>
  <2>1. t \in Seq(Bytes) /\ l \in 0 .. Len(t)
    <3>1. a \in Bytes /\ b \in Bytes /\ c \in Bytes
      BY <1>1 DEF Bytes
    <3>2. t \in Seq(Bytes) /\ Len(t) = 3
      BY <3>1
    <3> HIDE DEF t
    <3> QED
      BY <3>2
  <2>2. \A i \in 1 .. l : t[i] = s[i]
    BY <1>3
  <2> HIDE DEF t
  <2>3. /\ SubSeq(t, 1, l) \in Seq(Bytes)
        /\ Len(SubSeq(t, 1, l)) = l
        /\ \A i \in 1 .. l : SubSeq(t, 1, l)[i] = t[i]
    BY <2>1, Leading
  <2>4. SubSeq(t, 1, l) = s
    BY <2>2, <2>3, SeqEqual
  <2> QED
    BY <2>4 DEF t
<1>11. Undigits(d) = s
  BY <1>6, <1>9, <1>10
<1> QED
  BY <1>7, <1>11 DEF d

\* Base64 of any bytes is read as the bytes: the digits are cut where the bytes
\* were (b64_encode, b64_decode of hub.rs and sync_info.rs).
THEOREM Base64IsRead ==
  ASSUME NEW s \in Seq(Bytes)
  PROVE  b64_encode(s) \in Seq(Nat) /\ b64_decode(b64_encode(s)) = s
<1> DEFINE p == chunks(s, 3)
           k == Len(p)
           d == [i \in 1 .. k |-> Digits(p[i])]
           e == FlattenSeq(d)
<1>1. IsCut(Bytes, s, 3, p)
  BY Cut
<1>2. b64_encode(s) = e /\ k \in Nat /\ k = Len(p) /\ FlattenSeq(p) = s
  <2>1. k \in Nat /\ k = div_ceil(Len(s), 3)
    BY <1>1 DEF IsCut
  <2>2. FlattenSeq(p) = s
    BY PiecesRejoin
  <2> QED
    BY <2>1, <2>2 DEF b64_encode
<1> HIDE DEF p, k
<1>3. /\ p \in Seq(Seq(Bytes)) /\ 3 * k < Len(s) + 3 /\ Len(s) <= 3 * k
      /\ \A i \in 1 .. k :
           /\ p[i] \in Seq(Bytes)
           /\ Len(p[i]) \in 1 .. 3
           /\ i < k => Len(p[i]) = 3
  BY <1>1, <1>2 DEF IsCut
<1>4. ASSUME NEW i \in 1 .. k
      PROVE  /\ d[i] \in Seq(Nat)
             /\ Len(d[i]) = Len(p[i]) + 1
             /\ Undigits(d[i]) = p[i]
  <2>1. \A t \in Seq(Bytes) : \A l \in 1 .. 3 : Len(t) = l =>
          /\ Digits(t) \in Seq(Nat)
          /\ Len(Digits(t)) = l + 1
          /\ Undigits(Digits(t)) = t
    BY DigitsAreRead
  <2>2. d[i] = Digits(p[i])
    OBVIOUS
  <2> HIDE DEF d
  <2>3. p[i] \in Seq(Bytes) /\ Len(p[i]) \in 1 .. 3
    BY <1>3, Zenon
  <2> QED
    BY <2>1, <2>2, <2>3, Zenon
<1>5. d \in Seq(Seq(Nat)) /\ Len(d) = k
  <2>1. d = [i \in 1 .. k |-> d[i]]
    OBVIOUS
  <2> HIDE DEF d
  <2> QED
    BY <1>2, <1>4, <2>1, Listed, Zenon
<1>6. CASE k = 0
  <2>1. p = << >>
    BY <1>2, <1>3, <1>6, EmptySeq
  <2>2. s = << >>
    BY <1>2, <2>1, <1>3, <1>6, JoinNothing
  <2>3. d = << >> /\ e = << >>
    <3> HIDE DEF d
    <3>1. d \in Seq(Seq(Nat)) /\ Len(d) = 0
      BY <1>5, <1>6
    <3> QED
      BY <3>1, JoinNothing
  <2>4. b64_decode(<< >>) = << >>
    <3> DEFINE u == [i \in 1 .. 0 |-> Undigits(chunks(<< >>, 4)[i])]
    <3>1. div_ceil(Len(<< >>), 4) = 0
      BY DEF div_ceil
    <3>2. u \in Seq(Nat) /\ Len(u) = 0
      OBVIOUS
    <3>3. b64_decode(<< >>) = FlattenSeq(u)
      BY <3>1 DEF b64_decode
    <3> HIDE DEF u
    <3> QED
      BY <3>2, <3>3, JoinNothing
  <2>5. << >> \in Seq(Nat)
    OBVIOUS
  <2> HIDE DEF e
  <2> QED
    BY <1>2, <2>2, <2>3, <2>4, <2>5
<1>7. CASE k # 0
  <2> DEFINE u == [i \in 1 .. k |-> Undigits(d[i])]
  <2> HIDE DEF d, e
  <2>1. d # << >> /\ k \in 1 .. k
    BY <1>2, <1>5, <1>7, EmptySeq
  <2>2. \A i \in 1 .. Len(d) - 1 : Len(d[i]) = 4
    <3>1. \A i \in 1 .. k - 1 : i \in 1 .. k /\ i < k
      BY <1>2
    <3>2. \A i \in 1 .. k - 1 : Len(p[i]) = 3 /\ Len(d[i]) = Len(p[i]) + 1
      BY <1>3, <1>4, <3>1
    <3>3. 3 + 1 = 4
      OBVIOUS
    <3> QED
      BY <1>5, <3>2, <3>3, Zenon
  <2>3. Len(d[Len(d)]) \in 1 .. 4
    <3>1. Len(d[k]) = Len(p[k]) + 1 /\ Len(p[k]) \in 1 .. 3
      BY <1>3, <1>4, <2>1
    <3>2. \A l \in 1 .. 3 : l + 1 \in 1 .. 4
      OBVIOUS
    <3> QED
      BY <1>5, <3>1, <3>2, Zenon
  <2>4. 4 \in Nat \ {0}
    OBVIOUS
  <2>5. chunks(e, 4) = d /\ e \in Seq(Nat)
    BY <1>5, <2>1, <2>2, <2>3, <2>4, Recut, Join DEF e
  <2>6. div_ceil(Len(e), 4) = k
    <3>1. IsCut(Nat, e, 4, chunks(e, 4))
      BY <2>4, <2>5, Cut
    <3> QED
      BY <1>5, <2>5, <3>1 DEF IsCut
  <2>7. b64_decode(e) = FlattenSeq(u)
    BY <2>5, <2>6 DEF b64_decode
  <2>8. u = p
    <3>1. Len(p) = k /\ p = [i \in 1 .. Len(p) |-> p[i]]
      BY <1>2, <1>3
    <3>2. u = [i \in 1 .. k |-> p[i]]
      BY <1>4
    <3> HIDE DEF u
    <3> QED
      BY <3>1, <3>2
  <2> HIDE DEF u
  <2> QED
    BY <1>2, <2>5, <2>7, <2>8
<1> QED
  BY <1>6, <1>7

-----------------------------------------------------------------------------
(* Rotation *)

\* What encode_qr_payload turns by the token, decode_qr_payload turns back,
\* for every token and every length of the SyncInfo.
THEOREM RotationIsUndone ==
  ASSUME NEW S, NEW s \in Seq(S), s # << >>, NEW token \in Nat
  PROVE  LET n == Len(s)
             turned == rotate_right(s, token % n)
         IN  /\ Len(turned) = n
             /\ rotate_right(turned, (n - (token % n)) % n) = s
<1> DEFINE n == Len(s)
           k == token % n
           back == (n - k) % n
           turned == rotate_right(s, k)
<1>1. n \in Nat \ {0}
  BY EmptySeq
<1>2. k \in 0 .. n - 1
  BY <1>1, Division
<1>3. turned = [i \in 1 .. n |-> s[1 + ((i - 1 + n - k) % n)]]
  BY DEF rotate_right
<1>4. Len(turned) = n
  BY <1>1, <1>3
<1> HIDE DEF n, k, turned
<1>5. rotate_right(turned, back) =
        [i \in 1 .. n |-> turned[1 + ((i - 1 + n - back) % n)]]
  BY <1>4 DEF rotate_right
<1>6. back = IF k = 0 THEN 0 ELSE n - k
  <2>1. CASE k = 0
    <3>1. (0 + n) % n = 0
      BY <1>1, Wrap
    <3> QED
      BY <1>1, <2>1, <3>1
  <2>2. CASE k # 0
    <3>1. n - k \in 0 .. n - 1
      BY <1>1, <1>2, <2>2
    <3> QED
      BY <1>1, <2>2, <3>1, Wrap
  <2> QED
    BY <2>1, <2>2
<1> HIDE DEF back
<1>7. ASSUME NEW i \in 1 .. n
      PROVE  turned[1 + ((i - 1 + n - back) % n)] = s[i]
  <2> DEFINE m == (i - 1 + n - back) % n
  <2>1. m = IF i - 1 + k < n THEN i - 1 + k ELSE i - 1 + k - n
    <3>1. CASE k = 0
      <4>1. i - 1 \in 0 .. n - 1 /\ i - 1 + n - back = (i - 1) + n
        BY <1>1, <1>6, <3>1
      <4> QED
        BY <1>1, <3>1, <4>1, Wrap
    <3>2. CASE k # 0 /\ i - 1 + k < n
      <4>1. i - 1 + k \in 0 .. n - 1 /\ i - 1 + n - back = i - 1 + k
        BY <1>1, <1>2, <1>6, <3>2
      <4> QED
        BY <1>1, <3>2, <4>1, Wrap
    <3>3. CASE k # 0 /\ ~(i - 1 + k < n)
      <4>1. /\ i - 1 + k - n \in 0 .. n - 1
            /\ i - 1 + n - back = (i - 1 + k - n) + n
        BY <1>1, <1>2, <1>6, <3>3
      <4> QED
        BY <1>1, <3>3, <4>1, Wrap
    <3> QED
      BY <3>1, <3>2, <3>3
  <2> HIDE DEF m
  <2>2. 1 + m \in 1 .. n
    BY <1>1, <1>2, <2>1
  <2>3. turned[1 + m] = s[1 + (((1 + m) - 1 + n - k) % n)]
    BY <1>3, <2>2
  <2>4. ((1 + m) - 1 + n - k) % n = i - 1
    <3>1. i - 1 \in 0 .. n - 1
      BY <1>1
    <3>2. \/ (1 + m) - 1 + n - k = (i - 1) + n
          \/ (1 + m) - 1 + n - k = i - 1
      BY <1>1, <1>2, <2>1
    <3>3. ((i - 1) + n) % n = i - 1 /\ (i - 1) % n = i - 1
      BY <1>1, <3>1, Wrap
    <3> QED
      BY <3>2, <3>3
  <2>5. 1 + (i - 1) = i
    BY <1>1
  <2> QED
    BY <2>3, <2>4, <2>5 DEF m
<1>8. s = [i \in 1 .. n |-> s[i]]
  BY DEF n
<1> QED
  BY <1>4, <1>5, <1>7, <1>8 DEF n, k, back, turned

\* A number of at most 32 bits, as CodecAssumption puts it.
IsWord(n) == n \in Nat /\ n \div 65536 < 65536

\* It is written as four bytes and read again.
LEMMA WordBytes ==
  ASSUME NEW token, IsWord(token)
  PROVE  /\ to_be_bytes(token) \in Seq(Bytes) /\ Len(to_be_bytes(token)) = 4
         /\ from_be_bytes(to_be_bytes(token)) = token
<1>w. token \in Nat
  BY DEF IsWord
<1>1. token < 4294967296
  BY SMT DEF IsWord
<1>r. from_be_bytes(to_be_bytes(token)) = token
  BY <1>w, <1>1, LengthsAreRead
<1>2. \A n \in Nat : n % 256 \in Bytes
  BY SMT DEF Bytes
<1> DEFINE a == token \div 16777216
           b == token \div 65536
           c == token \div 256
           s == <<a % 256, b % 256, c % 256, token % 256>>
<1>3. a \in Nat /\ b \in Nat /\ c \in Nat
  BY <1>w, SMT
<1>4. to_be_bytes(token) = s
  BY DEF to_be_bytes
<1> HIDE DEF a, b, c
<1>5. /\ a % 256 \in Bytes /\ b % 256 \in Bytes /\ c % 256 \in Bytes
      /\ token % 256 \in Bytes
  BY <1>2, <1>3, <1>w
<1>6. s \in Seq(Bytes) /\ Len(s) = 4
  BY <1>5
<1> QED
  BY <1>4, <1>6, <1>r

\* The end of a concatenation.
LEMMA Appended ==
  ASSUME NEW S, NEW s \in Seq(S), NEW t \in Seq(S)
  PROVE  /\ SubSeq(s \o t, 1, Len(s)) = s
         /\ SubSeq(s \o t, Len(s) + 1, Len(s) + Len(t)) = t
  OBVIOUS

\* A client reads from a QR code the SyncInfo and the token it was made with
\* (encode_qr_payload, decode_qr_payload).
THEOREM CodesAreRead ==
  ASSUME NEW info \in Seq(Bytes), info # << >>, NEW token, IsWord(token)
  PROVE  decode_qr_payload(encode_qr_payload(info, token)) = <<info, token>>
<1> DEFINE n == Len(info)
           turned == rotate_right(info, token % n)
           last == to_be_bytes(token)
<1>w. token \in Nat
  BY DEF IsWord
<1>1. /\ Len(turned) = n
      /\ rotate_right(turned, (n - (token % n)) % n) = info
  <2>1. \A s \in Seq(Bytes) : \A k \in Nat : s # << >> =>
          /\ Len(rotate_right(s, k % Len(s))) = Len(s)
          /\ rotate_right(rotate_right(s, k % Len(s)),
                          (Len(s) - (k % Len(s))) % Len(s)) = s
    BY RotationIsUndone
  <2> QED
    BY <1>w, <2>1, Zenon
<1>2. last \in Seq(Bytes) /\ Len(last) = 4 /\ from_be_bytes(last) = token
  BY WordBytes
<1>3. turned \in Seq(Bytes)
  <2>1. n \in Nat \ {0}
    BY EmptySeq
  <2> DEFINE k == token % n
  <2>2. k \in 0 .. n - 1
    BY <1>w, <2>1, Division
  <2>3. turned = [i \in 1 .. n |-> info[1 + ((i - 1 + n - k) % n)]]
    BY DEF rotate_right
  <2> HIDE DEF k, n, turned
  <2>4. ASSUME NEW i \in 1 .. n PROVE turned[i] \in Bytes
    <3> DEFINE m == i - 1 + n - k
    <3>1. m \in Nat
      BY <2>1, <2>2
    <3>2. m % n \in 0 .. n - 1
      <4> HIDE DEF m
      <4> QED
        BY <2>1, <3>1, Division
    <3>3. 1 + (m % n) \in 1 .. n
      <4> DEFINE r == m % n
      <4>1. r \in 0 .. n - 1
        BY <3>2
      <4> HIDE DEF r
      <4>2. 1 + r \in 1 .. n
        BY <2>1, <4>1
      <4> QED
        BY <4>2 DEF r
    <3>4. turned[i] = info[1 + (m % n)]
      BY <2>3
    <3> HIDE DEF m
    <3> QED
      BY <3>3, <3>4, Entries DEF n
  <2>5. turned = [i \in 1 .. n |-> turned[i]]
    BY <2>3
  <2> QED
    BY <2>1, <2>4, <2>5, Listed
<1> HIDE DEF turned, last
<1> DEFINE decoded == turned \o last
<1>4. decoded \in Seq(Bytes) /\ Len(decoded) = n + 4
  <2>1. \A s, t \in Seq(Bytes) :
          s \o t \in Seq(Bytes) /\ Len(s \o t) = Len(s) + Len(t)
    BY Joined
  <2> QED
    BY <1>1, <1>2, <1>3, <2>1, Zenon
<1>5. SubSeq(decoded, 1, n) = turned /\ SubSeq(decoded, n + 1, n + 4) = last
  <2>1. \A s, t \in Seq(Bytes) :
          /\ SubSeq(s \o t, 1, Len(s)) = s
          /\ SubSeq(s \o t, Len(s) + 1, Len(s) + Len(t)) = t
    BY Appended
  <2>2. /\ SubSeq(decoded, 1, Len(turned)) = turned
        /\ SubSeq(decoded, Len(turned) + 1, Len(turned) + Len(last)) = last
    BY <1>2, <1>3, <2>1, Zenon
  <2> HIDE DEF decoded
  <2> QED
    BY <1>1, <1>2, <2>2
<1>6. encode_qr_payload(info, token) = b64_encode(decoded)
  BY DEF encode_qr_payload, turned, last
<1> HIDE DEF decoded
<1>7. b64_decode(encode_qr_payload(info, token)) = decoded
  BY <1>4, <1>6, Base64IsRead
<1>8. Len(decoded) - 4 = n
  <2>1. n \in Nat
    OBVIOUS
  <2> HIDE DEF n
  <2> QED
    BY <1>4, <2>1
<1> HIDE DEF n
<1>9. decode_qr_payload(encode_qr_payload(info, token)) =
        <<rotate_right(SubSeq(decoded, 1, n),
                       (n - (from_be_bytes(SubSeq(decoded, n + 1, n + 4)) % n)) % n),
          from_be_bytes(SubSeq(decoded, n + 1, n + 4))>>
  BY <1>7, <1>8, Zenon DEF decode_qr_payload
<1> QED
  BY <1>1, <1>2, <1>5, <1>9, Zenon

-----------------------------------------------------------------------------
(* Messages *)

\* The stand-in for the cipher is a permutation of the bytes, and adding 255
\* inverts it.
LEMMA ByteShift ==
  ASSUME NEW x \in 0 .. 255
  PROVE  /\ (x + 1) % 256 \in Int
         /\ (((x + 1) % 256) + 255) % 256 = x
<1>1. CASE x = 255
  BY <1>1
<1>2. CASE x < 255
  <2>1. (x + 1) % 256 = x + 1 /\ (x + 256) % 256 = x
    BY <1>2
  <2> QED
    BY <2>1
<1> QED
  BY <1>1, <1>2

\* A message of any length, empty ones and whole blocks included, is read as
\* it was written: the padding is found and taken off (encrypt_for_client,
\* decrypt_from_client).
THEOREM MessagesAreRead ==
  ASSUME NEW plain \in Seq(0 .. 255)
  PROVE  decrypt_from_client(encrypt_for_client(plain)) = Ok(plain)
<1> DEFINE L == Len(plain)
           pad == Block - (L % Block)
           tail == [i \in 1 .. pad |-> pad]
           padded == plain \o tail
           iv == [i \in 1 .. Block |-> 7]
           body == [i \in 1 .. Len(padded) |-> (padded[i] + 1) % 256]
           cipher == iv \o body
<1>1. encrypt_for_client(plain) = cipher
  BY DEF encrypt_for_client
<1>2. Block \in Nat \ {0} /\ Block <= 255 /\ L \in Nat
  BY CodecAssumption DEF CodecAssumption
<1>3. pad \in 1 .. Block /\ (L + pad) % Block = 0 /\ (Block + L + pad) % Block = 0
  <2> DEFINE q == L \div Block
             r == L % Block
  <2>1. q \in Nat /\ r \in 0 .. Block - 1 /\ L = Block * q + r
    BY <1>2, Division
  <2> HIDE DEF q
  <2>2. /\ q + 1 \in Nat /\ q + 2 \in Nat /\ 0 \in 0 .. Block - 1
        /\ L + pad = Block * (q + 1) + 0 /\ Block + L + pad = Block * (q + 2) + 0
    <3> HIDE DEF r, L
    <3>1. pad = Block - r
      BY DEF r
    <3> HIDE DEF pad
    <3> QED
      BY <1>2, <2>1, <3>1, SMTT(30)
  <2>3. pad \in 1 .. Block
    <3> HIDE DEF r, L
    <3>1. pad = Block - r
      BY DEF r
    <3> QED
      BY <1>2, <2>1, <3>1
  <2> HIDE DEF L, pad
  <2>4. (Block * (q + 1) + 0) % Block = 0 /\ (Block * (q + 2) + 0) % Block = 0
    BY <1>2, <2>2, Remainder
  <2> QED
    BY <2>2, <2>3, <2>4
<1> HIDE DEF pad
<1>4. /\ padded \in Seq(0 .. 255)
      /\ Len(padded) = L + pad
      /\ \A i \in 1 .. L + pad : padded[i] \in 0 .. 255
      /\ \A i \in 1 .. L : padded[i] = plain[i]
      /\ \A i \in L + 1 .. L + pad : padded[i] = pad
  <2>1. tail \in Seq(0 .. 255) /\ Len(tail) = pad
    BY <1>2, <1>3
  <2>2. \A i \in 1 .. pad : tail[i] = pad
    OBVIOUS
  <2> HIDE DEF tail
  <2>3. /\ padded \in Seq(0 .. 255) /\ Len(padded) = L + pad
        /\ \A i \in 1 .. L : padded[i] = plain[i]
        /\ \A i \in 1 .. pad : padded[L + i] = pad
    <3> DEFINE B == 0 .. 255
    <3>1. plain \in Seq(B) /\ tail \in Seq(B)
      BY <2>1
    <3> HIDE DEF B
    <3>2. /\ plain \o tail \in Seq(B)
          /\ Len(plain \o tail) = Len(plain) + Len(tail)
          /\ \A i \in 1 .. Len(plain) : (plain \o tail)[i] = plain[i]
          /\ \A i \in 1 .. Len(tail) : (plain \o tail)[Len(plain) + i] = tail[i]
      BY <3>1, Joined
    <3> QED
      BY <2>1, <2>2, <3>2 DEF B
  <2> HIDE DEF L, padded
  <2>4. \A i \in 1 .. Len(padded) : padded[i] \in 0 .. 255
    BY <2>3, Entries
  <2>5. ASSUME NEW i \in L + 1 .. L + pad PROVE padded[i] = pad
    <3>1. i - L \in 1 .. pad /\ L + (i - L) = i
      BY <1>2, <1>3
    <3> QED
      BY <2>3, <3>1
  <2> QED
    BY <2>3, <2>4, <2>5
<1> HIDE DEF padded, L
<1>5. /\ Len(cipher) = Block + L + pad
      /\ \A i \in 1 .. L + pad : cipher[Block + i] = (padded[i] + 1) % 256
  <2>1. iv \in Seq(Int) /\ Len(iv) = Block
    BY <1>2
  <2>2. body \in Seq(Int) /\ Len(body) = L + pad
    <3>1. ASSUME NEW i \in 1 .. L + pad PROVE (padded[i] + 1) % 256 \in Int
      <4>1. padded[i] \in 0 .. 255
        BY <1>4, Zenon
      <4> QED
        BY <4>1, ByteShift, Zenon
    <3>2. L + pad \in Nat /\ Len(padded) = L + pad
      BY <1>2, <1>3, <1>4
    <3> QED
      BY <3>1, <3>2
  <2>3. \A i \in 1 .. L + pad : body[i] = (padded[i] + 1) % 256
    BY <1>4
  <2> HIDE DEF iv, body
  <2>4. /\ Len(cipher) = Len(iv) + Len(body)
        /\ \A i \in 1 .. Len(body) : cipher[Len(iv) + i] = body[i]
    <3>1. \A s, t \in Seq(Int) :
            /\ Len(s \o t) = Len(s) + Len(t)
            /\ \A i \in 1 .. Len(t) : (s \o t)[Len(s) + i] = t[i]
      BY Joined
    <3> QED
      BY <2>1, <2>2, <3>1, Zenon
  <2> HIDE DEF cipher
  <2> QED
    BY <1>2, <1>3, <2>1, <2>2, <2>3, <2>4
<1> HIDE DEF cipher
<1> DEFINE n == Len(cipher)
           opened == [i \in 1 .. n - Block |-> (cipher[Block + i] + 255) % 256]
<1>6. n - Block = L + pad
  BY <1>2, <1>3, <1>5
<1>7. ASSUME NEW i \in 1 .. L + pad PROVE opened[i] = padded[i]
  <2>1. padded[i] \in 0 .. 255
    BY <1>2, <1>3, <1>4
  <2>2. (((padded[i] + 1) % 256) + 255) % 256 = padded[i]
    BY <2>1, ByteShift
  <2> QED
    BY <1>5, <1>6, <2>2
<1> HIDE DEF opened
<1>8. /\ ~(n <= Block) /\ n % Block = 0
      /\ opened[n - Block] = pad
      /\ \A i \in n - Block - pad + 1 .. n - Block : opened[i] = pad
  <2>1. ~(n <= Block) /\ n % Block = 0
    BY <1>2, <1>3, <1>5
  <2>2. \A i \in L + 1 .. L + pad : i \in 1 .. L + pad /\ opened[i] = pad
    BY <1>2, <1>3, <1>4, <1>7
  <2>3. L + pad \in L + 1 .. L + pad /\ n - Block - pad + 1 = L + 1
    BY <1>2, <1>3, <1>6
  <2> QED
    BY <1>6, <2>1, <2>2, <2>3
<1>9. SubSeq(opened, 1, n - Block - pad) = plain
  <2>1. opened \in Seq(Int) /\ Len(opened) = L + pad
    <3> DEFINE m == n - Block
    <3>1. opened = [i \in 1 .. m |-> opened[i]]
      BY DEF opened
    <3>2. m = L + pad
      BY <1>6
    <3> HIDE DEF m
    <3>3. \A i \in 1 .. m : opened[i] \in Int
      <4>1. ASSUME NEW i \in 1 .. L + pad PROVE opened[i] \in Int
        <5>1. opened[i] = padded[i] /\ padded[i] \in 0 .. 255
          BY <1>4, <1>7, Zenon
        <5>2. \A x \in 0 .. 255 : x \in Int
          OBVIOUS
        <5> QED
          BY <5>1, <5>2, Zenon
      <4> QED
        BY <3>2, <4>1, Zenon
    <3>4. m \in Nat
      BY <1>2, <1>3, <3>2
    <3>5. opened \in Seq(Int) /\ Len(opened) = m
      BY <3>1, <3>3, <3>4
    <3> QED
      BY <3>2, <3>5
  <2>2. n - Block - pad = L
    BY <1>2, <1>3, <1>6
  <2>3. /\ SubSeq(opened, 1, L) \in Seq(Int) /\ Len(SubSeq(opened, 1, L)) = L
        /\ \A i \in 1 .. L : SubSeq(opened, 1, L)[i] = opened[i]
    BY <1>2, <1>3, <2>1, SMT
  <2>4. \A i \in 1 .. L : SubSeq(opened, 1, L)[i] = plain[i]
    BY <1>2, <1>3, <1>4, <1>7, <2>3
  <2>5. plain \in Seq(Int) /\ Len(plain) = L
    <3>1. 0 .. 255 \subseteq Int
      OBVIOUS
    <3>2. plain \in Seq(Int)
      BY <3>1, SeqMonotonic, Zenon
    <3> QED
      BY <3>2 DEF L
  <2>6. SubSeq(opened, 1, L) = plain
    BY <2>3, <2>4, <2>5, SeqEqual
  <2> QED
    BY <2>2, <2>6
<1>10. decrypt_from_client(cipher) = Ok(SubSeq(opened, 1, n - Block - pad))
  <2>1. decrypt_from_client(cipher) =
          IF \/ n <= Block
             \/ n % Block # 0
             \/ opened[n - Block] \notin 1 .. Block
             \/ \E i \in n - Block - opened[n - Block] + 1 .. n - Block :
                  opened[i] # opened[n - Block]
          THEN Error
          ELSE Ok(SubSeq(opened, 1, n - Block - opened[n - Block]))
    BY DEF decrypt_from_client, opened
  <2> HIDE DEF n
  <2> QED
    BY <1>3, <1>8, <2>1
<1> QED
  BY <1>1, <1>9, <1>10

-----------------------------------------------------------------------------
(* Streams *)

\* What can be read at the start of a frame.
SizeAt(s, offset) == from_be_bytes(SubSeq(s, offset + 1, offset + 4))
EndAt(s, offset) == offset + 4 + SizeAt(s, offset)
HeadAt(s, offset) == decrypt_from_client(SubSeq(s, offset + 5, EndAt(s, offset)))

\* A message and what follows it.
Both(head, tail) == IF head.ok /\ tail.ok THEN Ok(head.bytes \o tail.bytes) ELSE Error

\* One round of the loop: from gives what is read behind the frame.
ReadFrom(s, from, offset) ==
  IF offset = Len(s) THEN Ok(<< >>)
  ELSE IF offset + 4 > Len(s) THEN Error
  ELSE IF EndAt(s, offset) > Len(s) THEN Error
  ELSE Both(HeadAt(s, offset), from[EndAt(s, offset)])

\* A frame is not empty.
LEMMA EndIsBehind ==
  ASSUME NEW s \in Seq(Bytes), NEW o \in Nat, o + 4 <= Len(s)
  PROVE  EndAt(s, o) \in Nat /\ EndAt(s, o) > o
<1> DEFINE h == SubSeq(s, o + 1, o + 4)
<1>1. h[1] \in Nat /\ h[2] \in Nat /\ h[3] \in Nat /\ h[4] \in Nat
  <2>1. /\ o + 1 \in Nat \ {0} /\ o + 4 \in Nat /\ o + 1 <= o + 4
        /\ (o + 4) - (o + 1) + 1 = 4
        /\ \A i \in 1 .. 4 : (o + 1) + i - 1 = o + i /\ o + i \in 1 .. Len(s)
    OBVIOUS
  <2>2. \A i \in 1 .. (o + 4) - (o + 1) + 1 : h[i] = s[(o + 1) + i - 1]
    BY <2>1, Slice
  <2>3. \A i \in 1 .. 4 : h[i] = s[o + i]
    BY <2>1, <2>2
  <2>4. \A i \in 1 .. Len(s) : s[i] \in Bytes
    BY Entries
  <2>5. Bytes \subseteq Nat
    BY DEF Bytes
  <2>6. 1 \in 1 .. 4 /\ 2 \in 1 .. 4 /\ 3 \in 1 .. 4 /\ 4 \in 1 .. 4
    OBVIOUS
  <2> HIDE DEF h
  <2>7. \A i \in 1 .. 4 : h[i] \in Nat
    BY <2>1, <2>3, <2>4, <2>5, Zenon
  <2> QED
    BY <2>6, <2>7, Zenon
<1>2. SizeAt(s, o) = from_be_bytes(h)
  BY DEF SizeAt
<1> HIDE DEF h
<1>3. from_be_bytes(h) \in Nat
  <2> DEFINE a == h[1]
             b == h[2]
             c == h[3]
             d == h[4]
  <2>1. a \in Nat /\ b \in Nat /\ c \in Nat /\ d \in Nat
    BY <1>1
  <2>2. from_be_bytes(h) = a * 16777216 + b * 65536 + c * 256 + d
    BY SMT DEF from_be_bytes
  <2> HIDE DEF a, b, c, d
  <2> QED
    BY <2>1, <2>2, SMT
<1> QED
  BY <1>2, <1>3 DEF EndAt

\* The loop ends: from a frame on it depends on what is behind the frame only.
LEMMA ReadSteps ==
  ASSUME NEW s \in Seq(Bytes)
  PROVE  \E g : /\ decrypt_stream_from_client(s) = g[0]
                /\ \A o \in 0 .. Len(s) : g[o] = ReadFrom(s, g, o)
<1> DEFINE n == Len(s)
           Solves(g, m) == \A o \in 0 .. n : o + m >= n => g[o] = ReadFrom(s, g, o)
           T == {m \in Nat : \E g : Solves(g, m)}
<1>1. n \in Nat
  OBVIOUS
<1>2. 0 \in T
  <2> DEFINE g == [o \in 0 .. n |-> Ok(<< >>)]
  <2>1. ASSUME NEW o \in 0 .. n, o + 0 >= n PROVE g[o] = ReadFrom(s, g, o)
    <3>1. o = Len(s)
      BY <1>1, <2>1
    <3>2. g[o] = Ok(<< >>)
      OBVIOUS
    <3> HIDE DEF g
    <3> QED
      BY <3>1, <3>2 DEF ReadFrom
  <2> HIDE DEF g
  <2>2. Solves(g, 0)
    BY <2>1
  <2> QED
    BY <2>2
<1>3. ASSUME NEW m \in T PROVE m + 1 \in T
  <2>1. PICK g : Solves(g, m)
    OBVIOUS
  <2>m. m \in Nat /\ m + 1 \in Nat
    OBVIOUS
  <2> DEFINE h == [o \in 0 .. n |-> ReadFrom(s, g, o)]
  <2>2. \A o \in 0 .. n : h[o] = ReadFrom(s, g, o)
    OBVIOUS
  <2> HIDE DEF h
  <2>3. ASSUME NEW o \in 0 .. n, o + (m + 1) >= n
        PROVE  ReadFrom(s, g, o) = ReadFrom(s, h, o)
    <3>1. CASE o = Len(s) \/ o + 4 > Len(s) \/ EndAt(s, o) > Len(s)
      BY <3>1 DEF ReadFrom
    <3>2. CASE o # Len(s) /\ ~(o + 4 > Len(s)) /\ ~(EndAt(s, o) > Len(s))
      <4> DEFINE e == EndAt(s, o)
      <4>1. e \in Nat /\ e > o
        BY <1>1, <3>2, EndIsBehind
      <4> HIDE DEF e
      <4>2. e \in 0 .. n /\ e + m >= n
        BY <1>1, <2>m, <2>3, <3>2, <4>1 DEF e
      <4>3. g[e] = h[e]
        BY <2>1, <2>2, <4>2, Zenon
      <4>4. g[EndAt(s, o)] = h[EndAt(s, o)]
        BY <4>3 DEF e
      <4> QED
        BY <3>2, <4>4 DEF ReadFrom
    <3> QED
      BY <3>1, <3>2
  <2>4. Solves(h, m + 1)
    BY <2>2, <2>3
  <2> HIDE DEF Solves
  <2> QED
    BY <2>m, <2>4, Zenon
<1>4. n \in T
  <2> HIDE DEF T
  <2>1. T \subseteq Nat
    BY DEF T
  <2> QED
    BY <1>1, <1>2, <1>3, <2>1, Induction
<1>5. PICK g : \A o \in 0 .. n : o + n >= n => g[o] = ReadFrom(s, g, o)
  BY <1>4
<1>6. \A o \in 0 .. n : g[o] = ReadFrom(s, g, o)
  <2>1. \A o \in 0 .. n : o + n >= n
    BY <1>1
  <2> QED
    BY <1>5, <2>1
<1> DEFINE h == [o \in 0 .. n |-> g[o]]
           Is(f) == f = [o \in 0 .. Len(s) |-> ReadFrom(s, f, o)]
<1>7. Is(h)
  <2>1. ASSUME NEW o \in 0 .. n PROVE ReadFrom(s, g, o) = ReadFrom(s, h, o)
    <3>1. CASE o = Len(s) \/ o + 4 > Len(s) \/ EndAt(s, o) > Len(s)
      BY <3>1 DEF ReadFrom
    <3>2. CASE o # Len(s) /\ ~(o + 4 > Len(s)) /\ ~(EndAt(s, o) > Len(s))
      <4> DEFINE e == EndAt(s, o)
      <4>1. e \in Nat
        BY <1>1, <3>2, EndIsBehind
      <4> HIDE DEF e
      <4>2. e \in 0 .. n
        BY <1>1, <3>2, <4>1 DEF e
      <4>3. g[e] = h[e]
        BY <4>2
      <4>4. g[EndAt(s, o)] = h[EndAt(s, o)]
        BY <4>3 DEF e
      <4> HIDE DEF h
      <4> QED
        BY <3>2, <4>4 DEF ReadFrom
    <3> QED
      BY <3>1, <3>2
  <2>2. \A o \in 0 .. n : h[o] = g[o]
    OBVIOUS
  <2>3. h = [o \in 0 .. n |-> h[o]]
    OBVIOUS
  <2> HIDE DEF h
  <2>4. \A o \in 0 .. n : h[o] = ReadFrom(s, h, o)
    BY <1>6, <2>1, <2>2
  <2> QED
    BY <2>3, <2>4
<1>8. decrypt_stream_from_client(s) = (CHOOSE f : Is(f))[0]
  BY Zenon DEF decrypt_stream_from_client, ReadFrom, Both, HeadAt, EndAt, SizeAt
<1>9. Is(CHOOSE f : Is(f))
  <2> HIDE DEF Is
  <2> QED
    BY <1>7, Zenon
<1> DEFINE f == CHOOSE f : Is(f)
<1>10. f = [o \in 0 .. n |-> ReadFrom(s, f, o)]
  BY <1>9
<1> HIDE DEF f
<1>11. \A o \in 0 .. n : f[o] = ReadFrom(s, f, o)
  BY <1>10
<1>12. decrypt_stream_from_client(s) = f[0]
  BY <1>8 DEF f
<1> QED
  BY <1>11, <1>12

\* The length of a message of l bytes when it is encrypted.
CipherLength(l) == Block + l + (Block - (l % Block))

\* f is a frame from which the message c is read.
IsFrame(c, f) ==
  /\ f \in Seq(Bytes) /\ Len(f) \in Nat /\ 4 < Len(f)
  /\ from_be_bytes(SubSeq(f, 1, 4)) = Len(f) - 4
  /\ decrypt_from_client(SubSeq(f, 5, Len(f))) = Ok(c)

\* What encrypt_stream_for_client makes of one chunk.
FrameOf(c) ==
  to_be_bytes(Len(encrypt_for_client(c))) \o encrypt_for_client(c)

\* How long an encrypted message is.
LEMMA CipherFits ==
  ASSUME NEW c \in Seq(Bytes), NEW l \in Nat, Len(c) = l
  PROVE  /\ encrypt_for_client(c) \in Seq(Bytes)
         /\ Len(encrypt_for_client(c)) = CipherLength(l)
         /\ CipherLength(l) \in Nat \ {0}
         /\ CipherLength(l) <= l + 2 * Block
<1> DEFINE pad == Block - (l % Block)
           tail == [i \in 1 .. pad |-> pad]
           iv == [i \in 1 .. Block |-> 7]
           padded == c \o tail
           body == [i \in 1 .. Len(padded) |-> (padded[i] + 1) % 256]
<1>1. encrypt_for_client(c) = iv \o body
  BY DEF encrypt_for_client
<1>2. Block \in Nat \ {0} /\ Block < 256
  BY CodecAssumption DEF CodecAssumption
<1>3. pad \in 1 .. Block
  <2> DEFINE r == l % Block
  <2>1. r \in 0 .. Block - 1
    BY <1>2, Division
  <2> HIDE DEF r
  <2>2. Block - r \in 1 .. Block
    BY <1>2, <2>1
  <2> QED
    BY <2>2 DEF r
<1>4. CipherLength(l) = Block + l + pad
  BY DEF CipherLength
<1> HIDE DEF pad
<1>5. tail \in Seq(Bytes) /\ Len(tail) = pad
  <2>1. pad \in Bytes /\ pad \in Nat
    BY <1>2, <1>3 DEF Bytes
  <2>2. \A i \in 1 .. pad : tail[i] \in Bytes
    BY <2>1
  <2>3. tail = [i \in 1 .. pad |-> tail[i]]
    OBVIOUS
  <2> HIDE DEF tail
  <2> QED
    BY <2>1, <2>2, <2>3, Listed
<1>6. iv \in Seq(Bytes) /\ Len(iv) = Block
  <2>1. 7 \in Bytes
    BY DEF Bytes
  <2>2. \A i \in 1 .. Block : iv[i] \in Bytes
    BY <2>1
  <2>3. iv = [i \in 1 .. Block |-> iv[i]]
    OBVIOUS
  <2> HIDE DEF iv
  <2> QED
    BY <1>2, <2>2, <2>3, Listed
<1> HIDE DEF tail, iv
<1>j. \A s, t \in Seq(Bytes) :
        s \o t \in Seq(Bytes) /\ Len(s \o t) = Len(s) + Len(t)
  BY Joined
<1>7. padded \in Seq(Bytes) /\ Len(padded) = l + pad
  BY <1>5, <1>j, Zenon
<1> HIDE DEF padded
<1>8. l + pad \in Nat
  BY <1>2, <1>3
<1>e. \A i \in 1 .. l + pad : padded[i] \in Bytes
  <2>1. \A i \in 1 .. Len(padded) : padded[i] \in Bytes
    BY <1>7, Entries
  <2> QED
    BY <1>7, <2>1, Zenon
<1>9. body \in Seq(Bytes) /\ Len(body) = l + pad
  <2>1. ASSUME NEW i \in 1 .. l + pad PROVE body[i] \in Bytes
    <3>1. padded[i] \in Bytes
      BY <1>e
    <3>2. padded[i] + 1 \in Nat
      <4>1. \A x \in Bytes : x + 1 \in Nat
        BY SMT DEF Bytes
      <4> QED
        BY <3>1, <4>1, Zenon
    <3>3. \A x \in Nat : x % 256 \in Bytes
      BY SMT DEF Bytes
    <3>4. body[i] = (padded[i] + 1) % 256
      BY <1>7
    <3> QED
      BY <3>2, <3>3, <3>4
  <2>2. body = [i \in 1 .. l + pad |-> body[i]]
    BY <1>7
  <2> HIDE DEF body
  <2> QED
    BY <1>8, <2>1, <2>2, Listed
<1> HIDE DEF body
<1>10. iv \o body \in Seq(Bytes) /\ Len(iv \o body) = Block + (l + pad)
  BY <1>6, <1>9, <1>j, Zenon
<1>11. /\ Block + (l + pad) = Block + l + pad
       /\ Block + l + pad \in Nat \ {0}
       /\ Block + l + pad <= l + 2 * Block
  BY <1>2, <1>3
<1> QED
  BY <1>1, <1>4, <1>10, <1>11

\* A chunk is read from its frame: its length fits into the head
\* (encrypt_stream_for_client).
LEMMA FramesAreFrames ==
  ASSUME NEW c \in Seq(Bytes), NEW l \in Nat, Len(c) = l, l <= StreamChunk
  PROVE  IsFrame(c, FrameOf(c)) /\ Len(FrameOf(c)) = 4 + CipherLength(l)
<1> DEFINE e == encrypt_for_client(c)
           m == CipherLength(l)
           head == to_be_bytes(m)
           f == head \o e
<1>1. e \in Seq(Bytes) /\ Len(e) = m /\ m \in Nat \ {0} /\ m <= l + 2 * Block
  BY CipherFits
<1>2. FrameOf(c) = f
  BY <1>1 DEF FrameOf
<1>3. decrypt_from_client(e) = Ok(c)
  <2>1. c \in Seq(0 .. 255)
    BY DEF Bytes
  <2> QED
    BY <2>1, MessagesAreRead
<1> HIDE DEF e, m
<1>4. IsWord(m)
  <2> DEFINE b == StreamChunk + 2 * Block
  <2>1. b \in Nat /\ b \div 65536 < 65536
    BY CodecAssumption, SMT DEF CodecAssumption
  <2>2. m <= b
    BY <1>1, CodecAssumption, SMT DEF CodecAssumption
  <2> HIDE DEF b
  <2>3. \A x, y \in Nat : x <= y => x \div 65536 <= y \div 65536
    BY SMT
  <2>4. m \in Nat
    BY <1>1
  <2>5. m \div 65536 <= b \div 65536
    BY <2>1, <2>2, <2>3, <2>4, SMT
  <2>6. m \div 65536 \in Nat /\ b \div 65536 \in Nat
    BY <2>1, <2>4, SMT
  <2> QED
    BY <2>1, <2>4, <2>5, <2>6, SMT DEF IsWord
<1>5. head \in Seq(Bytes) /\ Len(head) = 4 /\ from_be_bytes(head) = m
  BY <1>4, WordBytes
<1> HIDE DEF head
<1>6. f \in Seq(Bytes) /\ Len(f) = 4 + m
  <2>1. \A s, t \in Seq(Bytes) :
          s \o t \in Seq(Bytes) /\ Len(s \o t) = Len(s) + Len(t)
    BY Joined
  <2> QED
    BY <1>1, <1>5, <2>1, Zenon
<1>7. SubSeq(f, 1, 4) = head /\ SubSeq(f, 5, 4 + m) = e
  <2>1. \A s, t \in Seq(Bytes) :
          /\ SubSeq(s \o t, 1, Len(s)) = s
          /\ SubSeq(s \o t, Len(s) + 1, Len(s) + Len(t)) = t
    BY Appended
  <2>2. /\ SubSeq(f, 1, Len(head)) = head
        /\ SubSeq(f, Len(head) + 1, Len(head) + Len(e)) = e
    BY <1>1, <1>5, <2>1, Zenon
  <2>3. 4 + 1 = 5
    OBVIOUS
  <2> HIDE DEF f
  <2> QED
    BY <1>1, <1>5, <2>2, <2>3
<1> HIDE DEF f
<1>8. 4 + m \in Nat /\ 4 < 4 + m /\ (4 + m) - 4 = m
  BY <1>1
<1>9. IsFrame(c, f)
  BY <1>3, <1>5, <1>6, <1>7, <1>8 DEF IsFrame
<1> QED
  BY <1>2, <1>6, <1>9 DEF m

\* Equal entries make equal pieces.
LEMMA SamePiece ==
  ASSUME NEW S, NEW t \in Seq(S), NEW f \in Seq(S), NEW o \in Nat,
         NEW a \in Nat \ {0}, NEW b \in Nat, a <= b + 1, b <= Len(f),
         o + b <= Len(t), \A x \in a .. b : t[o + x] = f[x]
  PROVE  SubSeq(t, o + a, o + b) = SubSeq(f, a, b)
<1>1. CASE a = b + 1
  <2>1. o + b < o + a /\ b < a /\ o + b \in Int /\ o + a \in Int
    BY <1>1
  <2> QED
    BY <2>1, SubSeqEmpty
<1>2. CASE a # b + 1
  <2> DEFINE k == b - a + 1
  <2>1. /\ k \in Nat /\ a <= b /\ o + a <= o + b /\ (o + b) - (o + a) + 1 = k
        /\ o + a \in Nat \ {0} /\ o + b \in Nat
    BY <1>2
  <2>2. /\ Len(SubSeq(f, a, b)) = b - a + 1
        /\ \A i \in 1 .. b - a + 1 : SubSeq(f, a, b)[i] = f[a + i - 1]
    BY <2>1, Slice
  <2>3. /\ Len(SubSeq(t, o + a, o + b)) = (o + b) - (o + a) + 1
        /\ \A i \in 1 .. (o + b) - (o + a) + 1 :
             SubSeq(t, o + a, o + b)[i] = t[(o + a) + i - 1]
    BY <2>1, Slice
  <2>4. ASSUME NEW i \in 1 .. k
        PROVE  a + i - 1 \in a .. b /\ (o + a) + i - 1 = o + (a + i - 1)
    BY <2>1
  <2>5. SubSeq(f, a, b) \in Seq(S) /\ SubSeq(t, o + a, o + b) \in Seq(S)
    <3>1. /\ \A i \in a .. b : f[i] \in S
          /\ \A i \in o + a .. o + b : t[i] \in S
      <4>1. /\ \A i \in a .. b : i \in 1 .. Len(f)
            /\ \A i \in o + a .. o + b : i \in 1 .. Len(t)
        BY <2>1
      <4> QED
        BY <4>1, Entries
    <3>2. a \in Int /\ b \in Int /\ o + a \in Int /\ o + b \in Int
      BY <2>1
    <3> QED
      BY <3>1, <3>2, SubSeqProperties
  <2> HIDE DEF k
  <2>6. \A i \in 1 .. k : SubSeq(t, o + a, o + b)[i] = SubSeq(f, a, b)[i]
    BY <2>1, <2>2, <2>3, <2>4 DEF k
  <2>7. Len(SubSeq(t, o + a, o + b)) = k /\ Len(SubSeq(f, a, b)) = k
    BY <2>1, <2>2, <2>3 DEF k
  <2> QED
    BY <2>5, <2>6, <2>7, SeqEqual
<1> QED
  BY <1>1, <1>2

\* What there is in t, of n bytes, behind offset o is the beginning of f.
Arrived(t, n, o, f) == \A x \in 1 .. Len(f) : o + x <= n => t[o + x] = f[x]

\* What one round of the loop makes of it.
IsRead(t, n, o, c, f, g) ==
  /\ o + Len(f) <= n => ReadFrom(t, g, o) = Both(Ok(c), g[o + Len(f)])
  /\ o < n /\ n < o + Len(f) => ReadFrom(t, g, o) = Error

\* A frame that is there as a whole is read; of one that is cut off the reader
\* learns.
LEMMA FrameIsRead ==
  ASSUME NEW t \in Seq(Bytes), NEW n \in Nat, Len(t) = n, NEW c, NEW f, IsFrame(c, f),
         NEW o \in Nat, NEW g, Arrived(t, n, o, f)
  PROVE  IsRead(t, n, o, c, f, g)
<1> DEFINE l == Len(f)
<1>1. /\ f \in Seq(Bytes) /\ l \in Nat /\ 4 < l /\ l = Len(f)
      /\ from_be_bytes(SubSeq(f, 1, 4)) = l - 4
      /\ decrypt_from_client(SubSeq(f, 5, l)) = Ok(c)
  BY DEF IsFrame
<1>a. \A x \in 1 .. l : o + x <= n => t[o + x] = f[x]
  BY DEF Arrived
<1> HIDE DEF l
<1>2. ASSUME o + 4 <= n
      PROVE  EndAt(t, o) = o + l
  <2>1. \A x \in 1 .. 4 : t[o + x] = f[x]
    <3>1. \A x \in 1 .. 4 : x \in 1 .. l /\ o + x <= n
      BY <1>1, <1>2
    <3> QED
      BY <1>a, <3>1
  <2>2. 1 \in Nat \ {0} /\ 4 \in Nat /\ 1 <= 4 + 1 /\ 4 <= l
    BY <1>1
  <2>3. SubSeq(t, o + 1, o + 4) = SubSeq(f, 1, 4)
    BY <1>1, <1>2, <2>1, <2>2, SamePiece
  <2>4. EndAt(t, o) = o + 4 + (l - 4)
    BY <1>1, <2>3 DEF EndAt, SizeAt
  <2> QED
    BY <1>1, <2>4
<1>3. ASSUME o + l <= n
      PROVE  ReadFrom(t, g, o) = Both(Ok(c), g[o + l])
  <2>1. o + 4 <= n /\ o # n
    BY <1>1, <1>3
  <2>2. EndAt(t, o) = o + l
    BY <1>2, <2>1
  <2>3. \A x \in 5 .. l : t[o + x] = f[x]
    <3>1. \A x \in 5 .. l : x \in 1 .. l /\ o + x <= n
      BY <1>1, <1>3
    <3> QED
      BY <1>a, <3>1
  <2>4. 5 \in Nat \ {0} /\ 5 <= l + 1
    BY <1>1
  <2>5. SubSeq(t, o + 5, o + l) = SubSeq(f, 5, l)
    BY <1>1, <1>3, <2>3, <2>4, SamePiece
  <2>6. HeadAt(t, o) = Ok(c)
    BY <1>1, <2>2, <2>5 DEF HeadAt
  <2>7. ~(o + 4 > n) /\ ~(o + l > n) /\ o # n
    BY <1>1, <1>3, <2>1
  <2> QED
    BY <2>2, <2>6, <2>7 DEF ReadFrom
<1>4. ASSUME o < n, n < o + l
      PROVE  ReadFrom(t, g, o) = Error
  <2>1. CASE o + 4 > n
    BY <1>4, <2>1 DEF ReadFrom
  <2>2. CASE ~(o + 4 > n)
    <3>1. EndAt(t, o) = o + l
      BY <1>2, <2>2
    <3>2. o + l > n /\ o # n
      BY <1>1, <1>4
    <3> QED
      BY <2>2, <3>1, <3>2 DEF ReadFrom
  <2> QED
    BY <2>1, <2>2
<1> QED
  BY <1>1, <1>3, <1>4 DEF IsRead

\* The frames f of the chunks p lie in s behind the offsets at, and the chunks
\* in the plaintext behind the offsets done.
Framed(plain, p, f, s, at, done) ==
  /\ Len(p) \in Nat
  /\ at[1] = 0 /\ at[Len(p) + 1] = Len(s)
  /\ done[1] = 0 /\ done[Len(p) + 1] = Len(plain)
  /\ \A i \in 1 .. Len(p) :
       /\ IsFrame(p[i], f[i])
       /\ at[i] \in Nat /\ at[i + 1] = at[i] + Len(f[i]) /\ at[i + 1] <= Len(s)
       /\ \A x \in 1 .. Len(f[i]) : s[at[i] + x] = f[i][x]
       /\ done[i] \in Nat /\ done[i + 1] \in Nat
       /\ done[i] <= done[i + 1] /\ done[i + 1] <= Len(plain)
       /\ p[i] = SubSeq(plain, done[i] + 1, done[i + 1])

\* What g has read of s, of which n bytes arrived, from frame i on: the chunks
\* up to the one whose frame ends there, or nothing because none does.
ReadsFrom(plain, k, s, at, done, n, g, i) ==
  at[i] <= n =>
    \/ g[at[i]] = Error /\ n # Len(s)
    \/ \E q \in i .. k + 1 :
         /\ n = at[q] /\ done[i] <= done[q]
         /\ g[at[i]] = Ok(SubSeq(plain, done[i] + 1, done[q]))

\* The chunks are read one after the other (decrypt_stream_from_client).
LEMMA FramesAreRead ==
  ASSUME NEW plain \in Seq(Bytes), NEW p, NEW f, NEW s \in Seq(Bytes),
         NEW at, NEW done, Framed(plain, p, f, s, at, done),
         NEW n \in 0 .. Len(s), NEW g,
         \A o \in 0 .. n : g[o] = ReadFrom(SubSeq(s, 1, n), g, o)
  PROVE  \E q \in 1 .. Len(p) + 1 :
           \/ g[0] = Error /\ n # Len(s)
           \/ n = at[q] /\ g[0] = Ok(SubSeq(plain, 1, done[q]))
<1> DEFINE k == Len(p)
           L == Len(plain)
           M == Len(s)
           t == SubSeq(s, 1, n)
<1>1. /\ k = Len(p) /\ L = Len(plain) /\ M = Len(s) /\ L \in Nat /\ M \in Nat
      /\ n \in Nat /\ n <= M
  OBVIOUS
<1>2. t \in Seq(Bytes) /\ Len(t) = n /\ \A j \in 1 .. n : t[j] = s[j]
  BY Leading
<1>3. \A o \in 0 .. n : g[o] = ReadFrom(t, g, o)
  OBVIOUS
<1> HIDE DEF k, L, M, t
<1>4. /\ k \in Nat /\ at[1] = 0 /\ at[k + 1] = M /\ done[1] = 0 /\ done[k + 1] = L
      /\ \A i \in 1 .. k :
           /\ IsFrame(p[i], f[i])
           /\ at[i] \in Nat /\ at[i + 1] = at[i] + Len(f[i]) /\ at[i + 1] <= M
           /\ \A x \in 1 .. Len(f[i]) : s[at[i] + x] = f[i][x]
           /\ done[i] \in Nat /\ done[i + 1] \in Nat
           /\ done[i] <= done[i + 1] /\ done[i + 1] <= L
           /\ p[i] = SubSeq(plain, done[i] + 1, done[i + 1])
  BY <1>1 DEF Framed
<1> DEFINE P(i) == ReadsFrom(plain, k, s, at, done, n, g, i)
<1>5. P(k + 1)
  <2>1. SUFFICES ASSUME at[k + 1] <= n PROVE P(k + 1)
    BY DEF ReadsFrom
  <2>2. n = M /\ n = at[k + 1] /\ n \in 0 .. n
    BY <1>1, <1>4, <2>1
  <2>3. g[n] = Ok(<< >>)
    BY <1>2, <1>3, <2>2 DEF ReadFrom
  <2>4. L + 1 \in Int /\ L \in Int /\ L < L + 1 /\ L <= L
    BY <1>1
  <2>5. SubSeq(plain, L + 1, L) = << >>
    BY <2>4, SubSeqEmpty
  <2>6. k + 1 \in k + 1 .. k + 1
    BY <1>4
  <2> QED
    BY <1>4, <2>2, <2>3, <2>4, <2>5, <2>6 DEF ReadsFrom
<1>6. ASSUME NEW i \in 1 .. k, P(i + 1) PROVE P(i)
  <2> DEFINE a == at[i]
             b == at[i + 1]
             l == Len(f[i])
             u == done[i]
             v == done[i + 1]
  <2>1. SUFFICES ASSUME a <= n PROVE P(i)
    BY DEF ReadsFrom
  <2>2. /\ a \in Nat /\ l \in Nat /\ 4 < l /\ b = a + l /\ b <= M
        /\ IsFrame(p[i], f[i])
        /\ u \in Nat /\ v \in Nat /\ u <= v /\ v <= L
        /\ p[i] = SubSeq(plain, u + 1, v)
    BY <1>4 DEF IsFrame
  <2>3. Arrived(t, n, a, f[i])
    <3>1. \A x \in 1 .. l : s[a + x] = f[i][x]
      BY <1>4
    <3> HIDE DEF a, l
    <3>2. \A x \in 1 .. l : a + x <= n => a + x \in 1 .. n
      BY <1>1, <2>2
    <3> QED
      BY <1>2, <3>1, <3>2 DEF Arrived, l
  <2>4. a \in 0 .. n
    <3> HIDE DEF a
    <3> QED
      BY <1>1, <2>1, <2>2
  <2>5. g[a] = ReadFrom(t, g, a)
    BY <1>3, <2>4
  <2>6. /\ a + l <= n => ReadFrom(t, g, a) = Both(Ok(p[i]), g[a + l])
        /\ a < n /\ n < a + l => ReadFrom(t, g, a) = Error
    <3>1. IsRead(t, n, a, p[i], f[i], g)
      <4> HIDE DEF a
      <4> QED
        BY <1>1, <1>2, <2>2, <2>3, FrameIsRead
    <3> QED
      BY <3>1 DEF IsRead
  <2> HIDE DEF a, b, l, u, v
  <2>7. CASE n = a
    <3>1. g[a] = Ok(<< >>)
      BY <1>2, <2>5, <2>7 DEF ReadFrom
    <3>2. SubSeq(plain, u + 1, u) = << >>
      <4>1. u + 1 \in Int /\ u \in Int /\ u < u + 1
        BY <2>2
      <4> QED
        BY <4>1, SubSeqEmpty
    <3>3. i \in i .. k + 1
      BY <1>4
    <3>4. u <= u
      BY <2>2
    <3> QED
      BY <2>7, <3>1, <3>2, <3>3, <3>4 DEF ReadsFrom, a, u
  <2>8. CASE a < n /\ n < a + l
    <3>1. g[a] = Error /\ n # M
      BY <1>1, <2>2, <2>5, <2>6, <2>8
    <3> QED
      BY <1>1, <3>1 DEF ReadsFrom, a
  <2>9. CASE a + l <= n
    <3>1. g[a] = Both(Ok(p[i]), g[b])
      BY <2>2, <2>5, <2>6, <2>9
    <3>2. \/ g[b] = Error /\ n # Len(s)
          \/ \E q \in i + 1 .. k + 1 :
               /\ n = at[q] /\ v <= done[q]
               /\ g[b] = Ok(SubSeq(plain, v + 1, done[q]))
      BY <1>6, <2>2, <2>9 DEF ReadsFrom, b, v
    <3>3. CASE g[b] = Error /\ n # Len(s)
      <4>1. g[a] = Error
        BY <3>1, <3>3 DEF Both, Error
      <4> QED
        BY <3>3, <4>1 DEF ReadsFrom, a
    <3>4. ASSUME NEW q \in i + 1 .. k + 1, n = at[q], v <= done[q],
                 g[b] = Ok(SubSeq(plain, v + 1, done[q]))
          PROVE  P(i)
      <4> DEFINE w == done[q]
      <4>1. w \in Nat /\ w <= L
        <5>1. CASE q = k + 1
          BY <1>1, <1>4, <5>1
        <5>2. CASE q # k + 1
          <6>1. q \in 1 .. k
            BY <1>4, <5>2
          <6>2. /\ w \in Nat /\ done[q + 1] \in Nat /\ w <= done[q + 1]
                /\ done[q + 1] <= L
            BY <1>4, <6>1
          <6> QED
            BY <1>1, <6>2
        <5> QED
          BY <5>1, <5>2
      <4>2. v <= w
        BY <3>4
      <4>3. g[b] = Ok(SubSeq(plain, v + 1, w))
        BY <3>4
      <4> HIDE DEF w
      <4>4. /\ u + 1 \in 1 .. L + 1 /\ v \in (u + 1) - 1 .. L /\ w \in v .. L
            /\ u <= w
        BY <1>1, <2>2, <4>1, <4>2
      <4>5. SubSeq(plain, u + 1, v) \o SubSeq(plain, v + 1, w) =
              SubSeq(plain, u + 1, w)
        BY <1>1, <4>4, ConcatAdjacentSubSeq
      <4>6. g[a] = Ok(SubSeq(plain, u + 1, w))
        <5>1. \A x, y : Both(Ok(x), Ok(y)) = Ok(x \o y)
          BY DEF Both, Ok
        <5> QED
          BY <2>2, <3>1, <4>3, <4>5, <5>1, Zenon
      <4>7. q \in i .. k + 1
        BY <1>4
      <4> QED
        BY <3>4, <4>4, <4>6, <4>7 DEF ReadsFrom, a, u, w
    <3> QED
      BY <3>2, <3>3, <3>4
  <2>10. n = a \/ (a < n /\ n < a + l) \/ a + l <= n
    BY <1>1, <2>1, <2>2
  <2> QED
    BY <2>7, <2>8, <2>9, <2>10
<1>7. P(1)
  <2> DEFINE T == {m \in Nat : \A i \in 1 .. k + 1 : i + m = k + 1 => P(i)}
  <2> HIDE DEF P
  <2>1. 0 \in T
    <3>1. ASSUME NEW i \in 1 .. k + 1, i + 0 = k + 1 PROVE P(i)
      <4>1. i = k + 1
        BY <1>4, <3>1
      <4> QED
        BY <1>5, <4>1
    <3> QED
      BY <3>1
  <2>2. ASSUME NEW m \in T PROVE m + 1 \in T
    <3>1. m \in Nat /\ m + 1 \in Nat
      OBVIOUS
    <3>2. \A i \in 1 .. k + 1 : i + m = k + 1 => P(i)
      OBVIOUS
    <3>3. ASSUME NEW i \in 1 .. k + 1, i + (m + 1) = k + 1 PROVE P(i)
      <4>1. i \in 1 .. k /\ i + 1 \in 1 .. k + 1 /\ (i + 1) + m = k + 1
        BY <1>4, <3>1, <3>3
      <4>2. P(i + 1)
        BY <3>2, <4>1
      <4> QED
        BY <1>6, <4>1, <4>2
    <3> QED
      BY <3>1, <3>3
  <2>3. T = Nat
    <3> HIDE DEF T
    <3>1. T \subseteq Nat
      BY DEF T
    <3> QED
      BY <2>1, <2>2, <3>1, Induction
  <2>4. 1 \in 1 .. k + 1 /\ 1 + k = k + 1
    BY <1>4
  <2>5. k \in T
    BY <1>4, <2>3
  <2> QED
    BY <2>4, <2>5
<1>8. at[1] <= n /\ done[1] + 1 = 1
  BY <1>1, <1>4
<1>9. 1 \in 1 .. k + 1
  BY <1>4
<1> QED
  BY <1>1, <1>4, <1>7, <1>8, <1>9 DEF ReadsFrom

\* Where piece i of k pieces begins: all but the last have n elements, and
\* behind the last there are total.
Offset(k, n, total, i) == IF i = k + 1 THEN total ELSE (i - 1) * n

\* The offsets of a join of frames and of the chunks that are in them.
LEMMA StreamIsFramed ==
  ASSUME NEW plain \in Seq(Bytes)
  PROVE  \E p, f, at, done :
           /\ p = chunks(plain, StreamChunk)
           /\ encrypt_stream_for_client(plain) \in Seq(Bytes)
           /\ Framed(plain, p, f, encrypt_stream_for_client(plain), at, done)
           /\ \A i \in 1 .. Len(p) : done[i] = (i - 1) * StreamChunk /\ done[i] < Len(plain)
<1> DEFINE C == StreamChunk
           p == chunks(plain, C)
           k == Len(p)
           f == [i \in 1 .. k |-> FrameOf(p[i])]
           s == encrypt_stream_for_client(plain)
           L == Len(plain)
           F == 4 + CipherLength(C)
           M == Len(s)
           at == [i \in 1 .. k + 1 |-> Offset(k, F, M, i)]
           done == [i \in 1 .. k + 1 |-> Offset(k, C, L, i)]
<1>1. C \in Nat \ {0}
  BY CodecAssumption DEF CodecAssumption
<1>2. IsCut(Bytes, plain, C, p)
  BY <1>1, Cut
<1>3. s = FlattenSeq(f)
  BY DEF encrypt_stream_for_client, FrameOf
<1>4. /\ k = Len(p) /\ L = Len(plain) /\ L \in Nat /\ p = chunks(plain, StreamChunk)
      /\ M = Len(s)
  OBVIOUS
<1>f. \A i \in 1 .. k : f[i] = FrameOf(p[i])
  OBVIOUS
<1>g. f = [i \in 1 .. k |-> f[i]]
  OBVIOUS
<1>a. \A i \in 1 .. k + 1 : /\ at[i] = Offset(k, F, M, i)
                            /\ done[i] = Offset(k, C, L, i)
  OBVIOUS
<1> HIDE DEF p, k, f, s, L, M, at, done
<1>5. /\ k \in Nat /\ L <= C * k
      /\ \A i \in 1 .. k :
           /\ (i - 1) * C \in Nat
           /\ p[i] \in Seq(Bytes)
           /\ Len(p[i]) \in 1 .. C
           /\ i < k => Len(p[i]) = C
           /\ i = k => Len(p[i]) = L - (i - 1) * C
           /\ (i - 1) * C + Len(p[i]) <= L
           /\ \A m \in 1 .. Len(p[i]) : p[i][m] = plain[(i - 1) * C + m]
  BY <1>2, <1>4 DEF IsCut
<1> HIDE DEF C
<1>6. \A i \in 1 .. k : /\ IsFrame(p[i], f[i])
                        /\ Len(f[i]) = 4 + CipherLength(Len(p[i]))
  <2>1. \A c \in Seq(Bytes) : \A l \in Nat : Len(c) = l /\ l <= C =>
          IsFrame(c, FrameOf(c)) /\ Len(FrameOf(c)) = 4 + CipherLength(l)
    BY FramesAreFrames DEF C
  <2>2. \A l \in 1 .. C : l \in Nat /\ l <= C
    BY <1>1
  <2> QED
    BY <1>5, <1>f, <2>1, <2>2, Zenon
<1>7. \A i \in 1 .. k : /\ f[i] \in Seq(Bytes) /\ Len(f[i]) \in Nat /\ 4 < Len(f[i])
                        /\ i < k => Len(f[i]) = F
  BY <1>5, <1>6 DEF IsFrame
<1>8. f \in Seq(Seq(Bytes)) /\ Len(f) = k
  BY <1>5, <1>7, <1>g, Listed, Zenon
<1>9. ASSUME k # 0
      PROVE  s \in Seq(Bytes) /\ IsJoin(f, F, s) /\ F \in Nat \ {0}
  <2>1. f # << >>
    BY <1>5, <1>8, <1>9, EmptySeq
  <2>2. F \in Nat \ {0}
    <3>1. CASE k = 1
      <4>1. \A c \in Seq(Bytes) : \A l \in Nat : Len(c) = l => CipherLength(l) \in Nat \ {0}
        BY CipherFits
      <4>2. [i \in 1 .. C |-> 7] \in Seq(Bytes) /\ Len([i \in 1 .. C |-> 7]) = C
        <5>1. 7 \in Bytes
          BY DEF Bytes
        <5> QED
          BY <1>1, <5>1
      <4>3. CipherLength(C) \in Nat \ {0}
        BY <1>1, <4>1, <4>2
      <4> QED
        BY <4>3
    <3>2. CASE k # 1
      <4>1. 1 \in 1 .. k /\ 1 < k
        BY <1>5, <1>9, <3>2
      <4>2. Len(f[1]) = F /\ Len(f[1]) \in Nat /\ 4 < Len(f[1])
        BY <1>7, <4>1
      <4> HIDE DEF F
      <4> QED
        BY <4>2
    <3> QED
      BY <3>1, <3>2
  <2>3. \A i \in 1 .. Len(f) - 1 : Len(f[i]) = F
    <3>1. \A i \in 1 .. k - 1 : i \in 1 .. k /\ i < k
      BY <1>5
    <3> QED
      BY <1>7, <1>8, <3>1, Zenon
  <2> HIDE DEF F
  <2> QED
    BY <1>3, <1>8, <2>1, <2>2, <2>3, Join
<1>10. ASSUME k = 0
       PROVE  s = << >> /\ M = 0 /\ L = 0 /\ s \in Seq(Bytes)
  <2>1. s = << >>
    BY <1>3, <1>8, <1>10, JoinNothing
  <2>2. C * k = 0
    BY <1>1, <1>10
  <2>3. L = 0
    BY <1>4, <1>5, <2>2
  <2> QED
    BY <1>4, <2>1, <2>3
<1> HIDE DEF F
<1>11. s \in Seq(Bytes) /\ M \in Nat
  BY <1>4, <1>9, <1>10
<1>12. /\ at[1] = 0 /\ at[k + 1] = M
       /\ done[1] = 0 /\ done[k + 1] = L
  <2>1. 1 \in 1 .. k + 1 /\ k + 1 \in 1 .. k + 1
    BY <1>5
  <2>2. CASE k = 0
    BY <1>10, <1>a, <2>1, <2>2 DEF Offset
  <2>3. CASE k # 0
    <3>1. (1 - 1) * F = 0 /\ (1 - 1) * C = 0 /\ 1 # k + 1
      BY <1>1, <1>5, <1>9, <2>3
    <3> QED
      BY <1>a, <2>1, <3>1 DEF Offset
  <2> QED
    BY <2>2, <2>3
<1>13. ASSUME NEW i \in 1 .. k
       PROVE  /\ at[i] \in Nat /\ at[i + 1] = at[i] + Len(f[i]) /\ at[i + 1] <= M
              /\ \A x \in 1 .. Len(f[i]) : s[at[i] + x] = f[i][x]
  <2>1. i \in 1 .. k + 1 /\ i + 1 \in 1 .. k + 1 /\ i # k + 1 /\ k # 0
    BY <1>5
  <2>2. /\ F \in Nat \ {0} /\ M = (k - 1) * F + Len(f[k])
        /\ \A x \in 1 .. Len(f[i]) :
             (i - 1) * F + x \in 1 .. M /\ s[(i - 1) * F + x] = f[i][x]
    BY <1>4, <1>8, <1>9, <2>1 DEF IsJoin
  <2>3. at[i] = (i - 1) * F
    BY <1>a, <2>1 DEF Offset
  <2>4. (i - 1) * F \in Nat /\ ((i + 1) - 1) * F = (i - 1) * F + F
    BY <1>5, <2>2, NextMultiple
  <2>5. Len(f[i]) \in Nat /\ 4 < Len(f[i]) /\ (i < k => Len(f[i]) = F)
    BY <1>7
  <2>6. at[i + 1] = at[i] + Len(f[i])
    <3>1. CASE i = k
      BY <1>a, <2>1, <2>2, <2>3, <3>1 DEF Offset
    <3>2. CASE i # k
      <4>1. i < k /\ i + 1 # k + 1
        BY <1>5, <3>2
      <4> QED
        BY <1>a, <2>1, <2>3, <2>4, <2>5, <4>1 DEF Offset
    <3> QED
      BY <3>1, <3>2
  <2>7. at[i] + Len(f[i]) <= M
    <3> DEFINE x == Len(f[i])
    <3>1. x \in 1 .. x
      BY <2>5
    <3>2. at[i] + x \in 1 .. M
      BY <2>2, <2>3, <3>1
    <3> HIDE DEF x
    <3>3. at[i] + x <= M
      BY <1>11, <3>2
    <3> QED
      BY <3>3 DEF x
  <2>8. at[i] \in Nat
    BY <2>3, <2>4
  <2>9. \A x \in 1 .. Len(f[i]) : s[at[i] + x] = f[i][x]
    BY <2>2, <2>3
  <2> QED
    BY <2>6, <2>7, <2>8, <2>9
<1>14. ASSUME NEW i \in 1 .. k
       PROVE  /\ done[i] \in Nat /\ done[i + 1] \in Nat
              /\ done[i] <= done[i + 1] /\ done[i + 1] <= L
              /\ p[i] = SubSeq(plain, done[i] + 1, done[i + 1])
              /\ done[i] = (i - 1) * C /\ done[i] < L
  <2> DEFINE b == (i - 1) * C
             l == Len(p[i])
  <2>1. i \in 1 .. k + 1 /\ i + 1 \in 1 .. k + 1 /\ i # k + 1
    BY <1>5
  <2>2. /\ b \in Nat /\ l \in Nat /\ 1 <= l /\ b + l <= L
        /\ i < k => l = C
        /\ i = k => l = L - b
        /\ \A m \in 1 .. l : p[i][m] = plain[b + m]
        /\ p[i] \in Seq(Bytes) /\ l = Len(p[i])
    <3>1. /\ b \in Nat /\ l \in 1 .. C /\ b + l <= L
          /\ i < k => l = C
          /\ i = k => l = L - b
          /\ \A m \in 1 .. l : p[i][m] = plain[b + m]
          /\ p[i] \in Seq(Bytes) /\ l = Len(p[i])
      BY <1>5, Zenon
    <3>2. \A x \in 1 .. C : x \in Nat /\ 1 <= x
      BY <1>1
    <3> HIDE DEF b, l
    <3> QED
      BY <3>1, <3>2, Zenon
  <2>3. done[i] = b
    BY <1>a, <2>1 DEF Offset
  <2>4. ((i + 1) - 1) * C = b + C
    BY <1>1, <1>5, NextMultiple
  <2>5. done[i + 1] = b + l
    <3>1. CASE i = k
      <4>1. done[i + 1] = L
        BY <1>12, <3>1
      <4> HIDE DEF b, l
      <4> QED
        BY <1>4, <2>2, <3>1, <4>1
    <3>2. CASE i # k
      <4>1. i < k /\ i + 1 # k + 1
        BY <1>5, <3>2
      <4>2. done[i + 1] = ((i + 1) - 1) * C
        BY <1>a, <2>1, <4>1 DEF Offset
      <4> QED
        BY <2>2, <2>4, <4>1, <4>2
    <3> QED
      BY <3>1, <3>2
  <2> HIDE DEF b, l
  <2>6. p[i] = SubSeq(plain, b + 1, b + l)
    <3>a. \A x \in Nat : 1 \in Nat \ {0} /\ 1 <= x + 1 /\ x <= x
      OBVIOUS
    <3>b. 1 \in Nat \ {0} /\ 1 <= l + 1 /\ l <= l
      BY <2>2, <3>a, Zenon
    <3>c. l <= Len(p[i]) /\ b + l <= Len(plain)
      BY <1>4, <2>2, <3>b, Zenon
    <3>d. \A m \in 1 .. l : plain[b + m] = p[i][m]
      BY <2>2, Zenon
    <3>2. SubSeq(plain, b + 1, b + l) = SubSeq(p[i], 1, l)
      BY <2>2, <3>b, <3>c, <3>d, SamePiece
    <3>3. SubSeq(p[i], 1, l) = p[i]
      BY <2>2, SubSeqFull
    <3> QED
      BY <3>2, <3>3
  <2>7. /\ b + l \in Nat /\ b <= b + l /\ b < L
    BY <1>4, <2>2
  <2> QED
    BY <2>2, <2>3, <2>5, <2>6, <2>7 DEF b
<1>15. Framed(plain, p, f, s, at, done)
  BY <1>4, <1>5, <1>6, <1>12, <1>13, <1>14 DEF Framed
<1>16. \A i \in 1 .. k : done[i] = (i - 1) * C /\ done[i] < L
  BY <1>14
<1> QED
  BY <1>4, <1>11, <1>15, <1>16 DEF C, s

\* What StreamIsReadBack says of a stream that missed some bytes.
ReadBack(plain, missing, read) ==
  IF missing = 0 THEN read = Ok(plain)
  ELSE read.ok =>
         IsStrictPrefix(read.bytes, plain) /\ Len(read.bytes) % StreamChunk = 0

\* A stream that arrives whole is read back, and one that was cut off is read
\* up to a frame that was not, or not at all (encrypt_stream_for_client,
\* decrypt_stream_from_client).
THEOREM CutStreamsAreRead ==
  ASSUME NEW plain \in Seq(Bytes),
         NEW n \in 0 .. Len(encrypt_stream_for_client(plain))
  PROVE  ReadBack(plain, Len(encrypt_stream_for_client(plain)) - n,
                  decrypt_stream_from_client(
                    SubSeq(encrypt_stream_for_client(plain), 1, n)))
<1> DEFINE s == encrypt_stream_for_client(plain)
           t == SubSeq(s, 1, n)
           read == decrypt_stream_from_client(t)
           C == StreamChunk
           L == Len(plain)
<1>1. PICK p, f, at, done :
        /\ p = chunks(plain, C)
        /\ s \in Seq(Bytes)
        /\ Framed(plain, p, f, s, at, done)
        /\ \A i \in 1 .. Len(p) : done[i] = (i - 1) * C /\ done[i] < L
  BY StreamIsFramed
<1>c. C \in Nat \ {0} /\ L \in Nat /\ L = Len(plain)
  BY CodecAssumption DEF CodecAssumption
<1>n. n \in 0 .. Len(s)
  OBVIOUS
<1> DEFINE k == Len(p)
<1>k. k \in Nat /\ k = Len(p)
  BY <1>1 DEF Framed
<1>e. t = SubSeq(s, 1, n) /\ read = decrypt_stream_from_client(t)
  OBVIOUS
<1> HIDE DEF s, t, read, C, L, k
<1>2. t \in Seq(Bytes) /\ Len(t) = n
  BY <1>1, <1>n, <1>e, Leading
<1>3. PICK g : read = g[0] /\ \A o \in 0 .. n : g[o] = ReadFrom(t, g, o)
  BY <1>2, <1>e, ReadSteps
<1>4. PICK q \in 1 .. k + 1 :
        \/ g[0] = Error /\ n # Len(s)
        \/ n = at[q] /\ g[0] = Ok(SubSeq(plain, 1, done[q]))
  BY <1>1, <1>n, <1>e, <1>k, <1>3, FramesAreRead
<1>m. Len(s) \in Nat /\ n \in Nat
  BY <1>1, <1>n
<1>5. CASE g[0] = Error /\ n # Len(s)
  <2>1. ~read.ok /\ Len(s) - n # 0
    BY <1>3, <1>5, <1>m DEF Error
  <2> QED
    BY <2>1 DEF ReadBack, read, t, s
<1>6. CASE n = at[q] /\ g[0] = Ok(SubSeq(plain, 1, done[q])) /\ q = k + 1
  <2>1. done[q] = L /\ at[q] = Len(s)
    BY <1>1, <1>6, <1>c, <1>k DEF Framed
  <2>2. read = Ok(plain)
    BY <1>3, <1>6, <1>c, <2>1, SubSeqFull
  <2>3. Len(s) - n = 0
    BY <1>6, <1>m, <2>1
  <2> QED
    BY <2>2, <2>3 DEF ReadBack, read, t, s
<1>7. CASE n = at[q] /\ g[0] = Ok(SubSeq(plain, 1, done[q])) /\ q # k + 1
  <2>1. q \in 1 .. k
    BY <1>7, <1>k
  <2>2. /\ at[q] \in Nat /\ at[q + 1] = at[q] + Len(f[q]) /\ at[q + 1] <= Len(s)
        /\ Len(f[q]) \in Nat /\ 4 < Len(f[q])
    BY <1>1, <1>k, <2>1 DEF Framed, IsFrame
  <2>3. Len(s) - n # 0
    BY <1>7, <1>m, <2>2
  <2> DEFINE d == (q - 1) * C
             got == SubSeq(plain, 1, d)
  <2>4. done[q] = d /\ d < L /\ d \in Nat
    <3>1. done[q] = d /\ done[q] < L
      BY <1>1, <1>k, <2>1
    <3>2. done[q] \in Nat
      BY <1>1, <1>k, <2>1 DEF Framed
    <3> QED
      BY <3>1, <3>2
  <2>5. d % C = 0
    <3>1. d = C * (q - 1) + 0 /\ q - 1 \in Nat /\ 0 \in 0 .. C - 1
      BY <1>c, <1>k, <2>1, SMTT(30)
    <3>2. \A x \in Nat : \A y \in 0 .. C - 1 : (C * x + y) % C = y
      BY <1>c, Remainder
    <3> QED
      BY <3>1, <3>2
  <2> HIDE DEF d
  <2>6. read = Ok(got)
    BY <1>3, <1>7, <2>4
  <2>7. got \in Seq(Bytes) /\ Len(got) = d
    <3>1. d \in 0 .. Len(plain)
      BY <1>c, <2>4
    <3> QED
      BY <3>1, Leading
  <2>8. IsPrefix(got, plain)
    <3>1. Len(got) <= Len(plain)
      BY <1>c, <2>4, <2>7
    <3>2. SubSeq(got, 1, Len(got)) = got
      BY <2>7, SubSeqFull
    <3>3. SubSeq(plain, 1, Len(got)) = got
      BY <2>7
    <3> QED
      BY <3>1, <3>2, <3>3 DEF IsPrefix
  <2>9. got # plain
    BY <1>c, <2>4, <2>7
  <2>10. IsStrictPrefix(got, plain) /\ Len(got) % C = 0
    BY <2>5, <2>7, <2>8, <2>9 DEF IsStrictPrefix
  <2>11. read.bytes = got
    BY <2>6 DEF Ok
  <2>12. ReadBack(plain, Len(s) - n, read)
    BY <2>3, <2>10, <2>11 DEF ReadBack, C
  <2> QED
    BY <2>12 DEF read, t, s
<1> QED
  BY <1>4, <1>5, <1>6, <1>7

-----------------------------------------------------------------------------
(* Calls *)

\* The inputs are sequences of bytes.
LEMMA ContentIsBytes ==
  ASSUME NEW s \in Content
  PROVE  s \in Seq(Bytes) /\ Len(s) \in Nat
<1>1. PICK m \in 0 .. MaxLength : s \in [1 .. m -> Byte]
  BY DEF Content, BoundedSeq, SeqOf
<1>2. m \in Nat /\ Byte \subseteq Bytes
  BY CodecAssumption DEF CodecAssumption, Bytes
<1>3. s \in Seq(Bytes)
  BY <1>1, <1>2
<1> QED
  BY <1>3

\* What FileIsSentWhole says of the chunks.
SentWhole(file, size, posted) ==
  /\ FlattenSeq(posted) = file
  /\ \A i \in 1 .. Len(posted) - 1 : Len(posted[i]) = size
  /\ Len(posted[Len(posted)]) \in 1 .. size

\* Chunks of any size are the whole file.
LEMMA ChunksAreWhole ==
  ASSUME NEW S, NEW file \in Seq(S), file # << >>, NEW size \in Nat \ {0}
  PROVE  SentWhole(file, size, chunks(file, size))
<1> DEFINE p == chunks(file, size)
           k == Len(p)
<1>1. FlattenSeq(p) = file
  BY PiecesRejoin
<1>2. IsCut(S, file, size, p)
  BY Cut
<1>3. Len(file) \in Nat \ {0}
  BY EmptySeq
<1>4. k = Len(p)
  OBVIOUS
<1> HIDE DEF p, k
<1>5. /\ k \in Nat /\ Len(file) <= size * k
      /\ \A i \in 1 .. k : Len(p[i]) \in 1 .. size /\ (i < k => Len(p[i]) = size)
  BY <1>2, <1>4 DEF IsCut
<1>6. k # 0
  <2>1. k = 0 => size * k = 0
    BY SMT
  <2> QED
    BY <1>3, <1>5, <2>1
<1>7. k \in 1 .. k /\ \A i \in 1 .. k - 1 : i \in 1 .. k /\ i < k
  BY <1>5, <1>6
<1>8. Len(p[k]) \in 1 .. size /\ \A i \in 1 .. k - 1 : Len(p[i]) = size
  BY <1>5, <1>7, Zenon
<1>9. SentWhole(file, size, p)
  BY <1>1, <1>4, <1>8 DEF SentWhole
<1> QED
  BY <1>9 DEF p

\* A target that agrees on the size of a file is sent all of it, and none is
\* told that a file is complete of which it did not get every byte, for files,
\* sizes and chunk sizes of every length (upload_completed_push_to_target of
\* what store_push_chunk cut).
THEOREM FilesAreSentWhole == Spec => []FileIsSentWhole
<1>1. Init => FileIsSentWhole
  BY DEF Init, FileIsSentWhole, Idle
<1>2. ASSUME FileIsSentWhole, [Next]_call PROVE FileIsSentWhole'
  <2>1. ASSUME NEW plain \in Content,
               NEW cut \in 0 .. Len(encrypt_stream_for_client(plain)),
               Stream(plain, cut)
        PROVE  FileIsSentWhole'
    <3>1. call'.op = "stream"
      BY <2>1 DEF Stream
    <3> QED
      BY <3>1 DEF FileIsSentWhole
  <2>2. ASSUME NEW file \in Content, NEW declared \in 1 .. MaxLength,
               NEW size \in Sizes, Upload(file, declared, size)
        PROVE  FileIsSentWhole'
    <3> DEFINE count == IF size = 0 THEN 0 ELSE (declared + size - 1) \div size
               pieces == chunks(file, FileChunk)
               result == upload_completed_push_to_target(pieces, size, count)
    <3>1. /\ call'.op = "upload" /\ call'.file = file
          /\ call'.declared = declared /\ call'.size = size
          /\ call'.result = result
          /\ file # << >>
      BY <2>2 DEF Upload
    <3>2. /\ file \in Seq(Bytes) /\ FileChunk \in Nat \ {0} /\ size \in Nat
          /\ size > 0 => size \in Nat \ {0}
      BY ContentIsBytes, CodecAssumption DEF CodecAssumption
    <3>3. read_completed_push(pieces) = file
      BY <3>2, PiecesRejoin DEF read_completed_push
    <3> HIDE DEF pieces
    <3>4. result.ok => size # 0 /\ result.posted = chunks(file, size)
      BY <3>3 DEF upload_completed_push_to_target
    <3>5. declared = Len(file) /\ size > 0 => result.ok
      BY <3>2, <3>3 DEF upload_completed_push_to_target, div_ceil
    <3> HIDE DEF result
    <3>6. result.ok => SentWhole(file, size, result.posted)
      <4>1. size # 0 => SentWhole(file, size, chunks(file, size))
        BY <3>1, <3>2, ChunksAreWhole
      <4> QED
        BY <3>4, <4>1
    <3>7. /\ call'.result.ok => SentWhole(call'.file, call'.size, call'.result.posted)
          /\ call'.declared = Len(call'.file) /\ call'.size > 0 => call'.result.ok
      BY <3>1, <3>5, <3>6
    <3> QED
      BY <3>7 DEF FileIsSentWhole, SentWhole
  <2>3. ASSUME NEW info \in Content, NEW token \in Token, ShowCode(info, token)
        PROVE  FileIsSentWhole'
    <3>1. call'.op = "qr"
      BY <2>3 DEF ShowCode
    <3> QED
      BY <3>1 DEF FileIsSentWhole
  <2>4. ASSUME NEW info \in Content, NEW size \in Sizes, PublishRecord(info, size)
        PROVE  FileIsSentWhole'
    <3>1. call'.op = "txt"
      BY <2>4 DEF PublishRecord
    <3> QED
      BY <3>1 DEF FileIsSentWhole
  <2>5. CASE Return
    BY <2>5 DEF Return, FileIsSentWhole, Idle
  <2>6. CASE UNCHANGED call
    BY <1>2, <2>6 DEF FileIsSentWhole
  <2> QED
    BY <1>2, <2>1, <2>2, <2>3, <2>4, <2>5, <2>6 DEF Next
<1> QED
  BY <1>1, <1>2, PTL DEF Spec

\* What a client reads from the QR code is the SyncInfo and the token, and what
\* it puts together from the entries of the mDNS record is the SyncInfo, for
\* every SyncInfo and every 32-bit token (encode_qr_payload,
\* decode_qr_payload, encode_txt_record).
THEOREM SyncInfosAreRead == Spec => []SyncInfoIsRead
<1>1. Init => SyncInfoIsRead
  BY DEF Init, SyncInfoIsRead, Idle
<1>2. ASSUME SyncInfoIsRead, [Next]_call PROVE SyncInfoIsRead'
  <2>1. ASSUME NEW plain \in Content,
               NEW cut \in 0 .. Len(encrypt_stream_for_client(plain)),
               Stream(plain, cut)
        PROVE  SyncInfoIsRead'
    <3>1. call'.op = "stream"
      BY <2>1 DEF Stream
    <3> QED
      BY <3>1 DEF SyncInfoIsRead
  <2>2. ASSUME NEW file \in Content, NEW declared \in 1 .. MaxLength,
               NEW size \in Sizes, Upload(file, declared, size)
        PROVE  SyncInfoIsRead'
    <3>1. call'.op = "upload"
      BY <2>2 DEF Upload
    <3> QED
      BY <3>1 DEF SyncInfoIsRead
  <2>3. ASSUME NEW info \in Content, NEW token \in Token, ShowCode(info, token)
        PROVE  SyncInfoIsRead'
    <3>1. /\ call'.op = "qr" /\ call'.info = info /\ call'.token = token
          /\ call'.read = decode_qr_payload(encode_qr_payload(info, token))
          /\ info # << >>
      BY <2>3 DEF ShowCode
    <3>2. info \in Seq(Bytes) /\ IsWord(token)
      BY ContentIsBytes, CodecAssumption DEF CodecAssumption, IsWord
    <3>3. decode_qr_payload(encode_qr_payload(info, token)) = <<info, token>>
      BY <3>1, <3>2, CodesAreRead
    <3> QED
      BY <3>1, <3>3 DEF SyncInfoIsRead
  <2>4. ASSUME NEW info \in Content, NEW size \in Sizes, PublishRecord(info, size)
        PROVE  SyncInfoIsRead'
    <3>1. /\ call'.op = "txt" /\ call'.info = info /\ size > 0
          /\ call'.read = b64_decode(FlattenSeq(encode_txt_record(info, size)))
      BY <2>4 DEF PublishRecord
    <3>2. info \in Seq(Bytes) /\ size \in Nat \ {0}
      BY <3>1, ContentIsBytes, CodecAssumption DEF CodecAssumption
    <3>3. b64_encode(info) \in Seq(Nat) /\ b64_decode(b64_encode(info)) = info
      BY <3>2, Base64IsRead
    <3>4. FlattenSeq(encode_txt_record(info, size)) = b64_encode(info)
      BY <3>2, <3>3, PiecesRejoin DEF encode_txt_record
    <3> QED
      BY <3>1, <3>3, <3>4 DEF SyncInfoIsRead
  <2>5. CASE Return
    BY <2>5 DEF Return, SyncInfoIsRead, Idle
  <2>6. CASE UNCHANGED call
    BY <1>2, <2>6 DEF SyncInfoIsRead
  <2> QED
    BY <1>2, <2>1, <2>2, <2>3, <2>4, <2>5, <2>6 DEF Next
<1> QED
  BY <1>1, <1>2, PTL DEF Spec

\* A stream that arrives whole is read back byte for byte, and of one that was
\* cut off the reader learns unless it was cut between two frames, for every
\* content and every place of the cut (pull_file, cache_pull_file_from_client).
THEOREM StreamsAreReadBack == Spec => []StreamIsReadBack
<1>1. Init => StreamIsReadBack
  BY DEF Init, StreamIsReadBack, Idle
<1>2. ASSUME StreamIsReadBack, [Next]_call PROVE StreamIsReadBack'
  <2>1. ASSUME NEW plain \in Content,
               NEW cut \in 0 .. Len(encrypt_stream_for_client(plain)),
               Stream(plain, cut)
        PROVE  StreamIsReadBack'
    <3> DEFINE s == encrypt_stream_for_client(plain)
               read == decrypt_stream_from_client(SubSeq(s, 1, cut))
    <3>1. /\ call'.op = "stream" /\ call'.plain = plain
          /\ call'.missing = Len(s) - cut /\ call'.read = read
      BY <2>1 DEF Stream
    <3>2. plain \in Seq(Bytes)
      BY ContentIsBytes
    <3>3. ReadBack(plain, Len(s) - cut, read)
      BY <3>2, CutStreamsAreRead
    <3> HIDE DEF s, read
    <3>4. ReadBack(call'.plain, call'.missing, call'.read)
      BY <3>1, <3>3
    <3> QED
      BY <3>4 DEF StreamIsReadBack, ReadBack
  <2>2. ASSUME NEW file \in Content, NEW declared \in 1 .. MaxLength,
               NEW size \in Sizes, Upload(file, declared, size)
        PROVE  StreamIsReadBack'
    <3>1. call'.op = "upload"
      BY <2>2 DEF Upload
    <3> QED
      BY <3>1 DEF StreamIsReadBack
  <2>3. ASSUME NEW info \in Content, NEW token \in Token, ShowCode(info, token)
        PROVE  StreamIsReadBack'
    <3>1. call'.op = "qr"
      BY <2>3 DEF ShowCode
    <3> QED
      BY <3>1 DEF StreamIsReadBack
  <2>4. ASSUME NEW info \in Content, NEW size \in Sizes, PublishRecord(info, size)
        PROVE  StreamIsReadBack'
    <3>1. call'.op = "txt"
      BY <2>4 DEF PublishRecord
    <3> QED
      BY <3>1 DEF StreamIsReadBack
  <2>5. CASE Return
    BY <2>5 DEF Return, StreamIsReadBack, Idle
  <2>6. CASE UNCHANGED call
    BY <1>2, <2>6 DEF StreamIsReadBack
  <2> QED
    BY <1>2, <2>1, <2>2, <2>3, <2>4, <2>5, <2>6 DEF Next
<1> QED
  BY <1>1, <1>2, PTL DEF Spec

=============================================================================
