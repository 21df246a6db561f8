---------------------------- MODULE InductionFacts ----------------------------
(***************************************************************************)
(* What the proofs share: the least number of a set of natural numbers,    *)
(* with it induction over a set of numbers, and with that recursion along  *)
(* a sequence.                                                             *)
(***************************************************************************)
EXTENDS Integers, SequenceTheorems, WellFoundedInduction, TLAPS

\* A set of numbers that is not empty has a least one.
LEMMA LeastNumber ==
  ASSUME NEW T, T \subseteq Nat, T # {}
  PROVE  \E x \in T : \A y \in T : x <= y
<1>1. PICK x \in T : \A y \in T : ~(<<y, x>> \in OpToRel(<, Nat))
  BY NatLessThanWellFounded, WFMin, Zenon
<1>2. \A y \in T : <<y, x>> \in OpToRel(<, Nat) <=> y < x
  BY DEF OpToRel
<1>3. \A y \in T : ~(y < x)
  BY <1>1, <1>2, Zenon
<1> QED
  BY <1>3

\* A set that holds 0 and, with a number below n, the next one, holds all up
\* to n.
LEMMA CountUp ==
  ASSUME NEW T, NEW n \in Nat, 0 \in T, \A i \in 0..(n - 1) : i \in T => i + 1 \in T
  PROVE  \A i \in 0..n : i \in T
<1> SUFFICES ASSUME NEW i \in 0..n, i \notin T PROVE FALSE
  OBVIOUS
<1> DEFINE missing == {j \in 0..n : j \notin T}
<1>1. missing \subseteq Nat /\ missing # {}
  OBVIOUS
<1>2. PICK j \in missing : \A k \in missing : j <= k
  BY <1>1, LeastNumber
<1>3. j # 0 /\ j - 1 \notin missing /\ j - 1 \in 0..(n - 1)
  BY <1>2
<1> QED
  BY <1>2, <1>3


\* The first octets of a string, of one more and of one less.
LEMMA CutSeq ==
  ASSUME NEW S, NEW s \in Seq(S), s # <<>>
  PROVE  /\ SubSeq(s, 1, Len(s) - 1) \in Seq(S)
         /\ Len(SubSeq(s, 1, Len(s) - 1)) = Len(s) - 1
         /\ Len(s) \in Nat \ {0} /\ s[Len(s)] \in S
         /\ SubSeq(s, 1, Len(s)) = s
         /\ s = Append(SubSeq(s, 1, Len(s) - 1), s[Len(s)])
         /\ \A k \in 0..(Len(s) - 1) :
              SubSeq(SubSeq(s, 1, Len(s) - 1), 1, k) = SubSeq(s, 1, k)
<1> DEFINE l == Len(s)
           front == SubSeq(s, 1, l - 1)
<1>1. l \in Nat \ {0}
  BY EmptySeq
<1>2. \A k \in 1..l : s[k] \in S
  BY ElementOfSeq
<1> HIDE DEF l
<1>3. front \in Seq(S) /\ Len(front) = l - 1 /\ \A k \in 1..(l - 1) : front[k] = s[k]
  <2>1. 1 \in Int /\ l - 1 \in Int /\ \A k \in 1..(l - 1) : s[k] \in S
    BY <1>1, <1>2
  <2>2. /\ front \in Seq(S) /\ Len(front) = IF 1 <= l - 1 THEN l - 1 - 1 + 1 ELSE 0
        /\ \A k \in 1..(l - 1 - 1 + 1) : front[k] = s[1 + k - 1]
    BY <2>1, SubSeqProperties
  <2> QED
    BY <1>1, <2>2
<1> HIDE DEF front
<1>4. SubSeq(s, 1, l) = s
  BY DEF l
<1>5. ASSUME NEW k \in 0..(l - 1)
      PROVE  SubSeq(front, 1, k) = SubSeq(s, 1, k)
  <2>1. k \in Int /\ (\A j \in 1..k : s[j] \in S) /\ \A j \in 1..k : front[j] = s[j]
    BY <1>1, <1>2, <1>3
  <2>2. \A j \in 1..k : front[j] \in S
    BY <2>1
  <2>3. /\ SubSeq(s, 1, k) \in Seq(S)
        /\ Len(SubSeq(s, 1, k)) = IF 1 <= k THEN k - 1 + 1 ELSE 0
        /\ \A j \in 1..(k - 1 + 1) : SubSeq(s, 1, k)[j] = s[1 + j - 1]
    BY <2>1, SubSeqProperties
  <2>4. /\ SubSeq(front, 1, k) \in Seq(S)
        /\ Len(SubSeq(front, 1, k)) = IF 1 <= k THEN k - 1 + 1 ELSE 0
        /\ \A j \in 1..(k - 1 + 1) : SubSeq(front, 1, k)[j] = front[1 + j - 1]
    BY <2>1, <2>2, SubSeqProperties
  <2> DEFINE a == SubSeq(s, 1, k)
             b == SubSeq(front, 1, k)
  <2>5. a \in Seq(S) /\ Len(a) = k /\ \A j \in 1..k : a[j] = s[j]
    BY <2>1, <2>3
  <2>6. b \in Seq(S) /\ Len(b) = k /\ \A j \in 1..k : b[j] = front[j]
    BY <2>1, <2>4
  <2> HIDE DEF a, b
  <2>7. a = b
    BY <2>1, <2>5, <2>6, SeqEqual
  <2> QED
    BY <2>7 DEF a, b
<1>6. s = Append(front, s[l])
  <2>1. s[l] \in S
    BY <1>1, <1>2
  <2>2. /\ Append(front, s[l]) \in Seq(S) /\ Len(Append(front, s[l])) = l
        /\ \A k \in 1..(l - 1) : Append(front, s[l])[k] = s[k]
        /\ Append(front, s[l])[l] = s[l]
    <3>1. /\ Append(front, s[l]) \in Seq(S) /\ Len(Append(front, s[l])) = (l - 1) + 1
          /\ \A k \in 1..(l - 1) : Append(front, s[l])[k] = front[k]
          /\ Append(front, s[l])[(l - 1) + 1] = s[l]
      BY <1>3, <2>1, AppendProperties
    <3> QED
      BY <1>1, <1>3, <3>1
  <2> DEFINE a == Append(front, s[l])
  <2> HIDE DEF a
  <2>3. \A k \in 1..l : a[k] = s[k]
    BY <1>1, <2>2 DEF a
  <2> QED
    BY <2>2, <2>3, SeqEqual DEF a, l
<1> QED
  BY <1>1, <1>2, <1>3, <1>4, <1>5, <1>6 DEF l, front

\* f gives the empty sequence base, and any other what step makes of the value
\* of its front, and of the sequence.
Recurs(f, S, base, step) ==
  /\ f[<<>>] = base
  /\ \A s \in Seq(S) : s # <<>> =>
       f[s] = step[<<f[SubSeq(s, 1, Len(s) - 1)], s>>]

\* There is such a function.
LEMMA FrontRecursion ==
  ASSUME NEW S, NEW R, NEW base \in R, NEW step \in [R \X Seq(S) -> R]
  PROVE  \E f \in [Seq(S) -> R] : Recurs(f, S, base, step)
<1> DEFINE Runs(s, n) == {h \in [0..n -> R] :
                            /\ h[0] = base
                            /\ \A k \in 1..n : h[k] = step[<<h[k - 1], SubSeq(s, 1, k)>>]}
<1>1. ASSUME NEW s \in Seq(S), NEW k \in 0..Len(s)
      PROVE  SubSeq(s, 1, k) \in Seq(S)
  <2>1. \A j \in 1..k : s[j] \in S
    BY ElementOfSeq
  <2> QED
    BY <2>1, SubSeqProperties
<1>2. ASSUME NEW s \in Seq(S)
      PROVE  Runs(s, Len(s)) # {}
  <2> DEFINE l == Len(s)
             T == {n \in 0..l : Runs(s, n) # {}}
  <2>1. l \in Nat
    OBVIOUS
  <2>2. \A k \in 0..l : SubSeq(s, 1, k) \in Seq(S)
    BY <1>1
  <2> HIDE DEF l
  <2>3. 0 \in T
    <3>1. [k \in 0..0 |-> base] \in Runs(s, 0)
      OBVIOUS
    <3> QED
      BY <2>1, <3>1
  <2>4. ASSUME NEW n \in 0..(l - 1), n \in T PROVE n + 1 \in T
    <3>1. PICK h \in [0..n -> R] :
            /\ h[0] = base
            /\ \A k \in 1..n : h[k] = step[<<h[k - 1], SubSeq(s, 1, k)>>]
      BY <2>4
    <3> DEFINE last == step[<<h[n], SubSeq(s, 1, n + 1)>>]
               g == [k \in 0..(n + 1) |-> IF k <= n THEN h[k] ELSE last]
    <3>2. n \in 0..n /\ n + 1 \in 0..l
      BY <2>1
    <3>3. last \in R
      <4>1. SubSeq(s, 1, n + 1) \in Seq(S) /\ h[n] \in R
        BY <2>2, <3>2
      <4>2. <<h[n], SubSeq(s, 1, n + 1)>> \in R \X Seq(S)
        BY <4>1
      <4> HIDE DEF Runs, T
      <4> QED
        BY <4>2
    <3> HIDE DEF last
    <3>4. g \in [0..(n + 1) -> R] /\ g[0] = base /\ g[n + 1] = last
          /\ \A k \in 0..n : g[k] = h[k]
      BY <3>1, <3>3
    <3> HIDE DEF g
    <3>5. ASSUME NEW k \in 1..(n + 1)
          PROVE  g[k] = step[<<g[k - 1], SubSeq(s, 1, k)>>]
      <4>1. CASE k = n + 1
        <5>1. k - 1 = n /\ n \in 0..n
          BY <4>1
        <5> QED
          BY <3>4, <4>1, <5>1 DEF last
      <4>2. CASE k # n + 1
        <5>1. k \in 1..n /\ k \in 0..n /\ k - 1 \in 0..n
          BY <4>2
        <5> QED
          BY <3>1, <3>4, <5>1
      <4> QED
        BY <4>1, <4>2
    <3>6. g \in Runs(s, n + 1)
      BY <3>4, <3>5
    <3> QED
      BY <3>2, <3>6
  <2> HIDE DEF T
  <2>5. \A n \in 0..l : n \in T
    BY <2>1, <2>3, <2>4, CountUp
  <2>6. l \in T
    BY <2>1, <2>5
  <2> HIDE DEF Runs
  <2> QED
    BY <2>6 DEF T, l
<1> DEFINE run == [s \in Seq(S) |-> CHOOSE h : h \in Runs(s, Len(s))]
           f == [s \in Seq(S) |-> run[s][Len(s)]]
<1>3. \A s \in Seq(S) : run[s] \in Runs(s, Len(s))
  <2> HIDE DEF Runs
  <2> QED
    BY <1>2
<1> HIDE DEF run
<1>4. f \in [Seq(S) -> R]
  <2>1. ASSUME NEW s \in Seq(S) PROVE run[s][Len(s)] \in R
    <3>1. run[s] \in [0..Len(s) -> R] /\ Len(s) \in 0..Len(s)
      BY <1>3
    <3> QED
      BY <3>1
  <2> QED
    BY <2>1
<1>5. f[<<>>] = base
  <2>1. <<>> \in Seq(S) /\ Len(<<>>) = 0
    OBVIOUS
  <2>2. run[<<>>][0] = base
    BY <1>3, <2>1
  <2> QED
    BY <2>1, <2>2
<1>6. ASSUME NEW s \in Seq(S), s # <<>>
      PROVE  f[s] = step[<<f[SubSeq(s, 1, Len(s) - 1)], s>>]
  <2> DEFINE l == Len(s)
             front == SubSeq(s, 1, l - 1)
             h == run[s]
             g == run[front]
  <2>1. /\ front \in Seq(S) /\ Len(front) = l - 1 /\ l \in Nat \ {0}
        /\ SubSeq(s, 1, l) = s
        /\ \A k \in 0..(l - 1) : SubSeq(front, 1, k) = SubSeq(s, 1, k)
    BY <1>6, CutSeq
  <2>2. /\ h[0] = base
        /\ \A k \in 1..l : h[k] = step[<<h[k - 1], SubSeq(s, 1, k)>>]
    BY <1>3
  <2>3. g \in Runs(front, Len(front))
    BY <1>3, <2>1
  <2>4. f[s] = h[l] /\ f[front] = g[Len(front)]
    BY <2>1
  <2> HIDE DEF f, h, g, front, l
  <2>5. /\ g[0] = base
        /\ \A k \in 1..(l - 1) : g[k] = step[<<g[k - 1], SubSeq(front, 1, k)>>]
    BY <2>1, <2>3
  <2> DEFINE T == {k \in 0..(l - 1) : g[k] = h[k]}
  <2>6. \A k \in 0..(l - 1) : k \in T
    <3>1. 0 \in T
      BY <2>1, <2>2, <2>5
    <3>2. ASSUME NEW k \in 0..(l - 1 - 1), k \in T PROVE k + 1 \in T
      <4>1. k + 1 \in 1..(l - 1) /\ k + 1 \in 1..l /\ k + 1 \in 0..(l - 1) /\ (k + 1) - 1 = k
        BY <2>1
      <4>2. g[k + 1] = step[<<g[k], SubSeq(front, 1, k + 1)>>]
        BY <2>5, <4>1
      <4>3. h[k + 1] = step[<<h[k], SubSeq(s, 1, k + 1)>>]
        BY <2>2, <4>1
      <4> QED
        BY <2>1, <3>2, <4>1, <4>2, <4>3
    <3>3. l - 1 \in Nat
      BY <2>1
    <3> HIDE DEF T
    <3> QED
      BY <3>1, <3>2, <3>3, CountUp
  <2>7. g[l - 1] = h[l - 1] /\ l \in 1..l
    BY <2>1, <2>6
  <2>8. f[s] = step[<<f[front], s>>]
    BY <2>1, <2>2, <2>4, <2>7
  <2> QED
    BY <2>8 DEF front, l
<1> HIDE DEF f
<1>7. Recurs(f, S, base, step)
  BY <1>5, <1>6 DEF Recurs
<1> QED
  BY <1>4, <1>7


\* The first characters of a string are one longer than one less of them.
LEMMA CutAt ==
  ASSUME NEW S, NEW s \in Seq(S), NEW k \in 1..Len(s)
  PROVE  /\ SubSeq(s, 1, k) \in Seq(S) /\ Len(SubSeq(s, 1, k)) = k
         /\ SubSeq(s, 1, k) # <<>>
         /\ \A j \in 1..k : SubSeq(s, 1, k)[j] = s[j]
         /\ SubSeq(SubSeq(s, 1, k), 1, k - 1) = SubSeq(s, 1, k - 1)
<1> DEFINE t == SubSeq(s, 1, k)
           a == SubSeq(s, 1, k - 1)
           b == SubSeq(t, 1, k - 1)
<1>1. k \in Nat \ {0} /\ \A j \in 1..k : s[j] \in S
  BY ElementOfSeq
<1>2. /\ t \in Seq(S) /\ Len(t) = IF 1 <= k THEN k - 1 + 1 ELSE 0
      /\ \A j \in 1..(k - 1 + 1) : t[j] = s[1 + j - 1]
  BY <1>1, SubSeqProperties
<1> HIDE DEF t
<1>3. t \in Seq(S) /\ Len(t) = k /\ \A j \in 1..k : t[j] = s[j] /\ t[j] \in S
  BY <1>1, <1>2
<1>4. k - 1 \in Int /\ \A j \in 1..(k - 1) : s[j] \in S /\ t[j] \in S /\ t[j] = s[j]
  BY <1>1, <1>3
<1>5. /\ a \in Seq(S) /\ Len(a) = IF 1 <= k - 1 THEN k - 1 - 1 + 1 ELSE 0
      /\ \A j \in 1..(k - 1 - 1 + 1) : a[j] = s[1 + j - 1]
  BY <1>4, SubSeqProperties
<1>6. /\ b \in Seq(S) /\ Len(b) = IF 1 <= k - 1 THEN k - 1 - 1 + 1 ELSE 0
      /\ \A j \in 1..(k - 1 - 1 + 1) : b[j] = t[1 + j - 1]
  BY <1>4, SubSeqProperties
<1> HIDE DEF a, b
<1>7. Len(a) = k - 1 /\ Len(b) = k - 1 /\ \A j \in 1..(k - 1) : a[j] = b[j]
  BY <1>1, <1>4, <1>5, <1>6
<1>8. a = b
  BY <1>5, <1>6, <1>7, SeqEqual
<1>9. t # <<>>
  BY <1>1, <1>3
<1> QED
  BY <1>3, <1>8, <1>9 DEF t, a, b
=============================================================================
