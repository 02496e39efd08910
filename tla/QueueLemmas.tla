---------------------------- MODULE QueueLemmas ----------------------------
(***************************************************************************)
(* Facts the proofs about several components share: what inserting,        *)
(* unlinking and concatenating do to a queue without repetition; induction *)
(* up to a number, from the least counterexample, and with it the value of *)
(* a loop written as a recursive function; and what storing and taking do  *)
(* to the content of a ring with a head and a tail.                        *)
(***************************************************************************)
EXTENDS Integers, Sequences, SequencesExt, SequenceTheorems, WellFoundedInduction, TLAPS

(* A non-empty set of natural numbers has a least element. *)
LEMMA LeastNatural ==
  ASSUME NEW T, T \subseteq Nat, T # {}
  PROVE  \E x \in T : \A y \in T : x <= y
<1>1. PICK x \in T : \A y \in T : ~ (<<y, x>> \in OpToRel(<, Nat))
  BY WFMin, NatLessThanWellFounded
<1>2. ASSUME NEW y \in T PROVE x <= y
  <2>1. ~ (<<y, x>> \in OpToRel(<, Nat))
    BY <1>1
  <2>2. x \in Nat /\ y \in Nat
    OBVIOUS
  <2>3. ~ (y < x)
    BY <2>1, <2>2, Zenon DEF OpToRel
  <2> QED BY <2>2, <2>3
<1> QED BY <1>2

(* Linking one queue behind another. *)
LEMMA ConcatLinks ==
  ASSUME NEW S, NEW q \in Seq(S), NEW r \in Seq(S)
  PROVE  /\ q \o r \in Seq(S)
         /\ Range(q \o r) = Range(q) \cup Range(r)
         /\ IsInjective(q) /\ IsInjective(r) /\ Range(q) \cap Range(r) = {}
              => IsInjective(q \o r)
<1> DEFINE c == q \o r
           m == Len(q)
           n == Len(r)
<1>1. c \in Seq(S) /\ Range(c) = Range(q) \cup Range(r)
  BY RangeConcatenation, ConcatProperties
<1>2. /\ m \in Nat /\ n \in Nat
      /\ DOMAIN q = 1 .. m /\ DOMAIN r = 1 .. n /\ DOMAIN c = 1 .. m + n
      /\ \A i \in 1 .. m + n : c[i] = IF i <= m THEN q[i] ELSE r[i - m]
  BY <1>1, ConcatProperties, LenProperties
<1> HIDE DEF c, m, n
<1>3. ASSUME IsInjective(q), IsInjective(r), Range(q) \cap Range(r) = {}
      PROVE  IsInjective(c)
  <2> SUFFICES ASSUME NEW a \in 1 .. m + n, NEW b \in 1 .. m + n, c[a] = c[b]
               PROVE  a = b
    BY <1>2 DEF IsInjective
  <2>1. CASE a <= m /\ b <= m
    <3>1. q[a] = q[b] /\ a \in 1 .. m /\ b \in 1 .. m
      BY <1>2, <2>1
    <3> QED BY <3>1, <1>2, <1>3 DEF IsInjective
  <2>2. CASE a > m /\ b > m
    <3>1. r[a - m] = r[b - m] /\ a - m \in 1 .. n /\ b - m \in 1 .. n
      BY <1>2, <2>2
    <3>2. a - m = b - m
      BY <3>1, <1>2, <1>3 DEF IsInjective
    <3> QED BY <3>2, <1>2
  <2>3. CASE a <= m /\ b > m
    <3>1. q[a] = r[b - m] /\ a \in 1 .. m /\ b - m \in 1 .. n
      BY <1>2, <2>3
    <3> QED BY <3>1, <1>2, <1>3 DEF Range
  <2>4. CASE a > m /\ b <= m
    <3>1. q[b] = r[a - m] /\ b \in 1 .. m /\ a - m \in 1 .. n
      BY <1>2, <2>4
    <3> QED BY <3>1, <1>2, <1>3 DEF Range
  <2> QED BY <1>2, <2>1, <2>2, <2>3, <2>4
<1> QED BY <1>1, <1>3 DEF c

(* Appending a process that is not linked. *)
LEMMA AppendLinks ==
  ASSUME NEW S, NEW q \in Seq(S), NEW p \in S
  PROVE  /\ Append(q, p) \in Seq(S)
         /\ Range(Append(q, p)) = Range(q) \cup {p}
         /\ IsInjective(q) /\ p \notin Range(q) => IsInjective(Append(q, p))
<1>1. <<p>> \in Seq(S) /\ Range(<<p>>) = {p} /\ IsInjective(<<p>>)
  BY DEF Range, IsInjective
<1>2. Append(q, p) = q \o <<p>>
  BY AppendIsConcat
<1>3. /\ q \o <<p>> \in Seq(S)
      /\ Range(q \o <<p>>) = Range(q) \cup Range(<<p>>)
      /\ IsInjective(q) /\ IsInjective(<<p>>) /\ Range(q) \cap Range(<<p>>) = {}
           => IsInjective(q \o <<p>>)
  BY <1>1, ConcatLinks, Zenon
<1>4. p \notin Range(q) => Range(q) \cap Range(<<p>>) = {}
  BY <1>1
<1> QED BY <1>1, <1>2, <1>3, <1>4, Zenon

(* Cutting a queue in two leaves the two halves without repetition and       *)
(* without a common process.                                                 *)
LEMMA CutLinks ==
  ASSUME NEW S, NEW q \in Seq(S), IsInjective(q), NEW m \in Nat, NEW n \in Nat,
         m < n, n <= Len(q) + 1
  PROVE  LET left == SubSeq(q, 1, m)
             right == SubSeq(q, n, Len(q)) IN
         /\ left \in Seq(S) /\ right \in Seq(S)
         /\ IsInjective(left) /\ IsInjective(right)
         /\ Range(left) = {q[j] : j \in 1 .. m}
         /\ Range(right) = {q[j] : j \in n .. Len(q)}
         /\ Range(left) \cap Range(right) = {}
<1> DEFINE left == SubSeq(q, 1, m)
           right == SubSeq(q, n, Len(q))
<1>0. Len(q) \in Nat /\ DOMAIN q = 1 .. Len(q) /\ \A j \in 1 .. Len(q) : q[j] \in S
  BY LenProperties, ElementOfSeq
<1>1. /\ left \in Seq(S) /\ Len(left) = m
      /\ \A j \in 1 .. m : left[j] = q[j]
  <2>1. \A i \in 1 .. m : q[i] \in S
    BY <1>0
  <2>2. /\ left \in Seq(S) /\ Len(left) = IF 1 <= m THEN m - 1 + 1 ELSE 0
        /\ \A i \in 1 .. m - 1 + 1 : left[i] = q[1 + i - 1]
    BY <2>1, SubSeqProperties, SMT
  <2> QED BY <2>2
<1>2. /\ right \in Seq(S) /\ Len(right) = Len(q) - n + 1
      /\ \A j \in 1 .. Len(q) - n + 1 : right[j] = q[n + j - 1]
  <2>1. \A i \in n .. Len(q) : q[i] \in S
    BY <1>0
  <2>2. /\ right \in Seq(S) /\ Len(right) = IF n <= Len(q) THEN Len(q) - n + 1 ELSE 0
        /\ \A i \in 1 .. Len(q) - n + 1 : right[i] = q[n + i - 1]
    BY <2>1, <1>0, SubSeqProperties, SMT
  <2> QED BY <2>2, <1>0
<1>3. DOMAIN left = 1 .. m /\ DOMAIN right = 1 .. Len(q) - n + 1
  BY <1>1, <1>2, LenProperties
<1> HIDE DEF left, right
<1>0a. \A a, b \in 1 .. Len(q) : q[a] = q[b] => a = b
  BY <1>0 DEF IsInjective
<1>4. IsInjective(left) /\ IsInjective(right)
  <2>1. ASSUME NEW a \in 1 .. m, NEW b \in 1 .. m, left[a] = left[b] PROVE a = b
    <3>1. a \in 1 .. Len(q) /\ b \in 1 .. Len(q) /\ q[a] = q[b]
      BY <2>1, <1>0, <1>1
    <3> QED BY <3>1, <1>0a
  <2>2. ASSUME NEW a \in 1 .. Len(q) - n + 1, NEW b \in 1 .. Len(q) - n + 1,
               right[a] = right[b]
        PROVE  a = b
    <3>1. /\ n + a - 1 \in 1 .. Len(q) /\ n + b - 1 \in 1 .. Len(q)
          /\ q[n + a - 1] = q[n + b - 1]
      BY <2>2, <1>0, <1>2
    <3>2. n + a - 1 = n + b - 1
      BY <3>1, <1>0a
    <3> QED BY <3>2, <1>0
  <2> QED BY <1>3, <2>1, <2>2 DEF IsInjective
<1>5. Range(left) = {q[j] : j \in 1 .. m}
  BY <1>1, <1>3 DEF Range
<1>6. Range(right) = {q[j] : j \in n .. Len(q)}
  <2>1. ASSUME NEW j \in n .. Len(q) PROVE q[j] \in Range(right)
    <3>1. j - n + 1 \in DOMAIN right /\ right[j - n + 1] = q[n + (j - n + 1) - 1]
      BY <1>0, <1>2, <1>3
    <3> QED BY <3>1 DEF Range
  <2>2. ASSUME NEW k \in DOMAIN right PROVE right[k] \in {q[j] : j \in n .. Len(q)}
    <3>1. n + k - 1 \in n .. Len(q) /\ right[k] = q[n + k - 1]
      BY <1>0, <1>2, <1>3
    <3> QED BY <3>1
  <2> QED BY <2>1, <2>2 DEF Range
<1>7. Range(left) \cap Range(right) = {}
  BY <1>0, <1>0a, <1>5, <1>6
<1> QED BY <1>1, <1>2, <1>4, <1>5, <1>6, <1>7 DEF left, right

(* Inserting a process that is not linked, anywhere. *)
LEMMA InsertLinks ==
  ASSUME NEW S, NEW q \in Seq(S), NEW p \in S, IsInjective(q), p \notin Range(q),
         NEW k \in 1 .. Len(q) + 1
  PROVE  /\ InsertAt(q, k, p) \in Seq(S)
         /\ Range(InsertAt(q, k, p)) = Range(q) \cup {p}
         /\ IsInjective(InsertAt(q, k, p))
<1> DEFINE left == SubSeq(q, 1, k - 1)
           right == SubSeq(q, k, Len(q))
<1>0. Len(q) \in Nat /\ DOMAIN q = 1 .. Len(q) /\ k - 1 \in Nat /\ k \in Nat
  BY LenProperties
<1>1. /\ left \in Seq(S) /\ right \in Seq(S)
      /\ IsInjective(left) /\ IsInjective(right)
      /\ Range(left) = {q[j] : j \in 1 .. k - 1}
      /\ Range(right) = {q[j] : j \in k .. Len(q)}
      /\ Range(left) \cap Range(right) = {}
  BY <1>0, CutLinks
<1>2. InsertAt(q, k, p) = (left \o <<p>>) \o right
  BY DEF InsertAt
<1> HIDE DEF left, right
<1>3. Range(left) \cup Range(right) = Range(q)
  <2>1. Range(q) = {q[j] : j \in 1 .. Len(q)}
    BY <1>0 DEF Range
  <2>2. \A j : j \in 1 .. Len(q) <=> j \in 1 .. k - 1 \/ j \in k .. Len(q)
    BY <1>0
  <2> QED BY <1>1, <2>1, <2>2
<1>4. <<p>> \in Seq(S) /\ Range(<<p>>) = {p} /\ IsInjective(<<p>>)
  BY DEF Range, IsInjective
<1>5. Range(left) \cap Range(<<p>>) = {}
  BY <1>3, <1>4
<1> DEFINE front == left \o <<p>>
<1>6. front \in Seq(S) /\ Range(front) = Range(left) \cup Range(<<p>>) /\ IsInjective(front)
  <2>1. /\ left \o <<p>> \in Seq(S)
        /\ Range(left \o <<p>>) = Range(left) \cup Range(<<p>>)
        /\ IsInjective(left) /\ IsInjective(<<p>>) /\ Range(left) \cap Range(<<p>>) = {}
             => IsInjective(left \o <<p>>)
    BY <1>1, <1>4, ConcatLinks, Zenon
  <2> QED BY <2>1, <1>1, <1>4, <1>5, Zenon
<1> HIDE DEF front
<1>7. Range(front) \cap Range(right) = {}
  BY <1>1, <1>3, <1>4, <1>6
<1>8. /\ front \o right \in Seq(S)
      /\ Range(front \o right) = Range(front) \cup Range(right)
      /\ IsInjective(front \o right)
  <2>1. /\ front \o right \in Seq(S)
        /\ Range(front \o right) = Range(front) \cup Range(right)
        /\ IsInjective(front) /\ IsInjective(right) /\ Range(front) \cap Range(right) = {}
             => IsInjective(front \o right)
    BY <1>1, <1>6, ConcatLinks, Zenon
  <2> QED BY <2>1, <1>1, <1>6, <1>7, Zenon
<1>9. Range(front) \cup Range(right) = Range(q) \cup {p}
  BY <1>3, <1>4, <1>6
<1> QED BY <1>2, <1>8, <1>9, Zenon DEF front

(* Unlinking the process at position i. *)
LEMMA RemoveUnlinks ==
  ASSUME NEW S, NEW q \in Seq(S), IsInjective(q), NEW i \in DOMAIN q
  PROVE  /\ RemoveAt(q, i) \in Seq(S)
         /\ Range(RemoveAt(q, i)) = Range(q) \ {q[i]}
         /\ IsInjective(RemoveAt(q, i))
<1> DEFINE left == SubSeq(q, 1, i - 1)
           right == SubSeq(q, i + 1, Len(q))
<1>0. Len(q) \in Nat /\ DOMAIN q = 1 .. Len(q) /\ i \in 1 .. Len(q)
      /\ i - 1 \in Nat /\ i + 1 \in Nat
  BY LenProperties
<1>1. /\ left \in Seq(S) /\ right \in Seq(S)
      /\ IsInjective(left) /\ IsInjective(right)
      /\ Range(left) = {q[j] : j \in 1 .. i - 1}
      /\ Range(right) = {q[j] : j \in i + 1 .. Len(q)}
      /\ Range(left) \cap Range(right) = {}
  BY <1>0, CutLinks
<1>2. RemoveAt(q, i) = left \o right
  BY DEF RemoveAt
<1> HIDE DEF left, right
<1>3. Range(left) \cup Range(right) = Range(q) \ {q[i]}
  <2>1. \A j \in 1 .. Len(q) : q[j] = q[i] => j = i
    BY <1>0 DEF IsInjective
  <2>2. Range(q) = {q[j] : j \in 1 .. Len(q)}
    BY <1>0 DEF Range
  <2> QED BY <1>0, <1>1, <2>1, <2>2
<1>4. /\ left \o right \in Seq(S)
      /\ Range(left \o right) = Range(left) \cup Range(right)
      /\ IsInjective(left \o right)
  <2>1. /\ left \o right \in Seq(S)
        /\ Range(left \o right) = Range(left) \cup Range(right)
        /\ IsInjective(left) /\ IsInjective(right) /\ Range(left) \cap Range(right) = {}
             => IsInjective(left \o right)
    BY <1>1, ConcatLinks, Zenon
  <2> QED BY <2>1, <1>1, Zenon
<1> QED BY <1>2, <1>3, <1>4, Zenon

(* Where the members of a queue are after an insertion or a removal. *)
LEMMA InsertElements ==
  ASSUME NEW S, NEW q \in Seq(S), NEW p \in S, NEW k \in 1 .. Len(q) + 1
  PROVE  /\ InsertAt(q, k, p) \in Seq(S) /\ Len(InsertAt(q, k, p)) = Len(q) + 1
         /\ \A j \in 1 .. Len(q) + 1 :
              InsertAt(q, k, p)[j] = IF j < k THEN q[j] ELSE IF j = k THEN p ELSE q[j - 1]
<1> DEFINE left == SubSeq(q, 1, k - 1)
           right == SubSeq(q, k, Len(q))
           front == left \o <<p>>
           n == Len(q)
<1>0. n \in Nat /\ k \in Nat /\ \A j \in 1 .. n : q[j] \in S
  BY LenProperties, ElementOfSeq
<1>1. left \in Seq(S) /\ Len(left) = k - 1 /\ \A j \in 1 .. k - 1 : left[j] = q[j]
  <2>1. \A i \in 1 .. k - 1 : q[i] \in S
    BY <1>0
  <2>2. /\ left \in Seq(S) /\ Len(left) = IF 1 <= k - 1 THEN (k - 1) - 1 + 1 ELSE 0
        /\ \A i \in 1 .. (k - 1) - 1 + 1 : left[i] = q[1 + i - 1]
    BY <1>0, <2>1, SubSeqProperties, SMT
  <2> QED BY <1>0, <2>2
<1>2. right \in Seq(S) /\ Len(right) = n - k + 1 /\ \A j \in 1 .. n - k + 1 : right[j] = q[k + j - 1]
  <2>1. \A i \in k .. n : q[i] \in S
    BY <1>0
  <2>2. /\ right \in Seq(S) /\ Len(right) = IF k <= n THEN n - k + 1 ELSE 0
        /\ \A i \in 1 .. n - k + 1 : right[i] = q[k + i - 1]
    BY <1>0, <2>1, SubSeqProperties, SMT
  <2> QED BY <1>0, <2>2
<1>3. InsertAt(q, k, p) = front \o right
  BY DEF InsertAt
<1> HIDE DEF left, right
<1>4. /\ front \in Seq(S) /\ Len(front) = k
      /\ \A j \in 1 .. k : front[j] = IF j < k THEN q[j] ELSE p
  <2>1. <<p>> \in Seq(S) /\ Len(<<p>>) = 1 /\ <<p>>[1] = p
    OBVIOUS
  <2>2. /\ front \in Seq(S) /\ Len(front) = Len(left) + Len(<<p>>)
        /\ \A i \in 1 .. Len(left) + Len(<<p>>) :
             front[i] = IF i <= Len(left) THEN left[i] ELSE <<p>>[i - Len(left)]
    BY <1>1, <2>1, ConcatProperties
  <2>3. \A i \in 1 .. k : front[i] = IF i <= k - 1 THEN left[i] ELSE <<p>>[i - (k - 1)]
    BY <1>0, <1>1, <2>1, <2>2
  <2>4. \A i \in 1 .. k : i <= k - 1 \/ i - (k - 1) = 1
    BY <1>0
  <2> HIDE DEF front
  <2>5. ASSUME NEW j \in 1 .. k PROVE front[j] = IF j < k THEN q[j] ELSE p
    <3>1. CASE j < k
      BY <1>0, <1>1, <2>3, <3>1
    <3>2. CASE ~(j < k)
      BY <1>0, <2>1, <2>3, <2>4, <3>2
    <3> QED BY <3>1, <3>2
  <2> QED BY <1>0, <1>1, <2>1, <2>2, <2>5
<1> HIDE DEF front
<1>5. /\ front \o right \in Seq(S) /\ Len(front \o right) = Len(front) + Len(right)
      /\ \A i \in 1 .. Len(front) + Len(right) :
           (front \o right)[i] = IF i <= Len(front) THEN front[i] ELSE right[i - Len(front)]
  BY <1>2, <1>4, ConcatProperties
<1>6. /\ front \o right \in Seq(S) /\ Len(front \o right) = n + 1
      /\ \A i \in 1 .. n + 1 : (front \o right)[i] = IF i <= k THEN front[i] ELSE right[i - k]
  BY <1>0, <1>2, <1>4, <1>5
<1>7. ASSUME NEW j \in 1 .. n + 1
      PROVE  (front \o right)[j] = IF j < k THEN q[j] ELSE IF j = k THEN p ELSE q[j - 1]
  <2>1. CASE j <= k
    BY <1>0, <1>4, <1>6, <2>1
  <2>2. CASE ~(j <= k)
    <3>1. j - k \in 1 .. n - k + 1 /\ k + (j - k) - 1 = j - 1
      BY <1>0, <2>2
    <3>2. right[j - k] = q[j - 1]
      BY <1>2, <3>1
    <3> QED BY <1>0, <1>6, <2>2, <3>2
  <2> QED BY <2>1, <2>2
<1> QED BY <1>3, <1>6, <1>7

LEMMA RemoveElements ==
  ASSUME NEW S, NEW q \in Seq(S), NEW i \in 1 .. Len(q)
  PROVE  /\ RemoveAt(q, i) \in Seq(S) /\ Len(RemoveAt(q, i)) = Len(q) - 1
         /\ \A j \in 1 .. Len(q) - 1 : RemoveAt(q, i)[j] = IF j < i THEN q[j] ELSE q[j + 1]
<1> DEFINE left == SubSeq(q, 1, i - 1)
           right == SubSeq(q, i + 1, Len(q))
           n == Len(q)
<1>0. n \in Nat /\ i \in 1 .. n /\ \A j \in 1 .. n : q[j] \in S
  BY LenProperties, ElementOfSeq
<1>1. left \in Seq(S) /\ Len(left) = i - 1 /\ \A j \in 1 .. i - 1 : left[j] = q[j]
  <2>1. \A j \in 1 .. i - 1 : q[j] \in S
    BY <1>0
  <2>2. /\ left \in Seq(S) /\ Len(left) = IF 1 <= i - 1 THEN (i - 1) - 1 + 1 ELSE 0
        /\ \A j \in 1 .. (i - 1) - 1 + 1 : left[j] = q[1 + j - 1]
    BY <1>0, <2>1, SubSeqProperties, SMT
  <2> QED BY <1>0, <2>2
<1>2. right \in Seq(S) /\ Len(right) = n - i /\ \A j \in 1 .. n - i : right[j] = q[i + j]
  <2>1. \A j \in i + 1 .. n : q[j] \in S
    BY <1>0
  <2>2. /\ right \in Seq(S) /\ Len(right) = IF i + 1 <= n THEN n - (i + 1) + 1 ELSE 0
        /\ \A j \in 1 .. n - (i + 1) + 1 : right[j] = q[i + 1 + j - 1]
    BY <1>0, <2>1, SubSeqProperties, SMT
  <2> QED BY <1>0, <2>2
<1>3. RemoveAt(q, i) = left \o right
  BY DEF RemoveAt
<1> HIDE DEF left, right
<1>4. /\ left \o right \in Seq(S) /\ Len(left \o right) = Len(left) + Len(right)
      /\ \A j \in 1 .. Len(left) + Len(right) :
           (left \o right)[j] = IF j <= Len(left) THEN left[j] ELSE right[j - Len(left)]
  BY <1>1, <1>2, ConcatProperties
<1>5. /\ left \o right \in Seq(S) /\ Len(left \o right) = n - 1
      /\ \A j \in 1 .. n - 1 : (left \o right)[j] = IF j <= i - 1 THEN left[j] ELSE right[j - (i - 1)]
  BY <1>0, <1>1, <1>2, <1>4
<1>6. ASSUME NEW j \in 1 .. n - 1
      PROVE  (left \o right)[j] = IF j < i THEN q[j] ELSE q[j + 1]
  <2>1. CASE j < i
    BY <1>0, <1>1, <1>5, <2>1
  <2>2. CASE ~(j < i)
    <3>1. j - (i - 1) \in 1 .. n - i /\ i + (j - (i - 1)) = j + 1
      BY <1>0, <2>2
    <3>2. right[j - (i - 1)] = q[j + 1]
      BY <1>2, <3>1
    <3> QED BY <1>0, <1>5, <2>2, <3>2
  <2> QED BY <2>1, <2>2
<1> QED BY <1>3, <1>5, <1>6

----------------------------------------------------------------------------
(* Induction up to n, about a set of numbers. *)
LEMMA UpTo ==
  ASSUME NEW n \in Nat, NEW T, 0 \in T, \A k \in 1 .. n : k - 1 \in T => k \in T
  PROVE  0 .. n \subseteq T
<1> SUFFICES ASSUME (0 .. n) \ T # {} PROVE FALSE
  OBVIOUS
<1>1. (0 .. n) \ T \subseteq Nat
  OBVIOUS
<1>2. PICK x \in (0 .. n) \ T : \A y \in (0 .. n) \ T : x <= y
  BY <1>1, LeastNatural
<1>3. x \in 1 .. n /\ x - 1 \in 0 .. n /\ ~(x <= x - 1)
  BY <1>2
<1>4. x - 1 \in T
  BY <1>2, <1>3
<1> QED BY <1>2, <1>3, <1>4

(* A loop of n turns has a value after every turn. *)
LEMMA LoopExists ==
  ASSUME NEW S, NEW e \in S, NEW n \in Nat, NEW turn \in [1 .. n -> [S -> S]]
  PROVE  \E f \in [0 .. n -> S] : f[0] = e /\ \A k \in 1 .. n : f[k] = turn[k][f[k - 1]]
<1> DEFINE Is(f, m) == f = [k \in 0 .. m |-> IF k = 0 THEN e ELSE turn[k][f[k - 1]]]
           T == {m \in 0 .. n : \E f \in [0 .. m -> S] : Is(f, m)}
<1>1. 0 \in T
  <2> DEFINE f == [k \in 0 .. 0 |-> e]
  <2>1. f \in [0 .. 0 -> S] /\ f[0] = e
    OBVIOUS
  <2>2. Is(f, 0)
    OBVIOUS
  <2> HIDE DEF f, Is
  <2> QED BY <2>1, <2>2
<1>2. ASSUME NEW m \in 1 .. n, m - 1 \in T PROVE m \in T
  <2>1. PICK g \in [0 .. m - 1 -> S] : Is(g, m - 1)
    BY <1>2
  <2> DEFINE f == [k \in 0 .. m |-> IF k < m THEN g[k] ELSE turn[m][g[m - 1]]]
  <2>2. m - 1 \in 0 .. m - 1 /\ g[m - 1] \in S /\ turn[m] \in [S -> S]
    OBVIOUS
  <2>3. turn[m][g[m - 1]] \in S
    BY <2>2
  <2>4. f \in [0 .. m -> S]
    BY <2>3
  <2>5. ASSUME NEW k \in 0 .. m PROVE f[k] = IF k = 0 THEN e ELSE turn[k][f[k - 1]]
    <3>1. CASE k = m
      <4>1. f[k - 1] = g[m - 1] /\ f[k] = turn[m][g[m - 1]] /\ k # 0
        BY <3>1
      <4> QED BY <3>1, <4>1
    <3>2. CASE k < m
      <4>1. k \in 0 .. m - 1 /\ f[k] = g[k] /\ (k # 0 => f[k - 1] = g[k - 1])
        BY <3>2
      <4>2. g[k] = IF k = 0 THEN e ELSE turn[k][g[k - 1]]
        BY <2>1, <4>1
      <4> QED BY <4>1, <4>2
    <3> QED BY <3>1, <3>2
  <2>6. Is(f, m)
    BY <2>5
  <2> HIDE DEF f, Is
  <2> QED BY <2>4, <2>6
<1>3. n \in T
  <2> HIDE DEF T
  <2>1. 0 .. n \subseteq T
    BY <1>1, <1>2, UpTo
  <2> QED BY <2>1
<1>4. PICK f \in [0 .. n -> S] : Is(f, n)
  BY <1>3
<1>5. f[0] = e /\ \A k \in 1 .. n : f[k] = turn[k][f[k - 1]]
  BY <1>4
<1> QED BY <1>5

----------------------------------------------------------------------------
(* A ring of S positions with head h and tail t: the positions from tail up   *)
(* to head, oldest first; how it is without remainders; and what the          *)
(* operations on it do.                                                       *)
RingContent(S, h, t, r) == [k \in 1 .. (h - t + S) % S |-> r[(t + k - 1) % S]]
RingLen(S, h, t) == IF h < t THEN h - t + S ELSE h - t
RingAt(S, t, k) == IF t + k - 1 < S THEN t + k - 1 ELSE t + k - 1 - S
RingNext(S, k) == IF k + 1 = S THEN 0 ELSE k + 1

LEMMA RingIs ==
  ASSUME NEW S \in Nat \ {0}, NEW h \in 0 .. S - 1, NEW t \in 0 .. S - 1, NEW r
  PROVE  /\ RingLen(S, h, t) \in 0 .. S - 1
         /\ RingContent(S, h, t, r) = [k \in 1 .. RingLen(S, h, t) |-> r[RingAt(S, t, k)]]
         /\ \A k \in 1 .. RingLen(S, h, t) : RingAt(S, t, k) \in 0 .. S - 1 /\ RingAt(S, t, k) # h
<1>1. RingLen(S, h, t) \in 0 .. S - 1
  BY DEF RingLen
<1>2. (h - t + S) % S = RingLen(S, h, t)
  <2>1. h - t + S \in 0 .. 2 * S - 1
    OBVIOUS
  <2>2. (h - t + S) % S = IF h - t + S < S THEN h - t + S ELSE h - t + S - S
    BY <2>1
  <2> QED BY <2>2 DEF RingLen
<1>3. ASSUME NEW k \in 1 .. RingLen(S, h, t) PROVE (t + k - 1) % S = RingAt(S, t, k)
  <2>1. t + k - 1 \in 0 .. 2 * S - 1
    BY <1>1
  <2>2. (t + k - 1) % S = IF t + k - 1 < S THEN t + k - 1 ELSE t + k - 1 - S
    BY <2>1
  <2> QED BY <2>2 DEF RingAt
<1>4. \A k \in 1 .. RingLen(S, h, t) : RingAt(S, t, k) \in 0 .. S - 1 /\ RingAt(S, t, k) # h
  BY <1>1 DEF RingAt, RingLen
<1>5. RingContent(S, h, t, r) = [k \in 1 .. RingLen(S, h, t) |-> r[RingAt(S, t, k)]]
  BY <1>2, <1>3 DEF RingContent
<1> QED BY <1>1, <1>4, <1>5

(* The content is a sequence of what the positions hold. *)
LEMMA RingType ==
  ASSUME NEW S \in Nat \ {0}, NEW h \in 0 .. S - 1, NEW t \in 0 .. S - 1, NEW M,
         NEW r \in [0 .. S - 1 -> M]
  PROVE  RingContent(S, h, t, r) \in Seq(M) /\ Len(RingContent(S, h, t, r)) = RingLen(S, h, t)
<1>1. \A k \in 1 .. RingLen(S, h, t) : r[RingAt(S, t, k)] \in M
  BY RingIs
<1>2. RingLen(S, h, t) \in Nat /\ RingContent(S, h, t, r) = [k \in 1 .. RingLen(S, h, t) |-> r[RingAt(S, t, k)]]
  BY RingIs
<1> QED BY <1>1, <1>2

(* Storing at head, which is outside the content, does not change it. *)
LEMMA RingStore ==
  ASSUME NEW S \in Nat \ {0}, NEW h \in 0 .. S - 1, NEW t \in 0 .. S - 1, NEW r, NEW r2,
         \A k \in 0 .. S - 1 : k # h => r2[k] = r[k]
  PROVE  RingContent(S, h, t, r2) = RingContent(S, h, t, r)
<1>1. \A k \in 1 .. RingLen(S, h, t) : r2[RingAt(S, t, k)] = r[RingAt(S, t, k)]
  BY RingIs
<1> QED BY <1>1, RingIs

(* Advancing head past a position appends what it holds. *)
LEMMA RingPush ==
  ASSUME NEW S \in Nat \ {0}, NEW h \in 0 .. S - 1, NEW t \in 0 .. S - 1, NEW M,
         NEW r \in [0 .. S - 1 -> M], NEW u, u = RingNext(S, h), u # t
  PROVE  RingContent(S, u, t, r) = Append(RingContent(S, h, t, r), r[h])
<1>1. u \in 0 .. S - 1
  BY DEF RingNext
<1>2. RingLen(S, u, t) = RingLen(S, h, t) + 1 /\ RingLen(S, h, t) \in Nat
  BY DEF RingLen, RingNext
<1>3. RingAt(S, t, RingLen(S, h, t) + 1) = h
  BY <1>2 DEF RingAt, RingLen
<1>4. RingContent(S, h, t, r) = [k \in 1 .. RingLen(S, h, t) |-> r[RingAt(S, t, k)]]
  BY RingIs
<1>5. RingContent(S, u, t, r) = [k \in 1 .. RingLen(S, h, t) + 1 |-> r[RingAt(S, t, k)]]
  BY <1>1, <1>2, RingIs
<1>6. \A k \in 1 .. RingLen(S, h, t) : r[RingAt(S, t, k)] \in M
  BY RingIs
<1> QED BY <1>2, <1>3, <1>4, <1>5, <1>6

(* Advancing tail takes the first element off. *)
LEMMA RingPop ==
  ASSUME NEW S \in Nat \ {0}, NEW h \in 0 .. S - 1, NEW t \in 0 .. S - 1, NEW r,
         NEW u, u = RingNext(S, t), h # t
  PROVE  /\ u \in 0 .. S - 1 /\ RingLen(S, h, t) \in Nat \ {0} /\ RingLen(S, h, u) = RingLen(S, h, t) - 1
         /\ RingContent(S, h, t, r)[1] = r[t]
         /\ \A k \in 1 .. RingLen(S, h, t) - 1 :
              RingContent(S, h, u, r)[k] = RingContent(S, h, t, r)[k + 1]
<1>1. u \in 0 .. S - 1
  BY DEF RingNext
<1>2. RingLen(S, h, u) = RingLen(S, h, t) - 1 /\ RingLen(S, h, t) \in Nat \ {0} /\ RingLen(S, h, t) < S
  BY DEF RingLen, RingNext
<1>3. RingAt(S, t, 1) = t
  BY DEF RingAt
<1>4. ASSUME NEW k \in 1 .. RingLen(S, h, t) - 1 PROVE RingAt(S, u, k) = RingAt(S, t, k + 1)
  <2>1. k \in Nat /\ k + 1 < S
    BY <1>2
  <2> QED BY <2>1 DEF RingAt, RingNext
<1>5. RingContent(S, h, t, r) = [k \in 1 .. RingLen(S, h, t) |-> r[RingAt(S, t, k)]]
  BY RingIs
<1>6. RingContent(S, h, u, r) = [k \in 1 .. RingLen(S, h, t) - 1 |-> r[RingAt(S, u, k)]]
  BY <1>1, <1>2, RingIs
<1>7. \A k \in 1 .. RingLen(S, h, t) - 1 : k + 1 \in 1 .. RingLen(S, h, t)
  BY <1>2
<1> QED BY <1>1, <1>2, <1>3, <1>4, <1>5, <1>6, <1>7

(* A loop that adds up numbers is a function. *)
LEMMA SumLoop ==
  ASSUME NEW n \in Nat, NEW a \in [1 .. n -> Nat]
  PROVE  \E f \in [0 .. n -> Nat] : f[0] = 0 /\ \A k \in 1 .. n : f[k] = f[k - 1] + a[k]
<1> DEFINE turn == [k \in 1 .. n |-> [s \in Nat |-> s + a[k]]]
<1>1. turn \in [1 .. n -> [Nat -> Nat]]
  OBVIOUS
<1>2. PICK f \in [0 .. n -> Nat] : f[0] = 0 /\ \A k \in 1 .. n : f[k] = turn[k][f[k - 1]]
  <2> HIDE DEF turn
  <2> DEFINE L(S, e, t) ==
        \E f \in [0 .. n -> S] : f[0] = e /\ \A k \in 1 .. n : f[k] = t[k][f[k - 1]]
  <2>1. ASSUME NEW S, NEW e \in S, NEW t \in [1 .. n -> [S -> S]] PROVE L(S, e, t)
    BY LoopExists
  <2>2. L(Nat, 0, turn)
    <3> HIDE DEF L
    <3> QED BY <1>1, <2>1
  <2> QED BY <2>2
<1>3. ASSUME NEW k \in 1 .. n PROVE f[k] = f[k - 1] + a[k]
  <2>1. f[k] = turn[k][f[k - 1]] /\ f[k - 1] \in Nat
    <3> HIDE DEF turn
    <3> QED BY <1>2
  <2> QED BY <2>1
<1> QED BY <1>2, <1>3

=============================================================================
