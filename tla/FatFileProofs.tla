-------------------------- MODULE FatFileProofs --------------------------
(***************************************************************************)
(* Proofs about FatFile, for any number of clusters, files and handles and *)
(* any sizes: a handle stays on the chain of its file, its buffer is the   *)
(* sector its offset is in, and no byte and no length is lost.             *)
(*                                                                         *)
(* Chains are described by two functions: the file that a cluster belongs  *)
(* to, and how far it is from the start of that file.  A step only adds to *)
(* them, so that what holds of every other file and handle stays true.     *)
(***************************************************************************)
EXTENDS FatFile, QueueLemmas, FiniteSetTheorems

(* The sector and the cluster of the file that offset o is in, and the sector
   within the cluster *)
Sec(o) == o \div SECT_SIZE
Clus(o) == o \div ClustSize
InClust(o) == (o \div SECT_SIZE) % SECT_PER_CLUST

-----------------------------------------------------------------------------
(* Arithmetic *)

LEMMA Sizes ==
  /\ SECT_SIZE \in Nat \ {0} /\ SECT_PER_CLUST \in Nat \ {0}
  /\ ClustSize \in Nat \ {0} /\ ClustSize = SECT_SIZE * SECT_PER_CLUST
<1>1. SECT_SIZE \in Nat \ {0} /\ SECT_PER_CLUST \in Nat \ {0}
  BY FileAssumption
<1>2. \A a, b \in Nat \ {0} : a * b \in Nat \ {0}
  OBVIOUS
<1> QED BY <1>1, <1>2 DEF ClustSize

LEMMA Division ==
  ASSUME NEW a \in Nat, NEW b \in Nat \ {0}
  PROVE  a \div b \in Nat /\ a % b \in 0 .. b - 1 /\ a = b * (a \div b) + (a % b)
OBVIOUS

LEMMA Quotient ==
  ASSUME NEW a \in Nat, NEW b \in Nat \ {0}, NEW q \in Int, NEW r \in 0 .. b - 1, a = b * q + r
  PROVE  a \div b = q /\ a % b = r
<1>1. PICK x, y : x = a \div b /\ y = a % b
  OBVIOUS
<1>2. x \in Int /\ y \in 0 .. b - 1 /\ b * x + y = b * q + r
  BY <1>1, Division
<1>3. x = q
  <2>1. b * (x - q) = r - y
    BY <1>2
  <2>2. CASE x - q >= 1
    <3>1. b * (x - q) >= b
      BY <1>2, <2>2
    <3> QED BY <1>2, <2>1, <3>1
  <2>3. CASE x - q <= 0 - 1
    <3>1. b * (x - q) <= 0 - b
      BY <1>2, <2>3
    <3> QED BY <1>2, <2>1, <3>1
  <2> QED BY <1>2, <2>2, <2>3
<1> QED BY <1>1, <1>2, <1>3

LEMMA Places ==
  ASSUME NEW o \in Nat
  PROVE  /\ Sec(o) \in Nat /\ Clus(o) \in Nat /\ InClust(o) \in 0 .. SECT_PER_CLUST - 1
         /\ o % SECT_SIZE \in 0 .. SECT_SIZE - 1 /\ o = SECT_SIZE * Sec(o) + (o % SECT_SIZE)
         /\ Sec(o) = SECT_PER_CLUST * Clus(o) + InClust(o)
<1>1. PICK s, p, x, y, q, r : /\ s = SECT_SIZE /\ p = SECT_PER_CLUST /\ x = o \div s /\ y = o % s
                              /\ q = x \div p /\ r = x % p
  OBVIOUS
<1>2. s \in Nat \ {0} /\ p \in Nat \ {0} /\ ClustSize = s * p /\ ClustSize \in Nat \ {0}
  BY <1>1, Sizes
<1>3. x \in Nat /\ y \in 0 .. s - 1 /\ o = s * x + y
  BY <1>1, <1>2, Division
<1>4. q \in Nat /\ r \in 0 .. p - 1 /\ x = p * q + r
  BY <1>1, <1>2, <1>3, Division
<1>5. o = (s * p) * q + (s * r + y)
  <2>1. s * (p * q + r) = (s * p) * q + s * r
    BY <1>2, <1>4
  <2> QED BY <1>2, <1>3, <1>4, <2>1
<1>6. s * r + y \in 0 .. (s * p) - 1
  <2>1. s * r <= s * (p - 1) /\ s * r >= 0
    BY <1>2, <1>4
  <2>2. s * (p - 1) = s * p - s
    BY <1>2
  <2> QED BY <1>2, <1>3, <1>4, <2>1, <2>2
<1>7. o \div ClustSize = q
  <2>1. PICK b, z : b = s * p /\ z = s * r + y
    OBVIOUS
  <2>2. b \in Nat \ {0} /\ z \in 0 .. b - 1 /\ o = b * q + z /\ b = ClustSize /\ q \in Int
    BY <1>2, <1>4, <1>5, <1>6, <2>1
  <2> QED BY ONLY <2>2, o \in Nat, Quotient
<1> QED BY <1>1, <1>3, <1>4, <1>7 DEF Sec, Clus, InClust

LEMMA SameSector ==
  ASSUME NEW o \in Nat, NEW p \in Nat
  PROVE  /\ Clus(o) = Clus(p) /\ InClust(o) = InClust(p) => Sec(o) = Sec(p)
         /\ Sec(o) = Sec(p) => Clus(o) = Clus(p) /\ InClust(o) = InClust(p)
<1>1. Clus(o) = Clus(p) /\ InClust(o) = InClust(p) => Sec(o) = Sec(p)
  BY Places
<1>2. ASSUME Sec(o) = Sec(p) PROVE Clus(o) = Clus(p) /\ InClust(o) = InClust(p)
  <2>1. PICK b, x, q, r, u, w : /\ b = SECT_PER_CLUST /\ x = Sec(o) /\ q = Clus(o) /\ r = InClust(o)
                                /\ u = Clus(p) /\ w = InClust(p)
    OBVIOUS
  <2>2. /\ b \in Nat \ {0} /\ x \in Nat /\ q \in Int /\ u \in Int /\ r \in 0 .. b - 1 /\ w \in 0 .. b - 1
        /\ x = b * q + r /\ x = b * u + w
    BY <1>2, <2>1, Places, Sizes
  <2>3. x \div b = q /\ x % b = r
    BY ONLY <2>2, Quotient
  <2>4. x \div b = u /\ x % b = w
    BY ONLY <2>2, Quotient
  <2> QED BY <2>1, <2>3, <2>4
<1> QED BY <1>1, <1>2

(* What lies in the rest of the sector that o is in *)
LEMMA InSector ==
  ASSUME NEW o \in Nat, NEW p \in Nat, o <= p, p < o + SECT_SIZE - (o % SECT_SIZE)
  PROVE  Sec(p) = Sec(o) /\ p % SECT_SIZE = (o % SECT_SIZE) + (p - o)
<1>1. PICK s, x, y : s = SECT_SIZE /\ x = Sec(o) /\ y = o % SECT_SIZE
  OBVIOUS
<1>2. s \in Nat \ {0} /\ x \in Nat /\ y \in 0 .. s - 1 /\ o = s * x + y
  BY <1>1, Places, Sizes
<1>3. p = s * x + (y + (p - o)) /\ y + (p - o) \in 0 .. s - 1
  <2>1. p < o + s - y
    BY <1>1
  <2>2. PICK m : m = s * x
    OBVIOUS
  <2>3. m \in Int /\ o = m + y
    BY <1>2, <2>2
  <2>4. p = m + (y + (p - o)) /\ y + (p - o) \in 0 .. s - 1
    BY <1>2, <2>1, <2>3
  <2> QED BY <2>2, <2>4
<1>4. PICK r : r = y + (p - o)
  OBVIOUS
<1>5. p \in Nat /\ s \in Nat \ {0} /\ x \in Int /\ r \in 0 .. s - 1 /\ p = s * x + r
  BY <1>2, <1>3, <1>4
<1>6. p \div s = x /\ p % s = r
  BY ONLY <1>5, Quotient
<1> QED BY <1>1, <1>4, <1>6 DEF Sec

(* A turn of a loop moves the offset by a sector at most. *)
LEMMA Ahead ==
  ASSUME NEW o \in Nat, NEW n \in Nat, n <= SECT_SIZE - (o % SECT_SIZE)
  PROVE  Clus(o) <= Clus(o + n) /\ Clus(o + n) <= Clus(o) + 1
<1>1. PICK s, b, x, y, q, r : /\ s = SECT_SIZE /\ b = SECT_PER_CLUST /\ x = Sec(o) /\ y = o % SECT_SIZE
                              /\ q = Clus(o) /\ r = InClust(o)
  OBVIOUS
<1>2. /\ s \in Nat \ {0} /\ b \in Nat \ {0} /\ x \in Nat /\ y \in 0 .. s - 1 /\ o = s * x + y
      /\ q \in Nat /\ r \in 0 .. b - 1 /\ x = b * q + r
  BY <1>1, Places, Sizes
<1>0. n <= s - y
  BY <1>1
<1>3. CASE n < s - y
  <2>0. PICK z : z = o + n
    OBVIOUS
  <2>1. z \in Nat /\ o <= z /\ z < o + s - y
    BY <1>2, <1>3, <2>0
  <2>2. z < o + SECT_SIZE - (o % SECT_SIZE)
    BY <1>1, <2>1
  <2>3. Sec(z) = Sec(o)
    BY <2>1, <2>2, InSector
  <2>4. Clus(z) = q
    BY <2>1, <2>3, SameSector, <1>1
  <2>5. Clus(o + n) = q /\ Clus(o) = q
    BY <1>1, <2>0, <2>4
  <2>6. q <= q /\ q <= q + 1
    BY <1>2
  <2> QED BY <2>5, <2>6
<1>4. CASE n = s - y
  <2>1. o + n = s * (x + 1) + 0
    BY <1>2, <1>4
  <2>2. PICK z, m : z = o + n /\ m = x + 1
    OBVIOUS
  <2>3. z \in Nat /\ s \in Nat \ {0} /\ m \in Int /\ 0 \in 0 .. s - 1 /\ z = s * m + 0
    BY <1>2, <1>4, <2>1, <2>2
  <2>4. z \div s = m
    BY ONLY <2>3, Quotient
  <2>5. x + 1 = b * Clus(z) + InClust(z) /\ Clus(z) \in Nat /\ InClust(z) \in 0 .. b - 1
    BY <1>1, <2>2, <2>3, <2>4, Places DEF Sec
  <2>6. PICK u, w : u = Clus(z) /\ w = InClust(z)
    OBVIOUS
  <2>7. b * q + r + 1 = b * u + w /\ u \in Nat /\ w \in 0 .. b - 1
    BY <1>2, <2>5, <2>6
  <2>8. CASE u <= q - 1
    <3>1. b * u <= b * (q - 1)
      BY <1>2, <2>7, <2>8
    <3>2. b * (q - 1) = b * q - b
      BY <1>2
    <3> QED BY <1>2, <2>7, <3>1, <3>2
  <2>9. CASE u >= q + 2
    <3>1. b * u >= b * (q + 2)
      BY <1>2, <2>7, <2>9
    <3>2. b * (q + 2) = b * q + b + b
      BY <1>2
    <3> QED BY <1>2, <2>7, <3>1, <3>2
  <2>10. q <= u /\ u <= q + 1
    BY <1>2, <2>7, <2>8, <2>9
  <2> QED BY <1>1, <2>2, <2>6, <2>10
<1>5. n < s - y \/ n = s - y
  BY <1>0, <1>2
<1> QED BY <1>3, <1>4, <1>5

-----------------------------------------------------------------------------
(* Chains *)

Err == {NONE, "io", "full"}
Buffer == [0 .. SECT_SIZE - 1 -> Nat]
Volume ==
  [next : [CLUSTERS -> CLUSTERS \cup {FREE, EOC}], start : [FILES -> CLUSTERS \cup {NONE}],
   size : [FILES -> Nat], card : [Sectors -> Buffer]]
Handle ==
  [name : FILES, sclust : CLUSTERS, clust : CLUSTERS, sect : Sectors \cup {NoSector}, offset : Nat,
   size : Nat, modified : BOOLEAN, dirty : BOOLEAN, buf : Buffer]

(* own says which file a cluster belongs to, idx how far it is from its start. *)
Chains(v, own, idx) ==
  /\ own \in [CLUSTERS -> FILES \cup {NONE}] /\ idx \in [CLUSTERS -> Nat]
  /\ \A f \in FILES : v.start[f] # NONE => own[v.start[f]] = f /\ idx[v.start[f]] = 0
  /\ \A c \in CLUSTERS : own[c] # NONE =>
       /\ v.next[c] # FREE
       /\ v.next[c] # EOC => own[v.next[c]] = own[c] /\ idx[v.next[c]] = idx[c] + 1
       /\ idx[c] = 0 => c = v.start[own[c]]
       /\ idx[c] # 0 => \E d \in CLUSTERS : own[d] = own[c] /\ idx[d] = idx[c] - 1 /\ v.next[d] = c
  /\ \A c, d \in CLUSTERS : own[c] # NONE /\ own[c] = own[d] /\ idx[c] = idx[d] => c = d

(* The chains have only grown. *)
Grown(own, idx, own2, idx2) ==
  \A c \in CLUSTERS : own[c] # NONE => own2[c] = own[c] /\ idx2[c] = idx[c]

LEMMA Names ==
  /\ FREE \notin CLUSTERS /\ EOC \notin CLUSTERS /\ NONE \notin CLUSTERS /\ NONE \notin FILES
  /\ FREE # EOC /\ FREE # NONE /\ EOC # NONE /\ NONE # "io" /\ NONE # "full" /\ "io" # "full"
  /\ IsFiniteSet(CLUSTERS) /\ NoSector \notin Sectors
BY FileAssumption DEF FREE, EOC, NONE, NoSector, Sectors

LEMMA GrownTwice ==
  ASSUME NEW own, NEW idx, NEW own2, NEW idx2, NEW own3, NEW idx3,
         Grown(own, idx, own2, idx2), Grown(own2, idx2, own3, idx3)
  PROVE  Grown(own, idx, own3, idx3)
BY DEF Grown

(* The walk of Nth *)
Walk(t, a, n, w) ==
  w = [k \in 0 .. n |-> IF k = 0 THEN a ELSE IF w[k - 1] \in CLUSTERS THEN t[w[k - 1]] ELSE NONE]

LEMMA WalkExists ==
  ASSUME NEW t, NEW a, NEW n \in Nat
  PROVE  \E w : Walk(t, a, n, w)
<1> DEFINE Go(x) == IF x \in CLUSTERS THEN t[x] ELSE NONE
           T == {m \in 0 .. n : \E w : Walk(t, a, m, w)}
<1>1. 0 \in T
  <2>1. PICK w : w = [k \in 0 .. 0 |-> a]
    OBVIOUS
  <2>2. \A k \in 0 .. 0 : k = 0
    OBVIOUS
  <2>3. Walk(t, a, 0, w)
    BY <2>1, <2>2 DEF Walk
  <2> QED BY <2>3
<1>2. \A m \in 1 .. n : m - 1 \in T => m \in T
  <2> SUFFICES ASSUME NEW m \in 1 .. n, m - 1 \in T PROVE \E w : Walk(t, a, m, w)
    OBVIOUS
  <2>1. PICK q : Walk(t, a, m - 1, q)
    OBVIOUS
  <2> DEFINE w == [k \in 0 .. m |-> IF k = m THEN Go(q[m - 1]) ELSE q[k]]
  <2>2. \A k \in 0 .. m - 1 : w[k] = q[k]
    OBVIOUS
  <2>3. w[m] = Go(q[m - 1])
    OBVIOUS
  <2>4. w = [k \in 0 .. m |-> w[k]]
    OBVIOUS
  <2> HIDE DEF w, Go
  <2>5. \A k \in 0 .. m : w[k] = IF k = 0 THEN a ELSE Go(w[k - 1])
    <3> SUFFICES ASSUME NEW k \in 0 .. m PROVE w[k] = IF k = 0 THEN a ELSE Go(w[k - 1])
      OBVIOUS
    <3>1. CASE k = m
      <4>1. m - 1 \in 0 .. m - 1 /\ m # 0
        OBVIOUS
      <4>2. w[m - 1] = q[m - 1]
        BY <2>2, <4>1
      <4> QED BY <2>3, <3>1, <4>1, <4>2
    <3>2. CASE k # m
      <4>1. k \in 0 .. m - 1
        BY <3>2
      <4>2. q[k] = IF k = 0 THEN a ELSE Go(q[k - 1])
        BY <2>1, <4>1 DEF Walk, Go
      <4>3. k # 0 => k - 1 \in 0 .. m - 1
        BY <4>1
      <4>4. k # 0 => w[k - 1] = q[k - 1]
        BY <2>2, <4>3
      <4> QED BY <2>2, <4>1, <4>2, <4>4
    <3> QED BY <3>1, <3>2
  <2>6. Walk(t, a, m, w)
    BY <2>4, <2>5 DEF Walk, Go
  <2> QED BY <2>6
<1> HIDE DEF T
<1>3. 0 .. n \subseteq T
  BY <1>1, <1>2, UpTo
<1>4. n \in T
  BY <1>3
<1> QED BY <1>4 DEF T

(* The cluster of file f whose place is i is what Nth finds. *)
LEMMA NthIs ==
  ASSUME fat \in Volume, NEW own, NEW idx, Chains(fat, own, idx), NEW f \in FILES,
         NEW c \in CLUSTERS, own[c] = f
  PROVE  Nth(f, idx[c]) = c
<1> DEFINE n == idx[c]
           w == CHOOSE w : Walk(fat.next, fat.start[f], n, w)
<1>0. n \in Nat
  BY DEF Chains
<1>1. Walk(fat.next, fat.start[f], n, w)
  BY <1>0, WalkExists DEF Volume
<1>2. Nth(f, n) = w[n]
  BY DEF Nth, Walk
<1> HIDE DEF w
<1>3. \A d \in CLUSTERS : own[d] = f /\ idx[d] = 0 => w[0] = d
  BY <1>0, <1>1, Names DEF Walk, Chains
<1> DEFINE T == {k \in 0 .. n : \A d \in CLUSTERS : own[d] = f /\ idx[d] = k => w[k] = d}
<1>4. 0 \in T
  BY <1>0, <1>3
<1>5. \A k \in 1 .. n : k - 1 \in T => k \in T
  <2> SUFFICES ASSUME NEW k \in 1 .. n, k - 1 \in T, NEW d \in CLUSTERS, own[d] = f, idx[d] = k
               PROVE  w[k] = d
    BY <1>0
  <2>1. PICK e \in CLUSTERS : own[e] = f /\ idx[e] = k - 1 /\ fat.next[e] = d
    <3>1. own[d] # NONE /\ idx[d] # 0
      BY <1>0, Names
    <3> QED BY <3>1 DEF Chains
  <2>2. w[k - 1] = e
    BY <2>1
  <2>3. w[k] = IF w[k - 1] \in CLUSTERS THEN fat.next[w[k - 1]] ELSE NONE
    BY <1>0, <1>1 DEF Walk
  <2> QED BY <2>1, <2>2, <2>3
<1> HIDE DEF T
<1>6. 0 .. n \subseteq T
  BY <1>0, <1>4, <1>5, UpTo
<1>7. n \in T
  BY <1>0, <1>6
<1> QED BY <1>2, <1>7 DEF T

(* No place is beyond the number of clusters. *)
LEMMA PlaceBound ==
  ASSUME NEW v \in Volume, NEW own, NEW idx, Chains(v, own, idx), NEW c \in CLUSTERS, own[c] # NONE
  PROVE  idx[c] \in 0 .. Cardinality(CLUSTERS) - 1
<1> DEFINE n == idx[c]
           T == {k \in 0 .. n : \E d \in CLUSTERS : own[d] = own[c] /\ idx[d] = n - k}
<1>0. n \in Nat
  BY DEF Chains
<1>1. 0 \in T
  BY <1>0
<1>2. \A k \in 1 .. n : k - 1 \in T => k \in T
  <2> SUFFICES ASSUME NEW k \in 1 .. n, k - 1 \in T
               PROVE  \E d \in CLUSTERS : own[d] = own[c] /\ idx[d] = n - k
    BY <1>0
  <2>1. PICK d \in CLUSTERS : own[d] = own[c] /\ idx[d] = n - (k - 1)
    OBVIOUS
  <2>2. own[d] # NONE /\ idx[d] # 0
    BY <1>0, <2>1
  <2>3. PICK e \in CLUSTERS : own[e] = own[d] /\ idx[e] = idx[d] - 1
    BY <2>2 DEF Chains
  <2>4. idx[e] = n - k
    BY <1>0, <2>1, <2>3
  <2> QED BY <2>1, <2>3, <2>4
<1> HIDE DEF T
<1>3. 0 .. n \subseteq T
  BY <1>0, <1>1, <1>2, UpTo
<1>4. \A j \in 0 .. n : \E d \in CLUSTERS : own[d] = own[c] /\ idx[d] = j
  <2> SUFFICES ASSUME NEW j \in 0 .. n PROVE \E d \in CLUSTERS : own[d] = own[c] /\ idx[d] = j
    OBVIOUS
  <2>1. n - j \in 0 .. n /\ n - (n - j) = j
    BY <1>0
  <2> QED BY <1>3, <2>1 DEF T
<1> DEFINE p == [j \in 0 .. n |-> CHOOSE d \in CLUSTERS : own[d] = own[c] /\ idx[d] = j]
<1>5. \A j \in 0 .. n : p[j] \in CLUSTERS /\ idx[p[j]] = j
  BY <1>4
<1>6. p \in [0 .. n -> CLUSTERS]
  BY <1>5
<1> HIDE DEF p
<1>7. p \in Injection(0 .. n, CLUSTERS)
  BY <1>5, <1>6 DEF Injection, IsInjective
<1>8. PICK S : S = 0 .. n
  OBVIOUS
<1>9. Cardinality(S) <= Cardinality(CLUSTERS)
  BY <1>7, <1>8, Names, FS_Injection
<1>10. Cardinality(S) = n + 1
  BY <1>0, <1>8, FS_Interval
<1>11. Cardinality(CLUSTERS) \in Nat
  BY Names, FS_CardinalityType
<1> QED BY <1>0, <1>9, <1>10, <1>11

(* What stretch_chain does: a free cluster becomes the last of the chain. *)
Linked(v, l, c) == [v EXCEPT !.next[l] = c, !.next[c] = EOC]

LEMMA Link ==
  ASSUME NEW v \in Volume, NEW own, NEW idx, Chains(v, own, idx),
         NEW l \in CLUSTERS, own[l] # NONE, v.next[l] = EOC, NEW c \in CLUSTERS, v.next[c] = FREE,
         NEW w, w = Linked(v, l, c)
  PROVE  /\ w \in Volume /\ w.start = v.start /\ w.size = v.size /\ w.card = v.card
         /\ \E own2, idx2 : /\ Chains(w, own2, idx2) /\ Grown(own, idx, own2, idx2)
                            /\ own2[c] = own[l] /\ idx2[c] = idx[l] + 1
<1> DEFINE own2 == [own EXCEPT ![c] = own[l]]
           idx2 == [idx EXCEPT ![c] = idx[l] + 1]
<1>1. c # l /\ own[c] = NONE
  BY Names DEF Chains
<1>2. w.next = [d \in CLUSTERS |-> IF d = c THEN EOC ELSE IF d = l THEN c ELSE v.next[d]]
  BY <1>1 DEF Volume, Linked
<1>3. w \in Volume /\ w.start = v.start /\ w.size = v.size /\ w.card = v.card
  BY <1>1 DEF Volume, Linked
<1>4. /\ own2 \in [CLUSTERS -> FILES \cup {NONE}] /\ idx2 \in [CLUSTERS -> Nat]
      /\ own2[c] = own[l] /\ idx2[c] = idx[l] + 1
      /\ \A d \in CLUSTERS \ {c} : own2[d] = own[d] /\ idx2[d] = idx[d]
      /\ own[l] \in FILES /\ idx[l] \in Nat
  BY DEF Chains
<1> HIDE DEF own2, idx2
<1>5. \A f \in FILES : w.start[f] # NONE => own2[w.start[f]] = f /\ idx2[w.start[f]] = 0
  <2> SUFFICES ASSUME NEW f \in FILES, v.start[f] # NONE
               PROVE  own2[v.start[f]] = f /\ idx2[v.start[f]] = 0
    BY <1>3
  <2>1. v.start[f] \in CLUSTERS /\ own[v.start[f]] = f /\ idx[v.start[f]] = 0
    BY DEF Chains, Volume
  <2> QED BY <1>1, <1>4, <2>1, Names
<1>6. ASSUME NEW d \in CLUSTERS, own2[d] # NONE
      PROVE  /\ w.next[d] # FREE
             /\ w.next[d] # EOC => own2[w.next[d]] = own2[d] /\ idx2[w.next[d]] = idx2[d] + 1
             /\ idx2[d] = 0 => d = w.start[own2[d]]
             /\ idx2[d] # 0 => \E e \in CLUSTERS : /\ own2[e] = own2[d] /\ idx2[e] = idx2[d] - 1
                                                   /\ w.next[e] = d
  <2>1. CASE d = c
    <3>1. w.next[d] = EOC /\ idx2[d] # 0 /\ w.next[l] = d
      BY <1>1, <1>2, <1>4, <2>1
    <3>2. own2[l] = own2[d] /\ idx2[l] = idx2[d] - 1
      BY <1>1, <1>4, <2>1
    <3> QED BY <3>1, <3>2, Names
  <2>2. CASE d = l
    <3>1. w.next[d] = c /\ own2[d] = own[d] /\ idx2[d] = idx[d]
      BY <1>1, <1>2, <1>4, <2>2
    <3>2. idx[d] = 0 => d = w.start[own[d]]
      BY <1>3, <2>2 DEF Chains
    <3>3. ASSUME idx[d] # 0
          PROVE  \E e \in CLUSTERS : own2[e] = own2[d] /\ idx2[e] = idx2[d] - 1 /\ w.next[e] = d
      <4>1. PICK e \in CLUSTERS : own[e] = own[d] /\ idx[e] = idx[d] - 1 /\ v.next[e] = d
        BY <2>2, <3>3 DEF Chains
      <4>2. e # c /\ e # l
        BY <1>1, <4>1, <2>2, Names
      <4> QED BY <1>2, <1>4, <3>1, <4>1, <4>2
    <3> QED BY <1>4, <2>2, <3>1, <3>2, <3>3, Names
  <2>3. CASE d # c /\ d # l
    <3>1. w.next[d] = v.next[d] /\ own2[d] = own[d] /\ idx2[d] = idx[d] /\ own[d] # NONE
      BY <1>2, <1>4, <1>6, <2>3
    <3>2. v.next[d] # FREE
      BY <3>1 DEF Chains
    <3>3. ASSUME v.next[d] # EOC
          PROVE  own2[v.next[d]] = own2[d] /\ idx2[v.next[d]] = idx2[d] + 1
      <4>1. v.next[d] \in CLUSTERS
        BY <3>2, <3>3 DEF Volume
      <4>2. own[v.next[d]] = own[d] /\ idx[v.next[d]] = idx[d] + 1
        BY <3>1, <3>3 DEF Chains
      <4> QED BY <1>1, <1>4, <3>1, <4>1, <4>2
    <3>4. idx[d] = 0 => d = w.start[own[d]]
      BY <1>3, <3>1 DEF Chains
    <3>5. ASSUME idx[d] # 0
          PROVE  \E e \in CLUSTERS : own2[e] = own2[d] /\ idx2[e] = idx2[d] - 1 /\ w.next[e] = d
      <4>1. PICK e \in CLUSTERS : own[e] = own[d] /\ idx[e] = idx[d] - 1 /\ v.next[e] = d
        BY <3>1, <3>5 DEF Chains
      <4>2. e # c /\ e # l
        BY <1>1, <3>1, <4>1, Names
      <4> QED BY <1>2, <1>4, <3>1, <4>1, <4>2
    <3> QED BY <3>1, <3>2, <3>3, <3>4, <3>5
  <2> QED BY <2>1, <2>2, <2>3
<1>7. ASSUME NEW d \in CLUSTERS, own[d] = own[l] PROVE idx[d] # idx[l] + 1
  <2> SUFFICES ASSUME idx[d] = idx[l] + 1 PROVE FALSE
    OBVIOUS
  <2>1. own[d] # NONE /\ idx[d] # 0
    BY <1>4, <1>7
  <2>2. PICK e \in CLUSTERS : own[e] = own[d] /\ idx[e] = idx[d] - 1 /\ v.next[e] = d
    BY <2>1 DEF Chains
  <2>3. e = l
    <3>1. own[e] # NONE /\ own[e] = own[l] /\ idx[e] = idx[l]
      BY <1>4, <1>7, <2>2
    <3> QED BY <3>1 DEF Chains
  <2> QED BY <2>2, <2>3, Names
<1>8. ASSUME NEW d \in CLUSTERS, NEW e \in CLUSTERS, own2[d] # NONE, own2[d] = own2[e], idx2[d] = idx2[e]
      PROVE  d = e
  <2>1. CASE d # c /\ e # c
    <3>1. own[d] # NONE /\ own[d] = own[e] /\ idx[d] = idx[e]
      BY <1>4, <1>8, <2>1
    <3> QED BY <3>1 DEF Chains
  <2>2. CASE d = c /\ e # c
    BY <1>4, <1>7, <1>8, <2>2
  <2>3. CASE d # c /\ e = c
    BY <1>4, <1>7, <1>8, <2>3
  <2> QED BY <2>1, <2>2, <2>3
<1>9. Chains(w, own2, idx2)
  BY <1>4, <1>5, <1>6, <1>8 DEF Chains
<1>10. Grown(own, idx, own2, idx2)
  BY <1>1, <1>4 DEF Grown
<1> QED BY <1>3, <1>4, <1>9, <1>10

Marked(v, c) == [v EXCEPT !.next[c] = EOC]
Entered(v, f, c) == [v EXCEPT !.start[f] = c]

(* A cluster that was marked and is no file's: nothing changes for the files. *)
LEMMA Mark ==
  ASSUME NEW v \in Volume, NEW own, NEW idx, Chains(v, own, idx), NEW c \in CLUSTERS, v.next[c] = FREE,
         NEW w, w = Marked(v, c)
  PROVE  /\ w \in Volume /\ w.start = v.start /\ w.size = v.size /\ w.card = v.card
         /\ Chains(w, own, idx) /\ own[c] = NONE /\ w.next[c] = EOC
<1>1. own[c] = NONE
  BY DEF Chains
<1>2. /\ w.next = [d \in CLUSTERS |-> IF d = c THEN EOC ELSE v.next[d]]
      /\ w \in Volume /\ w.start = v.start /\ w.size = v.size /\ w.card = v.card
  BY DEF Volume, Marked
<1>3. \A d \in CLUSTERS : own[d] # NONE => w.next[d] = v.next[d]
  BY <1>1, <1>2
<1>4. ASSUME NEW d \in CLUSTERS, own[d] # NONE
      PROVE  /\ w.next[d] # FREE
             /\ w.next[d] # EOC => own[w.next[d]] = own[d] /\ idx[w.next[d]] = idx[d] + 1
             /\ idx[d] = 0 => d = w.start[own[d]]
             /\ idx[d] # 0 => \E e \in CLUSTERS : own[e] = own[d] /\ idx[e] = idx[d] - 1 /\ w.next[e] = d
  <2>1. w.next[d] = v.next[d]
    BY <1>3, <1>4
  <2>2. /\ v.next[d] # FREE
        /\ v.next[d] # EOC => own[v.next[d]] = own[d] /\ idx[v.next[d]] = idx[d] + 1
        /\ idx[d] = 0 => d = v.start[own[d]]
        /\ idx[d] # 0 => \E e \in CLUSTERS : own[e] = own[d] /\ idx[e] = idx[d] - 1 /\ v.next[e] = d
    BY <1>4 DEF Chains
  <2> QED BY <1>2, <1>3, <1>4, <2>1, <2>2
<1>5. \A f \in FILES : w.start[f] # NONE => own[w.start[f]] = f /\ idx[w.start[f]] = 0
  BY <1>2 DEF Chains
<1> QED BY <1>1, <1>2, <1>4, <1>5 DEF Chains

(* A marked cluster becomes the start of a file that had none. *)
LEMMA Enter ==
  ASSUME NEW v \in Volume, NEW own, NEW idx, Chains(v, own, idx), NEW c \in CLUSTERS, v.next[c] = EOC,
         own[c] = NONE, NEW f \in FILES, v.start[f] = NONE,
         NEW w, w = Entered(v, f, c)
  PROVE  /\ w \in Volume /\ w.next = v.next /\ w.size = v.size /\ w.card = v.card
         /\ w.start[f] = c /\ \A g \in FILES \ {f} : w.start[g] = v.start[g]
         /\ \E own2, idx2 : Chains(w, own2, idx2) /\ Grown(own, idx, own2, idx2)
<1> DEFINE own2 == [own EXCEPT ![c] = f]
           idx2 == [idx EXCEPT ![c] = 0]
<1>1. /\ w \in Volume /\ w.next = v.next /\ w.size = v.size /\ w.card = v.card
      /\ w.start[f] = c /\ \A g \in FILES \ {f} : w.start[g] = v.start[g]
  BY DEF Volume, Entered
<1>2. /\ own2 \in [CLUSTERS -> FILES \cup {NONE}] /\ idx2 \in [CLUSTERS -> Nat]
      /\ own2[c] = f /\ idx2[c] = 0
      /\ \A d \in CLUSTERS \ {c} : own2[d] = own[d] /\ idx2[d] = idx[d]
  BY DEF Chains
<1> HIDE DEF own2, idx2
(* No cluster was f's: the chain would lead back to a start. *)
<1>3. \A d \in CLUSTERS : own[d] # f
  <2> SUFFICES ASSUME NEW d \in CLUSTERS, own[d] = f PROVE FALSE
    OBVIOUS
  <2> DEFINE n == idx[d]
             T == {k \in 0 .. n : \E e \in CLUSTERS : own[e] = f /\ idx[e] = n - k}
  <2>0. n \in Nat
    BY DEF Chains
  <2>1. 0 \in T
    BY <2>0
  <2>2. \A k \in 1 .. n : k - 1 \in T => k \in T
    <3> SUFFICES ASSUME NEW k \in 1 .. n, k - 1 \in T
                 PROVE  \E e \in CLUSTERS : own[e] = f /\ idx[e] = n - k
      BY <2>0
    <3>1. PICK e \in CLUSTERS : own[e] = f /\ idx[e] = n - (k - 1)
      OBVIOUS
    <3>2. own[e] # NONE /\ idx[e] # 0
      BY <2>0, <3>1, Names
    <3>3. PICK x \in CLUSTERS : own[x] = own[e] /\ idx[x] = idx[e] - 1
      BY <3>2 DEF Chains
    <3>4. idx[x] = n - k
      BY <2>0, <3>1, <3>3
    <3> QED BY <3>1, <3>3, <3>4
  <2> HIDE DEF T
  <2>3. 0 .. n \subseteq T
    BY <2>0, <2>1, <2>2, UpTo
  <2>4. n \in T
    BY <2>0, <2>3
  <2>5. PICK e \in CLUSTERS : own[e] = f /\ idx[e] = 0
    BY <2>0, <2>4 DEF T
  <2>6. e = v.start[f]
    BY <2>5, Names DEF Chains
  <2> QED BY <2>6, Names
<1>4. \A g \in FILES : w.start[g] # NONE => own2[w.start[g]] = g /\ idx2[w.start[g]] = 0
  <2> SUFFICES ASSUME NEW g \in FILES, w.start[g] # NONE
               PROVE  own2[w.start[g]] = g /\ idx2[w.start[g]] = 0
    OBVIOUS
  <2>1. CASE g = f
    BY <1>1, <1>2, <2>1
  <2>2. CASE g # f
    <3>1. w.start[g] = v.start[g] /\ v.start[g] \in CLUSTERS
      BY <1>1, <2>2 DEF Volume
    <3>2. own[v.start[g]] = g /\ idx[v.start[g]] = 0
      BY <3>1, Names DEF Chains
    <3> QED BY <1>2, <3>1, <3>2, Names
  <2> QED BY <2>1, <2>2
<1>5. ASSUME NEW d \in CLUSTERS, own2[d] # NONE
      PROVE  /\ w.next[d] # FREE
             /\ w.next[d] # EOC => own2[w.next[d]] = own2[d] /\ idx2[w.next[d]] = idx2[d] + 1
             /\ idx2[d] = 0 => d = w.start[own2[d]]
             /\ idx2[d] # 0 => \E e \in CLUSTERS : /\ own2[e] = own2[d] /\ idx2[e] = idx2[d] - 1
                                                   /\ w.next[e] = d
  <2>1. CASE d = c
    BY <1>1, <1>2, <2>1, Names
  <2>2. CASE d # c
    <3>1. own2[d] = own[d] /\ idx2[d] = idx[d] /\ own[d] # NONE /\ own[d] \in FILES
      BY <1>2, <1>5, <2>2 DEF Chains
    <3>2. /\ v.next[d] # FREE
          /\ v.next[d] # EOC => own[v.next[d]] = own[d] /\ idx[v.next[d]] = idx[d] + 1
          /\ idx[d] = 0 => d = v.start[own[d]]
          /\ idx[d] # 0 => \E e \in CLUSTERS : own[e] = own[d] /\ idx[e] = idx[d] - 1 /\ v.next[e] = d
      BY <3>1 DEF Chains
    <3>3. ASSUME v.next[d] # EOC
          PROVE  own2[v.next[d]] = own2[d] /\ idx2[v.next[d]] = idx2[d] + 1
      <4>1. v.next[d] \in CLUSTERS
        BY <3>2, <3>3 DEF Volume
      <4> QED BY <1>2, <3>1, <3>2, <3>3, <4>1
    <3>4. own[d] # f
      BY <1>3
    <3>5. ASSUME idx[d] # 0
          PROVE  \E e \in CLUSTERS : own2[e] = own2[d] /\ idx2[e] = idx2[d] - 1 /\ w.next[e] = d
      <4>1. PICK e \in CLUSTERS : own[e] = own[d] /\ idx[e] = idx[d] - 1 /\ v.next[e] = d
        BY <3>2, <3>5
      <4>2. e # c
        BY <3>1, <4>1
      <4> QED BY <1>1, <1>2, <3>1, <4>1, <4>2
    <3> QED BY <1>1, <3>1, <3>2, <3>3, <3>4, <3>5
  <2> QED BY <2>1, <2>2
<1>6. ASSUME NEW d \in CLUSTERS, NEW e \in CLUSTERS, own2[d] # NONE, own2[d] = own2[e], idx2[d] = idx2[e]
      PROVE  d = e
  <2>1. CASE d # c /\ e # c
    <3>1. own[d] # NONE /\ own[d] = own[e] /\ idx[d] = idx[e]
      BY <1>2, <1>6, <2>1
    <3> QED BY <3>1 DEF Chains
  <2>2. CASE d = c \/ e = c
    BY <1>2, <1>3, <1>6, <2>2
  <2> QED BY <2>1, <2>2
<1>7. Chains(w, own2, idx2)
  BY <1>2, <1>4, <1>5, <1>6 DEF Chains
<1>8. Grown(own, idx, own2, idx2)
  BY <1>2 DEF Grown
<1> QED BY <1>1, <1>7, <1>8

-----------------------------------------------------------------------------
(* fat_file_seek *)

(* f stands on a cluster of its file. *)
Standing(v, own, f) ==
  f \in Handle /\ own[f.clust] = f.name /\ f.sclust = v.start[f.name]

(* Nothing but the chains changed, and they only grew. *)
Went(v, own, idx, w, own2, idx2) ==
  /\ w \in Volume /\ w.start = v.start /\ w.size = v.size /\ w.card = v.card
  /\ Chains(w, own2, idx2) /\ Grown(own, idx, own2, idx2)

LEMMA FaultIs ==
  ASSUME NEW v, NEW f, NEW o \in Fault(v, f)
  PROVE  o.fat = v /\ o.file = f /\ o.err = "io"
BY DEF Fault, Out

LEMMA OkIs ==
  ASSUME NEW v, NEW f, NEW o \in Ok(v, f)
  PROVE  o.fat = v /\ o.file = f /\ o.err = NONE
BY DEF Ok, Out

LEMMA GrownSelf ==
  ASSUME NEW v, v \in Volume, NEW own, NEW idx, Chains(v, own, idx)
  PROVE  Went(v, own, idx, v, own, idx)
BY DEF Went, Grown

StretchIs(v, f, o, own, idx, own2, idx2, c) ==
  /\ Went(v, own, idx, o.fat, own2, idx2)
  /\ c \in CLUSTERS /\ o.file = [f EXCEPT !.clust = c] /\ own2[c] = f.name
  /\ o.err \in Err
  /\ o.err = NONE => idx2[c] = idx[f.clust] + 1
  /\ o.err # NONE => o.file = f
  /\ o.err = "full" => o.fat = v

LEMMA Stay ==
  ASSUME NEW v, v \in Volume, NEW own, NEW idx, Chains(v, own, idx), NEW f, Standing(v, own, f),
         NEW o, o.fat = v, o.file = f, o.err \in {"io", "full"}
  PROVE  StretchIs(v, f, o, own, idx, own, idx, f.clust)
<1>1. f.clust \in CLUSTERS /\ f = [f EXCEPT !.clust = f.clust] /\ own[f.clust] = f.name
  BY DEF Standing, Handle
<1> QED BY <1>1, GrownSelf, Names DEF StretchIs, Err

LEMMA Stretch ==
  ASSUME NEW v, v \in Volume, NEW own, NEW idx, Chains(v, own, idx), NEW f, Standing(v, own, f),
         v.next[f.clust] = EOC, NEW o \in stretch_chain(v, f)
  PROVE  \E own2, idx2, c : StretchIs(v, f, o, own, idx, own2, idx2, c)
<1>1. f.clust \in CLUSTERS /\ f.name \in FILES /\ own[f.clust] = f.name
  BY DEF Standing, Handle
<1>2. CASE FreeClusters(v) = {}
  <2>1. o.fat = v /\ o.file = f /\ o.err = "full"
    BY <1>2 DEF stretch_chain, Out
  <2> QED BY <2>1, Stay
<1>3. CASE o \in Fault(v, f)
  BY <1>3, FaultIs, Stay
<1>4. ASSUME NEW x \in FreeClusters(v), NEW w, w = [v EXCEPT !.next[f.clust] = x, !.next[x] = EOC],
             o \in Ok(w, [f EXCEPT !.clust = x]) \cup Fault(w, f)
      PROVE  \E own2, idx2, c : StretchIs(v, f, o, own, idx, own2, idx2, c)
  <2>1. x \in CLUSTERS /\ v.next[x] = FREE
    BY DEF FreeClusters
  <2>2. PICK l : l = f.clust
    OBVIOUS
  <2>3. /\ v \in Volume /\ Chains(v, own, idx) /\ l \in CLUSTERS /\ own[l] # NONE /\ v.next[l] = EOC
        /\ x \in CLUSTERS /\ v.next[x] = FREE /\ w = Linked(v, l, x)
    BY <1>1, <1>4, <2>1, <2>2, Names DEF Linked
  <2>4. /\ w \in Volume /\ w.start = v.start /\ w.size = v.size /\ w.card = v.card
        /\ \E own2, idx2 : /\ Chains(w, own2, idx2) /\ Grown(own, idx, own2, idx2)
                           /\ own2[x] = own[l] /\ idx2[x] = idx[l] + 1
    BY ONLY <2>3, Link
  <2>5. PICK own2, idx2 : /\ Chains(w, own2, idx2) /\ Grown(own, idx, own2, idx2)
                          /\ own2[x] = own[l] /\ idx2[x] = idx[l] + 1
    BY <2>4
  <2>6. Went(v, own, idx, w, own2, idx2)
    BY <2>4, <2>5 DEF Went
  <2>7. CASE o \in Ok(w, [f EXCEPT !.clust = x])
    <3>1. o.fat = w /\ o.file = [f EXCEPT !.clust = x] /\ o.err = NONE
      BY <2>7, OkIs
    <3>2. StretchIs(v, f, o, own, idx, own2, idx2, x)
      BY <1>1, <2>1, <2>2, <2>5, <2>6, <3>1, Names DEF StretchIs, Err
    <3> QED BY <3>2
  <2>8. CASE o \in Fault(w, f)
    <3>1. o.fat = w /\ o.file = f /\ o.err = "io"
      BY <2>8, FaultIs
    <3>2. own2[l] = f.name /\ f = [f EXCEPT !.clust = l]
      BY <1>1, <2>2, <2>3, <2>5 DEF Grown, Standing, Handle
    <3>3. StretchIs(v, f, o, own, idx, own2, idx2, l)
      BY <2>3, <2>6, <3>1, <3>2, Names DEF StretchIs, Err
    <3> QED BY <3>3
  <2> QED BY <1>4, <2>7, <2>8
<1> QED BY <1>2, <1>3, <1>4 DEF stretch_chain

LEMMA FollowIs ==
  ASSUME NEW v, v \in Volume, NEW own, NEW idx, Chains(v, own, idx), NEW f, Standing(v, own, f),
         NEW o \in Follow(v, f)
  PROVE  \E own2, idx2, c : StretchIs(v, f, o, own, idx, own2, idx2, c)
<1>1. f.clust \in CLUSTERS /\ own[f.clust] = f.name /\ own[f.clust] # NONE
  BY Names DEF Standing, Handle
<1>2. CASE o \in Fault(v, f)
  BY <1>2, FaultIs, Stay
<1>3. CASE v.next[f.clust] = EOC /\ o \in stretch_chain(v, f)
  BY <1>3, Stretch
<1>4. CASE v.next[f.clust] # EOC /\ o \in Ok(v, [f EXCEPT !.clust = v.next[f.clust]])
  <2>1. PICK c : c = v.next[f.clust]
    OBVIOUS
  <2>2. c \in CLUSTERS /\ own[c] = f.name /\ idx[c] = idx[f.clust] + 1
    BY <1>1, <1>4, <2>1 DEF Chains, Volume
  <2>3. o.fat = v /\ o.file = [f EXCEPT !.clust = c] /\ o.err = NONE
    BY <1>4, <2>1, OkIs
  <2>4. StretchIs(v, f, o, own, idx, own, idx, c)
    BY <2>2, <2>3, GrownSelf, Names DEF StretchIs, Err
  <2> QED BY <2>4
<1> QED BY <1>2, <1>3, <1>4 DEF Follow

(* The loop *)
Turn(s) == UNION {IF o.err = NONE THEN Follow(o.fat, o.file) ELSE {o} : o \in s}
Runs(v, g, n, r) == r = [i \in 0 .. n |-> IF i = 0 THEN Ok(v, g) ELSE Turn(r[i - 1])]

LEMMA RunsExist ==
  ASSUME NEW v, NEW g, NEW n \in Nat
  PROVE  \E r : Runs(v, g, n, r)
<1> DEFINE T == {m \in 0 .. n : \E r : Runs(v, g, m, r)}
<1>1. 0 \in T
  <2>1. PICK r : r = [i \in 0 .. 0 |-> Ok(v, g)]
    OBVIOUS
  <2>2. \A i \in 0 .. 0 : i = 0
    OBVIOUS
  <2>3. Runs(v, g, 0, r)
    BY <2>1, <2>2 DEF Runs
  <2> QED BY <2>3
<1>2. \A m \in 1 .. n : m - 1 \in T => m \in T
  <2> SUFFICES ASSUME NEW m \in 1 .. n, m - 1 \in T PROVE \E r : Runs(v, g, m, r)
    OBVIOUS
  <2>1. PICK q : Runs(v, g, m - 1, q)
    OBVIOUS
  <2> DEFINE r == [i \in 0 .. m |-> IF i = m THEN Turn(q[m - 1]) ELSE q[i]]
  <2>2. \A i \in 0 .. m - 1 : r[i] = q[i]
    OBVIOUS
  <2>3. r[m] = Turn(q[m - 1])
    OBVIOUS
  <2>4. r = [i \in 0 .. m |-> r[i]]
    OBVIOUS
  <2> HIDE DEF r
  <2>5. \A i \in 0 .. m : r[i] = IF i = 0 THEN Ok(v, g) ELSE Turn(r[i - 1])
    <3> SUFFICES ASSUME NEW i \in 0 .. m PROVE r[i] = IF i = 0 THEN Ok(v, g) ELSE Turn(r[i - 1])
      OBVIOUS
    <3>1. CASE i = m
      <4>1. m - 1 \in 0 .. m - 1 /\ m # 0
        OBVIOUS
      <4>2. r[m - 1] = q[m - 1]
        BY <2>2, <4>1
      <4> QED BY <2>3, <3>1, <4>1, <4>2
    <3>2. CASE i # m
      <4>1. i \in 0 .. m - 1
        BY <3>2
      <4>2. q[i] = IF i = 0 THEN Ok(v, g) ELSE Turn(q[i - 1])
        BY <2>1, <4>1 DEF Runs
      <4>3. i # 0 => i - 1 \in 0 .. m - 1
        BY <4>1
      <4>4. i # 0 => r[i - 1] = q[i - 1]
        BY <2>2, <4>3
      <4> QED BY <2>2, <4>1, <4>2, <4>4
    <3> QED BY <3>1, <3>2
  <2>6. Runs(v, g, m, r)
    BY <2>4, <2>5 DEF Runs
  <2> QED BY <2>6
<1> HIDE DEF T
<1>3. 0 .. n \subseteq T
  BY <1>1, <1>2, UpTo
<1>4. n \in T
  BY <1>3
<1> QED BY <1>4 DEF T

Turned(v, g, n, o, own, idx, own2, idx2, c) ==
  /\ Went(v, own, idx, o.fat, own2, idx2)
  /\ c \in CLUSTERS /\ o.file = [g EXCEPT !.clust = c] /\ own2[c] = g.name
  /\ o.err \in Err
  /\ o.err = NONE => idx2[c] = idx[g.clust] + n
  /\ n = 0 => o.err = NONE /\ o.fat = v /\ o.file = g
  /\ n <= 1 /\ o.err = "full" => o.fat = v /\ o.file = g

LEMMA TurnIs ==
  ASSUME NEW v, NEW own, NEW idx, Chains(v, own, idx), NEW g, Standing(v, own, g),
         NEW n \in Nat, n # 0, NEW x, NEW own1, NEW idx1, NEW b, Turned(v, g, n - 1, x, own, idx, own1, idx1, b),
         NEW o, IF x.err = NONE THEN o \in Follow(x.fat, x.file) ELSE o = x
  PROVE  \E own2, idx2, c : Turned(v, g, n, o, own, idx, own2, idx2, c)
<1>1. CASE x.err # NONE
  <2>1. o = x /\ ~(n <= 1)
    BY <1>1 DEF Turned
  <2>2. Turned(v, g, n, o, own, idx, own1, idx1, b)
    BY <1>1, <2>1 DEF Turned
  <2> QED BY <2>2
<1>2. CASE x.err = NONE
  <2>1. PICK u, y : u = x.fat /\ y = x.file
    OBVIOUS
  <2>2. /\ Went(v, own, idx, u, own1, idx1) /\ b \in CLUSTERS /\ y = [g EXCEPT !.clust = b]
        /\ own1[b] = g.name /\ idx1[b] = idx[g.clust] + (n - 1) /\ (n = 1 => u = v /\ y = g)
    BY <1>2, <2>1 DEF Turned
  <2>3. u \in Volume /\ u.start = v.start /\ Chains(u, own1, idx1) /\ o \in Follow(u, y)
    BY <1>2, <2>1, <2>2 DEF Went
  <2>4. y.clust = b /\ y.name = g.name /\ Standing(u, own1, y)
    BY <2>2, <2>3 DEF Standing, Handle
  <2>5. PICK own2, idx2, c : StretchIs(u, y, o, own1, idx1, own2, idx2, c)
    BY ONLY <2>3, <2>4, FollowIs
  <2>6. Went(v, own, idx, o.fat, own2, idx2)
    BY <2>2, <2>5, GrownTwice DEF StretchIs, Went
  <2>7. o.file = [g EXCEPT !.clust = c]
    BY <2>2, <2>5 DEF StretchIs, Standing, Handle
  <2>8. /\ c \in CLUSTERS /\ own2[c] = g.name /\ o.err \in Err
        /\ o.err = NONE => idx2[c] = idx1[b] + 1
        /\ o.err = "full" => o.fat = u /\ o.file = y
    BY <2>4, <2>5, Names DEF StretchIs
  <2>9. idx[g.clust] \in Nat
    BY DEF Chains, Standing, Handle
  <2>10. Turned(v, g, n, o, own, idx, own2, idx2, c)
    BY <2>2, <2>6, <2>7, <2>8, <2>9 DEF Turned
  <2> QED BY <2>10
<1> QED BY <1>1, <1>2

LEMMA RunIs ==
  ASSUME NEW v, v \in Volume, NEW own, NEW idx, Chains(v, own, idx), NEW g, Standing(v, own, g),
         NEW n \in Nat, NEW r, Runs(v, g, n, r), NEW o \in r[n]
  PROVE  \E own2, idx2, c : Turned(v, g, n, o, own, idx, own2, idx2, c)
<1> DEFINE T == {m \in 0 .. n : \A x \in r[m] :
                   \E own2, idx2, c : Turned(v, g, m, x, own, idx, own2, idx2, c)}
<1>1. 0 \in T
  <2> SUFFICES ASSUME NEW x \in r[0]
               PROVE  \E own2, idx2, c : Turned(v, g, 0, x, own, idx, own2, idx2, c)
    OBVIOUS
  <2>1. x \in Ok(v, g)
    BY DEF Runs
  <2>2. x.fat = v /\ x.file = g /\ x.err = NONE
    BY <2>1, OkIs
  <2>3. /\ g.clust \in CLUSTERS /\ g = [g EXCEPT !.clust = g.clust] /\ own[g.clust] = g.name
        /\ idx[g.clust] = idx[g.clust] + 0
    BY DEF Standing, Handle, Chains
  <2>4. Turned(v, g, 0, x, own, idx, own, idx, g.clust)
    BY <2>2, <2>3, GrownSelf, Names DEF Turned, Err
  <2> QED BY <2>4
<1>2. \A m \in 1 .. n : m - 1 \in T => m \in T
  <2> SUFFICES ASSUME NEW m \in 1 .. n, m - 1 \in T, NEW x \in r[m]
               PROVE  \E own2, idx2, c : Turned(v, g, m, x, own, idx, own2, idx2, c)
    OBVIOUS
  <2>1. x \in Turn(r[m - 1])
    BY DEF Runs
  <2>2. PICK y \in r[m - 1] : IF y.err = NONE THEN x \in Follow(y.fat, y.file) ELSE x = y
    BY <2>1 DEF Turn
  <2>3. PICK own1, idx1, b : Turned(v, g, m - 1, y, own, idx, own1, idx1, b)
    BY <2>2
  <2>4. m \in Nat /\ m # 0
    OBVIOUS
  <2> QED BY <2>2, <2>3, <2>4, TurnIs
<1> HIDE DEF T
<1>3. 0 .. n \subseteq T
  BY <1>1, <1>2, UpTo
<1>4. n \in T
  BY <1>3
<1> QED BY <1>4 DEF T

(* The end of fat_file_seek *)
SameHandle(f, g) ==
  /\ g.name = f.name /\ g.sclust = f.sclust /\ g.size = f.size /\ g.modified = f.modified

Moved(w, x, ssect, o) ==
  /\ o.fat \in Volume /\ o.fat.next = w.next /\ o.fat.start = w.start /\ o.fat.size = w.size
  /\ o.file \in Handle /\ o.err \in {NONE, "io"}
  /\ SameHandle(x, o.file)
  /\ o.file.clust = x.clust /\ o.file.sect = x.sect /\ o.file.offset = x.offset
  /\ \A s \in Sectors : s # ssect => o.fat.card[s] = w.card[s]
  /\ o.err = NONE =>
       IF x.sect = ssect
       THEN o.fat = w /\ o.file = x
       ELSE /\ ~o.file.dirty /\ o.file.buf = o.fat.card[x.sect]
            /\ IF x.dirty THEN o.fat.card[ssect] = x.buf ELSE o.fat = w

LEMMA StayMoved ==
  ASSUME NEW w \in Volume, NEW x \in Handle, NEW ssect, NEW o,
         o.fat = w, o.file = x, o.err \in {NONE, "io"}, o.err = NONE => x.sect = ssect
  PROVE  Moved(w, x, ssect, o)
BY Names DEF Moved, SameHandle, Volume, Handle

ReadOf(w, x, o) ==
  /\ o.fat = w /\ o.err \in {NONE, "io"} /\ o.file \in Handle
  /\ o.err = NONE => o.file.buf = w.card[x.sect]
  /\ SameHandle(x, o.file) /\ o.file.clust = x.clust /\ o.file.sect = x.sect
  /\ o.file.offset = x.offset /\ o.file.dirty = x.dirty

LEMMA ReadIs ==
  ASSUME NEW w \in Volume, NEW x \in Handle, x.sect \in Sectors, NEW s, s = x.sect,
         NEW o \in ops_read(w, x, s)
  PROVE  ReadOf(w, x, o)
<1>1. CASE o \in Ok(w, [x EXCEPT !.buf = w.card[s]])
  <2>1. o.fat = w /\ o.file = [x EXCEPT !.buf = w.card[x.sect]] /\ o.err = NONE
    BY <1>1, OkIs
  <2>2. w.card[x.sect] \in Buffer
    BY DEF Volume
  <2>3. PICK b \in Buffer : b = w.card[x.sect]
    BY <2>2
  <2>4. o.file = [x EXCEPT !.buf = b]
    BY <2>1, <2>3
  <2>5. o.file \in Handle /\ o.file.buf = b /\ o.file.clust = x.clust /\ o.file.sect = x.sect
        /\ o.file.offset = x.offset /\ o.file.dirty = x.dirty
        /\ o.file.name = x.name /\ o.file.sclust = x.sclust /\ o.file.size = x.size
        /\ o.file.modified = x.modified
    BY <2>4 DEF Handle
  <2> QED BY <2>1, <2>3, <2>5, Names DEF SameHandle, ReadOf
<1>2. CASE o \in Fault(w, x)
  BY <1>2, FaultIs, Names DEF SameHandle, ReadOf
<1> QED BY <1>1, <1>2 DEF ops_read

LEMMA MoveIs ==
  ASSUME NEW w \in Volume, NEW x \in Handle, x.sect \in Sectors, NEW ssect \in Sectors \cup {NoSector},
         ssect = NoSector => ~x.dirty, NEW o \in MoveBuffer(w, x, ssect)
  PROVE  Moved(w, x, ssect, o)
<1>1. CASE x.sect = ssect
  <2>1. o.fat = w /\ o.file = x /\ o.err = NONE
    BY <1>1, OkIs DEF MoveBuffer
  <2> QED BY <1>1, <2>1, StayMoved
<1>2. CASE x.sect # ssect /\ ~x.dirty
  <2>1. o \in ops_read(w, x, x.sect)
    <3>1. o \in UNION {IF p.err = NONE THEN ops_read(p.fat, p.file, p.file.sect) ELSE {p} : p \in Ok(w, x)}
      BY <1>2 DEF MoveBuffer, Then
    <3> QED BY <3>1, OkIs
  <2>2. PICK s : s = x.sect
    OBVIOUS
  <2>3. w \in Volume /\ x \in Handle /\ x.sect \in Sectors /\ s = x.sect /\ o \in ops_read(w, x, s)
    BY <2>1, <2>2
  <2>4. ReadOf(w, x, o)
    BY ONLY <2>3, ReadIs
  <2> QED BY <1>2, <2>4 DEF Moved, ReadOf
<1>3. CASE x.sect # ssect /\ x.dirty
  <2>1. ssect \in Sectors
    BY <1>3
  <2> DEFINE W == UNION {IF p.err = NONE THEN Ok(p.fat, [p.file EXCEPT !.dirty = FALSE]) ELSE {p}
                         : p \in ops_write(w, x, ssect)}
  <2>2. o \in UNION {IF p.err = NONE THEN ops_read(p.fat, p.file, p.file.sect) ELSE {p} : p \in W}
    BY <1>3 DEF MoveBuffer, Then
  <2>3. PICK p \in W : IF p.err = NONE THEN o \in ops_read(p.fat, p.file, p.file.sect) ELSE o = p
    BY <2>2
  <2>4. PICK q \in ops_write(w, x, ssect) :
               IF q.err = NONE THEN p \in Ok(q.fat, [q.file EXCEPT !.dirty = FALSE]) ELSE p = q
    BY <2>3
  <2> HIDE DEF W
  <2>5. CASE q \in Fault(w, x)
    <3>1. q.fat = w /\ q.file = x /\ q.err = "io"
      BY <2>5, FaultIs
    <3>2. o = q
      BY <2>3, <2>4, <3>1, Names
    <3> QED BY <3>1, <3>2, StayMoved, Names
  <2>6. CASE q \in Ok([w EXCEPT !.card[ssect] = x.buf], x)
    <3>1. PICK u, y : u = [w EXCEPT !.card[ssect] = x.buf] /\ y = [x EXCEPT !.dirty = FALSE]
      OBVIOUS
    <3>2. p.fat = u /\ p.file = y /\ p.err = NONE
      <4>1. q.fat = u /\ q.file = x /\ q.err = NONE
        BY <2>6, <3>1, OkIs
      <4>2. p \in Ok(u, y)
        BY <2>4, <3>1, <4>1
      <4> QED BY <4>2, OkIs
    <3>3. x.buf \in Buffer
      BY DEF Handle
    <3>4. /\ u \in Volume /\ u.next = w.next /\ u.start = w.start /\ u.size = w.size
          /\ u.card[ssect] = x.buf /\ \A s \in Sectors : s # ssect => u.card[s] = w.card[s]
      <4>1. u.card = [w.card EXCEPT ![ssect] = x.buf] /\ u.next = w.next /\ u.start = w.start /\ u.size = w.size
        BY <3>1 DEF Volume
      <4>2. u.card \in [Sectors -> Buffer]
        BY <2>1, <3>3, <4>1 DEF Volume
      <4>3. u \in Volume
        BY <3>1, <4>1, <4>2 DEF Volume
      <4>4. w.card \in [Sectors -> Buffer]
        BY DEF Volume
      <4> QED BY <2>1, <4>1, <4>3, <4>4
    <3>5. /\ y \in Handle /\ ~y.dirty /\ SameHandle(x, y) /\ y.clust = x.clust /\ y.sect = x.sect
          /\ y.offset = x.offset
      BY <3>1 DEF Handle, SameHandle
    <3>6. PICK s : s = y.sect
      OBVIOUS
    <3>7. u \in Volume /\ y \in Handle /\ y.sect \in Sectors /\ s = y.sect /\ o \in ops_read(u, y, s)
      BY <2>3, <3>2, <3>4, <3>5, <3>6
    <3>8. ReadOf(u, y, o)
      BY ONLY <3>7, ReadIs
    <3> QED BY <1>3, <3>4, <3>5, <3>8 DEF Moved, SameHandle, ReadOf
  <2> QED BY <2>5, <2>6 DEF ops_write
<1> QED BY <1>1, <1>2, <1>3

Sought(v, f, off, o, own, idx, own2, idx2) ==
  /\ o.fat \in Volume /\ o.file \in Handle /\ o.err \in Err
  /\ o.fat.start = v.start /\ o.fat.size = v.size
  /\ Chains(o.fat, own2, idx2) /\ Grown(own, idx, own2, idx2)
  /\ SameHandle(f, o.file) /\ own2[o.file.clust] = f.name
  /\ o.file.sect = f.sect \/ (o.file.sect \in Sectors /\ own2[o.file.sect[1]] = f.name)
  /\ \A s \in Sectors : s # f.sect => o.fat.card[s] = v.card[s]
  /\ o.err = NONE =>
       /\ o.file.offset = off /\ o.file.sect = <<o.file.clust, InClust(off)>>
       /\ idx[f.clust] = Clus(f.offset) => idx2[o.file.clust] = Clus(off)
       /\ IF o.file.sect = f.sect
          THEN o.fat.card = v.card /\ o.file.buf = f.buf /\ o.file.dirty = f.dirty
          ELSE /\ ~o.file.dirty /\ o.file.buf = o.fat.card[o.file.sect]
               /\ IF f.dirty THEN o.fat.card[f.sect] = f.buf ELSE o.fat.card = v.card
  /\ o.err = "full" /\ Clus(f.offset) <= Clus(off) /\ Clus(off) <= Clus(f.offset) + 1 =>
       o.fat = v /\ o.file = f
  /\ Clus(off) = 0 => o.err # "full"

(* A handle that fat_file_open has just made has no sector. *)
Seekable(own, f) ==
  IF f.sect = NoSector THEN ~f.dirty ELSE own[f.sect[1]] = f.name

RunOf(v, f, off, g, n, o, r) ==
  /\ Runs(v, g, n, r)
  /\ \E p \in r[n] :
       IF p.err = NONE
       THEN o \in MoveBuffer(p.fat, [p.file EXCEPT !.sect = <<p.file.clust, InClust(off)>>,
                                                 !.offset = off], f.sect)
       ELSE o = p

LEMMA SeekIsRun ==
  ASSUME NEW v, NEW f, NEW off, NEW g, g = Rewound(f, off),
         NEW n \in Nat, n = Clus(off) - Clus(g.offset),
         NEW o \in fat_file_seek(v, f, off)
  PROVE  \E r : RunOf(v, f, off, g, n, o, r)
<1> DEFINE r == CHOOSE r : Runs(v, g, n, r)
<1>1. Runs(v, g, n, r)
  BY RunsExist
<1>2. fat_file_seek(v, f, off) =
        UNION {IF p.err = NONE
               THEN MoveBuffer(p.fat, [p.file EXCEPT !.sect = <<p.file.clust, InClust(off)>>,
                                                     !.offset = off], f.sect)
               ELSE {p} : p \in r[n]}
  BY DEF fat_file_seek, Then, Runs, Turn, Clus, InClust
<1> HIDE DEF r
<1>3. PICK p \in r[n] :
             IF p.err = NONE
             THEN o \in MoveBuffer(p.fat, [p.file EXCEPT !.sect = <<p.file.clust, InClust(off)>>,
                                                       !.offset = off], f.sect)
             ELSE o = p
  BY <1>2
<1>4. RunOf(v, f, off, g, n, o, r)
  BY <1>1, <1>3 DEF RunOf
<1> QED BY <1>4

RewoundTo(v, own, idx, f, off, g) ==
  /\ Standing(v, own, g) /\ SameHandle(f, g) /\ g.buf = f.buf /\ g.dirty = f.dirty
  /\ g.sect = f.sect \/ (g.sect \in Sectors /\ own[g.sect[1]] = f.name)
  /\ Clus(off) - Clus(g.offset) \in Nat
  /\ idx[f.clust] = Clus(f.offset) => idx[g.clust] = Clus(g.offset)
  /\ Clus(f.offset) <= Clus(off) => g = f
  /\ Clus(off) = 0 => Clus(g.offset) = 0

LEMMA RewoundIs ==
  ASSUME NEW v \in Volume, NEW own, NEW idx, Chains(v, own, idx), NEW f, Standing(v, own, f),
         NEW off \in Nat, NEW g, g = Rewound(f, off)
  PROVE  RewoundTo(v, own, idx, f, off, g)
<1>1. f \in Handle /\ f.name \in FILES /\ f.sclust \in CLUSTERS /\ f.offset \in Nat
  BY DEF Standing, Handle
<1>2. Clus(f.offset) \in Nat /\ Clus(off) \in Nat
  BY <1>1, Places
<1>3. CASE Clus(off) < Clus(f.offset)
  <2>1. g = [f EXCEPT !.clust = f.sclust, !.sect = <<f.sclust, 0>>, !.offset = 0]
    BY <1>3 DEF Rewound, Clus
  <2>2. <<f.sclust, 0>> \in Sectors
    BY <1>1, FileAssumption DEF Sectors
  <2>3. /\ g.clust = f.sclust /\ g.sect = <<f.sclust, 0>> /\ g.offset = 0 /\ g.name = f.name
        /\ g.sclust = f.sclust /\ g.size = f.size /\ g.modified = f.modified /\ g.buf = f.buf
        /\ g.dirty = f.dirty
    BY <1>1, <2>1 DEF Handle
  <2>4. g \in Handle
    <3>1. PICK z \in Sectors : z = <<f.sclust, 0>>
      BY <2>2
    <3>2. g.sect \in Sectors \cup {NoSector}
      BY <2>3, <3>1
    <3>3. /\ g.name \in FILES /\ g.sclust \in CLUSTERS /\ g.clust \in CLUSTERS /\ g.offset \in Nat
          /\ g.size \in Nat /\ g.modified \in BOOLEAN /\ g.dirty \in BOOLEAN /\ g.buf \in Buffer
      BY <1>1, <2>3 DEF Handle
    <3>4. g = [name |-> g.name, sclust |-> g.sclust, clust |-> g.clust, sect |-> g.sect,
               offset |-> g.offset, size |-> g.size, modified |-> g.modified, dirty |-> g.dirty,
               buf |-> g.buf]
      BY <1>1, <2>1 DEF Handle
    <3> QED BY <3>2, <3>3, <3>4 DEF Handle
  <2>5. own[f.sclust] = f.name /\ idx[f.sclust] = 0
    BY <1>1, Names DEF Standing, Chains
  <2>6. Clus(0) = 0
    <3>1. 0 = ClustSize * 0 + 0 /\ 0 \in 0 .. ClustSize - 1 /\ ClustSize \in Nat \ {0}
      BY Sizes
    <3> QED BY <3>1, Quotient DEF Clus
  <2>7. g.sect[1] = f.sclust
    BY <2>3
  <2>8. Standing(v, own, g) /\ SameHandle(f, g)
    BY <2>3, <2>4, <2>5 DEF Standing, SameHandle
  <2>9. Clus(g.offset) = 0 /\ idx[g.clust] = 0 /\ own[g.sect[1]] = f.name /\ g.sect \in Sectors
    BY <2>2, <2>3, <2>5, <2>6, <2>7
  <2>10. Clus(off) - Clus(g.offset) \in Nat /\ ~(Clus(f.offset) <= Clus(off))
    BY <1>2, <1>3, <2>9
  <2> QED BY <2>3, <2>8, <2>9, <2>10 DEF RewoundTo
<1>4. CASE Clus(f.offset) <= Clus(off)
  <2>1. g = f
    BY <1>2, <1>4 DEF Rewound, Clus
  <2> QED BY <1>1, <1>2, <1>4, <2>1 DEF SameHandle, RewoundTo
<1> QED BY <1>2, <1>3, <1>4

LEMMA Seek ==
  ASSUME NEW v \in Volume, NEW own, NEW idx, Chains(v, own, idx), NEW f, Standing(v, own, f),
         Seekable(own, f), NEW off \in Nat, NEW o \in fat_file_seek(v, f, off)
  PROVE  \E own2, idx2 : Sought(v, f, off, o, own, idx, own2, idx2)
<1>1. PICK g : g = Rewound(f, off)
  OBVIOUS
<1>2. /\ Standing(v, own, g) /\ SameHandle(f, g) /\ g.buf = f.buf /\ g.dirty = f.dirty
      /\ g.sect = f.sect \/ (g.sect \in Sectors /\ own[g.sect[1]] = f.name)
      /\ Clus(off) - Clus(g.offset) \in Nat
      /\ idx[f.clust] = Clus(f.offset) => idx[g.clust] = Clus(g.offset)
      /\ Clus(f.offset) <= Clus(off) => g = f
      /\ Clus(off) = 0 => Clus(g.offset) = 0
  <2>1. RewoundTo(v, own, idx, f, off, g)
    BY <1>1, RewoundIs
  <2> QED BY <2>1 DEF RewoundTo
<1>3. f \in Handle /\ f.name \in FILES /\ g \in Handle /\ g.name = f.name /\ g.offset \in Nat /\ f.offset \in Nat
  BY <1>2 DEF Standing, Handle, SameHandle
<1>4. PICK n \in Nat : n = Clus(off) - Clus(g.offset)
  BY <1>2
<1>5. PICK r : RunOf(v, f, off, g, n, o, r)
  BY <1>1, <1>4, SeekIsRun
<1>6. Runs(v, g, n, r)
  BY <1>5 DEF RunOf
<1>7. PICK p \in r[n] :
             IF p.err = NONE
             THEN o \in MoveBuffer(p.fat, [p.file EXCEPT !.sect = <<p.file.clust, InClust(off)>>,
                                                       !.offset = off], f.sect)
             ELSE o = p
  BY <1>5 DEF RunOf
<1>8. PICK own2, idx2, c : Turned(v, g, n, p, own, idx, own2, idx2, c)
  BY <1>2, <1>6, RunIs
<1>9. Went(v, own, idx, p.fat, own2, idx2) /\ c \in CLUSTERS /\ p.file = [g EXCEPT !.clust = c]
      /\ own2[c] = f.name /\ p.err \in Err
  BY <1>3, <1>8 DEF Turned
<1>10. /\ p.file \in Handle /\ p.file.clust = c /\ p.file.sect = g.sect /\ SameHandle(f, p.file)
       /\ p.file.buf = f.buf /\ p.file.dirty = f.dirty
  BY <1>2, <1>3, <1>9 DEF Handle, SameHandle
<1>11. g.sect = f.sect \/ (g.sect \in Sectors /\ own2[g.sect[1]] = f.name)
  <2>1. g.sect \in Sectors => g.sect[1] \in CLUSTERS
    BY DEF Sectors
  <2> QED BY <1>2, <1>3, <1>9, <2>1, Names DEF Went, Grown
<1>12. CASE p.err # NONE
  <2>1. o = p
    BY <1>7, <1>12
  <2>2. ASSUME o.err = "full", Clus(f.offset) <= Clus(off), Clus(off) <= Clus(f.offset) + 1
        PROVE  o.fat = v /\ o.file = f
    <3>1. g = f /\ n <= 1
      BY <1>2, <1>3, <1>4, <2>2, Places
    <3> QED BY <1>8, <2>1, <2>2, <3>1 DEF Turned
  <2>3. Clus(off) = 0 => o.err # "full"
    BY <1>2, <1>4, <1>8, <2>1, Names DEF Turned
  <2>4. Sought(v, f, off, o, own, idx, own2, idx2)
    BY <1>9, <1>10, <1>11, <1>12, <2>1, <2>2, <2>3 DEF Sought, Went
  <2> QED BY <2>4
<1>13. CASE p.err = NONE
  <2>1. PICK w, x : w = p.fat /\ x = [p.file EXCEPT !.sect = <<c, InClust(off)>>, !.offset = off]
    OBVIOUS
  <2>2. o \in MoveBuffer(w, x, f.sect)
    BY <1>7, <1>10, <1>13, <2>1
  <2>3. <<c, InClust(off)>> \in Sectors
    BY <1>9, Places DEF Sectors
  <2>4. /\ x \in Handle /\ x.clust = c /\ x.sect = <<c, InClust(off)>> /\ x.offset = off
        /\ x.buf = f.buf /\ x.dirty = f.dirty
    BY <1>10, <2>1, <2>3 DEF Handle
  <2>5. SameHandle(f, x)
    BY <1>10, <2>1 DEF Handle, SameHandle
  <2>6. w \in Volume /\ w.start = v.start /\ w.size = v.size /\ w.card = v.card
        /\ Chains(w, own2, idx2) /\ Grown(own, idx, own2, idx2)
    BY <1>9, <2>1 DEF Went
  <2>7. f.sect \in Sectors \cup {NoSector} /\ (f.sect = NoSector => ~x.dirty)
    BY <1>3, <2>4 DEF Seekable, Handle
  <2>8. PICK ssect : ssect = f.sect
    OBVIOUS
  <2>9. w \in Volume /\ x \in Handle /\ x.sect \in Sectors /\ ssect \in Sectors \cup {NoSector}
        /\ (ssect = NoSector => ~x.dirty) /\ o \in MoveBuffer(w, x, ssect)
    BY <2>2, <2>3, <2>4, <2>6, <2>7, <2>8
  <2>10. Moved(w, x, ssect, o)
    BY ONLY <2>9, MoveIs
  <2>11. Chains(o.fat, own2, idx2)
    BY <2>6, <2>10 DEF Moved, Chains
  <2>12. o.err # "full"
    BY <2>10, Names DEF Moved
  <2>13. x.sect[1] = c
    BY <2>4
  <2>14. ASSUME idx[f.clust] = Clus(f.offset) PROVE idx2[c] = Clus(off)
    <3>1. idx2[c] = idx[g.clust] + n
      BY <1>8, <1>13 DEF Turned
    <3>2. Clus(off) \in Nat /\ Clus(g.offset) \in Nat
      BY <1>3, Places
    <3> QED BY <1>2, <1>4, <2>14, <3>1, <3>2
  <2>15. /\ o.fat \in Volume /\ o.file \in Handle /\ o.err \in Err
         /\ o.fat.start = v.start /\ o.fat.size = v.size
         /\ SameHandle(f, o.file) /\ o.file.clust = c /\ o.file.offset = off
         /\ o.file.sect = <<c, InClust(off)>>
         /\ \A z \in Sectors : z # f.sect => o.fat.card[z] = v.card[z]
    BY <2>4, <2>5, <2>6, <2>8, <2>10 DEF Moved, SameHandle, Err
  <2>16. ASSUME o.err = NONE
         PROVE  IF o.file.sect = f.sect
                THEN o.fat.card = v.card /\ o.file.buf = f.buf /\ o.file.dirty = f.dirty
                ELSE /\ ~o.file.dirty /\ o.file.buf = o.fat.card[o.file.sect]
                     /\ IF f.dirty THEN o.fat.card[f.sect] = f.buf ELSE o.fat.card = v.card
    BY <2>4, <2>6, <2>8, <2>10, <2>15, <2>16 DEF Moved
  <2>17. o.file.sect \in Sectors /\ own2[o.file.sect[1]] = f.name
    BY <1>9, <2>3, <2>4, <2>13, <2>15
  <2>18. Sought(v, f, off, o, own, idx, own2, idx2)
    BY <1>9, <2>6, <2>11, <2>12, <2>14, <2>15, <2>16, <2>17 DEF Sought
  <2> QED BY <2>18
<1> QED BY <1>12, <1>13

-----------------------------------------------------------------------------
(* What is written is in the buffer of the handle or on the card. *)

(* The buffer is the sector that the offset is in. *)
At(v, idx, f) ==
  /\ idx[f.clust] = Clus(f.offset) /\ f.sect = <<f.clust, InClust(f.offset)>>
  /\ f.dirty \/ f.buf = v.card[f.sect]

OnCard(v, own, idx, n, data) ==
  \A o \in Offsets : data[o] # 0 =>
    \E c \in CLUSTERS : /\ own[c] = n /\ idx[c] = Clus(o)
                        /\ v.card[<<c, InClust(o)>>][o % SECT_SIZE] = data[o]
InHand(v, own, idx, f, data) ==
  \A o \in Offsets : data[o] # 0 =>
    \E c \in CLUSTERS : /\ own[c] = f.name /\ idx[c] = Clus(o)
                        /\ data[o] = IF Sec(f.offset) = Sec(o) THEN f.buf[o % SECT_SIZE]
                                     ELSE v.card[<<c, InClust(o)>>][o % SECT_SIZE]

LEMMA OffsetsNat == Offsets \subseteq Nat
BY FileAssumption DEF Offsets

(* Two offsets in different sectors of the file are in different sectors of the card. *)
LEMMA Apart ==
  ASSUME NEW v, NEW own, NEW idx, Chains(v, own, idx), NEW f, f \in Handle, own[f.clust] = f.name,
         At(v, idx, f), NEW o \in Nat, NEW c \in CLUSTERS, own[c] = f.name, idx[c] = Clus(o)
  PROVE  /\ Sec(f.offset) = Sec(o) => <<c, InClust(o)>> = f.sect
         /\ Sec(f.offset) # Sec(o) => <<c, InClust(o)>> # f.sect
         /\ <<c, InClust(o)>> \in Sectors
<1>1. f.offset \in Nat /\ f.clust \in CLUSTERS /\ f.name # NONE
  BY Names DEF Handle
<1>2. idx[f.clust] = idx[c] => f.clust = c
  BY <1>1 DEF Chains
<1>3. <<c, InClust(o)>> \in Sectors
  BY Places DEF Sectors
<1>4. ASSUME Sec(f.offset) = Sec(o) PROVE <<c, InClust(o)>> = f.sect
  BY <1>1, <1>2, <1>4, SameSector DEF At
<1>5. ASSUME <<c, InClust(o)>> = f.sect PROVE Sec(f.offset) = Sec(o)
  <2>1. c = f.clust /\ InClust(o) = InClust(f.offset)
    BY <1>5 DEF At
  <2>2. Clus(o) = Clus(f.offset)
    BY <2>1 DEF At
  <2> QED BY <1>1, <2>1, <2>2, SameSector
<1> QED BY <1>3, <1>4, <1>5

(* The buffer is written back. *)
LEMMA Leave ==
  ASSUME NEW v, NEW own, NEW idx, Chains(v, own, idx), NEW f, f \in Handle, own[f.clust] = f.name,
         At(v, idx, f), NEW data, InHand(v, own, idx, f, data),
         NEW w, w.card[f.sect] = f.buf, \A s \in Sectors : s # f.sect => w.card[s] = v.card[s]
  PROVE  OnCard(w, own, idx, f.name, data)
<1> SUFFICES ASSUME NEW o \in Offsets, data[o] # 0
             PROVE  \E c \in CLUSTERS : /\ own[c] = f.name /\ idx[c] = Clus(o)
                                        /\ w.card[<<c, InClust(o)>>][o % SECT_SIZE] = data[o]
  BY DEF OnCard
<1>1. o \in Nat
  BY OffsetsNat
<1>2. PICK c \in CLUSTERS : /\ own[c] = f.name /\ idx[c] = Clus(o)
                            /\ data[o] = IF Sec(f.offset) = Sec(o) THEN f.buf[o % SECT_SIZE]
                                         ELSE v.card[<<c, InClust(o)>>][o % SECT_SIZE]
  BY DEF InHand
<1>3. /\ Sec(f.offset) = Sec(o) => <<c, InClust(o)>> = f.sect
      /\ Sec(f.offset) # Sec(o) => <<c, InClust(o)>> # f.sect
      /\ <<c, InClust(o)>> \in Sectors
  BY <1>1, <1>2, Apart
<1>4. w.card[<<c, InClust(o)>>][o % SECT_SIZE] = data[o]
  BY <1>2, <1>3
<1> QED BY <1>2, <1>4

(* The buffer is read. *)
LEMMA Arrive ==
  ASSUME NEW w, NEW own, NEW idx, Chains(w, own, idx), NEW f, f \in Handle, own[f.clust] = f.name,
         At(w, idx, f), f.buf = w.card[f.sect], NEW data, OnCard(w, own, idx, f.name, data)
  PROVE  InHand(w, own, idx, f, data)
<1> SUFFICES ASSUME NEW o \in Offsets, data[o] # 0
             PROVE  \E c \in CLUSTERS : /\ own[c] = f.name /\ idx[c] = Clus(o)
                                        /\ data[o] = IF Sec(f.offset) = Sec(o) THEN f.buf[o % SECT_SIZE]
                                                     ELSE w.card[<<c, InClust(o)>>][o % SECT_SIZE]
  BY DEF InHand
<1>1. o \in Nat
  BY OffsetsNat
<1>2. PICK c \in CLUSTERS : /\ own[c] = f.name /\ idx[c] = Clus(o)
                            /\ w.card[<<c, InClust(o)>>][o % SECT_SIZE] = data[o]
  BY DEF OnCard
<1>3. Sec(f.offset) = Sec(o) => <<c, InClust(o)>> = f.sect
  BY <1>1, <1>2, Apart
<1> QED BY <1>2, <1>3

LEMMA GrowCard ==
  ASSUME NEW v, NEW own, NEW idx, NEW own2, NEW idx2, Grown(own, idx, own2, idx2),
         NEW n \in FILES, NEW data, OnCard(v, own, idx, n, data)
  PROVE  OnCard(v, own2, idx2, n, data)
BY Names DEF OnCard, Grown

LEMMA GrowHand ==
  ASSUME NEW v, NEW own, NEW idx, NEW own2, NEW idx2, Grown(own, idx, own2, idx2),
         NEW f, f \in Handle, own[f.clust] = f.name, At(v, idx, f), NEW data, InHand(v, own, idx, f, data)
  PROVE  At(v, idx2, f) /\ InHand(v, own2, idx2, f, data)
<1>1. f.name \in FILES /\ f.clust \in CLUSTERS
  BY DEF Handle
<1>2. At(v, idx2, f)
  BY <1>1, Names DEF At, Grown
<1>3. ASSUME NEW o \in Offsets, data[o] # 0
      PROVE  \E c \in CLUSTERS : /\ own2[c] = f.name /\ idx2[c] = Clus(o)
                                 /\ data[o] = IF Sec(f.offset) = Sec(o) THEN f.buf[o % SECT_SIZE]
                                              ELSE v.card[<<c, InClust(o)>>][o % SECT_SIZE]
  <2>1. PICK c \in CLUSTERS : /\ own[c] = f.name /\ idx[c] = Clus(o)
                              /\ data[o] = IF Sec(f.offset) = Sec(o) THEN f.buf[o % SECT_SIZE]
                                           ELSE v.card[<<c, InClust(o)>>][o % SECT_SIZE]
    BY <1>3 DEF InHand
  <2>2. own2[c] = f.name /\ idx2[c] = Clus(o)
    BY <1>1, <2>1, Names DEF Grown
  <2> QED BY <2>1, <2>2
<1>4. InHand(v, own2, idx2, f, data)
  BY <1>3 DEF InHand
<1> QED BY <1>2, <1>4

(* A seek loses nothing, whether it moves the buffer or not. *)
LEMMA Carry ==
  ASSUME NEW v, NEW own, NEW idx, Chains(v, own, idx), NEW f, f \in Handle, own[f.clust] = f.name,
         At(v, idx, f), NEW data, InHand(v, own, idx, f, data), NEW off \in Nat,
         NEW o, NEW own2, NEW idx2, Sought(v, f, off, o, own, idx, own2, idx2), o.err = NONE
  PROVE  At(o.fat, idx2, o.file) /\ InHand(o.fat, own2, idx2, o.file, data)
<1>1. PICK w, g : w = o.fat /\ g = o.file
  OBVIOUS
<1>2. /\ g \in Handle /\ g.name = f.name /\ own2[g.clust] = g.name
      /\ Chains(w, own2, idx2) /\ Grown(own, idx, own2, idx2)
      /\ g.offset = off /\ g.sect = <<g.clust, InClust(off)>> /\ idx2[g.clust] = Clus(off)
      /\ \A s \in Sectors : s # f.sect => w.card[s] = v.card[s]
      /\ IF g.sect = f.sect
         THEN w.card = v.card /\ g.buf = f.buf /\ g.dirty = f.dirty
         ELSE /\ ~g.dirty /\ g.buf = w.card[g.sect]
              /\ IF f.dirty THEN w.card[f.sect] = f.buf ELSE w.card = v.card
  BY <1>1 DEF Sought, SameHandle, At
<1>3. f.name \in FILES /\ f.clust \in CLUSTERS /\ f.offset \in Nat /\ g.clust \in CLUSTERS
  BY <1>2 DEF Handle
<1>4. CASE g.sect # f.sect
  <2>1. w.card[f.sect] = f.buf
    BY <1>2, <1>4 DEF At
  <2>2. OnCard(w, own, idx, f.name, data)
    BY <1>2, <2>1, Leave
  <2>3. OnCard(w, own2, idx2, g.name, data)
    BY <1>2, <1>3, <2>2, GrowCard
  <2>4. At(w, idx2, g) /\ g.buf = w.card[g.sect]
    BY <1>2, <1>4 DEF At
  <2>5. InHand(w, own2, idx2, g, data)
    BY <1>2, <2>3, <2>4, Arrive
  <2> QED BY <1>1, <2>4, <2>5
<1>5. CASE g.sect = f.sect
  <2>1. g.clust = f.clust /\ InClust(off) = InClust(f.offset)
    BY <1>2, <1>5 DEF At
  <2>2. idx2[f.clust] = idx[f.clust]
    BY <1>2, <1>3, Names DEF Grown
  <2>3. Sec(f.offset) = Sec(off)
    BY <1>2, <1>3, <2>1, <2>2, SameSector DEF At
  <2>4. At(v, idx2, f) /\ InHand(v, own2, idx2, f, data)
    BY <1>2, GrowHand
  <2>5. At(w, idx2, g)
    BY <1>2, <1>5, <2>4 DEF At
  <2>6. w.card = v.card /\ g.buf = f.buf /\ g.name = f.name /\ Sec(g.offset) = Sec(f.offset)
    BY <1>2, <1>5, <2>3
  <2>7. InHand(w, own2, idx2, g, data)
    BY <2>4, <2>6 DEF InHand
  <2> QED BY <1>1, <2>5, <2>7
<1> QED BY <1>4, <1>5

(* The bytes of a turn of fat_file_write go into the buffer. *)
PutIn(f, i0, cnt, b) ==
  [f EXCEPT !.buf = [i \in DOMAIN f.buf |-> IF i \in i0 .. i0 + cnt - 1 THEN b ELSE f.buf[i]],
            !.dirty = TRUE]
PutData(data, off, cnt, b) == [i \in Offsets |-> IF i \in off .. off + cnt - 1 THEN b ELSE data[i]]

LEMMA Put ==
  ASSUME NEW v, NEW own, NEW idx, Chains(v, own, idx), NEW f, f \in Handle, own[f.clust] = f.name,
         At(v, idx, f), NEW data, InHand(v, own, idx, f, data), NEW b \in Nat,
         NEW cnt \in Nat, cnt <= SECT_SIZE - (f.offset % SECT_SIZE),
         NEW i0, i0 = f.offset % SECT_SIZE,
         NEW put, put = PutIn(f, i0, cnt, b), NEW data2, data2 = PutData(data, f.offset, cnt, b)
  PROVE  /\ put \in Handle /\ SameHandle(f, put) /\ put.clust = f.clust /\ put.sect = f.sect
         /\ put.offset = f.offset /\ put.dirty
         /\ At(v, idx, put) /\ InHand(v, own, idx, put, data2)
<1> DEFINE buf2 == [i \in DOMAIN f.buf |-> IF i \in i0 .. i0 + cnt - 1 THEN b ELSE f.buf[i]]
<1>1. f.buf \in Buffer /\ f.offset \in Nat /\ f.clust \in CLUSTERS
  BY DEF Handle
<1>2. buf2 \in Buffer /\ \A i \in 0 .. SECT_SIZE - 1 :
                           buf2[i] = IF i \in i0 .. i0 + cnt - 1 THEN b ELSE f.buf[i]
  BY <1>1 DEF Buffer
<1>3. put = [f EXCEPT !.buf = buf2, !.dirty = TRUE]
  BY DEF PutIn
<1> HIDE DEF buf2
<1>4. /\ put \in Handle /\ put.buf = buf2 /\ put.dirty /\ put.clust = f.clust /\ put.sect = f.sect
      /\ put.offset = f.offset /\ SameHandle(f, put)
  BY <1>2, <1>3 DEF Handle, SameHandle
<1>5. At(v, idx, put)
  BY <1>4 DEF At
<1>6. ASSUME NEW o \in Offsets, data2[o] # 0
      PROVE  \E c \in CLUSTERS : /\ own[c] = put.name /\ idx[c] = Clus(o)
                                 /\ data2[o] = IF Sec(put.offset) = Sec(o) THEN put.buf[o % SECT_SIZE]
                                               ELSE v.card[<<c, InClust(o)>>][o % SECT_SIZE]
  <2>1. o \in Nat /\ o % SECT_SIZE \in 0 .. SECT_SIZE - 1 /\ o = SECT_SIZE * Sec(o) + (o % SECT_SIZE)
    BY OffsetsNat, Places
  <2>2. f.offset = SECT_SIZE * Sec(f.offset) + i0 /\ i0 \in 0 .. SECT_SIZE - 1
    BY <1>1, Places
  <2>3. CASE o \in f.offset .. f.offset + cnt - 1
    <3>1. o < f.offset + SECT_SIZE - (f.offset % SECT_SIZE) /\ f.offset <= o
      BY <1>1, <2>1, <2>2, <2>3, Sizes
    <3>2. Sec(o) = Sec(f.offset) /\ o % SECT_SIZE = i0 + (o - f.offset)
      BY <1>1, <2>1, <3>1, InSector
    <3>3. o % SECT_SIZE \in i0 .. i0 + cnt - 1
      BY <1>1, <2>1, <2>2, <2>3, <3>2
    <3>4. data2[o] = b /\ put.buf[o % SECT_SIZE] = b
      BY <1>2, <1>4, <2>1, <2>3, <3>3 DEF PutData
    <3>5. Clus(o) = Clus(f.offset)
      BY <1>1, <2>1, <3>2, SameSector
    <3> QED BY <1>1, <1>4, <3>2, <3>4, <3>5 DEF At, SameHandle
  <2>4. CASE o \notin f.offset .. f.offset + cnt - 1
    <3>1. data2[o] = data[o]
      BY <2>4 DEF PutData
    <3>2. PICK c \in CLUSTERS : /\ own[c] = f.name /\ idx[c] = Clus(o)
                                /\ data[o] = IF Sec(f.offset) = Sec(o) THEN f.buf[o % SECT_SIZE]
                                             ELSE v.card[<<c, InClust(o)>>][o % SECT_SIZE]
      BY <1>6, <3>1 DEF InHand
    <3>3. ASSUME Sec(f.offset) = Sec(o) PROVE put.buf[o % SECT_SIZE] = f.buf[o % SECT_SIZE]
      <4>1. PICK x, y : x = SECT_SIZE * Sec(o) /\ y = o % SECT_SIZE
        OBVIOUS
      <4>2. x \in Int
        BY <2>1, <4>1, Sizes, Places
      <4>3. o = x + y /\ f.offset = x + i0 /\ y \in 0 .. SECT_SIZE - 1
        BY <2>1, <2>2, <3>3, <4>1
      <4>4. y \notin i0 .. i0 + cnt - 1
        BY <1>1, <2>1, <2>2, <2>4, <4>2, <4>3, Sizes
      <4> QED BY <1>2, <1>4, <4>1, <4>3, <4>4
    <3> QED BY <1>4, <3>1, <3>2, <3>3 DEF SameHandle
  <2> QED BY <2>3, <2>4
<1>7. InHand(v, own, idx, put, data2)
  BY <1>6 DEF InHand
<1> QED BY <1>4, <1>5, <1>7

-----------------------------------------------------------------------------
(* The inductive invariant *)

Calls == {Idle} \cup [op : {"write", "read"}, h : HANDLES, len : Nat]
Ghosts == [data : [FILES -> [Offsets -> Nat]], len : [FILES -> Nat], unsure : SUBSET FILES]
On(fl, n) == {h \in HANDLES : fl[h].name = n}
Writing(c, h) == c.op = "write" /\ c.h = h

(* A handle, and the sector it writes to, are on the chain of its file. *)
Placed(v, own, f) ==
  /\ f \in Handle /\ own[f.clust] = f.name /\ f.sclust = v.start[f.name]
  /\ f.sect \in Sectors /\ own[f.sect[1]] = f.name

(* The length of a file is that of the handle, or where its write has got to. *)
Lengths(v, f, len, writing) ==
  /\ f.modified \/ v.size[f.name] = f.size
  /\ IF writing THEN f.modified /\ len = IF f.offset > f.size THEN f.offset ELSE f.size
                ELSE f.offset <= f.size /\ len = f.size

Resting(v, own, idx, n, len, data) == v.size[n] = len /\ OnCard(v, own, idx, n, data)
InUse(v, own, idx, f, len, data, writing) ==
  At(v, idx, f) /\ Lengths(v, f, len, writing) /\ InHand(v, own, idx, f, data)

(* A file that no failed call touched has one handle at most. *)
FileSound(v, fl, c, gh, own, idx, n) ==
  \/ On(fl, n) = {} /\ Resting(v, own, idx, n, gh.len[n], gh.data[n])
  \/ \E h \in HANDLES : /\ On(fl, n) = {h}
                        /\ InUse(v, own, idx, fl[h], gh.len[n], gh.data[n], Writing(c, h))

Sound(v, fl, c, gh, own, idx) ==
  /\ v \in Volume /\ fl \in [HANDLES -> Handle \cup {Closed}] /\ c \in Calls /\ gh \in Ghosts
  /\ c # Idle => fl[c.h] # Closed
  /\ Chains(v, own, idx)
  /\ \A h \in HANDLES : fl[h] # Closed => Placed(v, own, fl[h])
  /\ \A n \in FILES \ gh.unsure : FileSound(v, fl, c, gh, own, idx, n)

LEMMA ClosedName == Closed.name = NONE /\ (\A f \in Handle : f.name \in FILES /\ f # Closed)
BY Names DEF Closed, Handle

LEMMA PlacedKept ==
  ASSUME NEW v, NEW w, NEW own, NEW idx, NEW own2, NEW idx2, NEW f, Placed(v, own, f),
         Grown(own, idx, own2, idx2),
         \A m \in FILES : v.start[m] # NONE => w.start[m] = v.start[m]
  PROVE  Placed(w, own2, f)
<1>1. f.name \in FILES /\ f.clust \in CLUSTERS /\ f.sclust \in CLUSTERS
  BY DEF Placed, Handle
<1>2. f.sect[1] \in CLUSTERS
  BY DEF Placed, Sectors
<1>3. w.start[f.name] = f.sclust
  BY <1>1, Names DEF Placed
<1>4. own2[f.clust] = f.name /\ own2[f.sect[1]] = f.name
  BY <1>1, <1>2, Names DEF Placed, Grown
<1> QED BY <1>3, <1>4 DEF Placed

(* What a call on one file leaves of the others *)
LEMMA Others ==
  ASSUME NEW v, NEW fl, NEW c, NEW gh, NEW own, NEW idx, Sound(v, fl, c, gh, own, idx),
         NEW m \in FILES \ gh.unsure, NEW w, NEW fl2, NEW c2, NEW gh2, NEW own2, NEW idx2,
         Grown(own, idx, own2, idx2), w.size[m] = v.size[m],
         \A s \in Sectors : own[s[1]] = m => w.card[s] = v.card[s],
         \A h \in HANDLES : fl2[h] = fl[h] \/ (fl[h].name # m /\ fl2[h].name # m),
         gh2.len[m] = gh.len[m], gh2.data[m] = gh.data[m],
         \A h \in HANDLES : fl[h].name = m => (Writing(c2, h) <=> Writing(c, h))
  PROVE  FileSound(w, fl2, c2, gh2, own2, idx2, m)
<1>1. On(fl2, m) = On(fl, m) /\ \A h \in On(fl, m) : fl2[h] = fl[h]
  BY DEF On
<1>2. PICK data, len : data = gh.data[m] /\ len = gh.len[m]
  OBVIOUS
<1>3. FileSound(v, fl, c, gh, own, idx, m) /\ Chains(v, own, idx)
  BY DEF Sound
<1>4. ASSUME NEW d \in CLUSTERS, own[d] = m, NEW o \in Offsets
      PROVE  w.card[<<d, InClust(o)>>] = v.card[<<d, InClust(o)>>]
  <2>1. <<d, InClust(o)>> \in Sectors /\ <<d, InClust(o)>>[1] = d
    BY OffsetsNat, Places DEF Sectors
  <2> QED BY <1>4, <2>1
<1>5. CASE On(fl, m) = {} /\ Resting(v, own, idx, m, len, data)
  <2>1. OnCard(w, own, idx, m, data)
    <3> SUFFICES ASSUME NEW o \in Offsets, data[o] # 0
                 PROVE  \E d \in CLUSTERS : /\ own[d] = m /\ idx[d] = Clus(o)
                                            /\ w.card[<<d, InClust(o)>>][o % SECT_SIZE] = data[o]
      BY DEF OnCard
    <3>1. PICK d \in CLUSTERS : /\ own[d] = m /\ idx[d] = Clus(o)
                                /\ v.card[<<d, InClust(o)>>][o % SECT_SIZE] = data[o]
      BY <1>5 DEF Resting, OnCard
    <3> QED BY <1>4, <3>1
  <2>2. OnCard(w, own2, idx2, m, data)
    BY <2>1, GrowCard
  <2>3. Resting(w, own2, idx2, m, len, data)
    BY <1>5, <2>2 DEF Resting
  <2> QED BY <1>1, <1>2, <1>5, <2>3 DEF FileSound
<1>6. ASSUME NEW h \in HANDLES, On(fl, m) = {h}, InUse(v, own, idx, fl[h], len, data, Writing(c, h))
      PROVE  FileSound(w, fl2, c2, gh2, own2, idx2, m)
  <2>1. PICK f : f = fl[h]
    OBVIOUS
  <2>2. f.name = m /\ fl2[h] = f /\ f # Closed
    BY <1>1, <1>6, <2>1, ClosedName, Names DEF On
  <2>3. Placed(v, own, f)
    BY <2>1, <2>2 DEF Sound
  <2>4. f \in Handle /\ own[f.clust] = f.name /\ f.sect \in Sectors /\ own[f.sect[1]] = m
    BY <2>2, <2>3 DEF Placed
  <2>5. w.card[f.sect] = v.card[f.sect]
    BY <2>4
  <2>6. At(w, idx, f)
    BY <1>6, <2>1, <2>5 DEF InUse, At
  <2>7. InHand(w, own, idx, f, data)
    <3> SUFFICES ASSUME NEW o \in Offsets, data[o] # 0
                 PROVE  \E d \in CLUSTERS : /\ own[d] = f.name /\ idx[d] = Clus(o)
                                            /\ data[o] = IF Sec(f.offset) = Sec(o) THEN f.buf[o % SECT_SIZE]
                                                         ELSE w.card[<<d, InClust(o)>>][o % SECT_SIZE]
      BY DEF InHand
    <3>1. PICK d \in CLUSTERS : /\ own[d] = f.name /\ idx[d] = Clus(o)
                                /\ data[o] = IF Sec(f.offset) = Sec(o) THEN f.buf[o % SECT_SIZE]
                                             ELSE v.card[<<d, InClust(o)>>][o % SECT_SIZE]
      BY <1>6, <2>1 DEF InUse, InHand
    <3> QED BY <1>4, <2>2, <3>1
  <2>8. At(w, idx2, f) /\ InHand(w, own2, idx2, f, data)
    BY <2>4, <2>6, <2>7, GrowHand
  <2>9. Lengths(w, f, len, Writing(c2, h))
    <3>1. Writing(c2, h) <=> Writing(c, h)
      BY <2>1, <2>2
    <3> QED BY <1>6, <2>1, <2>2, <3>1 DEF InUse, Lengths
  <2>10. InUse(w, own2, idx2, f, len, data, Writing(c2, h))
    BY <2>8, <2>9 DEF InUse
  <2> QED BY <1>1, <1>2, <1>6, <2>2, <2>10 DEF FileSound
<1> QED BY <1>2, <1>3, <1>5, <1>6 DEF FileSound

(* A call on handle h of file n *)
Update(fl, h, g) == [fl EXCEPT ![h] = g]
CallOn(v, fl, c, gh, own, idx, n, h, w, g, c2, gh2, own2, idx2) ==
  /\ Sound(v, fl, c, gh, own, idx) /\ n \in FILES /\ h \in HANDLES
  /\ fl[h] = Closed \/ fl[h].name = n
  /\ w \in Volume /\ Chains(w, own2, idx2) /\ Grown(own, idx, own2, idx2)
  /\ \A m \in FILES : v.start[m] # NONE => w.start[m] = v.start[m]
  /\ \A m \in FILES \ {n} : w.size[m] = v.size[m]
  /\ \A s \in Sectors : own[s[1]] \in FILES \ {n} => w.card[s] = v.card[s]
  /\ g = Closed \/ (g.name = n /\ Placed(w, own2, g))
  /\ c2 \in Calls /\ (c2 # Idle => Update(fl, h, g)[c2.h] # Closed)
  /\ \A k \in HANDLES \ {h} : Writing(c2, k) <=> Writing(c, k)
  /\ gh2 \in Ghosts /\ gh.unsure \subseteq gh2.unsure
  /\ \A m \in FILES \ {n} : gh2.len[m] = gh.len[m] /\ gh2.data[m] = gh.data[m]

LEMMA Step ==
  ASSUME NEW v, NEW fl, NEW c, NEW gh, NEW own, NEW idx, NEW n, NEW h, NEW w, NEW g, NEW c2, NEW gh2,
         NEW own2, NEW idx2, CallOn(v, fl, c, gh, own, idx, n, h, w, g, c2, gh2, own2, idx2),
         NEW fl2, fl2 = Update(fl, h, g),
         n \notin gh2.unsure => FileSound(w, fl2, c2, gh2, own2, idx2, n)
  PROVE  Sound(w, fl2, c2, gh2, own2, idx2)
<1>1. /\ Sound(v, fl, c, gh, own, idx) /\ n \in FILES /\ h \in HANDLES
      /\ fl[h] = Closed \/ fl[h].name = n
      /\ w \in Volume /\ Chains(w, own2, idx2) /\ Grown(own, idx, own2, idx2)
      /\ \A m \in FILES : v.start[m] # NONE => w.start[m] = v.start[m]
      /\ g = Closed \/ (g.name = n /\ Placed(w, own2, g))
      /\ c2 \in Calls /\ (c2 # Idle => fl2[c2.h] # Closed)
      /\ gh2 \in Ghosts /\ gh.unsure \subseteq gh2.unsure
  BY DEF CallOn
<1>2. fl \in [HANDLES -> Handle \cup {Closed}]
  BY <1>1 DEF Sound
<1>3. fl2[h] = g /\ \A k \in HANDLES \ {h} : fl2[k] = fl[k]
  BY <1>1, <1>2 DEF Update
<1>4. g \in Handle \cup {Closed}
  BY <1>1 DEF Placed
<1>5. fl2 \in [HANDLES -> Handle \cup {Closed}]
  BY <1>2, <1>4 DEF Update
<1>6. ASSUME NEW k \in HANDLES, fl2[k] # Closed PROVE Placed(w, own2, fl2[k])
  <2>1. CASE k = h
    BY <1>1, <1>3, <1>6, <2>1
  <2>2. CASE k # h
    <3>1. fl2[k] = fl[k] /\ Placed(v, own, fl[k])
      BY <1>1, <1>3, <1>6, <2>2 DEF Sound
    <3>2. Placed(w, own2, fl[k])
      BY <1>1, <3>1, PlacedKept
    <3> QED BY <3>1, <3>2
  <2> QED BY <2>1, <2>2
<1>7. ASSUME NEW m \in FILES \ gh2.unsure PROVE FileSound(w, fl2, c2, gh2, own2, idx2, m)
  <2>1. CASE m = n
    BY <2>1
  <2>2. CASE m # n
    <3>1. m \in FILES \ gh.unsure
      BY <1>1
    <3>2. w.size[m] = v.size[m] /\ gh2.len[m] = gh.len[m] /\ gh2.data[m] = gh.data[m]
      BY <2>2 DEF CallOn
    <3>3. \A s \in Sectors : own[s[1]] = m => w.card[s] = v.card[s]
      BY <2>2 DEF CallOn
    <3>4. \A k \in HANDLES : fl2[k] = fl[k] \/ (fl[k].name # m /\ fl2[k].name # m)
      BY <1>1, <1>3, <2>2, ClosedName, Names
    <3>5. \A k \in HANDLES : fl[k].name = m => (Writing(c2, k) <=> Writing(c, k))
      <4>1. fl[h].name # m
        BY <1>1, <2>2, ClosedName, Names
      <4> QED BY <4>1 DEF CallOn
    <3>6. /\ Sound(v, fl, c, gh, own, idx) /\ m \in FILES \ gh.unsure /\ Grown(own, idx, own2, idx2)
          /\ w.size[m] = v.size[m]
          /\ \A s \in Sectors : own[s[1]] = m => w.card[s] = v.card[s]
          /\ \A k \in HANDLES : fl2[k] = fl[k] \/ (fl[k].name # m /\ fl2[k].name # m)
          /\ gh2.len[m] = gh.len[m] /\ gh2.data[m] = gh.data[m]
          /\ \A k \in HANDLES : fl[k].name = m => (Writing(c2, k) <=> Writing(c, k))
      BY <1>1, <3>1, <3>2, <3>3, <3>4, <3>5
    <3> QED BY ONLY <3>6, Others
  <2> QED BY <2>1, <2>2
<1> QED BY <1>1, <1>5, <1>6, <1>7 DEF Sound

(* The handle of a file that no failed call touched is its only one. *)
Alone(v, fl, c, gh, own, idx, h, n) ==
  /\ On(fl, n) = {h} /\ At(v, idx, fl[h]) /\ InHand(v, own, idx, fl[h], gh.data[n])
  /\ Lengths(v, fl[h], gh.len[n], Writing(c, h))

LEMMA OnlyHandle ==
  ASSUME NEW v, NEW fl, NEW c, NEW gh, NEW own, NEW idx, Sound(v, fl, c, gh, own, idx),
         NEW h \in HANDLES, NEW n \in FILES \ gh.unsure, fl[h].name = n
  PROVE  Alone(v, fl, c, gh, own, idx, h, n)
<1>1. h \in On(fl, n)
  BY DEF On
<1>2. FileSound(v, fl, c, gh, own, idx, n)
  BY DEF Sound
<1>3. PICK k \in HANDLES : /\ On(fl, n) = {k}
                           /\ InUse(v, own, idx, fl[k], gh.len[n], gh.data[n], Writing(c, k))
  BY <1>1, <1>2 DEF FileSound
<1>4. k = h
  BY <1>1, <1>3
<1> QED BY <1>3, <1>4 DEF InUse, Alone

LEMMA OnAfter ==
  ASSUME NEW fl, fl \in [HANDLES -> Handle \cup {Closed}], NEW h \in HANDLES, NEW n \in FILES,
         On(fl, n) \subseteq {h}, NEW g, NEW fl2, fl2 = Update(fl, h, g)
  PROVE  /\ fl2[h] = g
         /\ g.name = n => On(fl2, n) = {h}
         /\ g = Closed => On(fl2, n) = {}
<1>1. fl2[h] = g /\ \A k \in HANDLES \ {h} : fl2[k] = fl[k] /\ fl[k].name # n
  BY DEF On, Update
<1> QED BY <1>1, ClosedName, Names DEF On

-----------------------------------------------------------------------------
(* The actions *)

LEMMA ZeroCluster == Clus(0) = 0
<1>1. 0 = ClustSize * 0 + 0 /\ 0 \in 0 .. ClustSize - 1 /\ ClustSize \in Nat \ {0}
  BY Sizes
<1> QED BY <1>1, Quotient DEF Clus

LEMMA MaxOfTwo ==
  ASSUME NEW a \in Nat, NEW b \in Nat
  PROVE  Max({a, b}) = IF b > a THEN b ELSE a
<1> DEFINE P(x) == x \in {a, b} /\ \A y \in {a, b} : x >= y
<1>1. \E x : P(x)
  <2>1. CASE b > a
    <3>1. P(b)
      BY <2>1
    <3> QED BY <3>1
  <2>2. CASE ~(b > a)
    <3>1. P(a)
      BY <2>2
    <3> QED BY <3>1
  <2> QED BY <2>1, <2>2
<1>2. Max({a, b}) = CHOOSE x : P(x)
  BY DEF Max
<1>3. PICK m : m = CHOOSE x : P(x)
  OBVIOUS
<1>4. P(m)
  BY <1>1, <1>3
<1> QED BY <1>2, <1>3, <1>4

LEMMA LimitIs ==
  ASSUME NEW a \in Nat, NEW b \in Nat
  PROVE  Limit(a, b) \in Nat /\ Limit(a, b) <= a /\ Limit(a, b) <= b
BY DEF Limit

(* Handles that differ only in what their length is *)
SamePlace(f, g) ==
  /\ g.name = f.name /\ g.sclust = f.sclust /\ g.clust = f.clust /\ g.sect = f.sect
  /\ g.offset = f.offset /\ g.dirty = f.dirty /\ g.buf = f.buf

LEMMA SameBytes ==
  ASSUME NEW v, NEW own, NEW idx, NEW f, NEW g, SamePlace(f, g), At(v, idx, f), NEW data,
         InHand(v, own, idx, f, data)
  PROVE  At(v, idx, g) /\ InHand(v, own, idx, g, data)
<1>1. /\ g.name = f.name /\ g.clust = f.clust /\ g.sect = f.sect
      /\ g.offset = f.offset /\ g.dirty = f.dirty /\ g.buf = f.buf
  BY DEF SamePlace
<1>2. At(v, idx, g)
  BY <1>1 DEF At
<1>3. InHand(v, own, idx, g, data)
  BY <1>1 DEF InHand
<1> QED BY <1>2, <1>3

LEMMA PlacedSeeks ==
  ASSUME NEW v, NEW own, NEW f, Placed(v, own, f)
  PROVE  Standing(v, own, f) /\ Seekable(own, f)
BY Names DEF Placed, Standing, Seekable

(* A call that moves handle h by a seek *)
LEMMA SoughtOn ==
  ASSUME NEW v, NEW fl, NEW c, NEW gh, NEW own, NEW idx, Sound(v, fl, c, gh, own, idx),
         NEW h \in HANDLES, NEW f, Placed(v, own, f), fl[h].name = f.name, c = Idle \/ c.h = h,
         NEW off, NEW o, NEW own2, NEW idx2, Sought(v, f, off, o, own, idx, own2, idx2),
         NEW g \in Handle, SamePlace(o.file, g),
         NEW c2 \in Calls, c2 = Idle \/ c2.h = h,
         NEW gh2 \in Ghosts, gh.unsure \subseteq gh2.unsure,
         \A m \in FILES \ {f.name} : gh2.len[m] = gh.len[m] /\ gh2.data[m] = gh.data[m]
  PROVE  CallOn(v, fl, c, gh, own, idx, f.name, h, o.fat, g, c2, gh2, own2, idx2)
<1>1. f \in Handle /\ f.name \in FILES /\ own[f.clust] = f.name /\ f.sclust = v.start[f.name]
      /\ f.sect \in Sectors /\ own[f.sect[1]] = f.name
  BY DEF Placed, Handle
<1>2. /\ o.fat \in Volume /\ Chains(o.fat, own2, idx2) /\ Grown(own, idx, own2, idx2)
      /\ o.fat.start = v.start /\ o.fat.size = v.size
      /\ o.file.name = f.name /\ o.file.sclust = f.sclust /\ own2[o.file.clust] = f.name
      /\ o.file.sect = f.sect \/ (o.file.sect \in Sectors /\ own2[o.file.sect[1]] = f.name)
      /\ \A s \in Sectors : s # f.sect => o.fat.card[s] = v.card[s]
  BY DEF Sought, SameHandle
<1>3. f.sect[1] \in CLUSTERS
  BY <1>1 DEF Sectors
<1>4. own2[f.sect[1]] = f.name
  BY <1>1, <1>2, <1>3, Names DEF Grown
<1>5. Placed(o.fat, own2, g) /\ g.name = f.name
  BY <1>1, <1>2, <1>4 DEF Placed, SamePlace
<1>6. \A s \in Sectors : own[s[1]] \in FILES \ {f.name} => o.fat.card[s] = v.card[s]
  BY <1>1, <1>2
<1>7. fl \in [HANDLES -> Handle \cup {Closed}]
  BY DEF Sound
<1>8. c2 # Idle => Update(fl, h, g)[c2.h] # Closed
  BY <1>7, ClosedName DEF Update
<1>9. \A k \in HANDLES \ {h} : Writing(c2, k) <=> Writing(c, k)
  <2>1. ~Writing(Idle, h) /\ \A k \in HANDLES \ {h} : ~Writing(Idle, k)
    BY DEF Writing, Idle, NONE
  <2> QED BY <2>1 DEF Writing
<1> QED BY <1>1, <1>2, <1>5, <1>6, <1>8, <1>9 DEF CallOn

(* The handle that a loop is about *)
LEMMA Looping ==
  ASSUME NEW v, NEW fl, NEW c, NEW gh, NEW own, NEW idx, Sound(v, fl, c, gh, own, idx),
         c.op \in {"write", "read"}
  PROVE  /\ c.h \in HANDLES /\ c.len \in Nat /\ c = [op |-> c.op, h |-> c.h, len |-> c.len]
         /\ fl[c.h] # Closed /\ Placed(v, own, fl[c.h]) /\ fl[c.h] \in Handle /\ fl[c.h].name \in FILES
         /\ fl \in [HANDLES -> Handle \cup {Closed}] /\ gh \in Ghosts /\ v \in Volume
<1>1. c # Idle
  BY DEF Idle, NONE
<1>2. c \in [op : {"write", "read"}, h : HANDLES, len : Nat]
  BY <1>1 DEF Sound, Calls
<1>3. fl[c.h] # Closed /\ c.h \in HANDLES
  BY <1>1, <1>2 DEF Sound
<1>4. Placed(v, own, fl[c.h])
  BY <1>3 DEF Sound
<1> QED BY <1>2, <1>3, <1>4 DEF Placed, Handle, Sound

NewGhost(gh, n, data, len, U) ==
  [data |-> [gh.data EXCEPT ![n] = data], len |-> [gh.len EXCEPT ![n] = len], unsure |-> gh.unsure \cup U]

LEMMA GhostType ==
  ASSUME NEW gh \in Ghosts, NEW n \in FILES, NEW data \in [Offsets -> Nat], NEW len \in Nat,
         NEW U \in SUBSET FILES, NEW gh2, gh2 = NewGhost(gh, n, data, len, U)
  PROVE  /\ gh2 \in Ghosts /\ gh.unsure \subseteq gh2.unsure /\ U \subseteq gh2.unsure
         /\ gh2.data[n] = data /\ gh2.len[n] = len
         /\ \A m \in FILES \ {n} : gh2.len[m] = gh.len[m] /\ gh2.data[m] = gh.data[m]
<1>1. gh.data \in [FILES -> [Offsets -> Nat]] /\ gh.len \in [FILES -> Nat] /\ gh.unsure \in SUBSET FILES
  BY DEF Ghosts
<1>2. PICK d, l : d = [gh.data EXCEPT ![n] = data] /\ l = [gh.len EXCEPT ![n] = len]
  OBVIOUS
<1>3. /\ d \in [FILES -> [Offsets -> Nat]] /\ d[n] = data /\ \A m \in FILES \ {n} : d[m] = gh.data[m]
      /\ l \in [FILES -> Nat] /\ l[n] = len /\ \A m \in FILES \ {n} : l[m] = gh.len[m]
  BY <1>1, <1>2
<1>4. gh2 = [data |-> d, len |-> l, unsure |-> gh.unsure \cup U]
  BY <1>2 DEF NewGhost
<1>5. gh.unsure \cup U \in SUBSET FILES
  BY <1>1
<1> QED BY <1>3, <1>4, <1>5 DEF Ghosts

LEMMA UnsureIs ==
  ASSUME NEW n \in FILES, NEW o
  PROVE  Unsure(n, o) \in SUBSET FILES /\ (n \in Unsure(n, o) <=> o.err = "io")
BY DEF Unsure

(* The length after a turn of fat_file_write: the size follows at the end. *)
Sized(g) == [g EXCEPT !.size = IF g.offset > g.size THEN g.offset ELSE g.size]

LEMMA SizedIs ==
  ASSUME NEW f \in Handle
  PROVE  /\ Sized(f) \in Handle /\ SamePlace(f, Sized(f)) /\ Sized(f).modified = f.modified
         /\ Sized(f).size = IF f.offset > f.size THEN f.offset ELSE f.size
         /\ f.offset \in Nat /\ f.size \in Nat
<1>1. PICK z : z = IF f.offset > f.size THEN f.offset ELSE f.size
  OBVIOUS
<1>2. z \in Nat /\ f.offset \in Nat /\ f.size \in Nat
  BY <1>1 DEF Handle
<1>3. Sized(f) = [f EXCEPT !.size = z]
  BY <1>1 DEF Sized
<1>4. /\ Sized(f) \in Handle /\ Sized(f).size = z /\ Sized(f).modified = f.modified
      /\ Sized(f).name = f.name /\ Sized(f).sclust = f.sclust /\ Sized(f).clust = f.clust
      /\ Sized(f).sect = f.sect /\ Sized(f).offset = f.offset /\ Sized(f).dirty = f.dirty
      /\ Sized(f).buf = f.buf
  BY <1>2, <1>3 DEF Handle
<1> QED BY <1>1, <1>2, <1>4 DEF SamePlace

LEMMA WriteSound ==
  ASSUME writes \in Nat, NEW own, NEW idx, Sound(fat, file, call, ghost, own, idx), WriteStep
  PROVE  \E own2, idx2 : Sound(fat', file', call', ghost', own2, idx2)
<1>1. PICK h, f, i0, cnt :
        /\ h = call.h /\ f = file[h] /\ i0 = f.offset % SECT_SIZE
        /\ cnt = Limit(call.len, SECT_SIZE - i0)
  OBVIOUS
<1>2. call.op = "write"
  BY DEF WriteStep
<1>3. /\ h \in HANDLES /\ call.len \in Nat /\ call = [op |-> "write", h |-> h, len |-> call.len]
      /\ f # Closed /\ Placed(fat, own, f) /\ f \in Handle /\ f.name \in FILES
      /\ file \in [HANDLES -> Handle \cup {Closed}] /\ ghost \in Ghosts /\ fat \in Volume
  BY <1>1, <1>2, Looping
<1>4. f.offset \in Nat /\ f.size \in Nat /\ f.buf \in Buffer /\ own[f.clust] = f.name
  BY <1>3 DEF Handle, Placed
<1>5. i0 \in 0 .. SECT_SIZE - 1 /\ SECT_SIZE \in Nat
  BY <1>1, <1>4, Places, Sizes
<1>6. cnt \in Nat /\ cnt <= call.len /\ cnt <= SECT_SIZE - i0
  <2>1. SECT_SIZE - i0 \in Nat
    BY <1>5
  <2> QED BY <1>1, <1>3, <2>1, LimitIs
<1>7. PICK put, n, data, data2, off :
        /\ put = PutIn(f, i0, cnt, writes)
        /\ n = f.name /\ data = ghost.data[n] /\ off = f.offset + cnt
        /\ data2 = PutData(data, f.offset, cnt, writes)
  OBVIOUS
<1>8. PICK o \in fat_file_seek(fat, put, off) :
        /\ fat' = o.fat
        /\ file' = [file EXCEPT ![h] = IF o.err # NONE \/ call.len = cnt THEN Sized(o.file) ELSE o.file]
        /\ call' = IF o.err # NONE \/ call.len = cnt THEN Idle ELSE [call EXCEPT !.len = @ - cnt]
        /\ ghost' = [data |-> [ghost.data EXCEPT ![n] = PutData(@, f.offset, cnt, writes)],
                     len |-> IF o.err = NONE
                             THEN [ghost.len EXCEPT ![n] = Max({@, f.offset + cnt})]
                             ELSE ghost.len,
                     unsure |-> ghost.unsure \cup Unsure(n, o)]
  <2> DEFINE H == call.h
             F == file[H]
             I == F.offset % SECT_SIZE
             C == Limit(call.len, SECT_SIZE - I)
  <2>1. \E o \in fat_file_seek(fat, PutIn(F, I, C, writes), F.offset + C) :
          /\ fat' = o.fat
          /\ file' = [file EXCEPT ![H] = IF o.err # NONE \/ call.len = C THEN Sized(o.file) ELSE o.file]
          /\ call' = IF o.err # NONE \/ call.len = C THEN Idle ELSE [call EXCEPT !.len = @ - C]
          /\ ghost' = [data |-> [ghost.data EXCEPT ![F.name] = PutData(@, F.offset, C, writes)],
                       len |-> IF o.err = NONE
                               THEN [ghost.len EXCEPT ![F.name] = Max({@, F.offset + C})]
                               ELSE ghost.len,
                       unsure |-> ghost.unsure \cup Unsure(F.name, o)]
    BY DEF WriteStep, Sized, PutIn, PutData
  <2>2. H = h /\ F = f /\ I = i0 /\ C = cnt
    BY <1>1
  <2> HIDE DEF H, F, I, C
  <2>3. PutIn(F, I, C, writes) = put /\ F.offset + C = off /\ F.name = n /\ F.offset = f.offset
    BY <1>7, <2>2
  <2> QED BY <2>1, <2>2, <2>3
<1>9. /\ put \in Handle /\ put.name = f.name /\ put.sclust = f.sclust /\ put.clust = f.clust
      /\ put.sect = f.sect /\ put.offset = f.offset /\ put.size = f.size /\ put.modified = f.modified
  <2>1. PICK b : b = [i \in DOMAIN f.buf |-> IF i \in i0 .. i0 + cnt - 1 THEN writes ELSE f.buf[i]]
    OBVIOUS
  <2>2. b \in Buffer
    BY <1>4, <2>1 DEF Buffer
  <2>3. put = [f EXCEPT !.buf = b, !.dirty = TRUE]
    BY <1>7, <2>1 DEF PutIn
  <2> QED BY <1>3, <2>2, <2>3 DEF Handle
<1>10. Placed(fat, own, put)
  BY <1>3, <1>9 DEF Placed
<1>11. off \in Nat
  BY <1>4, <1>6, <1>7
<1>12. PICK own2, idx2 : Sought(fat, put, off, o, own, idx, own2, idx2)
  <2>1. Standing(fat, own, put) /\ Seekable(own, put)
    BY <1>10, PlacedSeeks
  <2>2. fat \in Volume /\ Chains(fat, own, idx)
    BY DEF Sound
  <2> QED BY <1>8, <1>11, <2>1, <2>2, Seek
<1>13. PICK g : g = IF o.err # NONE \/ call.len = cnt THEN Sized(o.file) ELSE o.file
  OBVIOUS
<1>14. /\ o.file \in Handle /\ o.file.name = n /\ o.file.size = f.size /\ o.file.modified = f.modified
       /\ o.err \in Err /\ o.fat.size = fat.size
  BY <1>7, <1>9, <1>12 DEF Sought, SameHandle
<1>15. g \in Handle /\ SamePlace(o.file, g) /\ g.name = n /\ g.modified = f.modified
  BY <1>13, <1>14, SizedIs DEF SamePlace
<1>16. PICK c2, gh2, len : c2 = call' /\ gh2 = ghost' /\ len = ghost.len[n]
  OBVIOUS
<1>17. /\ c2 \in Calls /\ (c2 = Idle \/ c2.h = h)
       /\ Writing(c2, h) <=> o.err = NONE /\ call.len # cnt
  <2>1. CASE o.err # NONE \/ call.len = cnt
    <3>1. c2 = Idle
      BY <1>8, <1>16, <2>1
    <3> QED BY <2>1, <3>1 DEF Calls, Idle, Writing, NONE
  <2>2. CASE o.err = NONE /\ call.len # cnt
    <3>1. c2 = [op |-> "write", h |-> h, len |-> call.len - cnt]
      BY <1>3, <1>8, <1>16, <2>2
    <3>2. call.len - cnt \in Nat
      BY <1>3, <1>6
    <3> QED BY <1>3, <2>2, <3>1, <3>2 DEF Calls, Writing
  <2> QED BY <2>1, <2>2
<1>18. data \in [Offsets -> Nat] /\ data2 \in [Offsets -> Nat] /\ len \in Nat /\ n \in FILES
  BY <1>3, <1>7, <1>16 DEF Ghosts, PutData
<1>19. PICK len2 : len2 = IF o.err = NONE THEN Max({len, off}) ELSE len
  OBVIOUS
<1>20. len2 \in Nat /\ (o.err = NONE => len2 = IF off > len THEN off ELSE len)
  BY <1>11, <1>18, <1>19, MaxOfTwo
<1>21. gh2 = NewGhost(ghost, n, data2, len2, Unsure(n, o))
  <2>1. ghost.data \in [FILES -> [Offsets -> Nat]] /\ ghost.len \in [FILES -> Nat]
    BY <1>3 DEF Ghosts
  <2>2. [ghost.data EXCEPT ![n] = PutData(@, f.offset, cnt, writes)] = [ghost.data EXCEPT ![n] = data2]
    BY <1>7
  <2>3. (IF o.err = NONE THEN [ghost.len EXCEPT ![n] = Max({@, f.offset + cnt})] ELSE ghost.len)
          = [ghost.len EXCEPT ![n] = len2]
    <3>1. CASE o.err = NONE
      BY <1>7, <1>16, <1>19, <3>1
    <3>2. CASE o.err # NONE
      BY <1>16, <1>18, <1>19, <2>1, <3>2
    <3> QED BY <3>1, <3>2
  <2> QED BY <1>8, <1>16, <2>2, <2>3 DEF NewGhost
<1>22. /\ gh2 \in Ghosts /\ ghost.unsure \subseteq gh2.unsure /\ Unsure(n, o) \subseteq gh2.unsure
       /\ gh2.data[n] = data2 /\ gh2.len[n] = len2
       /\ \A m \in FILES \ {n} : gh2.len[m] = ghost.len[m] /\ gh2.data[m] = ghost.data[m]
  <2>1. PICK U, gh : U = Unsure(n, o) /\ gh = ghost
    OBVIOUS
  <2>2. /\ gh \in Ghosts /\ n \in FILES /\ data2 \in [Offsets -> Nat] /\ len2 \in Nat
        /\ U \in SUBSET FILES /\ gh2 = NewGhost(gh, n, data2, len2, U)
    BY <1>3, <1>18, <1>20, <1>21, <2>1, UnsureIs
  <2>3. /\ gh2 \in Ghosts /\ gh.unsure \subseteq gh2.unsure /\ U \subseteq gh2.unsure
        /\ gh2.data[n] = data2 /\ gh2.len[n] = len2
        /\ \A m \in FILES \ {n} : gh2.len[m] = gh.len[m] /\ gh2.data[m] = gh.data[m]
    BY ONLY <2>2, GhostType
  <2> QED BY <2>1, <2>3
<1>23. CallOn(fat, file, call, ghost, own, idx, n, h, o.fat, g, c2, gh2, own2, idx2)
  <2>1. file[h].name = put.name /\ call.h = h /\ put.name = n
    BY <1>1, <1>7, <1>9
  <2> QED BY <1>3, <1>10, <1>12, <1>15, <1>17, <1>22, <2>1, SoughtOn
<1>24. PICK fl2 : fl2 = Update(file, h, g)
  OBVIOUS
<1>25. ASSUME n \notin gh2.unsure PROVE FileSound(o.fat, fl2, c2, gh2, own2, idx2, n)
  <2>1. o.err # "io" /\ n \in FILES \ ghost.unsure
    BY <1>18, <1>22, <1>25, UnsureIs
  <2>0. Alone(fat, file, call, ghost, own, idx, h, n)
    BY <1>1, <1>3, <1>7, <2>1, OnlyHandle
  <2>2. /\ On(file, n) = {h} /\ At(fat, idx, file[h]) /\ InHand(fat, own, idx, file[h], ghost.data[n])
        /\ Lengths(fat, file[h], ghost.len[n], Writing(call, h))
    BY <2>0 DEF Alone
  <2>3. Writing(call, h)
    BY <1>3 DEF Writing
  <2>4. At(fat, idx, f) /\ InHand(fat, own, idx, f, data) /\ f.modified
        /\ len = IF f.offset > f.size THEN f.offset ELSE f.size
    BY <1>1, <1>7, <1>16, <2>2, <2>3 DEF Lengths
  <2>5. Chains(fat, own, idx)
    BY DEF Sound
  <2>6. At(fat, idx, put) /\ InHand(fat, own, idx, put, data2)
    <3>1. cnt <= SECT_SIZE - (f.offset % SECT_SIZE)
      BY <1>1, <1>6
    <3>2. PICK v, b : v = fat /\ b = writes
      OBVIOUS
    <3>3. /\ Chains(v, own, idx) /\ f \in Handle /\ own[f.clust] = f.name /\ At(v, idx, f)
          /\ InHand(v, own, idx, f, data) /\ b \in Nat /\ cnt \in Nat
          /\ cnt <= SECT_SIZE - (f.offset % SECT_SIZE) /\ i0 = f.offset % SECT_SIZE
          /\ put = PutIn(f, i0, cnt, b) /\ data2 = PutData(data, f.offset, cnt, b)
      BY <1>1, <1>3, <1>4, <1>6, <1>7, <2>4, <2>5, <3>1, <3>2
    <3>4. At(v, idx, put) /\ InHand(v, own, idx, put, data2)
      BY ONLY <3>3, Put
    <3> QED BY <3>2, <3>4
  <2>7. At(o.fat, idx2, o.file) /\ InHand(o.fat, own2, idx2, o.file, data2)
    <3>1. CASE o.err = NONE
      <4>1. own[put.clust] = put.name
        BY <1>10 DEF Placed
      <4> QED BY <1>9, <1>11, <1>12, <2>5, <2>6, <3>1, <4>1, Carry
    <3>2. CASE o.err = "full"
      <4>1. Clus(f.offset) <= Clus(off) /\ Clus(off) <= Clus(f.offset) + 1
        <5>1. cnt <= SECT_SIZE - (f.offset % SECT_SIZE)
          BY <1>1, <1>6
        <5>2. Clus(f.offset) <= Clus(f.offset + cnt) /\ Clus(f.offset + cnt) <= Clus(f.offset) + 1
          BY <1>4, <1>6, <5>1, Ahead
        <5> QED BY <1>7, <5>2
      <4>2. o.fat = fat /\ o.file = put /\ Grown(own, idx, own2, idx2)
        BY <1>9, <1>12, <3>2, <4>1 DEF Sought
      <4>3. own[put.clust] = put.name
        BY <1>10 DEF Placed
      <4>4. At(fat, idx2, put) /\ InHand(fat, own2, idx2, put, data2)
        BY <1>9, <2>6, <4>2, <4>3, GrowHand
      <4> QED BY <4>2, <4>4
    <3> QED BY <1>14, <2>1, <3>1, <3>2 DEF Err
  <2>8. At(o.fat, idx2, g) /\ InHand(o.fat, own2, idx2, g, data2)
    BY <1>15, <2>7, SameBytes
  <2>9. Lengths(o.fat, g, len2, Writing(c2, h))
    <3>1. CASE o.err = NONE
      <4>1. o.file.offset = off /\ off = f.offset + cnt
        BY <1>7, <1>12, <3>1 DEF Sought
      <4>2. len2 = IF off > f.size THEN off ELSE f.size
        BY <1>4, <1>6, <1>11, <1>20, <2>4, <3>1, <4>1
      <4>3. CASE call.len = cnt
        <5>1. g = Sized(o.file) /\ ~Writing(c2, h)
          BY <1>13, <1>17, <4>3
        <5>2. g.size = (IF off > f.size THEN off ELSE f.size) /\ g.offset = off
          BY <1>14, <4>1, <5>1, SizedIs DEF SamePlace
        <5> QED BY <1>4, <1>11, <1>15, <2>4, <4>2, <5>1, <5>2 DEF Lengths
      <4>4. CASE call.len # cnt
        <5>1. g = o.file /\ Writing(c2, h)
          BY <1>13, <1>17, <3>1, <4>4
        <5> QED BY <1>14, <1>15, <2>4, <4>1, <4>2, <5>1 DEF Lengths
      <4> QED BY <4>3, <4>4
    <3>2. CASE o.err = "full"
      <4>1. Clus(f.offset) <= Clus(off) /\ Clus(off) <= Clus(f.offset) + 1
        <5>1. cnt <= SECT_SIZE - (f.offset % SECT_SIZE)
          BY <1>1, <1>6
        <5>2. Clus(f.offset) <= Clus(f.offset + cnt) /\ Clus(f.offset + cnt) <= Clus(f.offset) + 1
          BY <1>4, <1>6, <5>1, Ahead
        <5> QED BY <1>7, <5>2
      <4>2. o.file = put
        BY <1>9, <1>12, <3>2, <4>1 DEF Sought
      <4>3. g = Sized(put) /\ ~Writing(c2, h) /\ len2 = len
        BY <1>13, <1>17, <1>19, <3>2, <4>2, Names
      <4>4. g.size = len /\ g.offset = f.offset
        BY <1>9, <2>4, <4>3, SizedIs DEF SamePlace
      <4> QED BY <1>4, <1>15, <2>4, <4>3, <4>4 DEF Lengths
    <3> QED BY <1>14, <2>1, <3>1, <3>2 DEF Err
  <2>10. InUse(o.fat, own2, idx2, g, len2, data2, Writing(c2, h))
    BY <2>8, <2>9 DEF InUse
  <2>11. On(file, n) \subseteq {h}
    BY <2>2
  <2>12. fl2[h] = g /\ On(fl2, n) = {h}
    <3>1. PICK fl : fl = file
      OBVIOUS
    <3>2. /\ fl \in [HANDLES -> Handle \cup {Closed}] /\ h \in HANDLES /\ n \in FILES
          /\ On(fl, n) \subseteq {h} /\ fl2 = Update(fl, h, g) /\ g.name = n
      BY <1>3, <1>15, <1>18, <1>24, <2>11, <3>1
    <3> QED BY ONLY <3>2, OnAfter
  <2> QED BY <1>3, <1>22, <2>10, <2>12 DEF FileSound
<1>26. Sound(o.fat, fl2, c2, gh2, own2, idx2)
  BY <1>23, <1>24, <1>25, Step
<1>27. fat' = o.fat /\ file' = fl2 /\ call' = c2 /\ ghost' = gh2
  BY <1>8, <1>13, <1>16, <1>24 DEF Update
<1> QED BY <1>26, <1>27

LEMMA CallWriteSound ==
  ASSUME NEW own, NEW idx, Sound(fat, file, call, ghost, own, idx), NEW h \in HANDLES, NEW len \in LENGTHS,
         CallWrite(h, len)
  PROVE  Sound(fat', file', call', ghost', own, idx)
<1>1. PICK f, g, n, c2, fl2 :
        /\ f = file[h] /\ g = [f EXCEPT !.modified = TRUE] /\ n = f.name
        /\ c2 = [op |-> "write", h |-> h, len |-> len] /\ fl2 = Update(file, h, g)
  OBVIOUS
<1>2. /\ call = Idle /\ f # Closed /\ file' = [file EXCEPT ![h].modified = TRUE] /\ call' = c2
      /\ fat' = fat /\ ghost' = ghost
  BY <1>1 DEF CallWrite, Open
<1>3. Placed(fat, own, f) /\ f \in Handle /\ n \in FILES /\ len \in Nat
      /\ file \in [HANDLES -> Handle \cup {Closed}] /\ fat \in Volume /\ Chains(fat, own, idx)
      /\ ghost \in Ghosts
  <2>1. Placed(fat, own, f)
    BY <1>1, <1>2 DEF Sound
  <2> QED BY <1>1, <2>1, FileAssumption DEF Sound, Placed, Handle
<1>4. /\ g \in Handle /\ SamePlace(f, g) /\ g.modified /\ g.size = f.size /\ g.name = n
  BY <1>1, <1>3 DEF Handle, SamePlace
<1>5. Placed(fat, own, g)
  BY <1>3, <1>4 DEF Placed, SamePlace
<1>6. file' = fl2 /\ c2 \in Calls /\ c2.h = h /\ c2.op = "write"
  BY <1>1, <1>2, <1>3 DEF Update, Calls
<1>7. fl2[h] = g /\ g # Closed
  BY <1>1, <1>3, <1>4, ClosedName DEF Update
<1>8. \A k \in HANDLES \ {h} : Writing(c2, k) <=> Writing(call, k)
  BY <1>2, <1>6 DEF Writing, Idle, NONE
<1>9. CallOn(fat, file, call, ghost, own, idx, n, h, fat, g, c2, ghost, own, idx)
  <2>1. file[h].name = n /\ Grown(own, idx, own, idx)
    BY <1>1 DEF Grown
  <2>2. c2 # Idle => Update(file, h, g)[c2.h] # Closed
    BY <1>1, <1>6, <1>7
  <2> QED BY <1>3, <1>4, <1>5, <1>6, <1>8, <2>1, <2>2 DEF CallOn
<1>10. ASSUME n \notin ghost.unsure PROVE FileSound(fat, fl2, c2, ghost, own, idx, n)
  <2>1. Alone(fat, file, call, ghost, own, idx, h, n)
    BY <1>1, <1>3, <1>10, OnlyHandle
  <2>2. /\ On(file, n) = {h} /\ At(fat, idx, f) /\ InHand(fat, own, idx, f, ghost.data[n])
        /\ Lengths(fat, f, ghost.len[n], Writing(call, h))
    BY <1>1, <2>1 DEF Alone
  <2>3. ~Writing(call, h) /\ Writing(c2, h)
    BY <1>2, <1>6 DEF Writing, Idle, NONE
  <2>4. f.offset <= f.size /\ ghost.len[n] = f.size /\ f.offset \in Nat /\ f.size \in Nat
    BY <1>3, <2>2, <2>3 DEF Lengths, Handle
  <2>5. Lengths(fat, g, ghost.len[n], Writing(c2, h))
    BY <1>4, <2>3, <2>4 DEF Lengths, SamePlace
  <2>6. At(fat, idx, g) /\ InHand(fat, own, idx, g, ghost.data[n])
    BY <1>4, <2>2, SameBytes
  <2>7. InUse(fat, own, idx, g, ghost.len[n], ghost.data[n], Writing(c2, h))
    BY <2>5, <2>6 DEF InUse
  <2>8. On(fl2, n) = {h}
    <3>1. PICK fl : fl = file
      OBVIOUS
    <3>2. /\ fl \in [HANDLES -> Handle \cup {Closed}] /\ h \in HANDLES /\ n \in FILES
          /\ On(fl, n) \subseteq {h} /\ fl2 = Update(fl, h, g) /\ g.name = n
      BY <1>1, <1>3, <1>4, <2>2, <3>1
    <3> QED BY ONLY <3>2, OnAfter
  <2> QED BY <1>7, <2>7, <2>8 DEF FileSound
<1>11. Sound(fat, fl2, c2, ghost, own, idx)
  BY <1>1, <1>9, <1>10, Step
<1> QED BY <1>2, <1>6, <1>11

(* A read, or the way to the start of the file: the seek is all there is. *)
LEMMA ReadSeek ==
  ASSUME NEW v, NEW fl, NEW c, NEW gh, NEW own, NEW idx, Sound(v, fl, c, gh, own, idx),
         NEW h \in HANDLES, NEW f, f = fl[h], f # Closed, c = Idle \/ (c.h = h /\ c.op = "read"),
         NEW off \in Nat, off <= f.size,
         Clus(off) = 0 \/ (Clus(f.offset) <= Clus(off) /\ Clus(off) <= Clus(f.offset) + 1),
         NEW o \in fat_file_seek(v, f, off), NEW c2 \in Calls, c2 = Idle \/ (c2.h = h /\ c2.op = "read"),
         NEW gh2, gh2 = [gh EXCEPT !.unsure = @ \cup Unsure(f.name, o)],
         NEW fl2, fl2 = Update(fl, h, o.file)
  PROVE  \E own2, idx2 : Sound(o.fat, fl2, c2, gh2, own2, idx2)
<1>1. PICK n, g : n = f.name /\ g = o.file
  OBVIOUS
<1>2. /\ Placed(v, own, f) /\ f \in Handle /\ n \in FILES /\ v \in Volume /\ Chains(v, own, idx)
      /\ fl \in [HANDLES -> Handle \cup {Closed}] /\ gh \in Ghosts
  <2>1. Placed(v, own, f)
    BY DEF Sound
  <2> QED BY <1>1, <2>1 DEF Sound, Placed, Handle
<1>3. PICK own2, idx2 : Sought(v, f, off, o, own, idx, own2, idx2)
  <2>1. Standing(v, own, f) /\ Seekable(own, f)
    BY <1>2, PlacedSeeks
  <2> QED BY <1>2, <2>1, Seek
<1>4. /\ g \in Handle /\ g.name = n /\ g.size = f.size /\ g.modified = f.modified /\ o.err \in Err
      /\ o.fat.size = v.size
  BY <1>1, <1>3 DEF Sought, SameHandle
<1>5. SamePlace(o.file, g)
  BY <1>1 DEF SamePlace
<1>6. /\ gh2 \in Ghosts /\ gh2.unsure = gh.unsure \cup Unsure(n, o)
      /\ gh2.data = gh.data /\ gh2.len = gh.len
  <2>1. Unsure(n, o) \in SUBSET FILES
    BY <1>2, UnsureIs
  <2> QED BY <1>1, <1>2, <2>1 DEF Ghosts
<1>7. CallOn(v, fl, c, gh, own, idx, n, h, o.fat, g, c2, gh2, own2, idx2)
  <2>1. fl[h].name = f.name /\ (c = Idle \/ c.h = h) /\ (c2 = Idle \/ c2.h = h)
    OBVIOUS
  <2>2. gh.unsure \subseteq gh2.unsure
        /\ \A m \in FILES \ {f.name} : gh2.len[m] = gh.len[m] /\ gh2.data[m] = gh.data[m]
    BY <1>6
  <2>3. CallOn(v, fl, c, gh, own, idx, f.name, h, o.fat, g, c2, gh2, own2, idx2)
    BY <1>2, <1>3, <1>4, <1>5, <1>6, <2>1, <2>2, SoughtOn
  <2> QED BY <1>1, <2>3
<1>8. ~Writing(c, h) /\ ~Writing(c2, h)
  BY DEF Writing, Idle, NONE
<1>9. ASSUME n \notin gh2.unsure PROVE FileSound(o.fat, fl2, c2, gh2, own2, idx2, n)
  <2>1. n \in FILES \ gh.unsure /\ o.err # "io"
    BY <1>2, <1>6, <1>9, UnsureIs
  <2>2. Alone(v, fl, c, gh, own, idx, h, n)
    BY <1>1, <2>1, OnlyHandle
  <2>3. PICK data, len : data = gh.data[n] /\ len = gh.len[n]
    OBVIOUS
  <2>4. /\ On(fl, n) = {h} /\ At(v, idx, f) /\ InHand(v, own, idx, f, data)
        /\ Lengths(v, f, len, Writing(c, h))
    BY <2>2, <2>3 DEF Alone
  <2>5. own[f.clust] = f.name
    BY <1>2 DEF Placed
  <2>6. f.modified \/ v.size[n] = f.size
    BY <1>1, <2>4 DEF Lengths
  <2>7. f.offset <= f.size /\ len = f.size
    BY <1>8, <2>4 DEF Lengths
  <2>8. /\ At(o.fat, idx2, g) /\ InHand(o.fat, own2, idx2, g, data) /\ g.offset <= f.size
    <3>1. CASE o.err = NONE
      <4>1. At(o.fat, idx2, o.file) /\ InHand(o.fat, own2, idx2, o.file, data)
        BY <1>2, <1>3, <2>4, <2>5, <3>1, Carry
      <4>2. g.offset = off
        BY <1>1, <1>3, <3>1 DEF Sought
      <4> QED BY <1>1, <4>1, <4>2
    <3>2. CASE o.err = "full"
      <4>1. o.fat = v /\ g = f /\ Grown(own, idx, own2, idx2)
        BY <1>1, <1>3, <3>2 DEF Sought
      <4>2. At(v, idx2, f) /\ InHand(v, own2, idx2, f, data)
        BY <1>2, <2>4, <2>5, <4>1, GrowHand
      <4> QED BY <2>7, <4>1, <4>2
    <3> QED BY <1>4, <2>1, <3>1, <3>2 DEF Err
  <2>9. Lengths(o.fat, g, len, Writing(c2, h))
    BY <1>4, <1>8, <2>6, <2>7, <2>8 DEF Lengths
  <2>10. InUse(o.fat, own2, idx2, g, len, data, Writing(c2, h))
    BY <2>8, <2>9 DEF InUse
  <2>11. fl2[h] = g /\ On(fl2, n) = {h}
    <3>1. /\ fl \in [HANDLES -> Handle \cup {Closed}] /\ h \in HANDLES /\ n \in FILES
          /\ On(fl, n) \subseteq {h} /\ fl2 = Update(fl, h, g) /\ g.name = n
      BY <1>1, <1>2, <1>4, <2>4
    <3> QED BY ONLY <3>1, OnAfter
  <2>12. gh2.len[n] = len /\ gh2.data[n] = data
    BY <1>6, <2>3
  <2> QED BY <2>10, <2>11, <2>12 DEF FileSound
<1>10. fl2 = Update(fl, h, g)
  BY <1>1
<1>11. Sound(o.fat, fl2, c2, gh2, own2, idx2)
  BY <1>7, <1>9, <1>10, Step
<1> QED BY <1>11

LEMMA CallReadSound ==
  ASSUME NEW own, NEW idx, Sound(fat, file, call, ghost, own, idx), NEW h \in HANDLES, NEW len \in LENGTHS,
         CallRead(h, len)
  PROVE  \E own2, idx2 : Sound(fat', file', call', ghost', own2, idx2)
<1>1. PICK f, c2 : f = file[h] /\ c2 = [op |-> "read", h |-> h, len |-> len]
  OBVIOUS
<1>2. call = Idle /\ f # Closed /\ call' = c2
  BY <1>1 DEF CallRead, Open
<1>3. PICK o \in fat_file_seek(fat, f, 0) :
        /\ fat' = o.fat /\ file' = [file EXCEPT ![h] = o.file]
        /\ ghost' = [ghost EXCEPT !.unsure = @ \cup Unsure(f.name, o)]
  BY <1>1 DEF CallRead
<1>4. len \in Nat
  BY FileAssumption
<1>5. c2 \in Calls /\ c2.h = h /\ c2.op = "read"
  BY <1>1, <1>4 DEF Calls
<1>6. f \in Handle
  BY <1>1, <1>2 DEF Sound
<1>7. 0 \in Nat /\ 0 <= f.size
  BY <1>6 DEF Handle
<1>8. PICK gh2, fl2 : gh2 = ghost' /\ fl2 = Update(file, h, o.file)
  OBVIOUS
<1>9. \E own2, idx2 : Sound(o.fat, fl2, c2, gh2, own2, idx2)
  BY <1>1, <1>2, <1>3, <1>5, <1>7, <1>8, ZeroCluster, ReadSeek
<1> QED BY <1>2, <1>3, <1>8, <1>9 DEF Update

LEMMA ReadSound ==
  ASSUME NEW own, NEW idx, Sound(fat, file, call, ghost, own, idx), ReadStep
  PROVE  \E own2, idx2 : Sound(fat', file', call', ghost', own2, idx2)
<1>1. PICK h, f, cnt :
        /\ h = call.h /\ f = file[h]
        /\ cnt = Limit(call.len, Limit(SECT_SIZE - (f.offset % SECT_SIZE), f.size - f.offset))
  OBVIOUS
<1>2. call.op = "read"
  BY DEF ReadStep
<1>3. /\ h \in HANDLES /\ call.len \in Nat /\ call = [op |-> "read", h |-> h, len |-> call.len]
      /\ f # Closed /\ Placed(fat, own, f) /\ f \in Handle
      /\ file \in [HANDLES -> Handle \cup {Closed}] /\ ghost \in Ghosts /\ fat \in Volume
  BY <1>1, <1>2, Looping
<1>4. f.offset \in Nat /\ f.size \in Nat
  BY <1>3 DEF Handle
<1>5. CASE call.len = 0 \/ f.offset >= f.size
  <2>1. call' = Idle /\ fat' = fat /\ file' = file /\ ghost' = ghost
    BY <1>1, <1>5 DEF ReadStep
  <2>2. \A k \in HANDLES : ~Writing(Idle, k) /\ ~Writing(call, k)
    BY <1>2 DEF Writing, Idle, NONE
  <2>3. ASSUME NEW n \in FILES, FileSound(fat, file, call, ghost, own, idx, n)
        PROVE  FileSound(fat, file, Idle, ghost, own, idx, n)
    <3>1. ASSUME NEW k \in HANDLES,
                 InUse(fat, own, idx, file[k], ghost.len[n], ghost.data[n], Writing(call, k))
          PROVE  InUse(fat, own, idx, file[k], ghost.len[n], ghost.data[n], Writing(Idle, k))
      BY <2>2, <3>1 DEF InUse, Lengths
    <3> QED BY <2>3, <3>1 DEF FileSound
  <2>4. Sound(fat, file, Idle, ghost, own, idx)
    BY <2>3 DEF Sound, Calls
  <2> QED BY <2>1, <2>4
<1>6. CASE call.len # 0 /\ ~(f.offset >= f.size)
  <2>1. PICK r : r = f.offset % SECT_SIZE
    OBVIOUS
  <2>2. r \in 0 .. SECT_SIZE - 1 /\ SECT_SIZE \in Nat
    BY <1>4, <2>1, Places, Sizes
  <2>3. SECT_SIZE - r \in Nat /\ f.size - f.offset \in Nat
    BY <1>4, <1>6, <2>2
  <2>4. PICK lim : lim = Limit(SECT_SIZE - r, f.size - f.offset)
    OBVIOUS
  <2>5. lim \in Nat /\ lim <= SECT_SIZE - r /\ lim <= f.size - f.offset
    BY <2>3, <2>4, LimitIs
  <2>6. cnt = Limit(call.len, lim)
    BY <1>1, <2>1, <2>4
  <2>7. cnt \in Nat /\ cnt <= call.len /\ cnt <= lim
    BY <1>3, <2>5, <2>6, LimitIs
  <2>8. PICK off : off = f.offset + cnt
    OBVIOUS
  <2>9. off \in Nat /\ off <= f.size /\ cnt <= SECT_SIZE - r
    BY <1>4, <2>2, <2>5, <2>7, <2>8
  <2>10. Clus(f.offset) <= Clus(off) /\ Clus(off) <= Clus(f.offset) + 1
    <3>1. cnt <= SECT_SIZE - (f.offset % SECT_SIZE)
      BY <2>1, <2>9
    <3>2. Clus(f.offset) <= Clus(f.offset + cnt) /\ Clus(f.offset + cnt) <= Clus(f.offset) + 1
      BY <1>4, <2>7, <3>1, Ahead
    <3> QED BY <2>8, <3>2
  <2>11. PICK o \in fat_file_seek(fat, f, off) :
           /\ fat' = o.fat /\ file' = [file EXCEPT ![h] = o.file]
           /\ call' = IF o.err = NONE THEN [call EXCEPT !.len = @ - cnt] ELSE Idle
           /\ ghost' = [ghost EXCEPT !.unsure = @ \cup Unsure(f.name, o)]
    <3> DEFINE H == call.h
               F == file[H]
               C == Limit(call.len, Limit(SECT_SIZE - (F.offset % SECT_SIZE), F.size - F.offset))
    <3>1. H = h /\ F = f /\ C = cnt
      BY <1>1
    <3>2. call.len # 0 /\ ~(F.offset >= F.size)
      BY <1>6, <3>1
    <3>3. \E o \in fat_file_seek(fat, F, F.offset + C) :
            /\ fat' = o.fat /\ file' = [file EXCEPT ![H] = o.file]
            /\ call' = IF o.err = NONE THEN [call EXCEPT !.len = @ - C] ELSE Idle
            /\ ghost' = [ghost EXCEPT !.unsure = @ \cup Unsure(F.name, o)]
      BY <3>2 DEF ReadStep
    <3> HIDE DEF H, F, C
    <3>4. F.offset + C = off
      BY <2>8, <3>1
    <3> QED BY <3>1, <3>3, <3>4
  <2>12. PICK c2, gh2, fl2 : c2 = call' /\ gh2 = ghost' /\ fl2 = Update(file, h, o.file)
    OBVIOUS
  <2>13. c2 \in Calls /\ (c2 = Idle \/ (c2.h = h /\ c2.op = "read"))
    <3>1. CASE o.err = NONE
      <4>1. c2 = [op |-> "read", h |-> h, len |-> call.len - cnt]
        BY <1>3, <2>11, <2>12, <3>1
      <4>2. call.len - cnt \in Nat
        BY <1>3, <2>7
      <4> QED BY <1>3, <4>1, <4>2 DEF Calls
    <3>2. CASE o.err # NONE
      BY <2>11, <2>12, <3>2 DEF Calls
    <3> QED BY <3>1, <3>2
  <2>14. call.h = h /\ call.op = "read"
    BY <1>1, <1>2
  <2>15. \E own2, idx2 : Sound(o.fat, fl2, c2, gh2, own2, idx2)
    BY <1>1, <1>3, <2>9, <2>10, <2>11, <2>12, <2>13, <2>14, ReadSeek
  <2> QED BY <2>11, <2>12, <2>15 DEF Update
<1> QED BY <1>4, <1>5, <1>6

(* fat_file_sync: the buffer, and then the size, reach the card. *)
LEMMA SameChains ==
  ASSUME NEW v, NEW w, NEW own, NEW idx, Chains(v, own, idx), w.next = v.next, w.start = v.start
  PROVE  Chains(w, own, idx)
BY DEF Chains

WrittenBack(v, f) == [v EXCEPT !.card[f.sect] = f.buf]
WrittenSize(v, f) == IF f.modified THEN [v EXCEPT !.size[f.name] = f.size] ELSE v

LEMMA WrittenIs ==
  ASSUME NEW v \in Volume, NEW f \in Handle, f.sect \in Sectors, NEW w, w = WrittenBack(v, f),
         NEW x, x = WrittenSize(w, f)
  PROVE  /\ w \in Volume /\ w.next = v.next /\ w.start = v.start /\ w.size = v.size
         /\ x \in Volume /\ x.next = v.next /\ x.start = v.start /\ x.card = w.card
         /\ w.card[f.sect] = f.buf /\ \A s \in Sectors : s # f.sect => w.card[s] = v.card[s]
         /\ x.size[f.name] = IF f.modified THEN f.size ELSE v.size[f.name]
         /\ \A m \in FILES : m # f.name => x.size[m] = v.size[m]
<1>1. PICK s0, b, n, z : s0 = f.sect /\ b = f.buf /\ n = f.name /\ z = f.size
  OBVIOUS
<1>2. s0 \in Sectors /\ b \in Buffer /\ n \in FILES /\ z \in Nat /\ f.modified \in BOOLEAN
  BY <1>1 DEF Handle
<1>3. v.card \in [Sectors -> Buffer] /\ v.size \in [FILES -> Nat]
  BY DEF Volume
<1>4. PICK card : card = [v.card EXCEPT ![s0] = b]
  OBVIOUS
<1>5. card \in [Sectors -> Buffer] /\ card[s0] = b /\ \A s \in Sectors : s # s0 => card[s] = v.card[s]
  BY <1>2, <1>3, <1>4
<1>6. w = [v EXCEPT !.card = card]
  BY <1>1, <1>4 DEF WrittenBack, Volume
<1>7. w \in Volume /\ w.next = v.next /\ w.start = v.start /\ w.size = v.size /\ w.card = card
  BY <1>5, <1>6 DEF Volume
<1>8. PICK size : size = [v.size EXCEPT ![n] = z]
  OBVIOUS
<1>9. size \in [FILES -> Nat] /\ size[n] = z /\ \A m \in FILES : m # n => size[m] = v.size[m]
  BY <1>2, <1>3, <1>8
<1>10. CASE f.modified
  <2>1. x = [w EXCEPT !.size = size]
    BY <1>1, <1>7, <1>8, <1>10 DEF WrittenSize, Volume
  <2>2. x \in Volume /\ x.next = w.next /\ x.start = w.start /\ x.size = size /\ x.card = w.card
    BY <1>7, <1>9, <2>1 DEF Volume
  <2> QED BY <1>1, <1>5, <1>7, <1>9, <1>10, <2>2
<1>11. CASE ~f.modified
  <2>1. x = w
    BY <1>11 DEF WrittenSize
  <2> QED BY <1>1, <1>5, <1>7, <1>11, <2>1
<1> QED BY <1>10, <1>11

Synced(v, f, o) ==
  /\ o.fat \in Volume /\ o.fat.next = v.next /\ o.fat.start = v.start /\ o.err \in {NONE, "io"}
  /\ \A m \in FILES : m # f.name => o.fat.size[m] = v.size[m]
  /\ \A s \in Sectors : s # f.sect => o.fat.card[s] = v.card[s]
  /\ o.err # NONE => o.file = f
  /\ o.err = NONE => /\ o.fat.card[f.sect] = f.buf
                     /\ o.fat.size[f.name] = IF f.modified THEN f.size ELSE v.size[f.name]

LEMMA SyncIs ==
  ASSUME NEW v \in Volume, NEW f \in Handle, f.sect \in Sectors, NEW o \in fat_file_sync(v, f)
  PROVE  Synced(v, f, o)
<1>1. PICK w, x : w = WrittenBack(v, f) /\ x = WrittenSize(w, f)
  OBVIOUS
<1>2. /\ w \in Volume /\ w.next = v.next /\ w.start = v.start /\ w.size = v.size
      /\ x \in Volume /\ x.next = v.next /\ x.start = v.start /\ x.card = w.card
      /\ w.card[f.sect] = f.buf /\ \A s \in Sectors : s # f.sect => w.card[s] = v.card[s]
      /\ x.size[f.name] = IF f.modified THEN f.size ELSE v.size[f.name]
      /\ \A m \in FILES : m # f.name => x.size[m] = v.size[m]
  BY <1>1, WrittenIs
<1> DEFINE Rest(q) == Ok(WrittenSize(q.fat, q.file), [q.file EXCEPT !.modified = FALSE])
                        \cup Fault(q.fat, q.file) \cup Fault(WrittenSize(q.fat, q.file), q.file)
<1>3. o \in UNION {IF q.err = NONE THEN Rest(q) ELSE {q} : q \in ops_write(v, f, f.sect)}
  BY DEF fat_file_sync, Then, WrittenSize
<1>4. PICK q \in ops_write(v, f, f.sect) : IF q.err = NONE THEN o \in Rest(q) ELSE o = q
  BY <1>3
<1>5. CASE q \in Fault(v, f)
  <2>1. q.fat = v /\ q.file = f /\ q.err = "io"
    BY <1>5, FaultIs
  <2>2. o = q
    BY <1>4, <2>1, Names
  <2> QED BY <2>1, <2>2, Names DEF Synced
<1>6. CASE q \in Ok(w, f)
  <2>1. q.fat = w /\ q.file = f /\ q.err = NONE
    BY <1>6, OkIs
  <2>2. o \in Ok(x, [f EXCEPT !.modified = FALSE]) \/ o \in Fault(w, f) \/ o \in Fault(x, f)
    BY <1>1, <1>4, <2>1
  <2>3. CASE o \in Ok(x, [f EXCEPT !.modified = FALSE])
    <3>1. o.fat = x /\ o.err = NONE
      BY <2>3, OkIs
    <3> QED BY <1>2, <3>1 DEF Synced
  <2>4. CASE o \in Fault(w, f)
    <3>1. o.fat = w /\ o.file = f /\ o.err = "io"
      BY <2>4, FaultIs
    <3> QED BY <1>2, <3>1, Names DEF Synced
  <2>5. CASE o \in Fault(x, f)
    <3>1. o.fat = x /\ o.file = f /\ o.err = "io"
      BY <2>5, FaultIs
    <3> QED BY <1>2, <3>1, Names DEF Synced
  <2> QED BY <2>2, <2>3, <2>4, <2>5
<1> QED BY <1>1, <1>4, <1>5, <1>6 DEF ops_write, WrittenBack

LEMMA SyncSound ==
  ASSUME NEW v, NEW fl, NEW gh, NEW own, NEW idx, Sound(v, fl, Idle, gh, own, idx),
         NEW h \in HANDLES, NEW f, f = fl[h], f # Closed, NEW o \in fat_file_sync(v, f),
         NEW gh2, gh2 = [gh EXCEPT !.unsure = @ \cup Unsure(f.name, o)],
         NEW g, g = IF o.err = NONE THEN Closed ELSE o.file, NEW fl2, fl2 = Update(fl, h, g)
  PROVE  Sound(o.fat, fl2, Idle, gh2, own, idx)
<1>1. PICK n : n = f.name
  OBVIOUS
<1>2. /\ Placed(v, own, f) /\ f \in Handle /\ n \in FILES /\ v \in Volume /\ Chains(v, own, idx)
      /\ fl \in [HANDLES -> Handle \cup {Closed}] /\ gh \in Ghosts
      /\ f.sect \in Sectors /\ own[f.sect[1]] = n /\ own[f.clust] = n
  <2>1. Placed(v, own, f)
    BY DEF Sound
  <2> QED BY <1>1, <2>1 DEF Sound, Placed, Handle
<1>3. Synced(v, f, o)
  BY <1>2, SyncIs
<1>4. /\ o.fat \in Volume /\ o.fat.next = v.next /\ o.fat.start = v.start /\ o.err \in {NONE, "io"}
      /\ \A m \in FILES : m # n => o.fat.size[m] = v.size[m]
      /\ \A s \in Sectors : s # f.sect => o.fat.card[s] = v.card[s]
  BY <1>1, <1>3 DEF Synced
<1>5. Chains(o.fat, own, idx) /\ Grown(own, idx, own, idx)
  BY <1>2, <1>4, SameChains DEF Grown
<1>6. gh2 \in Ghosts /\ gh2.unsure = gh.unsure \cup Unsure(n, o) /\ gh2.data = gh.data /\ gh2.len = gh.len
  <2>1. Unsure(n, o) \in SUBSET FILES
    BY <1>2, UnsureIs
  <2> QED BY <1>1, <1>2, <2>1 DEF Ghosts
<1>7. g = Closed \/ (g.name = n /\ Placed(o.fat, own, g))
  <2>1. CASE o.err = NONE
    BY <2>1
  <2>2. CASE o.err # NONE
    <3>1. g = f
      BY <1>3, <2>2 DEF Synced
    <3> QED BY <1>1, <1>2, <1>4, <3>1 DEF Placed
  <2> QED BY <2>1, <2>2
<1>8. CallOn(v, fl, Idle, gh, own, idx, n, h, o.fat, g, Idle, gh2, own, idx)
  <2>1. Idle \in Calls /\ fl[h].name = n
    BY <1>1 DEF Calls
  <2>2. \A m \in FILES \ {n} : gh2.len[m] = gh.len[m] /\ gh2.data[m] = gh.data[m]
    BY <1>6
  <2>3. \A s \in Sectors : own[s[1]] \in FILES \ {n} => o.fat.card[s] = v.card[s]
    BY <1>2, <1>4
  <2> QED BY <1>2, <1>4, <1>5, <1>6, <1>7, <2>1, <2>2, <2>3 DEF CallOn
<1>9. ASSUME n \notin gh2.unsure PROVE FileSound(o.fat, fl2, Idle, gh2, own, idx, n)
  <2>1. n \in FILES \ gh.unsure /\ o.err = NONE /\ g = Closed
    BY <1>2, <1>4, <1>6, <1>9, UnsureIs
  <2>2. Alone(v, fl, Idle, gh, own, idx, h, n)
    BY <1>1, <2>1, OnlyHandle
  <2>3. PICK data, len : data = gh.data[n] /\ len = gh.len[n]
    OBVIOUS
  <2>4. /\ On(fl, n) = {h} /\ At(v, idx, f) /\ InHand(v, own, idx, f, data)
        /\ Lengths(v, f, len, Writing(Idle, h))
    BY <2>2, <2>3 DEF Alone
  <2>5. ~Writing(Idle, h)
    BY DEF Writing, Idle, NONE
  <2>6. len = f.size /\ (f.modified \/ v.size[n] = f.size)
    BY <1>1, <2>4, <2>5 DEF Lengths
  <2>7. o.fat.card[f.sect] = f.buf /\ o.fat.size[n] = IF f.modified THEN f.size ELSE v.size[n]
    BY <1>1, <1>3, <2>1 DEF Synced
  <2>8. OnCard(o.fat, own, idx, n, data)
    <3>1. PICK w : w = o.fat
      OBVIOUS
    <3>2. /\ Chains(v, own, idx) /\ f \in Handle /\ own[f.clust] = f.name /\ At(v, idx, f)
          /\ InHand(v, own, idx, f, data) /\ w.card[f.sect] = f.buf
          /\ \A s \in Sectors : s # f.sect => w.card[s] = v.card[s]
      BY <1>1, <1>2, <1>4, <2>4, <2>7, <3>1
    <3>3. OnCard(w, own, idx, f.name, data)
      BY ONLY <3>2, Leave
    <3> QED BY <1>1, <3>1, <3>3
  <2>9. Resting(o.fat, own, idx, n, len, data)
    BY <2>6, <2>7, <2>8 DEF Resting
  <2>10. On(fl2, n) = {}
    <3>1. /\ fl \in [HANDLES -> Handle \cup {Closed}] /\ h \in HANDLES /\ n \in FILES
          /\ On(fl, n) \subseteq {h} /\ fl2 = Update(fl, h, g) /\ g = Closed
      BY <1>2, <2>1, <2>4
    <3> QED BY ONLY <3>1, OnAfter
  <2>11. gh2.len[n] = len /\ gh2.data[n] = data
    BY <1>6, <2>3
  <2> QED BY <2>9, <2>10, <2>11 DEF FileSound
<1> QED BY <1>8, <1>9, Step

LEMMA CloseSound ==
  ASSUME NEW own, NEW idx, Sound(fat, file, call, ghost, own, idx), NEW h \in HANDLES, fat_file_close(h)
  PROVE  Sound(fat', file', call', ghost', own, idx)
<1>1. PICK f : f = file[h]
  OBVIOUS
<1>2. call = Idle /\ f # Closed /\ call' = Idle
  BY <1>1 DEF fat_file_close, Open
<1>3. PICK o \in fat_file_sync(fat, f) :
        /\ fat' = o.fat /\ file' = [file EXCEPT ![h] = IF o.err = NONE THEN Closed ELSE o.file]
        /\ ghost' = [ghost EXCEPT !.unsure = @ \cup Unsure(f.name, o)]
  BY <1>1 DEF fat_file_close
<1>4. PICK g, gh2, fl2 : /\ g = IF o.err = NONE THEN Closed ELSE o.file
                         /\ gh2 = ghost' /\ fl2 = Update(file, h, g)
  OBVIOUS
<1>5. Sound(o.fat, fl2, Idle, gh2, own, idx)
  BY <1>1, <1>2, <1>3, <1>4, SyncSound
<1> QED BY <1>2, <1>3, <1>4, <1>5 DEF Update

(* fat_file_open: the chain, when the file is new, and the handle *)
Created(v, n, x, own, idx, own2, idx2) ==
  /\ x.fat \in Volume /\ x.fat.card = v.card /\ x.fat.size = v.size /\ x.err \in Err
  /\ \A m \in FILES : v.start[m] # NONE => x.fat.start[m] = v.start[m]
  /\ Chains(x.fat, own2, idx2) /\ Grown(own, idx, own2, idx2)
  /\ x.err = NONE => x.fat.start[n] # NONE

LEMMA CreateIs ==
  ASSUME NEW v \in Volume, NEW own, NEW idx, Chains(v, own, idx), NEW n \in FILES, NEW x \in CreateChain(v, n)
  PROVE  \E own2, idx2 : Created(v, n, x, own, idx, own2, idx2)
<1>1. ASSUME x.fat = v, x.err \in Err, x.err = NONE => v.start[n] # NONE
      PROVE  Created(v, n, x, own, idx, own, idx)
  BY <1>1 DEF Created, Grown
<1>2. CASE v.start[n] # NONE
  <2>1. x.fat = v /\ x.err = NONE
    BY <1>2, OkIs DEF CreateChain
  <2> QED BY <1>1, <1>2, <2>1 DEF Err
<1>3. CASE v.start[n] = NONE /\ FreeClusters(v) = {}
  <2>1. x.fat = v /\ x.err = "full"
    BY <1>3 DEF CreateChain, Out
  <2> QED BY <1>1, <2>1, Names DEF Err
<1>4. CASE x \in Fault(v, Closed)
  <2>1. x.fat = v /\ x.err = "io"
    BY <1>4, FaultIs
  <2> QED BY <1>1, <2>1, Names DEF Err
<1>5. ASSUME v.start[n] = NONE, NEW c \in FreeClusters(v), NEW w, w = [v EXCEPT !.next[c] = EOC],
             x \in Ok([w EXCEPT !.start[n] = c], Closed) \cup Fault(w, Closed)
      PROVE  \E own2, idx2 : Created(v, n, x, own, idx, own2, idx2)
  <2>1. c \in CLUSTERS /\ v.next[c] = FREE
    BY DEF FreeClusters
  <2>2. /\ w \in Volume /\ w.start = v.start /\ w.size = v.size /\ w.card = v.card
        /\ Chains(w, own, idx) /\ own[c] = NONE /\ w.next[c] = EOC
    <3>1. v \in Volume /\ Chains(v, own, idx) /\ c \in CLUSTERS /\ v.next[c] = FREE /\ w = Marked(v, c)
      BY <1>5, <2>1 DEF Marked
    <3> QED BY ONLY <3>1, Mark
  <2>3. CASE x \in Fault(w, Closed)
    <3>1. x.fat = w /\ x.err = "io"
      BY <2>3, FaultIs
    <3>2. Created(v, n, x, own, idx, own, idx)
      BY <2>2, <3>1, Names DEF Created, Grown, Err
    <3> QED BY <3>2
  <2>4. CASE x \in Ok([w EXCEPT !.start[n] = c], Closed)
    <3>1. PICK u : u = [w EXCEPT !.start[n] = c]
      OBVIOUS
    <3>2. x.fat = u /\ x.err = NONE
      BY <2>4, <3>1, OkIs
    <3>3. /\ u \in Volume /\ u.next = w.next /\ u.size = w.size /\ u.card = w.card
          /\ u.start[n] = c /\ \A m \in FILES \ {n} : u.start[m] = w.start[m]
          /\ \E own2, idx2 : Chains(u, own2, idx2) /\ Grown(own, idx, own2, idx2)
      <4>1. /\ w \in Volume /\ Chains(w, own, idx) /\ c \in CLUSTERS /\ w.next[c] = EOC
            /\ own[c] = NONE /\ n \in FILES /\ w.start[n] = NONE /\ u = Entered(w, n, c)
        BY <1>5, <2>1, <2>2, <3>1 DEF Entered
      <4> QED BY ONLY <4>1, Enter
    <3>4. PICK own2, idx2 : Chains(u, own2, idx2) /\ Grown(own, idx, own2, idx2)
      BY <3>3
    <3>5. \A m \in FILES : v.start[m] # NONE => u.start[m] = v.start[m]
      BY <1>5, <2>2, <3>3
    <3>6. Created(v, n, x, own, idx, own2, idx2)
      BY <2>1, <2>2, <3>2, <3>3, <3>4, <3>5, Names DEF Created, Err
    <3> QED BY <3>6
  <2> QED BY <1>5, <2>3, <2>4
<1>6. CASE /\ v.start[n] = NONE
           /\ x \in UNION {LET w == [v EXCEPT !.next[c] = EOC]
                           IN Ok([w EXCEPT !.start[n] = c], Closed) \cup Fault(w, Closed)
                           : c \in FreeClusters(v)}
  BY <1>5, <1>6
<1> QED BY <1>2, <1>3, <1>4, <1>6 DEF CreateChain

(* What fat_file_open leaves: the card as it was, and the handle where it was asked for. *)
Opened(v, n, trunc, append, o, own, idx, own2, idx2) ==
  /\ o.fat \in Volume /\ o.fat.card = v.card /\ o.fat.size = v.size /\ o.err \in Err
  /\ \A m \in FILES : v.start[m] # NONE => o.fat.start[m] = v.start[m]
  /\ Chains(o.fat, own2, idx2) /\ Grown(own, idx, own2, idx2)
  /\ o.err = NONE =>
       /\ o.file.name = n /\ Placed(o.fat, own2, o.file)
       /\ At(o.fat, idx2, o.file) /\ o.file.buf = o.fat.card[o.file.sect]
       /\ o.file.size = IF trunc THEN 0 ELSE v.size[n]
       /\ o.file.modified = (trunc /\ v.size[n] # 0)
       /\ o.file.offset = IF append THEN o.file.size ELSE 0

LEMMA NewHandleIs ==
  ASSUME NEW v \in Volume, NEW own, NEW idx, Chains(v, own, idx), NEW n \in FILES, v.start[n] # NONE,
         NEW trunc \in BOOLEAN, NEW f, f = NewHandle(v, n, trunc)
  PROVE  /\ f \in Handle /\ Standing(v, own, f) /\ Seekable(own, f)
         /\ idx[f.clust] = Clus(f.offset) /\ f.sect = NoSector /\ ~f.dirty
         /\ f.name = n /\ f.size = (IF trunc THEN 0 ELSE v.size[n])
         /\ f.modified = (trunc /\ v.size[n] # 0)
<1>1. PICK a, z, b, m : /\ a = v.start[n] /\ z = (IF trunc THEN 0 ELSE v.size[n])
                        /\ b = [i \in 0 .. SECT_SIZE - 1 |-> 0] /\ m = (trunc /\ v.size[n] # 0)
  OBVIOUS
<1>2. a \in CLUSTERS /\ z \in Nat /\ own[a] = n /\ idx[a] = 0
  BY <1>1 DEF Volume, Chains
<1>3. b \in Buffer /\ m \in BOOLEAN
  BY <1>1 DEF Buffer
<1>4. f = [name |-> n, sclust |-> a, clust |-> a, sect |-> NoSector, offset |-> 0, size |-> z,
           modified |-> m, dirty |-> FALSE, buf |-> b]
  BY <1>1 DEF NewHandle
<1>5. f \in Handle
  BY <1>2, <1>3, <1>4 DEF Handle
<1> QED BY <1>1, <1>2, <1>4, <1>5, ZeroCluster DEF Standing, Seekable

(* The handle is sought to its place on the chain that there is now. *)
OpenSeek(x, n, trunc, append, o) ==
  IF x.err = NONE
  THEN \E f, off : /\ f = NewHandle(x.fat, n, trunc) /\ off = (IF append THEN f.size ELSE 0)
                   /\ o \in fat_file_seek(x.fat, f, off)
  ELSE o = x

LEMMA OpenedIs ==
  ASSUME NEW v \in Volume, NEW own, NEW idx, Chains(v, own, idx), NEW n \in FILES,
         NEW trunc \in BOOLEAN, NEW append \in BOOLEAN, NEW x \in CreateChain(v, n),
         NEW o, OpenSeek(x, n, trunc, append, o)
  PROVE  \E own2, idx2 : Opened(v, n, trunc, append, o, own, idx, own2, idx2)
<1>1. PICK own1, idx1 : Created(v, n, x, own, idx, own1, idx1)
  BY CreateIs
<1>2. CASE x.err # NONE
  <2>1. o = x
    BY <1>2 DEF OpenSeek
  <2>2. Opened(v, n, trunc, append, o, own, idx, own1, idx1)
    BY <1>1, <1>2, <2>1 DEF Created, Opened
  <2> QED BY <2>2
<1>3. CASE x.err = NONE
  <2>1. PICK u : u = x.fat
    OBVIOUS
  <2>2. /\ u \in Volume /\ u.card = v.card /\ u.size = v.size /\ u.start[n] # NONE
        /\ \A m \in FILES : v.start[m] # NONE => u.start[m] = v.start[m]
        /\ Chains(u, own1, idx1) /\ Grown(own, idx, own1, idx1)
    BY <1>1, <1>3, <2>1 DEF Created
  <2>3. PICK f, off : /\ f = NewHandle(u, n, trunc) /\ off = (IF append THEN f.size ELSE 0)
                      /\ o \in fat_file_seek(u, f, off)
    BY <1>3, <2>1 DEF OpenSeek
  <2>4. /\ f \in Handle /\ Standing(u, own1, f) /\ Seekable(own1, f)
        /\ idx1[f.clust] = Clus(f.offset) /\ f.sect = NoSector /\ ~f.dirty
        /\ f.name = n /\ f.size = (IF trunc THEN 0 ELSE u.size[n])
        /\ f.modified = (trunc /\ u.size[n] # 0)
    BY <2>2, <2>3, NewHandleIs
  <2>5. off \in Nat
    BY <2>3, <2>4 DEF Handle
  <2>6. PICK own2, idx2 : Sought(u, f, off, o, own1, idx1, own2, idx2)
    BY <2>2, <2>3, <2>4, <2>5, Seek
  <2>7. PICK w, g : w = o.fat /\ g = o.file
    OBVIOUS
  <2>8. /\ w \in Volume /\ g \in Handle /\ o.err \in Err /\ w.start = u.start /\ w.size = u.size
        /\ Chains(w, own2, idx2) /\ Grown(own1, idx1, own2, idx2)
        /\ SameHandle(f, g) /\ own2[g.clust] = n
        /\ \A s \in Sectors : s # f.sect => w.card[s] = u.card[s]
    BY <2>4, <2>6, <2>7 DEF Sought
  <2>9. w.card = u.card
    <3>1. w.card \in [Sectors -> Buffer] /\ u.card \in [Sectors -> Buffer]
      BY <2>2, <2>8 DEF Volume
    <3>2. \A s \in Sectors : w.card[s] = u.card[s]
      BY <2>4, <2>8, Names
    <3> QED BY ONLY <3>1, <3>2
  <2>10. Grown(own, idx, own2, idx2)
    BY <2>2, <2>8, GrownTwice
  <2>11. ASSUME o.err = NONE
         PROVE  /\ g.name = n /\ Placed(w, own2, g) /\ At(w, idx2, g) /\ g.buf = w.card[g.sect]
                /\ g.size = (IF trunc THEN 0 ELSE v.size[n])
                /\ g.modified = (trunc /\ v.size[n] # 0)
                /\ g.offset = (IF append THEN g.size ELSE 0)
    <3>1. /\ g.offset = off /\ g.sect = <<g.clust, InClust(off)>> /\ idx2[g.clust] = Clus(off)
          /\ IF g.sect = f.sect THEN TRUE ELSE g.buf = w.card[g.sect]
      BY <2>4, <2>6, <2>7, <2>11 DEF Sought
    <3>2. g.clust \in CLUSTERS
      BY <2>8 DEF Handle
    <3>3. g.sect \in Sectors /\ g.sect[1] = g.clust
      BY <2>5, <3>1, <3>2, Places DEF Sectors
    <3>4. g.sect # f.sect
      BY <2>4, <3>3, Names
    <3>5. g.buf = w.card[g.sect]
      BY <3>1, <3>4
    <3>6. At(w, idx2, g)
      BY <3>1, <3>5 DEF At
    <3>7. g.name = n /\ g.sclust = f.sclust /\ g.size = f.size /\ g.modified = f.modified
      BY <2>4, <2>8 DEF SameHandle
    <3>8. f.sclust = u.start[n]
      BY <2>4 DEF Standing
    <3>9. Placed(w, own2, g)
      BY <2>8, <3>3, <3>7, <3>8 DEF Placed
    <3> QED BY <2>2, <2>3, <2>4, <3>1, <3>5, <3>6, <3>7, <3>9
  <2>12. Opened(v, n, trunc, append, o, own, idx, own2, idx2)
    BY <2>2, <2>7, <2>8, <2>9, <2>10, <2>11 DEF Opened
  <2> QED BY <2>12
<1> QED BY <1>2, <1>3

(* A file that is opened with FAT_TRUNC starts anew. *)
OpenGhost(gh, fl, n, trunc, o) ==
  NewGhost(gh, n, IF trunc /\ o.err = NONE THEN [i \in Offsets |-> 0] ELSE gh.data[n],
           IF trunc /\ o.err = NONE THEN 0 ELSE gh.len[n],
           IF On(fl, n) # {} THEN {n} ELSE Unsure(n, o))

LEMMA NewSound ==
  ASSUME NEW v, NEW fl, NEW gh, NEW own, NEW idx, Sound(v, fl, Idle, gh, own, idx),
         NEW h \in HANDLES, fl[h] = Closed, NEW n \in FILES, NEW trunc \in BOOLEAN, NEW append \in BOOLEAN,
         NEW x \in CreateChain(v, n), NEW o, OpenSeek(x, n, trunc, append, o),
         NEW gh2, gh2 = OpenGhost(gh, fl, n, trunc, o),
         NEW g, g = IF o.err = NONE THEN o.file ELSE Closed, NEW fl2, fl2 = Update(fl, h, g)
  PROVE  \E own2, idx2 : Sound(o.fat, fl2, Idle, gh2, own2, idx2)
<1>1. v \in Volume /\ Chains(v, own, idx) /\ fl \in [HANDLES -> Handle \cup {Closed}] /\ gh \in Ghosts
  BY DEF Sound
<1>2. PICK own2, idx2 : Opened(v, n, trunc, append, o, own, idx, own2, idx2)
  BY <1>1, OpenedIs
<1>3. /\ o.fat \in Volume /\ o.fat.card = v.card /\ o.fat.size = v.size /\ o.err \in Err
      /\ \A m \in FILES : v.start[m] # NONE => o.fat.start[m] = v.start[m]
      /\ Chains(o.fat, own2, idx2) /\ Grown(own, idx, own2, idx2)
  BY <1>2 DEF Opened
<1>4. PICK data, len, U :
        /\ data = (IF trunc /\ o.err = NONE THEN [i \in Offsets |-> 0] ELSE gh.data[n])
        /\ len = (IF trunc /\ o.err = NONE THEN 0 ELSE gh.len[n])
        /\ U = (IF On(fl, n) # {} THEN {n} ELSE Unsure(n, o))
  OBVIOUS
<1>5. data \in [Offsets -> Nat] /\ len \in Nat /\ U \in SUBSET FILES
  <2>1. Unsure(n, o) \in SUBSET FILES
    BY UnsureIs
  <2>2. gh.data[n] \in [Offsets -> Nat] /\ gh.len[n] \in Nat
    BY <1>1 DEF Ghosts
  <2>3. [i \in Offsets |-> 0] \in [Offsets -> Nat]
    OBVIOUS
  <2> QED BY <1>4, <2>1, <2>2, <2>3
<1>6. gh2 = NewGhost(gh, n, data, len, U)
  BY <1>4 DEF OpenGhost
<1>7. /\ gh2 \in Ghosts /\ gh.unsure \subseteq gh2.unsure /\ U \subseteq gh2.unsure
      /\ gh2.data[n] = data /\ gh2.len[n] = len
      /\ \A m \in FILES \ {n} : gh2.len[m] = gh.len[m] /\ gh2.data[m] = gh.data[m]
  <2>1. /\ gh \in Ghosts /\ n \in FILES /\ data \in [Offsets -> Nat] /\ len \in Nat
        /\ U \in SUBSET FILES /\ gh2 = NewGhost(gh, n, data, len, U)
    BY <1>1, <1>5, <1>6
  <2> QED BY ONLY <2>1, GhostType
<1>8. g = Closed \/ (g.name = n /\ Placed(o.fat, own2, g))
  BY <1>2 DEF Opened
<1>9. CallOn(v, fl, Idle, gh, own, idx, n, h, o.fat, g, Idle, gh2, own2, idx2)
  <2>1. Idle \in Calls
    BY DEF Calls
  <2> QED BY <1>3, <1>7, <1>8, <2>1 DEF CallOn
<1>10. ASSUME n \notin gh2.unsure PROVE FileSound(o.fat, fl2, Idle, gh2, own2, idx2, n)
  <2>1. n \in FILES \ gh.unsure /\ On(fl, n) = {} /\ o.err # "io"
    BY <1>4, <1>7, <1>10, UnsureIs
  <2>2. FileSound(v, fl, Idle, gh, own, idx, n)
    BY <2>1 DEF Sound
  <2>3. Resting(v, own, idx, n, gh.len[n], gh.data[n])
    BY <2>1, <2>2 DEF FileSound
  <2>4. v.size[n] = gh.len[n] /\ OnCard(v, own, idx, n, gh.data[n])
    BY <2>3 DEF Resting
  <2>5. OnCard(o.fat, own2, idx2, n, gh.data[n])
    <3>1. OnCard(v, own2, idx2, n, gh.data[n])
      BY <1>3, <2>4, GrowCard
    <3> QED BY <1>3, <3>1 DEF OnCard
  <2>6. OnCard(o.fat, own2, idx2, n, data)
    <3>1. CASE trunc /\ o.err = NONE
      BY <1>4, <3>1 DEF OnCard
    <3>2. CASE ~(trunc /\ o.err = NONE)
      BY <1>4, <2>5, <3>2
    <3> QED BY <3>1, <3>2
  <2>7. /\ fl \in [HANDLES -> Handle \cup {Closed}] /\ h \in HANDLES /\ n \in FILES
        /\ On(fl, n) \subseteq {h} /\ fl2 = Update(fl, h, g)
    BY <1>1, <2>1
  <2>8. fl2[h] = g /\ (g.name = n => On(fl2, n) = {h}) /\ (g = Closed => On(fl2, n) = {})
    BY ONLY <2>7, OnAfter
  <2>9. CASE o.err = "full"
    <3>1. g = Closed /\ len = gh.len[n]
      BY <1>4, <2>9, Names
    <3>2. Resting(o.fat, own2, idx2, n, len, data)
      BY <1>3, <2>4, <2>6, <3>1 DEF Resting
    <3> QED BY <1>7, <2>8, <3>1, <3>2 DEF FileSound
  <2>10. CASE o.err = NONE
    <3>1. /\ g.name = n /\ Placed(o.fat, own2, g) /\ At(o.fat, idx2, g) /\ g.buf = o.fat.card[g.sect]
          /\ g.size = (IF trunc THEN 0 ELSE v.size[n]) /\ g.modified = (trunc /\ v.size[n] # 0)
          /\ g.offset = (IF append THEN g.size ELSE 0)
      BY <1>2, <2>10 DEF Opened
    <3>2. g \in Handle /\ own2[g.clust] = g.name
      BY <3>1 DEF Placed
    <3>3. InHand(o.fat, own2, idx2, g, data)
      <4>1. PICK w : w = o.fat
        OBVIOUS
      <4>2. /\ Chains(w, own2, idx2) /\ g \in Handle /\ own2[g.clust] = g.name /\ At(w, idx2, g)
            /\ g.buf = w.card[g.sect] /\ OnCard(w, own2, idx2, g.name, data)
        BY <1>3, <2>6, <3>1, <3>2, <4>1
      <4>3. InHand(w, own2, idx2, g, data)
        BY ONLY <4>2, Arrive
      <4> QED BY <4>1, <4>3
    <3>4. ~Writing(Idle, h)
      BY DEF Writing, Idle, NONE
    <3>5. g.size \in Nat /\ g.offset <= g.size
      BY <3>1, <3>2 DEF Handle
    <3>6. len = g.size
      BY <1>4, <2>4, <2>10, <3>1
    <3>7. g.modified \/ o.fat.size[g.name] = g.size
      BY <1>3, <3>1
    <3>8. Lengths(o.fat, g, len, Writing(Idle, h))
      BY <3>4, <3>5, <3>6, <3>7 DEF Lengths
    <3>9. InUse(o.fat, own2, idx2, g, len, data, Writing(Idle, h))
      BY <3>1, <3>3, <3>8 DEF InUse
    <3> QED BY <1>7, <2>8, <3>1, <3>9 DEF FileSound
  <2> QED BY <1>3, <2>1, <2>9, <2>10 DEF Err
<1>11. Sound(o.fat, fl2, Idle, gh2, own2, idx2)
  BY <1>9, <1>10, Step
<1> QED BY <1>11

LEMMA OpenSound ==
  ASSUME NEW own, NEW idx, Sound(fat, file, call, ghost, own, idx), NEW h \in HANDLES, NEW n \in FILES,
         NEW trunc \in BOOLEAN, NEW append \in BOOLEAN, fat_file_open(h, n, trunc, append)
  PROVE  \E own2, idx2 : Sound(fat', file', call', ghost', own2, idx2)
<1>1. call = Idle /\ file[h] = Closed /\ call' = Idle
  BY DEF fat_file_open, Open
<1> DEFINE New(v) == NewHandle(v, n, trunc)
           Rest(v) == fat_file_seek(v, New(v), IF append THEN New(v).size ELSE 0)
<1>2. PICK o \in UNION {IF x.err = NONE THEN Rest(x.fat) ELSE {x} : x \in CreateChain(fat, n)} :
        /\ fat' = o.fat /\ file' = [file EXCEPT ![h] = IF o.err = NONE THEN o.file ELSE Closed]
        /\ ghost' = [data |-> IF trunc /\ o.err = NONE
                              THEN [ghost.data EXCEPT ![n] = [i \in Offsets |-> 0]] ELSE ghost.data,
                     len |-> IF trunc /\ o.err = NONE THEN [ghost.len EXCEPT ![n] = 0] ELSE ghost.len,
                     unsure |-> ghost.unsure \cup IF OpenOn(n) # {} THEN {n} ELSE Unsure(n, o)]
  BY DEF fat_file_open, Then
<1>3. PICK x \in CreateChain(fat, n) : IF x.err = NONE THEN o \in Rest(x.fat) ELSE o = x
  BY <1>2
<1>4. OpenSeek(x, n, trunc, append, o)
  BY <1>3 DEF OpenSeek
<1> HIDE DEF Rest, New
<1>5. OpenOn(n) = On(file, n)
  BY DEF OpenOn, On
<1>6. ghost' = OpenGhost(ghost, file, n, trunc, o)
  <2>1. ghost.data \in [FILES -> [Offsets -> Nat]] /\ ghost.len \in [FILES -> Nat]
    BY DEF Sound, Ghosts
  <2>2. CASE trunc /\ o.err = NONE
    BY <1>2, <1>5, <2>2 DEF OpenGhost, NewGhost
  <2>3. CASE ~(trunc /\ o.err = NONE)
    <3>1. [ghost.data EXCEPT ![n] = ghost.data[n]] = ghost.data /\ [ghost.len EXCEPT ![n] = ghost.len[n]] = ghost.len
      BY <2>1
    <3> QED BY <1>2, <1>5, <2>3, <3>1 DEF OpenGhost, NewGhost
  <2> QED BY <2>2, <2>3
<1>7. PICK g, gh2, fl2 : /\ g = IF o.err = NONE THEN o.file ELSE Closed
                         /\ gh2 = ghost' /\ fl2 = Update(file, h, g)
  OBVIOUS
<1>8. PICK v, fl, gh : v = fat /\ fl = file /\ gh = ghost
  OBVIOUS
<1>9. /\ Sound(v, fl, Idle, gh, own, idx) /\ h \in HANDLES /\ fl[h] = Closed /\ n \in FILES
      /\ trunc \in BOOLEAN /\ append \in BOOLEAN /\ x \in CreateChain(v, n)
      /\ OpenSeek(x, n, trunc, append, o) /\ gh2 = OpenGhost(gh, fl, n, trunc, o)
      /\ g = (IF o.err = NONE THEN o.file ELSE Closed) /\ fl2 = Update(fl, h, g)
  BY <1>1, <1>3, <1>4, <1>6, <1>7, <1>8
<1>10. \E own2, idx2 : Sound(o.fat, fl2, Idle, gh2, own2, idx2)
  BY ONLY <1>9, NewSound
<1>11. file' = fl2
  BY <1>2, <1>7 DEF Update
<1>12. fat' = o.fat
  BY <1>2
<1>13. fat' = o.fat /\ file' = fl2 /\ call' = Idle /\ ghost' = gh2
  BY <1>1, <1>7, <1>11, <1>12
<1> QED BY ONLY <1>10, <1>13

LEMMA InitSound ==
  ASSUME Init
  PROVE  \E own, idx : Sound(fat, file, call, ghost, own, idx)
<1>1. PICK own, idx : own = [c \in CLUSTERS |-> NONE] /\ idx = [c \in CLUSTERS |-> 0]
  OBVIOUS
<1>2. fat \in Volume
  <2>1. [s \in Sectors |-> [i \in 0 .. SECT_SIZE - 1 |-> 0]] \in [Sectors -> Buffer]
    BY DEF Buffer
  <2>2. /\ [c \in CLUSTERS |-> FREE] \in [CLUSTERS -> CLUSTERS \cup {FREE, EOC}]
        /\ [f \in FILES |-> NONE] \in [FILES -> CLUSTERS \cup {NONE}]
        /\ [f \in FILES |-> 0] \in [FILES -> Nat]
    OBVIOUS
  <2> QED BY <2>1, <2>2 DEF Init, Volume
<1>3. ghost \in Ghosts /\ \A n \in FILES : ghost.len[n] = 0 /\ \A o \in Offsets : ghost.data[n][o] = 0
  <2>1. [f \in FILES |-> [o \in Offsets |-> 0]] \in [FILES -> [Offsets -> Nat]] /\ [f \in FILES |-> 0] \in [FILES -> Nat]
    OBVIOUS
  <2> QED BY <2>1 DEF Init, Ghosts
<1>4. Chains(fat, own, idx)
  BY <1>1 DEF Chains, Init
<1>5. /\ file \in [HANDLES -> Handle \cup {Closed}] /\ call = Idle /\ call \in Calls
      /\ \A h \in HANDLES : file[h] = Closed
  BY DEF Init, Calls
<1>6. ASSUME NEW n \in FILES PROVE FileSound(fat, file, call, ghost, own, idx, n)
  <2>1. On(file, n) = {}
    BY <1>5, ClosedName, Names DEF On
  <2>2. fat.size[n] = ghost.len[n]
    BY <1>3 DEF Init
  <2>3. OnCard(fat, own, idx, n, ghost.data[n])
    BY <1>3 DEF OnCard
  <2> QED BY <2>1, <2>2, <2>3 DEF FileSound, Resting
<1>7. Sound(fat, file, call, ghost, own, idx)
  BY <1>2, <1>3, <1>4, <1>5, <1>6 DEF Sound
<1> QED BY <1>7

-----------------------------------------------------------------------------
(* The theorems *)

IInv == writes \in Nat /\ \E own, idx : Sound(fat, file, call, ghost, own, idx)

LEMMA StepSound ==
  ASSUME IInv, [Next]_vars
  PROVE  IInv'
<1>1. PICK own, idx : Sound(fat, file, call, ghost, own, idx)
  BY DEF IInv
<1>2. writes \in Nat
  BY DEF IInv
<1>3. CASE UNCHANGED vars
  BY <1>1, <1>2, <1>3 DEF vars, IInv
<1>4. ASSUME NEW h \in HANDLES, NEW n \in FILES, NEW trunc \in BOOLEAN, NEW append \in BOOLEAN,
             fat_file_open(h, n, trunc, append)
      PROVE  IInv'
  <2>1. \E own2, idx2 : Sound(fat', file', call', ghost', own2, idx2)
    BY <1>1, <1>4, OpenSound
  <2>2. writes' = writes
    BY <1>4 DEF fat_file_open
  <2> QED BY <1>2, <2>1, <2>2 DEF IInv
<1>5. ASSUME NEW h \in HANDLES, NEW len \in LENGTHS, CallWrite(h, len) PROVE IInv'
  <2>1. Sound(fat', file', call', ghost', own, idx)
    BY <1>1, <1>5, CallWriteSound
  <2>2. writes' = writes + 1
    BY <1>5 DEF CallWrite
  <2> QED BY <1>2, <2>1, <2>2 DEF IInv
<1>6. ASSUME NEW h \in HANDLES, NEW len \in LENGTHS, CallRead(h, len) PROVE IInv'
  <2>1. \E own2, idx2 : Sound(fat', file', call', ghost', own2, idx2)
    BY <1>1, <1>6, CallReadSound
  <2>2. writes' = writes
    BY <1>6 DEF CallRead
  <2> QED BY <1>2, <2>1, <2>2 DEF IInv
<1>7. ASSUME NEW h \in HANDLES, fat_file_close(h) PROVE IInv'
  <2>1. Sound(fat', file', call', ghost', own, idx)
    BY <1>1, <1>7, CloseSound
  <2>2. writes' = writes
    BY <1>7 DEF fat_file_close
  <2> QED BY <1>2, <2>1, <2>2 DEF IInv
<1>8. CASE WriteStep
  <2>1. \E own2, idx2 : Sound(fat', file', call', ghost', own2, idx2)
    BY <1>1, <1>2, <1>8, WriteSound
  <2>2. writes' = writes
    BY <1>8 DEF WriteStep
  <2> QED BY <1>2, <2>1, <2>2 DEF IInv
<1>9. CASE ReadStep
  <2>1. \E own2, idx2 : Sound(fat', file', call', ghost', own2, idx2)
    BY <1>1, <1>9, ReadSound
  <2>2. writes' = writes
    BY <1>9 DEF ReadStep
  <2> QED BY <1>2, <2>1, <2>2 DEF IInv
<1> QED BY <1>3, <1>4, <1>5, <1>6, <1>7, <1>8, <1>9 DEF Next

(* The volume and the open files of fat.c stay sound: the chains are apart and
   only grow, every handle stands on its own, and the buffer and the length of
   a file that no failed call touched hold what its chain on the card lacks. *)
THEOREM AlwaysSound == Spec => []IInv
<1>1. Init => IInv
  <2>1. Init => writes \in Nat
    BY DEF Init
  <2> QED BY <2>1, InitSound DEF IInv
<1>2. IInv /\ [Next]_vars => IInv'
  BY StepSound
<1> QED BY <1>1, <1>2, PTL DEF Spec

LEMMA ChainHolds ==
  ASSUME fat \in Volume, NEW own, NEW idx, Chains(fat, own, idx), NEW n \in FILES,
         NEW c \in CLUSTERS, own[c] = n
  PROVE  c \in {Nth(n, i) : i \in 0 .. Cardinality(CLUSTERS) - 1}
<1>1. idx[c] \in 0 .. Cardinality(CLUSTERS) - 1
  BY PlaceBound, Names
<1>2. Nth(n, idx[c]) = c
  BY NthIs
<1> QED BY <1>1, <1>2

(* No handle of fat.c leaves its own file: the cluster that fat_file_seek left
   it on, and the one its buffer is written to, are on the chain of its file,
   whatever failed in between and whoever else has the file open. *)
THEOREM HandlesInChain == Spec => []InOwnChain
<1>1. ASSUME IInv PROVE InOwnChain
  <2>1. PICK own, idx : Sound(fat, file, call, ghost, own, idx)
    BY <1>1 DEF IInv
  <2>2. fat \in Volume /\ Chains(fat, own, idx)
    BY <2>1 DEF Sound
  <2>3. ASSUME NEW h \in HANDLES, Open(h)
        PROVE  LET chain == {Nth(file[h].name, i) : i \in 0 .. Cardinality(CLUSTERS) - 1}
               IN file[h].clust \in chain /\ file[h].sect[1] \in chain
    <3>1. PICK f, n, c, d : f = file[h] /\ n = f.name /\ c = f.clust /\ d = f.sect[1]
      OBVIOUS
    <3>2. Placed(fat, own, f)
      BY <2>1, <2>3, <3>1 DEF Sound, Open
    <3>3. n \in FILES /\ c \in CLUSTERS /\ d \in CLUSTERS /\ own[c] = n /\ own[d] = n
      BY <3>1, <3>2 DEF Placed, Handle, Sectors
    <3>4. c \in {Nth(n, i) : i \in 0 .. Cardinality(CLUSTERS) - 1}
      BY <2>2, <3>3, ChainHolds
    <3>5. d \in {Nth(n, i) : i \in 0 .. Cardinality(CLUSTERS) - 1}
      BY <2>2, <3>3, ChainHolds
    <3> QED BY <3>1, <3>4, <3>5
  <2> QED BY <2>3 DEF InOwnChain
<1> QED BY <1>1, AlwaysSound, PTL

(* The buffer of a handle holds the sector its offset is in: fat_file_seek
   keeps cluster, sector and buffer in step, also when it fails for want of
   clusters in the middle of a write. *)
THEOREM PositionsAgree == Spec => []PositionAgrees
<1>1. ASSUME IInv PROVE PositionAgrees
  <2>1. PICK own, idx : Sound(fat, file, call, ghost, own, idx)
    BY <1>1 DEF IInv
  <2>2. fat \in Volume /\ Chains(fat, own, idx)
    BY <2>1 DEF Sound
  <2>3. ASSUME NEW h \in HANDLES, Open(h), file[h].name \notin ghost.unsure
        PROVE  LET f == file[h]
               IN /\ f.clust = Nth(f.name, f.offset \div ClustSize)
                  /\ f.sect = <<f.clust, (f.offset \div SECT_SIZE) % SECT_PER_CLUST>>
                  /\ f.dirty \/ f.buf = fat.card[f.sect]
    <3>1. PICK f, n : f = file[h] /\ n = f.name
      OBVIOUS
    <3>2. Placed(fat, own, f)
      BY <2>1, <2>3, <3>1 DEF Sound, Open
    <3>3. n \in FILES \ ghost.unsure /\ f.clust \in CLUSTERS /\ own[f.clust] = n
      BY <2>3, <3>1, <3>2 DEF Placed, Handle
    <3>4. Alone(fat, file, call, ghost, own, idx, h, n)
      BY <2>1, <3>1, <3>3, OnlyHandle
    <3>5. At(fat, idx, f)
      BY <3>1, <3>4 DEF Alone
    <3>6. Nth(n, idx[f.clust]) = f.clust
      BY <2>2, <3>3, NthIs
    <3>7. /\ f.clust = Nth(n, f.offset \div ClustSize)
          /\ f.sect = <<f.clust, (f.offset \div SECT_SIZE) % SECT_PER_CLUST>>
          /\ f.dirty \/ f.buf = fat.card[f.sect]
      BY <3>5, <3>6 DEF At, Clus, InClust
    <3> QED BY <3>1, <3>7
  <2> QED BY <2>3 DEF PositionAgrees
<1> QED BY <1>1, AlwaysSound, PTL

(* What ByteAt finds on the chain *)
LEMMA ByteAtIs ==
  ASSUME fat \in Volume, NEW own, NEW idx, Chains(fat, own, idx), NEW n \in FILES, NEW o \in Nat,
         NEW c \in CLUSTERS, own[c] = n, idx[c] = Clus(o)
  PROVE  /\ OpenOn(n) = {} => ByteAt(n, o) = fat.card[<<c, InClust(o)>>][o % SECT_SIZE]
         /\ \A h \in HANDLES : OpenOn(n) = {h} =>
              ByteAt(n, o) = IF Sec(file[h].offset) = Sec(o) THEN file[h].buf[o % SECT_SIZE]
                             ELSE fat.card[<<c, InClust(o)>>][o % SECT_SIZE]
<1>1. Nth(n, Clus(o)) = c
  <2>1. Nth(n, idx[c]) = c
    BY NthIs
  <2> QED BY <2>1
<1>2. <<c, InClust(o)>> \in Sectors
  BY Places DEF Sectors
<1>3. PICK at : at = {h \in OpenOn(n) : Sec(file[h].offset) = Sec(o)}
  OBVIOUS
<1>4. ByteAt(n, o) = IF at = {} THEN fat.card[<<c, InClust(o)>>][o % SECT_SIZE]
                     ELSE file[CHOOSE h \in at : TRUE].buf[o % SECT_SIZE]
  <2> DEFINE A == {h \in OpenOn(n) : file[h].offset \div SECT_SIZE = o \div SECT_SIZE}
             S == <<Nth(n, o \div ClustSize), (o \div SECT_SIZE) % SECT_PER_CLUST>>
  <2>1. A = at
    BY <1>3 DEF Sec
  <2>2. S = <<c, InClust(o)>>
    BY <1>1 DEF Clus, InClust
  <2>3. ByteAt(n, o) = IF S \notin Sectors THEN 0
                       ELSE IF A = {} THEN fat.card[S][o % SECT_SIZE]
                       ELSE file[CHOOSE h \in A : TRUE].buf[o % SECT_SIZE]
    BY DEF ByteAt
  <2> HIDE DEF A, S
  <2> QED BY <1>2, <2>1, <2>2, <2>3
<1>5. ASSUME OpenOn(n) = {} PROVE ByteAt(n, o) = fat.card[<<c, InClust(o)>>][o % SECT_SIZE]
  <2>1. at = {}
    BY <1>3, <1>5
  <2> QED BY <1>4, <2>1
<1>6. ASSUME NEW h \in HANDLES, OpenOn(n) = {h}
      PROVE  ByteAt(n, o) = IF Sec(file[h].offset) = Sec(o) THEN file[h].buf[o % SECT_SIZE]
                            ELSE fat.card[<<c, InClust(o)>>][o % SECT_SIZE]
  <2>1. CASE Sec(file[h].offset) = Sec(o)
    <3>1. at = {h}
      BY <1>3, <1>6, <2>1
    <3>2. (CHOOSE k \in at : TRUE) = h
      BY <3>1
    <3> QED BY <1>4, <2>1, <3>1, <3>2
  <2>2. CASE Sec(file[h].offset) # Sec(o)
    <3>1. at = {}
      BY <1>3, <1>6, <2>2
    <3> QED BY <1>4, <2>2, <3>1
  <2> QED BY <2>1, <2>2
<1> QED BY <1>5, <1>6

(* A file of fat.c that no failed call and no second handle touched reads as
   the last byte written at every offset, and is as long as its writes got:
   the one-sector buffer of the handle, the card and the directory entry lose
   nothing to seeks, to a full volume, or to what befalls other files. *)
THEOREM NothingIsLost == Spec => []NothingLost
<1>1. ASSUME IInv PROVE NothingLost
  <2>1. PICK own, idx : Sound(fat, file, call, ghost, own, idx)
    BY <1>1 DEF IInv
  <2>2. fat \in Volume /\ Chains(fat, own, idx)
    BY <2>1 DEF Sound
  <2>3. ASSUME NEW n \in FILES \ ghost.unsure
        PROVE  /\ \A o \in Offsets : ghost.data[n][o] # 0 => ByteAt(n, o) = ghost.data[n][o]
               /\ call = Idle => \/ \E h \in OpenOn(n) : file[h].size = ghost.len[n]
                                 \/ OpenOn(n) = {} /\ fat.size[n] = ghost.len[n]
    <3>1. PICK data, len : data = ghost.data[n] /\ len = ghost.len[n]
      OBVIOUS
    <3>2. FileSound(fat, file, call, ghost, own, idx, n)
      BY <2>1 DEF Sound
    <3>3. OpenOn(n) = On(file, n)
      BY DEF OpenOn, On
    <3>4. CASE On(file, n) = {} /\ Resting(fat, own, idx, n, len, data)
      <4>1. ASSUME NEW o \in Offsets, data[o] # 0 PROVE ByteAt(n, o) = data[o]
        <5>1. PICK c \in CLUSTERS : /\ own[c] = n /\ idx[c] = Clus(o)
                                    /\ fat.card[<<c, InClust(o)>>][o % SECT_SIZE] = data[o]
          BY <3>4, <4>1 DEF Resting, OnCard
        <5>2. o \in Nat
          BY OffsetsNat
        <5>3. ByteAt(n, o) = fat.card[<<c, InClust(o)>>][o % SECT_SIZE]
          BY <2>2, <3>3, <3>4, <5>1, <5>2, ByteAtIs
        <5> QED BY <5>1, <5>3
      <4> QED BY <3>1, <3>3, <3>4, <4>1 DEF Resting
    <3>5. ASSUME NEW h \in HANDLES, On(file, n) = {h},
                 InUse(fat, own, idx, file[h], len, data, Writing(call, h))
          PROVE  /\ \A o \in Offsets : data[o] # 0 => ByteAt(n, o) = data[o]
                 /\ call = Idle => \E k \in OpenOn(n) : file[k].size = len
      <4>1. PICK f : f = file[h]
        OBVIOUS
      <4>2. f.name = n
        BY <3>5, <4>1 DEF On
      <4>3. ASSUME NEW o \in Offsets, data[o] # 0 PROVE ByteAt(n, o) = data[o]
        <5>1. PICK c \in CLUSTERS : /\ own[c] = n /\ idx[c] = Clus(o)
                                    /\ data[o] = IF Sec(f.offset) = Sec(o) THEN f.buf[o % SECT_SIZE]
                                                 ELSE fat.card[<<c, InClust(o)>>][o % SECT_SIZE]
          BY <3>5, <4>1, <4>2, <4>3 DEF InUse, InHand
        <5>2. o \in Nat
          BY OffsetsNat
        <5>3. ByteAt(n, o) = IF Sec(file[h].offset) = Sec(o) THEN file[h].buf[o % SECT_SIZE]
                             ELSE fat.card[<<c, InClust(o)>>][o % SECT_SIZE]
          BY <2>2, <3>3, <3>5, <5>1, <5>2, ByteAtIs
        <5> QED BY <4>1, <5>1, <5>3
      <4>4. ASSUME call = Idle PROVE f.size = len
        <5>1. ~Writing(call, h)
          BY <4>4 DEF Writing, Idle, NONE
        <5> QED BY <3>5, <4>1, <5>1 DEF InUse, Lengths
      <4>5. h \in OpenOn(n)
        BY <3>3, <3>5
      <4> QED BY <4>1, <4>3, <4>4, <4>5
    <3>6. CASE \E h \in HANDLES : /\ On(file, n) = {h}
                                  /\ InUse(fat, own, idx, file[h], len, data, Writing(call, h))
      BY <3>1, <3>5, <3>6
    <3> QED BY <3>1, <3>2, <3>4, <3>6 DEF FileSound
  <2> QED BY <2>3 DEF NothingLost
<1> QED BY <1>1, AlwaysSound, PTL

=============================================================================
