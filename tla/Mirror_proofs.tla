---------------------------- MODULE Mirror_proofs ---------------------------
(* A run that came to its end has rebuilt the source, for every tree at     *)
(* either end, every list of roots and whatever vanishes on the way.        *)
EXTENDS Mirror, SequenceTheorems, FiniteSetTheorems, TLAPS

Path == Seq(Nat)

-----------------------------------------------------------------------------
(* Paths *)

\* The first n names of a path.
LEMMA FirstNames ==
  ASSUME NEW p \in Path, NEW n \in 0 .. Len(p)
  PROVE  /\ SubSeq(p, 1, n) \in Path /\ Len(SubSeq(p, 1, n)) = n
         /\ \A i \in 1 .. n : SubSeq(p, 1, n)[i] = p[i]
<1>1. Len(p) \in Nat /\ \A i \in 1 .. Len(p) : p[i] \in Nat
  BY LenProperties DEF Path
<1>2. n \in Int /\ n >= 0 /\ \A i \in 1 .. n : p[i] \in Nat
  BY <1>1
<1> QED
  BY <1>1, <1>2, SubSeqProperties DEF Path

\* A path is above another if it is shorter and has the same names.
LEMMA AboveIs ==
  ASSUME NEW p \in Path
  PROVE  \A q : q \in Above(p) <=>
           q \in Path /\ Len(q) < Len(p) /\ \A i \in 1 .. Len(q) : q[i] = p[i]
<1>1. Len(p) \in Nat
  BY LenProperties DEF Path
<1>3. ASSUME NEW q \in Above(p)
      PROVE  q \in Path /\ Len(q) < Len(p) /\ \A i \in 1 .. Len(q) : q[i] = p[i]
  <2>1. PICK n \in 0 .. Len(p) - 1 : q = SubSeq(p, 1, n)
    BY <1>3 DEF Above
  <2>2. n \in 0 .. Len(p) /\ n < Len(p)
    BY <1>1
  <2> QED
    BY <2>1, <2>2, FirstNames
<1>4. ASSUME NEW q \in Path, Len(q) < Len(p), \A i \in 1 .. Len(q) : q[i] = p[i]
      PROVE  q \in Above(p)
  <2>1. Len(q) \in 0 .. Len(p) - 1
    BY <1>1, <1>4, LenProperties DEF Path
  <2>2. q = SubSeq(p, 1, Len(q))
    <3>1. Len(q) \in 0 .. Len(p)
      BY <1>1, <2>1
    <3> QED
      BY <1>4, <3>1, FirstNames, SeqEqual DEF Path
  <2> QED
    BY <2>1, <2>2 DEF Above
<1> QED
  BY <1>3, <1>4

\* Above is transitive, and nothing is above itself.
LEMMA AboveAbove ==
  ASSUME NEW p \in Path, NEW q \in Above(p)
  PROVE  q \in Path /\ q # p /\ p \notin Above(q) /\ Above(q) \subseteq Above(p)
<1>1. q \in Path /\ Len(q) < Len(p) /\ \A i \in 1 .. Len(q) : q[i] = p[i]
  BY AboveIs
<1>2. Len(p) \in Nat /\ Len(q) \in Nat
  BY <1>1, LenProperties DEF Path
<1>3. ASSUME NEW r \in Above(q) PROVE r \in Above(p)
  <2>1. r \in Path /\ Len(r) < Len(q) /\ \A i \in 1 .. Len(r) : r[i] = q[i]
    BY <1>1, AboveIs
  <2>2. Len(r) \in Nat
    BY <2>1, LenProperties DEF Path
  <2> QED
    BY <1>1, <1>2, <2>1, <2>2, AboveIs
<1>4. p \notin Above(q)
  BY <1>1, <1>2, AboveIs
<1> QED
  BY <1>1, <1>2, <1>3, <1>4

\* Two paths above a third are one or one is above the other.
LEMMA AboveOrder ==
  ASSUME NEW p \in Path, NEW q \in Above(p) \cup {p}, NEW r \in Above(p) \cup {p}
  PROVE  q = r \/ q \in Above(r) \/ r \in Above(q)
<1>1. /\ q \in Path /\ Len(q) \in Nat /\ Len(q) <= Len(p) /\ \A i \in 1 .. Len(q) : q[i] = p[i]
      /\ r \in Path /\ Len(r) \in Nat /\ Len(r) <= Len(p) /\ \A i \in 1 .. Len(r) : r[i] = p[i]
      /\ Len(p) \in Nat
  BY AboveIs, LenProperties DEF Path
<1>2. CASE Len(q) < Len(r)
  BY <1>1, <1>2, AboveIs
<1>3. CASE Len(r) < Len(q)
  BY <1>1, <1>3, AboveIs
<1>4. CASE Len(q) = Len(r)
  BY <1>1, <1>4, SeqEqual DEF Path
<1> QED
  BY <1>1, <1>2, <1>3, <1>4

\* The parent is the nearest above.
LEMMA ParentIs ==
  ASSUME NEW p \in Path, p # <<>>
  PROVE  /\ Parent(p) \in Above(p) /\ Len(Parent(p)) = Len(p) - 1
         /\ \A q \in Above(p) : q = Parent(p) \/ q \in Above(Parent(p))
<1>1. Len(p) \in Nat \ {0}
  BY EmptySeq DEF Path
<1>2. Parent(p) \in Above(p)
  BY <1>1 DEF Parent, Above
<1>3. Len(Parent(p)) = Len(p) - 1
  <2>1. Len(p) - 1 \in 0 .. Len(p)
    BY <1>1
  <2> QED
    BY <2>1, FirstNames DEF Parent
<1>4. ASSUME NEW q \in Above(p) PROVE q = Parent(p) \/ q \in Above(Parent(p))
  <2>1. ASSUME Parent(p) \in Above(q) PROVE FALSE
    <3>1. q \in Path /\ Len(q) < Len(p) /\ Len(q) \in Nat
      BY AboveIs, LenProperties DEF Path
    <3>2. Len(Parent(p)) < Len(q)
      BY <2>1, <3>1, AboveIs
    <3> QED
      BY <1>1, <1>3, <3>1, <3>2
  <2> QED
    BY <1>2, <2>1, AboveOrder
<1> QED
  BY <1>2, <1>3, <1>4

-----------------------------------------------------------------------------
(* Relative paths *)

Base == CommonAncestor(order.roots)

\* Paths that have a relative path.
Within == {p \in Path : Len(Base) <= Len(p) /\ \A i \in 1 .. Len(Base) : p[i] = Base[i]}

\* What is left of a path without the base.
LEMMA RelIs ==
  ASSUME Base \in Path, NEW p \in Within
  PROVE  /\ Rel(p) \in Path /\ Len(Rel(p)) = Len(p) - Len(Base)
         /\ \A i \in 1 .. Len(Rel(p)) : Rel(p)[i] = p[Len(Base) + i]
<1> DEFINE b == Len(Base)
           m == b + 1
           n == Len(p)
<1>1. b \in Nat /\ n \in Nat /\ b <= n /\ p \in Path
  BY LenProperties DEF Path, Within
<1>2. m \in Int /\ n \in Int /\ \A i \in m .. n : p[i] \in Nat
  BY <1>1, LenProperties DEF Path
<1>3. Rel(p) = SubSeq(p, m, n)
  BY DEF Rel, Base
<1>4. /\ SubSeq(p, m, n) \in Seq(Nat)
      /\ Len(SubSeq(p, m, n)) = IF m <= n THEN n - m + 1 ELSE 0
      /\ \A i \in 1 .. n - m + 1 : SubSeq(p, m, n)[i] = p[m + i - 1]
  <2> HIDE DEF b, m, n
  <2> QED
    BY <1>2, SubSeqProperties
<1>5. Len(SubSeq(p, m, n)) = n - b /\ n - m + 1 = n - b
  BY <1>1, <1>4
<1>6. \A i \in 1 .. n - b : m + i - 1 = b + i
  BY <1>1
<1> QED
  BY <1>1, <1>3, <1>4, <1>5, <1>6 DEF Path

\* A relative path is that of one path, and the order of paths is kept.
LEMMA RelKeeps ==
  ASSUME Base \in Path, NEW p \in Within, NEW q \in Within
  PROVE  /\ Rel(p) = Rel(q) => p = q
         /\ q \in Above(p) <=> Rel(q) \in Above(Rel(p))
<1> DEFINE b == Len(Base)
<1>1. /\ p \in Path /\ Len(p) \in Nat /\ b <= Len(p) /\ \A i \in 1 .. b : p[i] = Base[i]
      /\ q \in Path /\ Len(q) \in Nat /\ b <= Len(q) /\ \A i \in 1 .. b : q[i] = Base[i]
      /\ b \in Nat
  BY LenProperties DEF Path, Within
<1>2. /\ Rel(p) \in Path /\ Len(Rel(p)) = Len(p) - b /\ \A i \in 1 .. Len(p) - b : Rel(p)[i] = p[b + i]
      /\ Rel(q) \in Path /\ Len(Rel(q)) = Len(q) - b /\ \A i \in 1 .. Len(q) - b : Rel(q)[i] = q[b + i]
  BY RelIs
<1> HIDE DEF b
<1>3. ASSUME Len(q) <= Len(p), \A i \in 1 .. Len(q) - b : Rel(q)[i] = Rel(p)[i]
      PROVE  \A i \in 1 .. Len(q) : q[i] = p[i]
  <2> SUFFICES ASSUME NEW i \in 1 .. Len(q) PROVE q[i] = p[i]
    OBVIOUS
  <2>1. CASE i <= b
    BY <1>1, <2>1
  <2>2. CASE i > b
    <3>1. i - b \in 1 .. Len(q) - b /\ i - b \in 1 .. Len(p) - b /\ b + (i - b) = i
      BY <1>1, <1>3, <2>2
    <3> QED
      BY <1>2, <1>3, <3>1
  <2> QED
    BY <1>1, <2>1, <2>2
<1>4. ASSUME Rel(p) = Rel(q) PROVE p = q
  <2>1. Len(p) = Len(q)
    BY <1>1, <1>2, <1>4
  <2> QED
    BY <1>1, <1>3, <1>4, <2>1, SeqEqual DEF Path
<1>5. ASSUME Rel(q) \in Above(Rel(p)) PROVE q \in Above(p)
  <2>1. Len(Rel(q)) < Len(Rel(p)) /\ \A i \in 1 .. Len(Rel(q)) : Rel(q)[i] = Rel(p)[i]
    BY <1>2, <1>5, AboveIs
  <2>2. Len(q) < Len(p)
    BY <1>1, <1>2, <2>1
  <2> QED
    BY <1>1, <1>2, <1>3, <2>1, <2>2, AboveIs
<1>6. ASSUME q \in Above(p) PROVE Rel(q) \in Above(Rel(p))
  <2>1. Len(q) < Len(p) /\ \A i \in 1 .. Len(q) : q[i] = p[i]
    BY <1>1, <1>6, AboveIs
  <2>2. Len(Rel(q)) < Len(Rel(p))
    BY <1>1, <1>2, <2>1
  <2>3. \A i \in 1 .. Len(Rel(q)) : Rel(q)[i] = Rel(p)[i]
    <3> SUFFICES ASSUME NEW i \in 1 .. Len(Rel(q)) PROVE Rel(q)[i] = Rel(p)[i]
      OBVIOUS
    <3>1. i \in 1 .. Len(q) - b /\ i \in 1 .. Len(p) - b /\ b + i \in 1 .. Len(q)
      BY <1>1, <1>2, <2>1
    <3> QED
      BY <1>2, <2>1, <3>1
  <2> QED
    BY <1>2, <2>2, <2>3, AboveIs
<1> QED
  BY <1>4, <1>5, <1>6

\* What is above a relative path is one.
LEMMA RelAbove ==
  ASSUME Base \in Path, NEW p \in Within, NEW r \in Above(Rel(p))
  PROVE  \E q \in Above(p) \cap Within : Rel(q) = r
<1> DEFINE b == Len(Base)
           n == b + Len(r)
           q == SubSeq(p, 1, n)
<1>1. /\ p \in Path /\ Len(p) \in Nat /\ b <= Len(p) /\ b \in Nat
      /\ \A i \in 1 .. b : p[i] = Base[i]
  BY LenProperties DEF Path, Within
<1>2. Rel(p) \in Path /\ Len(Rel(p)) = Len(p) - b /\ \A i \in 1 .. Len(p) - b : Rel(p)[i] = p[b + i]
  BY RelIs
<1>3. /\ r \in Path /\ Len(r) \in Nat /\ Len(r) < Len(Rel(p))
      /\ \A i \in 1 .. Len(r) : r[i] = Rel(p)[i]
  BY <1>2, AboveIs, LenProperties DEF Path
<1>4. n \in 0 .. Len(p) /\ n < Len(p)
  BY <1>1, <1>2, <1>3
<1>5. q \in Path /\ Len(q) = n /\ \A i \in 1 .. n : q[i] = p[i]
  <2> HIDE DEF n
  <2> QED
    BY <1>1, <1>4, FirstNames
<1> HIDE DEF q
<1>6. q \in Above(p)
  BY <1>1, <1>4, <1>5, AboveIs
<1>7. q \in Within
  <2>1. b <= n /\ \A i \in 1 .. b : i \in 1 .. n
    BY <1>1, <1>3
  <2> HIDE DEF n
  <2> QED
    BY <1>1, <1>5, <2>1 DEF Within
<1>8. Rel(q) = r
  <2>1. Rel(q) \in Path /\ Len(Rel(q)) = Len(q) - b /\ \A i \in 1 .. Len(Rel(q)) : Rel(q)[i] = q[b + i]
    BY <1>7, RelIs
  <2>2. Len(Rel(q)) = Len(r)
    BY <1>1, <1>3, <1>5, <2>1
  <2>3. ASSUME NEW i \in 1 .. Len(r) PROVE Rel(q)[i] = r[i]
    <3>1. b + i \in 1 .. n /\ i \in 1 .. Len(p) - b
      BY <1>1, <1>2, <1>3
    <3> QED
      BY <1>2, <1>3, <1>5, <2>1, <2>2, <3>1
  <2> QED
    BY <1>3, <2>1, <2>2, <2>3, SeqEqual DEF Path
<1> QED
  BY <1>6, <1>7, <1>8

\* What is below a path that has a relative path has one.
LEMMA WithinBelow ==
  ASSUME Base \in Path, NEW p \in Path, NEW q \in Above(p) \cap Within
  PROVE  p \in Within
<1>1. /\ q \in Path /\ Len(q) \in Nat /\ Len(p) \in Nat /\ Len(Base) \in Nat
      /\ Len(q) < Len(p) /\ \A i \in 1 .. Len(q) : q[i] = p[i]
  BY AboveIs, LenProperties DEF Path
<1>2. Len(Base) <= Len(q) /\ \A i \in 1 .. Len(Base) : q[i] = Base[i]
  BY DEF Within
<1> QED
  BY <1>1, <1>2 DEF Within

\* An excluded name excludes all below it.
LEMMA ExcludedBelow ==
  ASSUME Base \in Path, NEW p \in Within, NEW q \in Above(p) \cap Within, Excluded(q)
  PROVE  Excluded(p)
<1>1. Rel(p) \in Path /\ Rel(q) \in Path /\ Rel(q) \in Above(Rel(p))
  BY RelIs, RelKeeps
<1>2. /\ DOMAIN Rel(q) = 1 .. Len(Rel(q)) /\ DOMAIN Rel(p) = 1 .. Len(Rel(p))
      /\ Len(Rel(q)) \in Nat /\ Len(Rel(p)) \in Nat
  BY <1>1, LenProperties DEF Path
<1>3. Len(Rel(q)) < Len(Rel(p)) /\ \A i \in 1 .. Len(Rel(q)) : Rel(q)[i] = Rel(p)[i]
  BY <1>1, AboveIs
<1>4. PICK i \in DOMAIN Rel(q) : Rel(q)[i] \in order.skip
  BY DEF Excluded
<1> QED
  BY <1>2, <1>3, <1>4 DEF Excluded

\* All roots are within the base.
LEMMA BaseIs ==
  ASSUME order \in Orders
  PROVE  Base \in Path /\ \A i \in DOMAIN order.roots : order.roots[i] \in Within
<1> DEFINE rs == order.roots
           r == rs[1]
           S == Shared(rs)
           k == Cardinality(S)
<1>1. /\ rs \in Seq(Path) /\ DOMAIN rs = 1 .. Len(rs) /\ Len(rs) \in Nat \ {0}
      /\ \A i \in DOMAIN rs : rs[i] \in Path /\ Len(rs[i]) \in Nat
  <2>1. rs \in Seq(Path) /\ rs # <<>>
    BY MirrorAssumption DEF MirrorAssumption, Path
  <2>2. Len(rs) \in Nat \ {0} /\ DOMAIN rs = 1 .. Len(rs) /\ \A i \in 1 .. Len(rs) : rs[i] \in Path
    BY <2>1, EmptySeq, LenProperties
  <2> QED
    BY <2>1, <2>2, LenProperties DEF Path
<1>2. r \in Path /\ Len(r) \in Nat /\ 1 \in DOMAIN rs
  BY <1>1
<1> HIDE DEF rs, r
<1>3. CASE Len(rs) = 1
  <2>1. Base = Parent(r)
    BY <1>3 DEF Base, CommonAncestor, rs, r
  <2>2. Base \in Path /\ Len(Base) <= Len(r) /\ \A i \in 1 .. Len(Base) : r[i] = Base[i]
    <3>1. CASE r = <<>>
      <4>1. Parent(r) = <<>>
        <5>1. Len(r) - 1 < 1 /\ Len(r) - 1 \in Int
          BY <1>2, <3>1
        <5> QED
          BY <5>1, SubSeqEmpty DEF Parent
      <4> QED
        BY <1>2, <2>1, <3>1, <4>1
    <3>2. CASE r # <<>>
      <4>1. Base \in Above(r)
        BY <1>2, <2>1, <3>2, ParentIs
      <4>2. Base \in Path /\ Len(Base) < Len(r) /\ \A i \in 1 .. Len(Base) : Base[i] = r[i]
        BY <1>2, <4>1, AboveIs
      <4>3. Len(Base) \in Nat
        BY <4>2, LenProperties DEF Path
      <4> QED
        BY <1>2, <4>2, <4>3
    <3> QED
      BY <3>1, <3>2
  <2>3. \A i \in DOMAIN rs : rs[i] = r
    BY <1>1, <1>3 DEF r
  <2> QED
    BY <1>2, <2>2, <2>3 DEF Within, rs
<1>4. CASE Len(rs) # 1
  <2>1. /\ S = {n \in 1 .. Len(r) :
                  \A i \in DOMAIN rs : n <= Len(rs[i]) /\ SubSeq(rs[i], 1, n) = SubSeq(r, 1, n)}
        /\ Base = SubSeq(r, 1, k)
    BY <1>4 DEF Base, CommonAncestor, Shared, rs, r
  <2> HIDE DEF S
  <2>2. S \subseteq 1 .. Len(r) /\ IsFiniteSet(S) /\ k \in Nat /\ k <= Len(r)
    <3>1. IsFiniteSet(1 .. Len(r)) /\ Cardinality(1 .. Len(r)) = Len(r)
      BY <1>2, FS_Interval
    <3>2. S \in SUBSET (1 .. Len(r))
      BY <2>1
    <3> QED
      BY <3>1, <3>2, FS_Subset, FS_CardinalityType
  <2> HIDE DEF k
  <2>3. \A n \in S, m \in 1 .. Len(r) : m < n => m \in S
    <3> SUFFICES ASSUME NEW n \in S, NEW m \in 1 .. Len(r), m < n, NEW i \in DOMAIN rs
                 PROVE  m <= Len(rs[i]) /\ SubSeq(rs[i], 1, m) = SubSeq(r, 1, m)
      BY <2>1
    <3>1. n \in 1 .. Len(r) /\ n <= Len(rs[i]) /\ SubSeq(rs[i], 1, n) = SubSeq(r, 1, n)
      BY <2>1
    <3>2. m \in 0 .. Len(rs[i]) /\ m \in 0 .. Len(r) /\ n \in 0 .. Len(rs[i]) /\ n \in 0 .. Len(r)
      BY <1>1, <1>2, <3>1
    <3>3. \A j \in 1 .. m : j \in 1 .. n
      BY <3>1, <3>2
    <3>4. rs[i] \in Path
      BY <1>1
    <3>5. \A j \in 1 .. n : rs[i][j] = r[j]
      BY <1>2, <3>1, <3>2, <3>4, FirstNames
    <3>6. /\ SubSeq(rs[i], 1, m) \in Path /\ Len(SubSeq(rs[i], 1, m)) = m
          /\ \A j \in 1 .. m : SubSeq(rs[i], 1, m)[j] = rs[i][j]
          /\ SubSeq(r, 1, m) \in Path /\ Len(SubSeq(r, 1, m)) = m
          /\ \A j \in 1 .. m : SubSeq(r, 1, m)[j] = r[j]
      BY <1>2, <3>2, <3>4, FirstNames
    <3>7. SubSeq(rs[i], 1, m) = SubSeq(r, 1, m)
      BY <3>3, <3>5, <3>6, SeqEqual DEF Path
    <3> QED
      BY <3>2, <3>7
  <2>4. k = 0 \/ k \in S
    <3> SUFFICES ASSUME k # 0, k \notin S PROVE FALSE
      OBVIOUS
    <3>1. k \in 1 .. Len(r) /\ k - 1 \in Int
      BY <1>2, <2>2
    <3>2. \A n \in S : n \in 1 .. k - 1
      BY <2>2, <2>3, <3>1
    <3>3. IsFiniteSet(1 .. k - 1) /\ Cardinality(1 .. k - 1) = k - 1
      BY <3>1, FS_Interval
    <3>4. S \in SUBSET (1 .. k - 1)
      BY <3>2
    <3>5. k <= k - 1
      BY <3>3, <3>4, FS_Subset DEF k
    <3> QED
      BY <3>1, <3>5
  <2>5. /\ Base \in Path /\ Len(Base) = k /\ \A j \in 1 .. k : Base[j] = r[j]
    BY <1>2, <2>1, <2>2, FirstNames
  <2>6. ASSUME NEW i \in DOMAIN rs PROVE rs[i] \in Within
    <3>1. CASE k = 0
      BY <1>1, <2>5, <3>1 DEF Within
    <3>2. CASE k \in S
      <4>1. k <= Len(rs[i]) /\ SubSeq(rs[i], 1, k) = SubSeq(r, 1, k)
        BY <2>1, <3>2
      <4>2. k \in 0 .. Len(rs[i]) /\ k \in 0 .. Len(r) /\ rs[i] \in Path
        BY <1>1, <2>2, <4>1
      <4>3. \A j \in 1 .. k : SubSeq(rs[i], 1, k)[j] = rs[i][j] /\ SubSeq(r, 1, k)[j] = r[j]
        BY <1>2, <4>2, FirstNames
      <4> QED
        BY <2>5, <4>1, <4>2, <4>3 DEF Within
    <3> QED
      BY <2>4, <3>1, <3>2
  <2> QED
    BY <2>5, <2>6 DEF rs
<1> QED
  BY <1>3, <1>4

-----------------------------------------------------------------------------
(* Directories *)

\* Each name of a directory is listed once, and only names are.
LEMMA NthIs ==
  ASSUME NEW S \in SUBSET Nat, IsFiniteSet(S)
  PROVE  /\ Cardinality(S) \in Nat
         /\ \A i \in 1 .. Cardinality(S) : Nth(S, i) \in S
         /\ \A n \in S : \E i \in 1 .. Cardinality(S) : Nth(S, i) = n
<1> DEFINE N == Cardinality(S)
           Upto(n) == {m \in S : m <= n}
           f == [n \in S |-> Cardinality(Upto(n))]
<1>1. N \in Nat
  BY FS_CardinalityType
<1>2. \A n \in S : /\ IsFiniteSet(Upto(n)) /\ Cardinality(Upto(n)) \in 1 .. N
                   /\ n \in Upto(n)
  <2> SUFFICES ASSUME NEW n \in S
               PROVE  IsFiniteSet(Upto(n)) /\ Cardinality(Upto(n)) \in 1 .. N /\ n \in Upto(n)
    OBVIOUS
  <2>1. Upto(n) \in SUBSET S /\ n \in Upto(n)
    OBVIOUS
  <2>2. IsFiniteSet(Upto(n)) /\ Cardinality(Upto(n)) <= N
    BY <2>1, FS_Subset
  <2>3. Cardinality(Upto(n)) \in Nat /\ Cardinality(Upto(n)) # 0
    BY <2>1, <2>2, FS_CardinalityType, FS_EmptySet
  <2> QED
    BY <1>1, <2>1, <2>2, <2>3
<1>3. ASSUME NEW n \in S, NEW m \in S, n < m, Cardinality(Upto(n)) = Cardinality(Upto(m))
      PROVE  FALSE
  <2>1. n \in Nat /\ m \in Nat /\ \A x \in S : x \in Nat
    OBVIOUS
  <2>2. \A x \in S : x <= n => x <= m
    BY <1>3, <2>1
  <2>3. ~(m <= n) /\ m <= m
    BY <1>3, <2>1
  <2>4. Upto(n) \in SUBSET Upto(m) /\ m \in Upto(m) /\ m \notin Upto(n)
    BY <2>2, <2>3
  <2>5. Upto(m) = Upto(n)
    BY <1>2, <1>3, <2>4, FS_Subset
  <2> QED
    BY <2>4, <2>5
<1>4. \A n, m \in S : Cardinality(Upto(n)) = Cardinality(Upto(m)) => n = m
  <2> SUFFICES ASSUME NEW n \in S, NEW m \in S, Cardinality(Upto(n)) = Cardinality(Upto(m)), n # m
               PROVE  FALSE
    OBVIOUS
  <2>1. n \in Nat /\ m \in Nat /\ n # m
    OBVIOUS
  <2>2. n < m \/ m < n
    BY <2>1
  <2> HIDE DEF Upto
  <2> QED
    BY <1>3, <2>2
<1>5. \A n \in S : Nth(S, Cardinality(Upto(n))) = n
  BY <1>4 DEF Nth
<1>6. \A n \in S : \E i \in 1 .. N : Nth(S, i) = n
  BY <1>2, <1>5
<1>7. ASSUME NEW i \in 1 .. N PROVE Nth(S, i) \in S
  <2>1. CASE \E n \in S : Cardinality(Upto(n)) = i
    BY <1>5, <2>1
  <2>2. CASE \A n \in S : Cardinality(Upto(n)) # i
    <3>1. f \in Injection(S, (1 .. N) \ {i})
      BY <1>2, <1>4, <2>2 DEF Injection, IsInjective
    <3>2. IsFiniteSet((1 .. N) \ {i}) /\ Cardinality((1 .. N) \ {i}) = N - 1
      <4>1. IsFiniteSet(1 .. N) /\ Cardinality(1 .. N) = N
        BY <1>1, FS_Interval
      <4> QED
        BY <4>1, FS_RemoveElement
    <3>3. N <= N - 1
      <4> HIDE DEF f
      <4> QED
        BY <3>1, <3>2, FS_Injection
    <3> QED
      BY <1>1, <3>3
  <2> QED
    BY <2>1, <2>2
<1> QED
  BY <1>1, <1>6, <1>7

-----------------------------------------------------------------------------
(***************************************************************************)
(* The walk.                                                               *)
(*                                                                         *)
(* What is asked for has an entry, or the agenda has it or something above *)
(* it (Covered): what the walk leaves out is not asked for, nor is what is *)
(* below.  An entry is its path's, and with links a file's data is carried *)
(* by one entry (FirstIs).                                                 *)
(***************************************************************************)
Dirs == {"dir", "shut"}

SourceLeft ==
  /\ DOMAIN src \subseteq DOMAIN SourceTree /\ \A p \in DOMAIN src : src[p] = SourceTree[p]
  /\ \A p \in DOMAIN SourceTree \ DOMAIN src : SourceTree[p].kind = "file"

Items == [op : {"root", "child", "list"}, path : Path]
On(q) == {q[i] : i \in DOMAIN q}

AgendaIs ==
  /\ agenda \in Seq(Items)
  /\ \A x \in On(agenda) :
       x.path \in Within /\ (x.op = "list" => x.path \in DOMAIN SourceTree /\ SourceTree[x.path].kind \in Dirs)

Manifest ==
  [rel : Path, from : DOMAIN SourceTree, ino : Nat, kind : {"dir", "file", "link"}, ref : Nat]

IsEntry(e) ==
  /\ e.from \in Within /\ e.rel = Rel(e.from) /\ e.ino = SourceTree[e.from].ino
  /\ SourceTree[e.from].kind \in IF e.kind = "dir" THEN Dirs ELSE {"file"}

IsLink(id) ==
  entries[id].kind = "link" =>
    /\ order.links /\ entries[id].ref \in 1 .. id - 1
    /\ entries[entries[id].ref].kind = "file" /\ entries[entries[id].ref].ino = entries[id].ino

EntriesAre ==
  /\ entries \in Seq(Manifest)
  /\ \A id \in DOMAIN entries : IsEntry(entries[id]) /\ IsLink(id)

FirstIs ==
  /\ \A i \in DOMAIN first :
       first[i] \in DOMAIN entries /\ entries[first[i]].kind = "file" /\ entries[first[i]].ino = i
  /\ order.links => \A id \in DOMAIN entries : entries[id].kind = "file" =>
       entries[id].ino \in DOMAIN first /\ first[entries[id].ino] = id

Ahead(x, p) == x.path \in Above(p) \/ (x.path = p /\ x.op # "list")

Covered(p) ==
  (\E id \in DOMAIN entries : entries[id].from = p) \/ \E x \in On(agenda) : Ahead(x, p)

Covering == ~stopped => \A p \in DOMAIN src : Wanted(p) => Covered(p)

WalkInv ==
  order \in Orders /\ SourceLeft /\ AgendaIs /\ EntriesAre /\ FirstIs /\ Covering

\* The trees, as they are assumed.
LEMMA SourceIs ==
  ASSUME NEW p \in DOMAIN SourceTree
  PROVE  /\ p \in Path /\ SourceTree[p].ino \in Nat
         /\ SourceTree[p].kind \in {"dir", "shut", "file", "socket"}
         /\ \A q \in Above(p) : q \in DOMAIN SourceTree /\ SourceTree[q].kind \in Dirs
  BY MirrorAssumption DEF MirrorAssumption, IsTree, Dirs, Path

LEMMA OldIs ==
  /\ <<>> \in DOMAIN OldTree /\ OldTree[<<>>].kind = "dir"
  /\ \A p \in DOMAIN OldTree :
       /\ p \in Path
       /\ \A q \in Above(p) : q \in DOMAIN OldTree /\ OldTree[q].kind = "dir"
  BY MirrorAssumption DEF MirrorAssumption, IsTree, Path

\* The base is one, and what is asked for is within it.
LEMMA WantedWithin ==
  ASSUME WalkInv, NEW p \in DOMAIN SourceTree, Wanted(p)
  PROVE  p \in Within
<1>1. PICK i \in DOMAIN order.roots : order.roots[i] \in Above(p) \cup {p}
  BY DEF Wanted
<1>2. Base \in Path /\ order.roots[i] \in Within
  BY BaseIs DEF WalkInv
<1> QED
  BY <1>1, <1>2, SourceIs, WithinBelow

\* The rest of the agenda, with what comes in place of its head.
LEMMA AgendaMoves ==
  ASSUME AgendaIs, agenda # <<>>, NEW new \in Seq(Items), agenda' = new \o Rest
  PROVE  /\ agenda' \in Seq(Items) /\ On(agenda)' = On(new) \cup On(Rest)
         /\ On(agenda) = {Next1} \cup On(Rest) /\ Next1 \in On(agenda)
<1>1. agenda \in Seq(Items)
  BY DEF AgendaIs
<1>2. /\ Rest \in Seq(Items) /\ Next1 \in Items /\ Len(Rest) = Len(agenda) - 1
      /\ \A i \in 1 .. Len(Rest) : Rest[i] = agenda[i + 1]
      /\ Next1 = agenda[1]
  BY <1>1, HeadTailProperties DEF Rest, Next1
<1> DEFINE r == Rest
<1>3. Len(agenda) \in Nat \ {0} /\ DOMAIN agenda = 1 .. Len(agenda) /\ DOMAIN r = 1 .. Len(r)
      /\ Len(r) \in Nat /\ DOMAIN new = 1 .. Len(new) /\ Len(new) \in Nat
  BY <1>1, <1>2, EmptySeq, LenProperties
<1>4. On(agenda) = {Next1} \cup On(r)
  <2>1. \A i \in DOMAIN agenda : i = 1 \/ (i - 1 \in DOMAIN r /\ r[i - 1] = agenda[i])
    BY <1>2, <1>3
  <2>2. \A i \in DOMAIN r : i + 1 \in DOMAIN agenda /\ r[i] = agenda[i + 1]
    BY <1>2, <1>3
  <2>3. On(agenda) \subseteq {Next1} \cup On(r)
    BY <1>2, <2>1 DEF On
  <2>4. {Next1} \cup On(r) \subseteq On(agenda)
    BY <1>2, <1>3, <2>2 DEF On
  <2> QED
    BY <2>3, <2>4
<1>5. /\ new \o r \in Seq(Items) /\ Len(new \o r) = Len(new) + Len(r)
      /\ \A i \in 1 .. Len(new) + Len(r) :
           (new \o r)[i] = IF i <= Len(new) THEN new[i] ELSE r[i - Len(new)]
  BY <1>2, ConcatProperties
<1> HIDE DEF r
<1>6. DOMAIN (new \o r) = 1 .. Len(new) + Len(r)
  BY <1>5, LenProperties
<1>7. On(new \o r) = On(new) \cup On(r)
  <2>1. On(new \o r) \subseteq On(new) \cup On(r)
    <3> SUFFICES ASSUME NEW i \in DOMAIN (new \o r) PROVE (new \o r)[i] \in On(new) \cup On(r)
      BY DEF On
    <3>1. CASE i <= Len(new)
      BY <1>3, <1>5, <1>6, <3>1 DEF On
    <3>2. CASE ~(i <= Len(new))
      <4>1. i - Len(new) \in DOMAIN r
        BY <1>3, <1>6, <3>2
      <4> QED
        BY <1>5, <1>6, <3>2, <4>1 DEF On
    <3> QED
      BY <3>1, <3>2
  <2>2. ASSUME NEW i \in DOMAIN new PROVE new[i] \in On(new \o r)
    <3>1. i \in DOMAIN (new \o r) /\ i <= Len(new)
      BY <1>3, <1>6
    <3>2. (new \o r)[i] = new[i]
      BY <1>5, <1>6, <3>1
    <3> QED
      BY <3>1, <3>2 DEF On
  <2>3. ASSUME NEW i \in DOMAIN r PROVE r[i] \in On(new \o r)
    <3>1. Len(new) + i \in DOMAIN (new \o r) /\ ~(Len(new) + i <= Len(new)) /\ Len(new) + i - Len(new) = i
      BY <1>3, <1>6
    <3>2. (new \o r)[Len(new) + i] = r[i]
      BY <1>5, <1>6, <3>1
    <3> QED
      BY <3>1, <3>2 DEF On
  <2> QED
    BY <2>1, <2>2, <2>3 DEF On
<1>8. On(agenda)' = On(new \o r)
  BY DEF On, r
<1> QED
  BY <1>4, <1>5, <1>7, <1>8 DEF r

\* The order of a run never changes.
LEMMA OrderKeeps ==
  ASSUME order' = order
  PROVE  /\ Base' = Base /\ Within' = Within
         /\ \A p : /\ Rel(p)' = Rel(p) /\ Excluded(p)' = Excluded(p)
                   /\ Wanted(p)' = Wanted(p) /\ Blocked(p)' = Blocked(p)
<1>1. Base' = Base
  BY DEF Base
<1>2. Within' = Within
  BY <1>1 DEF Within
<1>3. \A p : Rel(p)' = Rel(p)
  BY DEF Rel
<1>4. ASSUME NEW p
      PROVE  Excluded(p)' = Excluded(p) /\ Wanted(p)' = Wanted(p) /\ Blocked(p)' = Blocked(p)
  <2>1. Rel(p)' = Rel(p)
    BY <1>3
  <2>2. Excluded(p)' = Excluded(p)
    BY <2>1 DEF Excluded
  <2>3. Wanted(p)' = Wanted(p)
    BY <2>2 DEF Wanted
  <2>4. Blocked(p)' = Blocked(p)
    BY <2>1 DEF Blocked
  <2> QED
    BY <2>2, <2>3, <2>4
<1> QED
  BY <1>1, <1>2, <1>3, <1>4

\* What is left of the source.
LEMMA LeftIs ==
  ASSUME SourceLeft, NEW p \in DOMAIN SourceTree
  PROVE  /\ SourceTree[p].kind # "file" => p \in DOMAIN src
         /\ p \in DOMAIN src => src[p] = SourceTree[p]
         /\ \A q \in Above(p) : q \in DOMAIN src /\ src[q] = SourceTree[q] /\ SourceTree[q].kind \in Dirs
<1>1. ASSUME NEW q \in Above(p)
      PROVE  q \in DOMAIN src /\ src[q] = SourceTree[q] /\ SourceTree[q].kind \in Dirs
  <2>1. q \in DOMAIN SourceTree /\ SourceTree[q].kind \in Dirs
    BY SourceIs
  <2> QED
    BY <2>1 DEF SourceLeft, Dirs
<1> QED
  BY <1>1 DEF SourceLeft

\* At first the agenda is the roots.
LEMMA WalkInit ==
  ASSUME MirrorInit PROVE WalkInv
<1> DEFINE rs == order.roots
<1>1. /\ order \in Orders /\ src = SourceTree /\ entries = <<>> /\ first = [i \in {} |-> 0]
      /\ agenda = [i \in DOMAIN rs |-> [op |-> "root", path |-> rs[i]]]
  BY DEF MirrorInit
<1>2. rs \in Seq(Path) /\ DOMAIN rs = 1 .. Len(rs) /\ Len(rs) \in Nat /\ \A i \in DOMAIN rs : rs[i] \in Path
  <2>1. rs \in Seq(Path)
    BY <1>1, MirrorAssumption DEF MirrorAssumption, Path
  <2> QED
    BY <2>1, LenProperties
<1>3. \A i \in DOMAIN rs : rs[i] \in Within
  BY <1>1, BaseIs
<1>4. AgendaIs
  <2>1. agenda \in Seq(Items)
    <3>1. \A i \in 1 .. Len(rs) : [op |-> "root", path |-> rs[i]] \in Items
      BY <1>2 DEF Items
    <3> QED
      BY <1>1, <1>2, <3>1, IsASeq
  <2> QED
    BY <1>1, <1>3, <2>1 DEF AgendaIs, On
<1>5. \A p : Wanted(p) => Covered(p)
  <2> SUFFICES ASSUME NEW p, Wanted(p) PROVE \E x \in On(agenda) : Ahead(x, p)
    BY DEF Covered
  <2>1. PICK i \in DOMAIN rs : rs[i] \in Above(p) \cup {p}
    BY DEF Wanted
  <2>2. agenda[i] \in On(agenda) /\ agenda[i].path = rs[i] /\ agenda[i].op = "root"
    BY <1>1, <2>1 DEF On
  <2> QED
    BY <2>1, <2>2 DEF Ahead
<1>6. EntriesAre /\ FirstIs
  BY <1>1, EmptySeq DEF EntriesAre, FirstIs
<1> QED
  BY <1>1, <1>4, <1>5, <1>6 DEF WalkInv, SourceLeft, Covering

\* What the receiver does is nothing to the walk.
LEMMA WalkFrame ==
  ASSUME WalkInv, UNCHANGED <<src, order, walkVars>> PROVE WalkInv'
<1>1. /\ Base' = Base /\ Within' = Within
      /\ \A p : Rel(p)' = Rel(p) /\ Wanted(p)' = Wanted(p)
  BY OrderKeeps
<1>2. src' = src /\ order' = order /\ agenda' = agenda /\ first' = first /\ entries' = entries
      /\ stopped' = stopped
  BY DEF walkVars
<1>3. AgendaIs'
  BY <1>1, <1>2 DEF WalkInv, AgendaIs, On
<1>4. EntriesAre'
  BY <1>1, <1>2 DEF WalkInv, EntriesAre, IsEntry, IsLink
<1>5. Covering'
  BY <1>1, <1>2 DEF WalkInv, Covering, Covered, Ahead, On
<1> QED
  BY <1>2, <1>3, <1>4, <1>5 DEF WalkInv, SourceLeft, FirstIs

\* A file that vanishes is asked for no more.
LEMMA WalkVanish ==
  ASSUME WalkInv, NEW p \in DOMAIN src, Vanish(p) PROVE WalkInv'
<1>1. /\ src' = [q \in DOMAIN src \ {p} |-> src[q]] /\ src[p].kind = "file"
      /\ order' = order /\ agenda' = agenda /\ first' = first /\ entries' = entries
      /\ stopped' = stopped
  BY DEF Vanish, walkVars
<1>2. /\ Base' = Base /\ Within' = Within
      /\ \A q : Rel(q)' = Rel(q) /\ Wanted(q)' = Wanted(q)
  BY <1>1, OrderKeeps
<1>3. SourceLeft'
  BY <1>1 DEF WalkInv, SourceLeft
<1>4. AgendaIs'
  BY <1>1, <1>2 DEF WalkInv, AgendaIs, On
<1>5. EntriesAre'
  BY <1>1, <1>2 DEF WalkInv, EntriesAre, IsEntry, IsLink
<1>6. Covering'
  BY <1>1, <1>2 DEF WalkInv, Covering, Covered, Ahead, On
<1> QED
  BY <1>1, <1>3, <1>4, <1>5, <1>6 DEF WalkInv, FirstIs

\* A step that puts something in place of the head of the agenda.
LEMMA WalkGoes ==
  ASSUME WalkInv, agenda # <<>>, UNCHANGED <<src, order, first, entries, stopped>>,
         NEW new \in Seq(Items), agenda' = new \o Rest,
         \A x \in On(new) : x.path \in Within /\ x.op # "list",
         \A p \in DOMAIN src : Wanted(p) /\ Ahead(Next1, p) => \E x \in On(new) : Ahead(x, p)
  PROVE  WalkInv'
<1>1. /\ Base' = Base /\ Within' = Within
      /\ \A p : Rel(p)' = Rel(p) /\ Wanted(p)' = Wanted(p)
  BY OrderKeeps
<1>2. /\ agenda' \in Seq(Items) /\ On(agenda)' = On(new) \cup On(Rest)
      /\ On(agenda) = {Next1} \cup On(Rest)
  BY AgendaMoves DEF WalkInv
<1>3. AgendaIs'
  BY <1>1, <1>2 DEF WalkInv, AgendaIs
<1>4. EntriesAre'
  BY <1>1 DEF WalkInv, EntriesAre, IsEntry, IsLink
<1>5. Covering'
  <2> SUFFICES ASSUME ~stopped, NEW p \in DOMAIN src, Wanted(p) PROVE Covered(p)'
    BY <1>1 DEF Covering
  <2>1. Covered(p)
    BY DEF WalkInv, Covering
  <2>2. CASE \E id \in DOMAIN entries : entries[id].from = p
    BY <2>2 DEF Covered
  <2>3. CASE \E x \in On(agenda) : Ahead(x, p)
    <3>1. \E x \in On(agenda)' : Ahead(x, p)
      BY <1>2, <2>3
    <3> QED
      BY <3>1 DEF Covered, Ahead
  <2> QED
    BY <2>1, <2>2, <2>3 DEF Covered
<1> QED
  BY <1>3, <1>4, <1>5 DEF WalkInv, SourceLeft, FirstIs

\* What is passed by is not asked for, nor is anything below it.
LEMMA WalkSkip ==
  ASSUME WalkInv, SkipEntry PROVE WalkInv'
<1> DEFINE x == Next1
<1>1. /\ agenda # <<>> /\ (Excluded(x.path) \/ ~Sendable(x.path))
      /\ agenda' = Rest /\ UNCHANGED <<src, order, first, entries, stopped>>
  BY DEF SkipEntry, AtEntry
<1>2. x \in Items /\ x.path \in Within /\ Rest \in Seq(Items)
  <2>1. agenda \in Seq(Items)
    BY DEF WalkInv, AgendaIs
  <2>2. x \in Items /\ Rest \in Seq(Items) /\ x = agenda[1] /\ 1 \in DOMAIN agenda
    <3>1. Len(agenda) \in Nat \ {0} /\ DOMAIN agenda = 1 .. Len(agenda)
      BY <1>1, <2>1, EmptySeq, LenProperties
    <3> QED
      BY <1>1, <2>1, <3>1, HeadTailProperties DEF Next1, Rest
  <2> QED
    BY <2>2 DEF WalkInv, AgendaIs, On
<1>3. <<>> \in Seq(Items) /\ agenda' = <<>> \o Rest /\ On(<<>>) = {}
  BY <1>1, <1>2, EmptySeq, ConcatEmptySeq DEF On
<1>4. ASSUME NEW p \in DOMAIN src, Wanted(p), Ahead(x, p) PROVE FALSE
  <2>1. p \in DOMAIN SourceTree /\ ~Excluded(p) /\ SourceTree[p].kind # "socket"
        /\ src[p] = SourceTree[p]
    BY <1>4 DEF Wanted, WalkInv, SourceLeft
  <2>2. p \in Within /\ Base \in Path
    BY <1>4, <2>1, WantedWithin, BaseIs DEF WalkInv
  <2>3. CASE x.path = p
    BY <1>1, <2>1, <2>3 DEF Sendable
  <2>4. CASE x.path \in Above(p)
    <3>1. ~Excluded(x.path)
      BY <1>2, <2>1, <2>2, <2>4, ExcludedBelow
    <3>2. x.path \in DOMAIN src /\ src[x.path].kind # "socket"
      BY <2>1, <2>4, LeftIs DEF WalkInv, Dirs
    <3> QED
      BY <1>1, <3>1, <3>2 DEF Sendable
  <2> QED
    BY <1>4, <2>3, <2>4 DEF Ahead
<1> QED
  BY <1>1, <1>3, <1>4, WalkGoes

\* The walk may be cut short.
LEMMA WalkCut ==
  ASSUME WalkInv, WalkStops PROVE WalkInv'
<1>1. /\ agenda' = <<>> /\ stopped' = TRUE
      /\ UNCHANGED <<src, order, first, entries>>
  BY DEF WalkStops
<1>2. Base' = Base /\ Within' = Within /\ \A p : Rel(p)' = Rel(p)
  BY <1>1, OrderKeeps
<1>3. AgendaIs'
  BY <1>1, EmptySeq DEF AgendaIs, On
<1>4. EntriesAre'
  BY <1>1, <1>2 DEF WalkInv, EntriesAre, IsEntry, IsLink
<1> QED
  BY <1>1, <1>3, <1>4 DEF WalkInv, SourceLeft, FirstIs, Covering

\* The names in a directory are numbers, and finitely many.
LEMMA NamesAre ==
  ASSUME SourceLeft, NEW p \in DOMAIN src
  PROVE  NamesIn(p) \in SUBSET Nat /\ IsFiniteSet(NamesIn(p))
<1> DEFINE below == {q \in DOMAIN src : q # <<>> /\ Parent(q) = p}
           f == [q \in below |-> q[Len(q)]]
<1>1. NamesIn(p) = {q[Len(q)] : q \in below}
  BY DEF NamesIn
<1>2. IsFiniteSet(below)
  <2>1. IsFiniteSet(DOMAIN SourceTree)
    BY MirrorAssumption DEF MirrorAssumption, IsTree
  <2>2. below \in SUBSET DOMAIN SourceTree
    BY DEF SourceLeft
  <2> QED
    BY <2>1, <2>2, FS_Subset
<1>3. \A q \in below : q[Len(q)] \in Nat
  <2> SUFFICES ASSUME NEW q \in below PROVE q[Len(q)] \in Nat
    OBVIOUS
  <2>1. q \in Path /\ q # <<>>
    BY SourceIs DEF SourceLeft
  <2>2. Len(q) \in Nat \ {0} /\ \A i \in 1 .. Len(q) : q[i] \in Nat
    BY <2>1, EmptySeq, LenProperties DEF Path
  <2> QED
    BY <2>2
<1>4. f \in Surjection(below, NamesIn(p))
  BY <1>1 DEF Surjection
<1> HIDE DEF below, f
<1> QED
  BY <1>1, <1>2, <1>3, <1>4, FS_Surjection

\* A directory's children stand for all below it; one that cannot be read has
\* nothing below it that is asked for.
LEMMA WalkList ==
  ASSUME WalkInv, ListDir PROVE WalkInv'
<1> DEFINE x == Next1
           d == x.path
           names == NamesIn(d)
           new == IF src[d].kind = "shut" THEN <<>> ELSE Children(d)
<1>1. /\ agenda # <<>> /\ x.op = "list" /\ agenda' = new \o Rest
      /\ UNCHANGED <<src, order, first, entries, stopped>>
  BY DEF ListDir
<1>2. d \in Within /\ d \in DOMAIN SourceTree /\ SourceTree[d].kind \in Dirs
  <2>1. agenda \in Seq(Items)
    BY DEF WalkInv, AgendaIs
  <2>2. x = agenda[1] /\ 1 \in DOMAIN agenda
    <3>1. Len(agenda) \in Nat \ {0} /\ DOMAIN agenda = 1 .. Len(agenda)
      BY <1>1, <2>1, EmptySeq, LenProperties
    <3> QED
      BY <3>1 DEF Next1
  <2> QED
    BY <1>1, <2>2 DEF WalkInv, AgendaIs, On
<1>3. d \in DOMAIN src /\ src[d] = SourceTree[d] /\ d \in Path /\ Base \in Path
  BY <1>2, LeftIs, SourceIs, BaseIs DEF WalkInv, Dirs
<1>4. /\ Cardinality(names) \in Nat /\ names \in SUBSET Nat
      /\ \A i \in 1 .. Cardinality(names) : Nth(names, i) \in names
      /\ \A n \in names : \E i \in 1 .. Cardinality(names) : Nth(names, i) = n
  BY <1>3, NamesAre, NthIs DEF WalkInv
<1>5. ASSUME NEW n \in names
      PROVE  Append(d, n) \in Within
  <2>1. n \in Nat
    BY <1>4
  <2>2. Append(d, n) \in Path /\ d \in Above(Append(d, n))
    <3>1. /\ Append(d, n) \in Seq(Nat) /\ Len(Append(d, n)) = Len(d) + 1
          /\ \A i \in 1 .. Len(d) : Append(d, n)[i] = d[i]
      BY <1>3, <2>1, AppendProperties DEF Path
    <3>2. Len(d) \in Nat
      BY <1>3, LenProperties DEF Path
    <3>3. Append(d, n) \in Path /\ Len(d) < Len(Append(d, n))
      BY <3>1, <3>2 DEF Path
    <3>4. \A i \in 1 .. Len(d) : d[i] = Append(d, n)[i]
      BY <3>1
    <3> QED
      BY <1>3, <3>3, <3>4, AboveIs
  <2> QED
    BY <1>2, <1>3, <2>2, WithinBelow
<1>6. /\ Children(d) \in Seq(Items) /\ DOMAIN Children(d) = 1 .. Cardinality(names)
      /\ \A i \in 1 .. Cardinality(names) :
           Children(d)[i] = [op |-> "child", path |-> Append(d, Nth(names, i))]
  <2>1. Children(d) = [i \in 1 .. Cardinality(names) |-> [op |-> "child", path |-> Append(d, Nth(names, i))]]
    BY DEF Children
  <2>2. \A i \in 1 .. Cardinality(names) : [op |-> "child", path |-> Append(d, Nth(names, i))] \in Items
    BY <1>4, <1>5 DEF Items, Within
  <2> QED
    BY <1>4, <2>1, <2>2, IsASeq
<1>7. new \in Seq(Items) /\ \A y \in On(new) : y.path \in Within /\ y.op # "list"
  <2>1. CASE src[d].kind = "shut"
    <3>1. new = <<>> /\ <<>> \in Seq(Items) /\ On(<<>>) = {}
      BY <2>1, EmptySeq DEF On
    <3> QED
      BY <3>1
  <2>2. CASE src[d].kind # "shut"
    <3>1. ASSUME NEW y \in On(Children(d)) PROVE y.path \in Within /\ y.op # "list"
      <4>1. PICK i \in 1 .. Cardinality(names) : y = Children(d)[i]
        BY <1>6 DEF On
      <4>2. Nth(names, i) \in names
        BY <1>4
      <4>3. y = [op |-> "child", path |-> Append(d, Nth(names, i))]
        BY <1>6, <4>1
      <4>4. y.op = "child" /\ y.path = Append(d, Nth(names, i))
        BY <4>3
      <4> QED
        BY <1>5, <4>2, <4>4
    <3>2. new = Children(d)
      BY <2>2
    <3> HIDE DEF new
    <3> QED
      BY <1>6, <3>1, <3>2
  <2> QED
    BY <2>1, <2>2
<1>8. ASSUME NEW p \in DOMAIN src, Wanted(p), Ahead(x, p)
      PROVE  \E y \in On(new) : Ahead(y, p)
  <2>1. d \in Above(p) /\ src[d].kind # "shut" /\ p \in DOMAIN SourceTree /\ p \in Path
    BY <1>1, <1>3, <1>8, SourceIs DEF Ahead, Wanted, WalkInv, SourceLeft
  <2> DEFINE n == Len(d) + 1
             c == SubSeq(p, 1, n)
  <2>2. Len(d) \in Nat /\ Len(p) \in Nat /\ Len(d) < Len(p) /\ \A i \in 1 .. Len(d) : d[i] = p[i]
    BY <1>3, <2>1, AboveIs, LenProperties DEF Path
  <2>3. n \in 0 .. Len(p) /\ n # 0 /\ p[n] \in Nat
    <3>1. n \in 1 .. Len(p)
      BY <2>2
    <3> QED
      BY <2>1, <2>2, <3>1, LenProperties DEF Path
  <2>4. c \in Path /\ Len(c) = n /\ \A i \in 1 .. n : c[i] = p[i]
    <3> HIDE DEF n
    <3> QED
      BY <2>1, <2>3, FirstNames
  <2> HIDE DEF c
  <2>5. c \in Above(p) \cup {p}
    <3>1. CASE n < Len(p)
      BY <2>1, <2>4, <3>1, AboveIs
    <3>2. CASE n = Len(p)
      <4>1. c = p
        BY <2>1, <2>4, <3>2, SeqEqual DEF Path
      <4> QED
        BY <4>1
    <3> QED
      BY <2>2, <3>1, <3>2
  <2>6. c \in DOMAIN src
    BY <1>8, <2>1, <2>5, LeftIs DEF WalkInv
  <2>7. Append(d, p[n]) = c
    <3>1. /\ Append(d, p[n]) \in Seq(Nat) /\ Len(Append(d, p[n])) = n
          /\ \A i \in 1 .. Len(d) : Append(d, p[n])[i] = d[i]
          /\ Append(d, p[n])[n] = p[n]
      BY <1>3, <2>3, AppendProperties DEF Path
    <3>2. \A i \in 1 .. n : Append(d, p[n])[i] = c[i]
      <4> SUFFICES ASSUME NEW i \in 1 .. n PROVE Append(d, p[n])[i] = c[i]
        OBVIOUS
      <4>1. i = n \/ i \in 1 .. Len(d)
        BY <2>2
      <4>2. n \in 1 .. n
        BY <2>2
      <4> QED
        BY <2>2, <2>4, <3>1, <4>1, <4>2
    <3> QED
      BY <2>4, <3>1, <3>2, SeqEqual DEF Path
  <2>8. c # <<>> /\ Parent(c) = d /\ c[Len(c)] = p[n]
    <3>1. c # <<>>
      BY <2>3, <2>4, EmptySeq
    <3>2. n \in 1 .. n /\ n - 1 = Len(d)
      BY <2>2
    <3>3. Parent(c) \in Path /\ Len(Parent(c)) = n - 1 /\ \A i \in 1 .. n - 1 : Parent(c)[i] = c[i]
      <4>1. n - 1 \in 0 .. Len(c)
        BY <2>2, <2>4
      <4> QED
        BY <2>4, <4>1, FirstNames DEF Parent
    <3>4. \A i \in 1 .. Len(d) : i \in 1 .. n
      BY <2>2
    <3>5. Parent(c) = d
      <4>1. \A i \in 1 .. Len(d) : Parent(c)[i] = d[i]
        BY <2>2, <2>4, <3>2, <3>3, <3>4
      <4>2. Len(Parent(c)) = Len(d)
        BY <3>2, <3>3
      <4> HIDE DEF n, c
      <4> QED
        BY <1>3, <3>3, <4>1, <4>2, SeqEqual DEF Path
    <3> QED
      BY <2>4, <3>1, <3>2, <3>5
  <2>9. p[n] \in names
    BY <2>6, <2>8 DEF NamesIn
  <2>10. PICK i \in 1 .. Cardinality(names) : Nth(names, i) = p[n]
    BY <1>4, <2>9
  <2>11. new = Children(d) /\ Children(d)[i] = [op |-> "child", path |-> c] /\ i \in DOMAIN Children(d)
    BY <1>6, <2>1, <2>7, <2>10
  <2>12. [op |-> "child", path |-> c] \in On(new)
    BY <2>11 DEF On
  <2> QED
    BY <2>5, <2>12 DEF Ahead
<1> HIDE DEF new
<1> QED
  BY <1>1, <1>7, <1>8, WalkGoes

\* A new entry.
LEMMA EmitIs ==
  ASSUME WalkInv, Emit,
         NEW n, n = Len(entries) + 1, NEW e, e = EntryFor(Next1.path)
  PROVE  /\ n \in Nat /\ DOMAIN entries = 1 .. n - 1 /\ DOMAIN entries' = 1 .. n
         /\ e \in Manifest /\ e.from = Next1.path /\ e.from \in DOMAIN src /\ IsEntry(e)
         /\ e.kind = "link" => order.links /\ e.ref \in 1 .. n - 1
                                 /\ entries[e.ref].kind = "file" /\ entries[e.ref].ino = e.ino
         /\ e.kind = "file" /\ order.links => e.ino \notin DOMAIN first
         /\ entries' \in Seq(Manifest) /\ entries'[n] = e
         /\ \A id \in 1 .. n - 1 : entries'[id] = entries[id]
         /\ first' = IF e.kind # "file" THEN first
                     ELSE [i \in DOMAIN first \cup {e.ino} |-> IF i = e.ino THEN n ELSE first[i]]
         /\ agenda # <<>> /\ Next1.op # "list"
         /\ agenda' = (IF e.kind = "dir" THEN <<[op |-> "list", path |-> e.from]>> ELSE <<>>) \o Rest
<1> DEFINE p == Next1.path
<1>1. entries \in Seq(Manifest) /\ agenda \in Seq(Items) /\ agenda # <<>>
  BY DEF WalkInv, EntriesAre, AgendaIs, Emit, AtEntry
<1>2. Len(entries) \in Nat /\ DOMAIN entries = 1 .. Len(entries)
  BY <1>1, LenProperties
<1>3. n \in Nat /\ n - 1 = Len(entries) /\ DOMAIN entries = 1 .. n - 1
  BY <1>2
<1>4. p \in Within /\ p \in Path /\ Rest \in Seq(Items)
  <2>1. Next1 = agenda[1] /\ 1 \in DOMAIN agenda /\ Rest \in Seq(Items)
    <3>1. Len(agenda) \in Nat \ {0} /\ DOMAIN agenda = 1 .. Len(agenda)
      BY <1>1, EmptySeq, LenProperties
    <3> QED
      BY <1>1, <3>1, HeadTailProperties DEF Next1, Rest
  <2> QED
    BY <2>1 DEF WalkInv, AgendaIs, On, Within
<1>5. /\ p \in DOMAIN src /\ src[p] = SourceTree[p] /\ p \in DOMAIN SourceTree
      /\ src[p].kind \in {"dir", "shut", "file"} /\ src[p].ino \in Nat
  <2>1. p \in DOMAIN src /\ src[p].kind # "socket"
    BY DEF Emit, Sendable
  <2>2. p \in DOMAIN SourceTree /\ src[p] = SourceTree[p]
    BY <2>1 DEF WalkInv, SourceLeft
  <2> QED
    BY <2>1, <2>2, SourceIs
<1>6. /\ e.rel = Rel(p) /\ e.from = p /\ e.ino = src[p].ino
      /\ e.kind = (IF src[p].kind # "file" THEN "dir" ELSE IF Ref(p) # 0 THEN "link" ELSE "file")
      /\ e.ref = (IF src[p].kind = "file" THEN Ref(p) ELSE 0)
      /\ e = [rel |-> e.rel, from |-> e.from, ino |-> e.ino, kind |-> e.kind, ref |-> e.ref]
  BY DEF EntryFor
<1>7. /\ Ref(p) \in Nat
      /\ Ref(p) # 0 => order.links /\ Ref(p) \in DOMAIN entries
                        /\ entries[Ref(p)].kind = "file" /\ entries[Ref(p)].ino = src[p].ino
      /\ Ref(p) = 0 /\ order.links => src[p].ino \notin DOMAIN first
  BY <1>2 DEF Ref, WalkInv, FirstIs
<1>8. Rel(p) \in Path
  BY <1>4, RelIs, BaseIs DEF WalkInv
<1>9. e \in Manifest
  BY <1>5, <1>6, <1>7, <1>8 DEF Manifest
<1>10. IsEntry(e)
  BY <1>4, <1>5, <1>6 DEF IsEntry, Dirs
<1>11. e.kind = "link" => order.links /\ e.ref \in 1 .. n - 1
                            /\ entries[e.ref].kind = "file" /\ entries[e.ref].ino = e.ino
  BY <1>3, <1>6, <1>7
<1>12. e.kind = "file" /\ order.links => e.ino \notin DOMAIN first
  BY <1>6, <1>7
<1>13. entries' = Append(entries, e)
  BY DEF Emit
<1>14. /\ entries' \in Seq(Manifest) /\ Len(entries') = n /\ entries'[n] = e
       /\ \A id \in 1 .. n - 1 : entries'[id] = entries[id]
  BY <1>1, <1>3, <1>9, <1>13, AppendProperties
<1>15. DOMAIN entries' = 1 .. n
  BY <1>14, LenProperties
<1>16. first' = IF e.kind # "file" THEN first
                ELSE [i \in DOMAIN first \cup {e.ino} |-> IF i = e.ino THEN n ELSE first[i]]
  BY DEF Emit
<1>17. agenda' = (IF e.kind = "dir" THEN <<[op |-> "list", path |-> e.from]>> ELSE <<>>) \o Rest
  <2>1. agenda' = IF e.kind = "dir" THEN <<[op |-> "list", path |-> p]>> \o Rest ELSE Rest
    BY DEF Emit
  <2>2. <<>> \o Rest = Rest
    BY <1>4, ConcatEmptySeq
  <2> QED
    BY <1>6, <2>1, <2>2
<1>18. Next1.op # "list"
  BY DEF Emit, AtEntry
<1>19. e.from = Next1.path /\ e.from \in DOMAIN src
  BY <1>5, <1>6
<1> HIDE DEF p
<1> QED
  BY <1>1, <1>3, <1>9, <1>10, <1>11, <1>12, <1>14, <1>15, <1>16, <1>17, <1>18, <1>19

\* A directory that has its entry is listed; a file has nothing below it.
LEMMA WalkEmit ==
  ASSUME WalkInv, Emit PROVE WalkInv'
<1> DEFINE n == Len(entries) + 1
           e == EntryFor(Next1.path)
           new == IF e.kind = "dir" THEN <<[op |-> "list", path |-> e.from]>> ELSE <<>>
<1>1. /\ n \in Nat /\ DOMAIN entries = 1 .. n - 1 /\ DOMAIN entries' = 1 .. n
      /\ e \in Manifest /\ e.from = Next1.path /\ e.from \in DOMAIN src /\ IsEntry(e)
      /\ e.kind = "link" => order.links /\ e.ref \in 1 .. n - 1
                              /\ entries[e.ref].kind = "file" /\ entries[e.ref].ino = e.ino
      /\ e.kind = "file" /\ order.links => e.ino \notin DOMAIN first
      /\ entries' \in Seq(Manifest) /\ entries'[n] = e
      /\ \A id \in 1 .. n - 1 : entries'[id] = entries[id]
      /\ first' = IF e.kind # "file" THEN first
                  ELSE [i \in DOMAIN first \cup {e.ino} |-> IF i = e.ino THEN n ELSE first[i]]
      /\ agenda # <<>> /\ Next1.op # "list"
      /\ agenda' = new \o Rest
  BY EmitIs
<1>2. UNCHANGED <<src, order, stopped>>
  BY DEF Emit
<1>3. /\ Base' = Base /\ Within' = Within
      /\ \A q : Rel(q)' = Rel(q) /\ Wanted(q)' = Wanted(q)
  BY <1>2, OrderKeeps
<1>4. IsEntry(e) => /\ e.from \in Within /\ e.from \in Path /\ e.rel = Rel(e.from)
                    /\ e.kind = "dir" => SourceTree[e.from].kind \in Dirs
                    /\ e.kind # "dir" => SourceTree[e.from].kind = "file"
                    /\ e.ino = SourceTree[e.from].ino
  BY DEF IsEntry, Within
<1>5. e.from \in DOMAIN SourceTree /\ e.kind \in {"dir", "file", "link"} /\ e.ref \in Nat
  BY <1>1 DEF Manifest
<1> HIDE DEF e, n
<1>6. new \in Seq(Items) /\ On(new) = IF e.kind = "dir" THEN {[op |-> "list", path |-> e.from]} ELSE {}
  <2>1. CASE e.kind = "dir"
    <3> DEFINE it == [op |-> "list", path |-> e.from]
    <3>1. it \in Items
      BY <1>1, <1>4 DEF Items
    <3> HIDE DEF it
    <3>2. <<it>> \in Seq(Items) /\ DOMAIN <<it>> = {1} /\ <<it>>[1] = it
      BY <3>1
    <3>3. On(<<it>>) = {it}
      BY <3>2 DEF On
    <3> QED
      BY <2>1, <3>2, <3>3 DEF it
  <2>2. CASE e.kind # "dir"
    BY <2>2, EmptySeq DEF On
  <2> QED
    BY <2>1, <2>2
<1> HIDE DEF new
<1>7. /\ agenda' \in Seq(Items) /\ On(agenda)' = On(new) \cup On(Rest)
      /\ On(agenda) = {Next1} \cup On(Rest)
  BY <1>1, <1>6, AgendaMoves DEF WalkInv
<1>8. AgendaIs'
  <2> SUFFICES ASSUME NEW y \in On(agenda)'
               PROVE  /\ y.path \in Within
                      /\ y.op = "list" => y.path \in DOMAIN SourceTree /\ SourceTree[y.path].kind \in Dirs
    BY <1>3, <1>7 DEF AgendaIs
  <2>1. CASE y \in On(new)
    BY <1>1, <1>4, <1>5, <1>6, <2>1
  <2>2. CASE y \in On(Rest)
    BY <1>7, <2>2 DEF WalkInv, AgendaIs
  <2> QED
    BY <1>7, <2>1, <2>2
<1>9. EntriesAre'
  <2> SUFFICES ASSUME NEW id \in 1 .. n PROVE IsEntry(entries[id])' /\ IsLink(id)'
    BY <1>1 DEF EntriesAre
  <2>1. CASE id = n
    <3>1. IsEntry(entries[id])'
      BY <1>1, <1>3, <2>1 DEF IsEntry
    <3>2. IsLink(id)'
      BY <1>1, <1>2, <2>1 DEF IsLink
    <3> QED
      BY <3>1, <3>2
  <2>2. CASE id # n
    <3>1. id \in 1 .. n - 1
      BY <1>1, <2>2
    <3>2. IsEntry(entries[id]) /\ IsLink(id) /\ entries'[id] = entries[id]
      BY <1>1, <3>1 DEF WalkInv, EntriesAre
    <3>3. \A k \in 1 .. id - 1 : k \in 1 .. n - 1
      BY <1>1, <3>1
    <3>4. IsLink(id)'
      BY <1>1, <1>2, <3>2, <3>3 DEF IsLink
    <3> QED
      BY <1>3, <3>2, <3>4 DEF IsEntry
  <2> QED
    BY <2>1, <2>2
<1>10. FirstIs'
  <2>1. /\ \A i \in DOMAIN first :
             first[i] \in 1 .. n - 1 /\ entries[first[i]].kind = "file" /\ entries[first[i]].ino = i
        /\ order.links => \A id \in 1 .. n - 1 : entries[id].kind = "file" =>
             entries[id].ino \in DOMAIN first /\ first[entries[id].ino] = id
    BY <1>1 DEF WalkInv, FirstIs
  <2>2. \A id \in 1 .. n - 1 : id \in 1 .. n
    BY <1>1
  <2>3. \A id \in 1 .. n : id = n \/ id \in 1 .. n - 1
    BY <1>1
  <2>4. n \in 1 .. n
    <3>1. 0 \notin 1 .. n - 1 /\ n # 0
      BY <1>1 DEF n
    <3> QED
      BY <1>1, <3>1
  <2>5. CASE e.kind # "file"
    <3>1. first' = first
      BY <1>1, <2>5
    <3>2. ASSUME NEW i \in DOMAIN first
          PROVE  first[i] \in 1 .. n /\ entries'[first[i]].kind = "file" /\ entries'[first[i]].ino = i
      BY <1>1, <2>1, <2>2
    <3>3. ASSUME order.links, NEW id \in 1 .. n, entries'[id].kind = "file"
          PROVE  entries'[id].ino \in DOMAIN first /\ first[entries'[id].ino] = id
      BY <1>1, <2>1, <2>3, <2>5, <3>3
    <3> QED
      BY <1>1, <1>2, <3>1, <3>2, <3>3 DEF FirstIs
  <2>6. CASE e.kind = "file"
    <3>1. first' = [i \in DOMAIN first \cup {e.ino} |-> IF i = e.ino THEN n ELSE first[i]]
      BY <1>1, <2>6
    <3>2. ASSUME NEW i \in DOMAIN first'
          PROVE  first'[i] \in 1 .. n /\ entries'[first'[i]].kind = "file" /\ entries'[first'[i]].ino = i
      <4>1. CASE i = e.ino
        BY <1>1, <2>4, <2>6, <3>1, <4>1
      <4>2. CASE i # e.ino
        <5>1. i \in DOMAIN first /\ first'[i] = first[i]
          BY <3>1, <4>2
        <5> QED
          BY <1>1, <2>1, <2>2, <5>1
      <4> QED
        BY <4>1, <4>2
    <3>3. ASSUME order.links, NEW id \in 1 .. n, entries'[id].kind = "file"
          PROVE  entries'[id].ino \in DOMAIN first' /\ first'[entries'[id].ino] = id
      <4>1. CASE id = n
        BY <1>1, <3>1, <4>1
      <4>2. CASE id \in 1 .. n - 1
        <5>1. entries[id].ino \in DOMAIN first /\ first[entries[id].ino] = id
          BY <1>1, <2>1, <3>3, <4>2
        <5>2. entries[id].ino # e.ino
          BY <1>1, <2>6, <3>3, <5>1
        <5> QED
          BY <1>1, <3>1, <4>2, <5>1, <5>2
      <4> QED
        BY <2>3, <4>1, <4>2
    <3> QED
      BY <1>1, <1>2, <3>2, <3>3 DEF FirstIs
  <2> QED
    BY <2>5, <2>6
<1>11. Covering'
  <2> SUFFICES ASSUME ~stopped, NEW p \in DOMAIN src, Wanted(p) PROVE Covered(p)'
    BY <1>2, <1>3 DEF Covering
  <2>1. Covered(p) /\ p \in DOMAIN SourceTree
    BY DEF WalkInv, Covering, SourceLeft
  <2>2. \A id \in 1 .. n - 1 : id \in 1 .. n
    BY <1>1
  <2>3. CASE \E id \in DOMAIN entries : entries[id].from = p
    BY <1>1, <2>2, <2>3 DEF Covered
  <2>4. CASE \E x \in On(Rest) : Ahead(x, p)
    <3>1. \E x \in On(agenda)' : Ahead(x, p)
      BY <1>7, <2>4
    <3> QED
      BY <3>1 DEF Covered, Ahead
  <2>5. CASE Ahead(Next1, p)
    <3>1. CASE e.from = p
      <4>1. n \in 1 .. n
        <5>1. n # 0
          BY <1>1 DEF n
        <5> QED
          BY <1>1, <5>1
      <4> QED
        BY <1>1, <3>1, <4>1 DEF Covered
    <3>2. CASE e.from \in Above(p)
      <4>1. SourceTree[e.from].kind \in Dirs
        BY <2>1, <3>2, SourceIs
      <4>2. e.kind = "dir"
        BY <1>1, <1>4, <4>1 DEF Dirs
      <4>3. [op |-> "list", path |-> e.from] \in On(agenda)'
        BY <1>6, <1>7, <4>2
      <4>4. Ahead([op |-> "list", path |-> e.from], p)
        BY <3>2 DEF Ahead
      <4> QED
        BY <4>3, <4>4 DEF Covered, Ahead
    <3> QED
      BY <1>1, <2>5, <3>1, <3>2 DEF Ahead
  <2> QED
    BY <1>7, <2>1, <2>3, <2>4, <2>5 DEF Covered
<1>12. SourceLeft' /\ order' \in Orders
  BY <1>2 DEF WalkInv, SourceLeft
<1> QED
  BY <1>8, <1>9, <1>10, <1>11, <1>12 DEF WalkInv

\* The walk keeps its invariant.
LEMMA WalkStep ==
  ASSUME WalkInv, [MirrorNext]_mirrorVars PROVE WalkInv'
<1>1. CASE Walking
  BY <1>1, WalkSkip, WalkEmit, WalkList, WalkCut DEF Walking
<1>2. CASE \E p \in DOMAIN src : Vanish(p)
  BY <1>2, WalkVanish
<1>3. CASE UNCHANGED <<src, order, walkVars>>
  BY <1>3, WalkFrame
<1>4. CASE Taking
  BY <1>3, <1>4 DEF Taking, TakeDuplicate, TakeDir, TakeFile, TakeLink, TakeEnd
<1>5. CASE Disconnects \/ PostPass \/ Unwound \/ PassOver
  BY <1>3, <1>5 DEF Disconnects, PostPass, Unwound, PassOver
<1>6. CASE \E id \in DOMAIN entries : Land(id) \/ Link(id)
  BY <1>3, <1>6 DEF Land, Link
<1>7. CASE UNCHANGED mirrorVars
  BY <1>3, <1>7 DEF mirrorVars, walkVars
<1> QED
  BY <1>1, <1>2, <1>4, <1>5, <1>6, <1>7 DEF MirrorNext

-----------------------------------------------------------------------------
(* Entries and their paths *)

\* An entry, as the walk made it.
LEMMA EntryIs ==
  ASSUME WalkInv, NEW id \in DOMAIN entries
  PROVE  LET e == entries[id] IN
         /\ id \in Nat \ {0} /\ \A k \in 1 .. id : k \in DOMAIN entries
         /\ e.rel \in Path /\ e.rel = Rel(e.from) /\ e.from \in Within /\ e.from \in DOMAIN SourceTree
         /\ e.kind \in {"dir", "file", "link"} /\ e.ino = SourceTree[e.from].ino
         /\ e.kind = "dir" => SourceTree[e.from].kind \in Dirs
         /\ Data(id) => SourceTree[e.from].kind = "file"
         /\ e.kind = "link" => /\ order.links /\ e.ref \in 1 .. id - 1 /\ e.ref \in DOMAIN entries
                               /\ entries[e.ref].kind = "file" /\ entries[e.ref].ino = e.ino
<1> DEFINE e == entries[id]
<1>1. entries \in Seq(Manifest) /\ IsEntry(e) /\ IsLink(id)
  BY DEF WalkInv, EntriesAre
<1>2. DOMAIN entries = 1 .. Len(entries) /\ Len(entries) \in Nat /\ e \in Manifest
  BY <1>1, LenProperties
<1>3. id \in Nat \ {0} /\ \A k \in 1 .. id : k \in DOMAIN entries
  BY <1>2
<1>4. e.kind = "link" => /\ order.links /\ e.ref \in 1 .. id - 1 /\ e.ref \in DOMAIN entries
                         /\ entries[e.ref].kind = "file" /\ entries[e.ref].ino = e.ino
  <2>1. \A k \in 1 .. id - 1 : k \in 1 .. id
    BY <1>3
  <2> QED
    BY <1>1, <1>3, <2>1 DEF IsLink
<1>5. e.rel \in Path /\ e.from \in DOMAIN SourceTree /\ e.kind \in {"dir", "file", "link"}
  BY <1>2 DEF Manifest
<1>6. /\ e.rel = Rel(e.from) /\ e.from \in Within /\ e.ino = SourceTree[e.from].ino
      /\ e.kind = "dir" => SourceTree[e.from].kind \in Dirs
      /\ Data(id) => SourceTree[e.from].kind = "file"
  BY <1>1, <1>5 DEF IsEntry, Data
<1> QED
  BY <1>3, <1>4, <1>5, <1>6

\* Entries of one path are of one source file, and what is above an entry is a
\* directory.
LEMMA EntriesRelate ==
  ASSUME WalkInv, NEW i \in DOMAIN entries, NEW j \in DOMAIN entries
  PROVE  /\ entries[i].rel = entries[j].rel =>
              entries[i].from = entries[j].from /\ entries[i].ino = entries[j].ino /\ Data(i) = Data(j)
         /\ entries[i].rel \in Above(entries[j].rel) => ~Data(i)
<1>1. Base \in Path
  BY BaseIs DEF WalkInv
<1>2. /\ entries[i].rel = Rel(entries[i].from) /\ entries[i].from \in Within
      /\ entries[i].ino = SourceTree[entries[i].from].ino
      /\ entries[i].from \in DOMAIN SourceTree
      /\ IF Data(i) THEN SourceTree[entries[i].from].kind = "file" ELSE SourceTree[entries[i].from].kind \in Dirs
  BY EntryIs DEF Data
<1>3. /\ entries[j].rel = Rel(entries[j].from) /\ entries[j].from \in Within
      /\ entries[j].ino = SourceTree[entries[j].from].ino
      /\ entries[j].from \in DOMAIN SourceTree
      /\ IF Data(j) THEN SourceTree[entries[j].from].kind = "file" ELSE SourceTree[entries[j].from].kind \in Dirs
  BY EntryIs DEF Data
<1>4. ASSUME entries[i].rel = entries[j].rel
      PROVE  entries[i].from = entries[j].from
  BY <1>1, <1>2, <1>3, <1>4, RelKeeps
<1>5. ASSUME entries[i].rel = entries[j].rel
      PROVE  entries[i].ino = entries[j].ino /\ Data(i) = Data(j)
  BY <1>2, <1>3, <1>4, <1>5 DEF Data, Dirs
<1>6. ASSUME entries[i].rel \in Above(entries[j].rel)
      PROVE  ~Data(i)
  <2>1. entries[i].from \in Above(entries[j].from)
    BY <1>1, <1>2, <1>3, <1>6, RelKeeps
  <2>2. SourceTree[entries[i].from].kind \in Dirs
    BY <1>3, <2>1, SourceIs
  <2> QED
    BY <1>2, <2>2 DEF Dirs
<1> QED
  BY <1>4, <1>5, <1>6

\* Of one inode only one entry carries the data.
LEMMA SoleCarrier ==
  ASSUME WalkInv, order.links, NEW i \in DOMAIN entries, NEW j \in DOMAIN entries,
         entries[i].kind = "file"
  PROVE  /\ entries[j].kind = "file" /\ entries[j].ino = entries[i].ino => i = j
         /\ j < i => entries[j].rel # entries[i].rel
<1>1. \A k \in DOMAIN entries : entries[k].kind = "file" =>
        entries[k].ino \in DOMAIN first /\ first[entries[k].ino] = k
  BY DEF WalkInv, FirstIs
<1>2. entries[j].kind = "file" /\ entries[j].ino = entries[i].ino => i = j
  BY <1>1
<1>3. ASSUME j < i, entries[j].rel = entries[i].rel PROVE FALSE
  <2>1. entries[j].ino = entries[i].ino /\ Data(j)
    BY <1>3, EntriesRelate DEF Data
  <2>2. i \in Nat /\ j \in Nat
    BY EntryIs
  <2>3. CASE entries[j].kind = "file"
    BY <1>2, <1>3, <2>1, <2>2, <2>3
  <2>4. CASE entries[j].kind = "link"
    <3>1. /\ entries[j].ref \in 1 .. j - 1 /\ entries[j].ref \in DOMAIN entries
          /\ entries[entries[j].ref].kind = "file" /\ entries[entries[j].ref].ino = entries[j].ino
      BY <2>4, EntryIs
    <3>2. entries[j].ref = i
      BY <1>1, <2>1, <3>1
    <3> QED
      BY <1>3, <2>2, <3>1, <3>2
  <2> QED
    BY <2>1, <2>3, <2>4, EntryIs DEF Data
<1> QED
  BY <1>2, <1>3

\* The directory all paths are relative to is above all others.
LEMMA RootAbove ==
  ASSUME NEW p \in Path PROVE p = <<>> \/ <<>> \in Above(p)
<1>1. Len(p) \in Nat
  BY LenProperties DEF Path
<1>2. CASE p # <<>>
  <2>1. Len(p) # 0
    BY <1>2, EmptySeq DEF Path
  <2>2. <<>> \in Path /\ Len(<<>>) = 0 /\ Len(<<>>) < Len(p)
    BY <1>1, <2>1, EmptySeq DEF Path
  <2>3. \A i \in 1 .. Len(<<>>) : <<>>[i] = p[i]
    BY <2>2
  <2> QED
    BY <2>2, <2>3, AboveIs
<1> QED
  BY <1>2

-----------------------------------------------------------------------------
(***************************************************************************)
(* The receiver takes the entries in their order, and the first of a path  *)
(* owns it (Owner): all others are skipped.  When a run whose connection   *)
(* was not lost comes to its last pass, nothing is open but links.         *)
(***************************************************************************)
Hows == {"open", "ok", "same", "skip", "fail", "planned"}

Done(id) == id \in DOMAIN entries /\ id <= taken

Owner(id) == Done(id) /\ \A k \in 1 .. id - 1 : entries[k].rel # entries[id].rel

TakenIs ==
  /\ taken \in 0 .. Len(entries) + 1 /\ (taken = Len(entries) + 1 => agenda = <<>>)
  /\ mentioned = {entries[id].rel : id \in {id \in DOMAIN entries : Done(id)}}
  /\ \A id \in DOMAIN entries : Done(id) =>
       \E k \in 1 .. id : Owner(k) /\ entries[k].rel = entries[id].rel

Resolved(id) ==
  CASE entries[id].kind = "dir" -> {"ok", "fail"}
    [] entries[id].kind = "file" -> {"open", "ok", "same", "fail", "planned"}
    [] OTHER -> IF stage = "open" THEN {"open"} ELSE {"open", "ok", "fail"}

Fate(id) == IF Owner(id) THEN Resolved(id) ELSE IF Done(id) THEN {"skip"} ELSE {"open"}

OutcomeIs ==
  /\ outcome \in Seq(Hows) /\ DOMAIN outcome = DOMAIN entries
  /\ \A id \in DOMAIN entries : outcome[id] \in Fate(id)

StageIs ==
  /\ stage \in {"open", "post", "over"}
  /\ stage # "open" /\ ~broken =>
       ManifestDone /\ \A id \in DOMAIN entries : outcome[id] \notin {"open", "planned"} \/ Pending(id)
  /\ stage = "over" /\ ~broken => \A id \in DOMAIN entries : ~Pending(id)

ReceiverInv == TakenIs /\ OutcomeIs /\ StageIs

\* At first nothing is taken.
LEMMA ReceiverInit ==
  ASSUME MirrorInit PROVE ReceiverInv
<1>1. /\ entries = <<>> /\ taken = 0 /\ mentioned = {} /\ outcome = <<>> /\ stage = "open"
  BY DEF MirrorInit
<1>2. Len(entries) = 0 /\ DOMAIN entries = {} /\ DOMAIN outcome = {} /\ outcome \in Seq(Hows)
  BY <1>1, EmptySeq
<1> QED
  BY <1>1, <1>2 DEF ReceiverInv, TakenIs, OutcomeIs, StageIs, Done

\* The numbers of the entries.
LEMMA CountIs ==
  ASSUME WalkInv, TakenIs
  PROVE  /\ Len(entries) \in Nat /\ DOMAIN entries = 1 .. Len(entries) /\ taken \in Nat
         /\ \A id : Done(id) <=> id \in 1 .. Len(entries) /\ id <= taken
<1>1. entries \in Seq(Manifest)
  BY DEF WalkInv, EntriesAre
<1>2. Len(entries) \in Nat /\ DOMAIN entries = 1 .. Len(entries)
  BY <1>1, LenProperties
<1> QED
  BY <1>2 DEF TakenIs, Done

\* What is resolved, and by what.
LEMMA FateIs ==
  ASSUME OutcomeIs, NEW id \in DOMAIN entries
  PROVE  /\ outcome[id] = "skip" <=> Done(id) /\ ~Owner(id)
         /\ outcome[id] \in {"ok", "same", "fail", "planned"} => Owner(id) /\ outcome[id] \in Resolved(id)
         /\ outcome[id] = "same" => entries[id].kind = "file"
  BY DEF OutcomeIs, Fate, Resolved

\* Two owners do not have one path.
LEMMA OwnerSole ==
  ASSUME WalkInv, NEW i \in DOMAIN entries, NEW j \in DOMAIN entries, Owner(i), Owner(j),
         entries[i].rel = entries[j].rel
  PROVE  i = j
<1>1. i \in Nat \ {0} /\ j \in Nat \ {0}
  BY EntryIs
<1>2. i < j => i \in 1 .. j - 1
  BY <1>1
<1>3. j < i => j \in 1 .. i - 1
  BY <1>1
<1> QED
  BY <1>1, <1>2, <1>3 DEF Owner

\* As nothing of the receiver's is touched, nothing changes for it.
LEMMA ReceiverFrame ==
  ASSUME ReceiverInv, UNCHANGED <<entries, taken, mentioned, outcome>>,
         agenda' = agenda \/ agenda # <<>>, (stage' = stage /\ broken' = broken) \/ StageIs',
         stage' = stage \/ stage = "open" \/ stage' # "open"
  PROVE  ReceiverInv'
<1>1. \A id : Done(id)' = Done(id) /\ Owner(id)' = Owner(id) /\ Pending(id)' = Pending(id)
  BY DEF Done, Owner, Pending
<1>2. TakenIs'
  BY <1>1 DEF ReceiverInv, TakenIs
<1>3. \A id : Resolved(id) \subseteq Resolved(id)'
  BY DEF Resolved
<1>4. \A id : Fate(id) \subseteq Fate(id)'
  BY <1>1, <1>3 DEF Fate
<1>5. OutcomeIs'
  BY <1>4 DEF ReceiverInv, OutcomeIs
<1>6. ASSUME stage' = stage, broken' = broken PROVE StageIs'
  BY <1>1, <1>6 DEF ReceiverInv, StageIs, ManifestDone
<1> QED
  BY <1>2, <1>5, <1>6 DEF ReceiverInv

\* A new entry is open.
LEMMA ReceiverEmit ==
  ASSUME WalkInv, ReceiverInv, Emit PROVE ReceiverInv'
<1> DEFINE n == Len(entries) + 1
<1>1. /\ n \in Nat /\ DOMAIN entries = 1 .. n - 1 /\ DOMAIN entries' = 1 .. n
      /\ \A id \in 1 .. n - 1 : entries'[id] = entries[id]
      /\ entries' \in Seq(Manifest) /\ agenda # <<>>
  BY EmitIs
<1>2. outcome' = Append(outcome, "open") /\ UNCHANGED <<order, taken, mentioned, stage, broken>>
  BY DEF Emit
<1>3. Len(entries) = n - 1 /\ Len(entries') = n /\ n # 0
  <2>1. Len(entries') \in Nat /\ DOMAIN entries' = 1 .. Len(entries')
    BY <1>1, LenProperties
  <2>2. Len(entries) \in Nat /\ n \in Nat /\ n # 0 /\ Len(entries) = n - 1
    BY CountIs DEF ReceiverInv
  <2> QED
    BY <1>1, <2>1, <2>2
<1>4. taken \in Nat /\ taken <= n - 1
  BY <1>1, <1>3 DEF ReceiverInv, TakenIs
<1> HIDE DEF n
<1>5. \A id : Done(id)' = Done(id)
  <2>1. \A id : id \in 1 .. n <=> id = n \/ id \in 1 .. n - 1
    BY <1>1, <1>3
  <2>2. ~(n <= taken) /\ n \notin 1 .. n - 1
    BY <1>1, <1>4
  <2> QED
    BY <1>1, <1>2, <2>1, <2>2 DEF Done
<1>6. \A id : Owner(id)' = Owner(id)
  <2> SUFFICES ASSUME NEW id, Done(id) PROVE Owner(id)' = Owner(id)
    BY <1>5 DEF Owner
  <2>1. id \in 1 .. n - 1 /\ \A k \in 1 .. id - 1 : k \in 1 .. n - 1
    BY <1>1 DEF Done
  <2> QED
    BY <1>1, <1>5, <2>1 DEF Owner
<1>7. TakenIs'
  <2>1. taken' \in 0 .. Len(entries') + 1 /\ taken' # Len(entries') + 1
    BY <1>2, <1>3, <1>4
  <2>2. {id \in DOMAIN entries' : Done(id)'} = {id \in DOMAIN entries : Done(id)}
    BY <1>5 DEF Done
  <2>3. mentioned' = {entries'[id].rel : id \in {id \in DOMAIN entries' : Done(id)'}}
    BY <1>1, <1>2, <2>2 DEF ReceiverInv, TakenIs
  <2>4. ASSUME NEW id \in DOMAIN entries', Done(id)'
        PROVE  \E k \in 1 .. id : Owner(k)' /\ entries'[k].rel = entries'[id].rel
    <3>1. id \in DOMAIN entries /\ Done(id)
      BY <1>5, <2>4 DEF Done
    <3>2. PICK k \in 1 .. id : Owner(k) /\ entries[k].rel = entries[id].rel
      BY <3>1 DEF ReceiverInv, TakenIs
    <3>3. k \in DOMAIN entries
      BY <3>2 DEF Owner, Done
    <3> QED
      BY <1>1, <1>6, <3>1, <3>2, <3>3
  <2> QED
    BY <2>1, <2>3, <2>4 DEF TakenIs
<1>8. /\ outcome' \in Seq(Hows) /\ DOMAIN outcome' = 1 .. n /\ outcome'[n] = "open"
      /\ \A id \in 1 .. n - 1 : outcome'[id] = outcome[id]
  <2>1. outcome \in Seq(Hows) /\ DOMAIN outcome = 1 .. n - 1 /\ "open" \in Hows
    BY <1>1 DEF ReceiverInv, OutcomeIs, Hows
  <2>2. DOMAIN outcome = 1 .. Len(outcome) /\ Len(outcome) \in Nat
    BY <2>1, LenProperties
  <2>3. Len(outcome) = n - 1
    BY <1>1, <1>3, <2>1, <2>2
  <2>4. /\ Append(outcome, "open") \in Seq(Hows) /\ Len(Append(outcome, "open")) = n
        /\ \A i \in 1 .. n - 1 : Append(outcome, "open")[i] = outcome[i]
        /\ Append(outcome, "open")[n] = "open"
    <3>1. Len(outcome) + 1 = n
      BY <1>1, <2>3
    <3> QED
      BY <2>1, <2>3, <3>1, AppendProperties
  <2> QED
    BY <1>2, <2>4, LenProperties
<1>9. OutcomeIs'
  <2> SUFFICES ASSUME NEW id \in 1 .. n PROVE outcome'[id] \in Fate(id)'
    BY <1>1, <1>8 DEF OutcomeIs
  <2>1. CASE id = n
    <3>1. ~Done(id)'
      BY <1>1, <1>5, <2>1 DEF Done
    <3> QED
      BY <1>8, <2>1, <3>1 DEF Fate, Owner
  <2>2. CASE id # n
    <3>1. id \in 1 .. n - 1
      BY <1>1, <2>2
    <3>2. Resolved(id)' = Resolved(id)
      BY <1>1, <1>2, <3>1 DEF Resolved
    <3> QED
      BY <1>1, <1>5, <1>6, <1>8, <3>1, <3>2 DEF Fate, ReceiverInv, OutcomeIs
  <2> QED
    BY <2>1, <2>2
<1>10. StageIs'
  BY <1>1, <1>2 DEF ReceiverInv, StageIs, ManifestDone
<1> QED
  BY <1>7, <1>9, <1>10 DEF ReceiverInv

\* The next entry is taken.
LEMMA NextEntry ==
  ASSUME WalkInv, ReceiverInv, Coming, UNCHANGED entries, taken' = taken + 1,
         NEW n, n = taken + 1
  PROVE  /\ n \in DOMAIN entries /\ n \in Nat \ {0} /\ n <= Len(entries) /\ ~Done(n)
         /\ Now = entries[n] /\ outcome[n] = "open"
         /\ \A id : Done(id)' <=> Done(id) \/ id = n
         /\ \A id : Owner(id)' <=> Owner(id) \/ (id = n /\ ~Mentioned(Now.rel))
<1>1. /\ Len(entries) \in Nat /\ DOMAIN entries = 1 .. Len(entries) /\ taken \in Nat
      /\ \A id : Done(id) <=> id \in 1 .. Len(entries) /\ id <= taken
  BY CountIs DEF ReceiverInv
<1>2. n \in DOMAIN entries /\ n \in Nat \ {0} /\ n <= Len(entries) /\ ~(n <= taken)
  BY <1>1 DEF Coming
<1>3. Now = entries[n] /\ ~Done(n)
  BY <1>2 DEF Now, Done
<1>4. outcome[n] = "open"
  BY <1>2, <1>3 DEF ReceiverInv, OutcomeIs, Fate, Owner
<1>5. \A id : Done(id)' <=> Done(id) \/ id = n
  <2>1. \A id \in 1 .. Len(entries) : id <= taken + 1 <=> id <= taken \/ id = n
    BY <1>1
  <2> QED
    BY <1>1, <1>2, <2>1 DEF Done
<1>6. Mentioned(Now.rel) <=> \E k \in 1 .. n - 1 : entries[k].rel = entries[n].rel
  <2>1. \A k : k \in 1 .. n - 1 <=> Done(k)
    BY <1>1, <1>2
  <2>2. mentioned = {entries[id].rel : id \in {id \in DOMAIN entries : Done(id)}}
    BY DEF ReceiverInv, TakenIs
  <2> QED
    BY <1>3, <2>1, <2>2 DEF Mentioned, Done
<1>7. \A id : Owner(id)' <=> Owner(id) \/ (id = n /\ ~Mentioned(Now.rel))
  BY <1>3, <1>5, <1>6 DEF Owner
<1> QED
  BY <1>2, <1>3, <1>4, <1>5, <1>7


\* An entry whose path is owned is skipped; another owns its path.
LEMMA ReceiverTakes ==
  ASSUME WalkInv, ReceiverInv, Coming, UNCHANGED <<walkVars, stage, broken>>, taken' = taken + 1,
         mentioned' = mentioned \cup {Now.rel}, NEW how,
         outcome' = [outcome EXCEPT ![taken + 1] = how],
         how \in IF Mentioned(Now.rel) THEN {"skip"} ELSE Resolved(taken + 1)
  PROVE  ReceiverInv'
<1>0. PICK n : n = taken + 1
  OBVIOUS
<1>1. entries' = entries /\ agenda' = agenda /\ stage' = stage /\ broken' = broken
  BY DEF walkVars
<1>2. /\ n \in DOMAIN entries /\ n \in Nat \ {0} /\ n <= Len(entries) /\ ~Done(n)
      /\ Now = entries[n] /\ outcome[n] = "open"
      /\ \A id : Done(id)' <=> Done(id) \/ id = n
      /\ \A id : Owner(id)' <=> Owner(id) \/ (id = n /\ ~Mentioned(Now.rel))
  BY <1>0, <1>1, NextEntry
<1>3. taken' = n /\ outcome' = [outcome EXCEPT ![n] = how] /\ stage = "open"
  BY <1>0 DEF Coming
<1>4. /\ mentioned = {entries[id].rel : id \in {id \in DOMAIN entries : Done(id)}}
      /\ \A id \in DOMAIN entries : Done(id) =>
           \E k \in 1 .. id : Owner(k) /\ entries[k].rel = entries[id].rel
      /\ Len(entries) \in Nat
  BY CountIs DEF ReceiverInv, TakenIs
<1>5. TakenIs'
  <2>1. taken' \in 0 .. Len(entries') + 1 /\ taken' # Len(entries') + 1
    BY <1>1, <1>2, <1>3, <1>4
  <2>2. {id \in DOMAIN entries : Done(id)'} = {id \in DOMAIN entries : Done(id)} \cup {n}
    BY <1>2
  <2>3. mentioned' = {entries[id].rel : id \in {id \in DOMAIN entries : Done(id)'}}
    BY <1>2, <1>4, <2>2
  <2>4. ASSUME NEW id \in DOMAIN entries, Done(id)'
        PROVE  \E k \in 1 .. id : Owner(k)' /\ entries[k].rel = entries[id].rel
    <3>1. CASE Done(id)
      BY <1>2, <1>4, <3>1
    <3>2. CASE id = n /\ ~Mentioned(Now.rel)
      <4>1. id \in 1 .. id
        BY <1>2, <3>2
      <4> QED
        BY <1>2, <3>2, <4>1
    <3>3. CASE id = n /\ Mentioned(Now.rel)
      <4>1. PICK j \in DOMAIN entries : Done(j) /\ entries[j].rel = entries[n].rel
        BY <1>2, <1>4, <3>3 DEF Mentioned
      <4>2. PICK k \in 1 .. j : Owner(k) /\ entries[k].rel = entries[j].rel
        BY <1>4, <4>1
      <4>3. j \in Nat /\ j <= n
        <5>1. taken \in Nat /\ j \in Nat /\ j <= taken
          BY <4>1, CountIs DEF ReceiverInv
        <5> QED
          BY <1>0, <5>1
      <4>4. k \in 1 .. id
        BY <1>2, <3>3, <4>2, <4>3
      <4> QED
        BY <1>2, <3>3, <4>1, <4>2, <4>4
    <3> QED
      BY <1>2, <2>4, <3>1, <3>2, <3>3
  <2> QED
    BY <1>1, <2>1, <2>3, <2>4 DEF TakenIs
<1>6. how \in Hows /\ how \in Fate(n)'
  <2>1. Resolved(n)' = Resolved(n) /\ Resolved(n) \subseteq Hows
    BY <1>1 DEF Resolved, Hows
  <2>2. ~Owner(n)
    BY <1>2 DEF Owner
  <2>3. how \in IF Mentioned(Now.rel) THEN {"skip"} ELSE Resolved(n)
    BY <1>0
  <2> QED
    BY <1>2, <2>1, <2>2, <2>3 DEF Fate, Hows
<1>7. OutcomeIs'
  <2>1. /\ outcome \in Seq(Hows) /\ DOMAIN outcome = DOMAIN entries
        /\ \A id \in DOMAIN entries : outcome[id] \in Fate(id)
    BY DEF ReceiverInv, OutcomeIs
  <2>2. outcome' \in Seq(Hows) /\ DOMAIN outcome' = DOMAIN entries
    BY <1>2, <1>3, <1>6, <2>1, ExceptSeq
  <2>3. ASSUME NEW id \in DOMAIN entries PROVE outcome'[id] \in Fate(id)'
    <3>1. CASE id = n
      BY <1>2, <1>3, <1>6, <2>1, <3>1
    <3>2. CASE id # n
      <4>1. Resolved(id)' = Resolved(id) /\ outcome'[id] = outcome[id]
        BY <1>1, <1>3, <2>1, <3>2 DEF Resolved
      <4> QED
        BY <1>2, <2>1, <3>2, <4>1 DEF Fate
    <3> QED
      BY <3>1, <3>2
  <2> QED
    BY <1>1, <2>2, <2>3 DEF OutcomeIs
<1>8. StageIs'
  BY <1>1, <1>3 DEF StageIs
<1> QED
  BY <1>5, <1>7, <1>8 DEF ReceiverInv

\* An entry that is open and taken is its path's owner's.
LEMMA OpenOwns ==
  ASSUME OutcomeIs, NEW id \in DOMAIN entries, id <= taken, outcome[id] = "open"
  PROVE  Owner(id)
<1>1. Done(id)
  BY DEF Done
<1> QED
  BY <1>1 DEF OutcomeIs, Fate

\* What was open comes to its end.
LEMMA ReceiverResolves ==
  ASSUME ReceiverInv, UNCHANGED <<walkVars, taken, mentioned, stage, broken>>,
         NEW id \in DOMAIN entries, Owner(id), NEW how \in Resolved(id) \ {"open", "planned"},
         Resolves(id, how)
  PROVE  ReceiverInv'
<1>1. entries' = entries /\ agenda' = agenda
  BY DEF walkVars
<1>2. \A k : Done(k)' = Done(k) /\ Owner(k)' = Owner(k) /\ Resolved(k)' = Resolved(k) /\ Fate(k)' = Fate(k)
  BY <1>1 DEF Done, Owner, Resolved, Fate
<1>3. TakenIs'
  BY <1>1, <1>2 DEF ReceiverInv, TakenIs
<1>4. /\ outcome \in Seq(Hows) /\ DOMAIN outcome = DOMAIN entries
      /\ \A k \in DOMAIN entries : outcome[k] \in Fate(k)
      /\ outcome' = [outcome EXCEPT ![id] = how] /\ how \in Hows
  BY DEF ReceiverInv, OutcomeIs, Resolves, Resolved, Hows
<1>5. outcome' \in Seq(Hows) /\ DOMAIN outcome' = DOMAIN entries
  BY <1>4, ExceptSeq
<1>6. \A k \in DOMAIN entries : outcome'[k] = IF k = id THEN how ELSE outcome[k]
  BY <1>4
<1>7. OutcomeIs'
  BY <1>1, <1>2, <1>4, <1>5, <1>6 DEF OutcomeIs, Fate
<1>8. StageIs'
  <2>1. \A k \in DOMAIN entries : Pending(k)' <=> Pending(k) /\ k # id
    BY <1>1, <1>4, <1>6 DEF Pending
  <2> QED
    BY <1>1, <1>6, <2>1 DEF ReceiverInv, StageIs, ManifestDone
<1> QED
  BY <1>3, <1>7, <1>8 DEF ReceiverInv

\* Every step keeps what the receiver has of the entries.
LEMMA ReceiverStep ==
  ASSUME WalkInv, ReceiverInv, [MirrorNext]_mirrorVars PROVE ReceiverInv'
<1>1. CASE UNCHANGED <<walkVars, taken, mentioned, outcome, stage, broken>>
  BY <1>1, ReceiverFrame DEF walkVars
<1>2. CASE UNCHANGED mirrorVars
  BY <1>1, <1>2 DEF mirrorVars, walkVars
<1>3. CASE \E p \in DOMAIN src : Vanish(p)
  BY <1>1, <1>3 DEF Vanish, recvVars
<1>4. CASE SkipEntry
  BY <1>4, ReceiverFrame DEF SkipEntry, AtEntry, recvVars
<1>5. CASE ListDir
  BY <1>5, ReceiverFrame DEF ListDir, recvVars
<1>6. CASE WalkStops
  BY <1>6, ReceiverFrame DEF WalkStops, AtEntry, recvVars
<1>7. CASE Emit
  BY <1>7, ReceiverEmit
<1>8. CASE TakeDuplicate
  <2>1. /\ Coming /\ Mentioned(Now.rel) /\ outcome' = [outcome EXCEPT ![taken + 1] = "skip"]
        /\ UNCHANGED <<walkVars, stage, broken>> /\ taken' = taken + 1
        /\ mentioned' = mentioned \cup {Now.rel}
    BY <1>8 DEF TakeDuplicate, Resolves, Mentioned
  <2> QED
    BY <2>1, ReceiverTakes
<1>9. CASE TakeDir
  <2>1. /\ Coming /\ ~Mentioned(Now.rel) /\ Now.kind = "dir"
        /\ UNCHANGED <<walkVars, stage, broken>> /\ taken' = taken + 1
        /\ mentioned' = mentioned \cup {Now.rel}
    BY <1>9 DEF TakeDir
  <2>2. PICK how \in {"ok", "fail"} : outcome' = [outcome EXCEPT ![taken + 1] = how]
    BY <1>9 DEF TakeDir, Resolves
  <2>3. how \in Resolved(taken + 1)
    BY <2>1 DEF Resolved, Now
  <2> QED
    BY <2>1, <2>2, <2>3, ReceiverTakes
<1>10. CASE TakeFile
  <2>1. /\ Coming /\ ~Mentioned(Now.rel) /\ Now.kind = "file"
        /\ UNCHANGED <<walkVars, stage, broken>> /\ taken' = taken + 1
        /\ mentioned' = mentioned \cup {Now.rel}
    BY <1>10 DEF TakeFile
  <2>2. PICK how \in {"planned", "same", "open"} : outcome' = [outcome EXCEPT ![taken + 1] = how]
    BY <1>10 DEF TakeFile, Resolves
  <2>3. how \in Resolved(taken + 1)
    BY <2>1 DEF Resolved, Now
  <2> QED
    BY <2>1, <2>2, <2>3, ReceiverTakes
<1>11. CASE TakeLink
  <2>1. /\ Coming /\ ~Mentioned(Now.rel) /\ Now.kind = "link" /\ stage = "open"
        /\ UNCHANGED <<walkVars, stage, broken, outcome>> /\ taken' = taken + 1
        /\ mentioned' = mentioned \cup {Now.rel}
    BY <1>11 DEF TakeLink, Coming
  <2>2. outcome[taken + 1] = "open"
    <3>1. UNCHANGED entries
      BY <2>1 DEF walkVars
    <3> QED
      BY <2>1, <3>1, NextEntry
  <2>3. outcome' = [outcome EXCEPT ![taken + 1] = "open"]
    <3>1. outcome \in Seq(Hows)
      BY DEF ReceiverInv, OutcomeIs
    <3>2. outcome = [i \in DOMAIN outcome |-> outcome[i]]
      BY <3>1
    <3> QED
      BY <2>1, <2>2, <3>2
  <2>4. "open" \in Resolved(taken + 1)
    BY <2>1 DEF Resolved, Now
  <2> QED
    BY <2>1, <2>3, <2>4, ReceiverTakes
<1>12. CASE TakeEnd
  <2>1. /\ stage = "open" /\ agenda = <<>> /\ taken = Len(entries) /\ taken' = taken + 1
        /\ UNCHANGED <<agenda, entries, mentioned, outcome, stage, broken>>
    BY <1>12 DEF TakeEnd, walkVars
  <2>2. /\ Len(entries) \in Nat /\ DOMAIN entries = 1 .. Len(entries)
        /\ \A id : Done(id) <=> id \in 1 .. Len(entries) /\ id <= taken
    BY CountIs DEF ReceiverInv
  <2>3. \A id : Done(id)' = Done(id)
    BY <2>1, <2>2 DEF Done
  <2>4. \A id : Owner(id)' = Owner(id) /\ Resolved(id)' = Resolved(id)
    BY <2>1, <2>3 DEF Owner, Resolved
  <2>5. TakenIs'
    BY <2>1, <2>2, <2>3, <2>4 DEF ReceiverInv, TakenIs
  <2>6. OutcomeIs'
    BY <2>1, <2>3, <2>4 DEF ReceiverInv, OutcomeIs, Fate
  <2>7. StageIs'
    BY <2>1 DEF StageIs
  <2> QED
    BY <2>5, <2>6, <2>7 DEF ReceiverInv
<1>13. CASE Disconnects
  <2>1. stage = "open" /\ UNCHANGED <<agenda, entries, taken, mentioned, outcome, stage>>
    BY <1>13 DEF Disconnects, walkVars, recvVars
  <2>2. StageIs'
    BY <2>1 DEF StageIs
  <2> QED
    BY <2>1, <2>2, ReceiverFrame
<1>14. CASE PostPass
  <2>1. /\ stage = "open" /\ stage' = "post"
        /\ UNCHANGED <<agenda, entries, taken, mentioned, outcome, broken>>
        /\ \/ broken
           \/ ManifestDone /\ \A id \in DOMAIN entries : outcome[id] \notin {"open", "planned"} \/ Pending(id)
    BY <1>14 DEF PostPass, walkVars
  <2>2. StageIs'
    BY <2>1 DEF StageIs, ManifestDone, Pending
  <2> QED
    BY <2>1, <2>2, ReceiverFrame
<1>15. CASE Unwound
  <2>1. /\ stage = "open" /\ stage' = "over" /\ broken
        /\ UNCHANGED <<agenda, entries, taken, mentioned, outcome, broken>>
    BY <1>15 DEF Unwound, walkVars
  <2>2. StageIs'
    BY <2>1 DEF StageIs
  <2> QED
    BY <2>1, <2>2, ReceiverFrame
<1>16. CASE PassOver
  <2>1. /\ stage = "post" /\ stage' = "over"
        /\ \A id \in 1 .. Len(entries) : id <= taken => ~Pending(id)
        /\ UNCHANGED <<agenda, entries, taken, mentioned, outcome, broken>>
    BY <1>16 DEF PassOver, walkVars
  <2>2. /\ Len(entries) \in Nat /\ DOMAIN entries = 1 .. Len(entries) /\ taken \in Nat
    BY CountIs DEF ReceiverInv
  <2>3. StageIs'
    <3>1. ~broken => taken > Len(entries)
      BY <2>1 DEF ReceiverInv, StageIs, ManifestDone
    <3>2. ~broken => \A id \in DOMAIN entries : ~Pending(id)
      BY <2>1, <2>2, <3>1
    <3> QED
      BY <2>1, <3>2 DEF ReceiverInv, StageIs, ManifestDone, Pending
  <2> QED
    BY <2>1, <2>3, ReceiverFrame
<1>17. CASE \E id \in DOMAIN entries : Land(id)
  <2>1. PICK id \in DOMAIN entries : Land(id)
    BY <1>17
  <2>2. /\ stage = "open" /\ id <= taken /\ entries[id].kind = "file" /\ outcome[id] = "open"
        /\ UNCHANGED <<walkVars, taken, mentioned, stage, broken>>
    BY <2>1 DEF Land
  <2>3. PICK how \in {"ok", "fail"} : Resolves(id, how)
    BY <2>1 DEF Land
  <2>4. Owner(id) /\ how \in Resolved(id) \ {"open", "planned"}
    BY <2>2, OpenOwns DEF ReceiverInv, Resolved
  <2> QED
    BY <2>2, <2>3, <2>4, ReceiverResolves
<1>18. CASE \E id \in DOMAIN entries : Link(id)
  <2>1. PICK id \in DOMAIN entries : Link(id)
    BY <1>18
  <2>2. /\ stage = "post" /\ id <= taken /\ entries[id].kind = "link" /\ outcome[id] = "open"
        /\ UNCHANGED <<walkVars, taken, mentioned, stage, broken>>
    BY <2>1 DEF Link, Pending
  <2>3. PICK how \in {"ok", "fail"} : Resolves(id, how)
    BY <2>1 DEF Link
  <2>4. Owner(id) /\ how \in Resolved(id) \ {"open", "planned"}
    BY <2>2, OpenOwns DEF ReceiverInv, Resolved
  <2> QED
    BY <2>2, <2>3, <2>4, ReceiverResolves
<1> QED
  BY <1>2, <1>3, <1>4, <1>5, <1>6, <1>7, <1>8, <1>9, <1>10, <1>11, <1>12, <1>13, <1>14, <1>15,
     <1>16, <1>17, <1>18 DEF MirrorNext, Walking, Taking

-----------------------------------------------------------------------------
(***************************************************************************)
(* The destination, while the run may still end well (Whole).              *)
(*                                                                         *)
(* What is there was there or came from an entry (CameFrom), a directory   *)
(* that was there still is, but one that a link replaces (Gone), what has  *)
(* arrived stands (Stands), and what has failed has an excuse.             *)
(***************************************************************************)
Whole == stage = "open" \/ ~broken

Ok(id) == outcome[id] = "ok"

Under(id) == Above(entries[id].rel) \cup {entries[id].rel}

CameFrom(q) ==
  IF tree2[q].kind = "dir"
  THEN \/ q \in DOMAIN OldTree /\ OldTree[q].kind = "dir"
       \/ \E id \in DOMAIN entries : Ok(id) /\ ~Data(id) /\ q \in Under(id)
  ELSE \/ q \in DOMAIN OldTree /\ OldTree[q].kind # "dir"
       \/ \E id \in DOMAIN entries : Ok(id) /\ Data(id) /\ q = entries[id].rel

Gone(q) == \E id \in DOMAIN entries : entries[id].kind = "link" /\ entries[id].rel = q /\ Owner(id)

Carrier(id) == IF entries[id].kind = "link" THEN entries[id].ref ELSE id

Stands(id) ==
  LET e == entries[id] IN
  /\ e.rel \in DOMAIN tree2
  /\ IF Data(id) THEN tree2[e.rel].data = e.ino ELSE tree2[e.rel].kind = "dir"
  /\ Ok(id) /\ Data(id) => tree2[e.rel].kind = "file" /\ tree2[e.rel].obj = Carrier(id)

TreeIs ==
  /\ \A q \in DOMAIN tree2 : CameFrom(q)
  /\ \A q \in DOMAIN OldTree : OldTree[q].kind = "dir" => IsDir(q) \/ Gone(q)
  /\ \A id \in DOMAIN entries : outcome[id] \in {"ok", "same"} => Stands(id)

TreeInv == Whole /\ stage # "over" => TreeIs

Excused(id) ==
  LET e == entries[id] IN
  \/ Blocked(e.from)
  \/ e.kind = "file" /\ (e.from \notin DOMAIN src \/ Early(id))
  \/ e.kind = "link" /\ (Early(id) \/ outcome[e.ref] # "ok")

FailIs == \A id \in DOMAIN entries : outcome[id] = "fail" => Excused(id)

FailInv == Whole => FailIs

\* What the last pass leaves.
Remains ==
  /\ \A id \in DOMAIN entries : outcome[id] \in {"ok", "same"} /\ Rooted(id) => Stands(id)
  /\ order.delete => \A p \in DOMAIN tree2 \ {<<>>} : p \in mentioned \/ tree2[p].kind = "part"

LeftInv == stage = "over" /\ ~broken => Remains

\* An entry stays, with what was decided of it.
EntriesStay ==
  /\ \A id \in DOMAIN entries : id \in DOMAIN entries' /\ entries'[id] = entries[id]
  /\ \A id \in DOMAIN entries : Owner(id) => Owner(id)'
  /\ order' = order /\ DOMAIN src' \subseteq DOMAIN src

\* A file or a link whose place, or a place below it, is taken is blocked.
LEMMA TakenBlocks ==
  ASSUME WalkInv, TreeIs, NEW id \in DOMAIN entries, Data(id),
         NEW q \in DOMAIN tree2, (q = entries[id].rel /\ tree2[q].kind = "dir") \/ entries[id].rel \in Above(q)
  PROVE  Blocked(entries[id].from)
<1> DEFINE r == entries[id].rel
<1>1. r = Rel(entries[id].from) /\ SourceTree[entries[id].from].kind = "file"
  BY EntryIs
<1>2. ASSUME r \in DOMAIN OldTree, OldTree[r].kind = "dir" PROVE Blocked(entries[id].from)
  BY <1>1, <1>2 DEF Blocked
<1>3. CASE q \in DOMAIN OldTree
  <2>1. CASE r \in Above(q)
    BY <1>2, <1>3, <2>1, OldIs
  <2>2. CASE q = r /\ tree2[q].kind = "dir" /\ OldTree[q].kind = "dir"
    BY <1>2, <1>3, <2>2
  <2>3. CASE q = r /\ tree2[q].kind = "dir" /\ OldTree[q].kind # "dir"
    <3>1. PICK k \in DOMAIN entries : ~Data(k) /\ q \in Under(k)
      BY <2>3 DEF TreeIs, CameFrom
    <3> QED
      BY <2>3, <3>1, EntriesRelate DEF Under
  <2> QED
    BY <2>1, <2>2, <2>3
<1>4. CASE q \notin DOMAIN OldTree
  <2>1. PICK k \in DOMAIN entries : \/ ~Data(k) /\ q \in Under(k)
                                    \/ tree2[q].kind # "dir" /\ q = entries[k].rel
    BY <1>4 DEF TreeIs, CameFrom
  <2>2. entries[k].rel \in Path
    BY EntryIs
  <2>3. CASE r \in Above(q)
    <3>1. r \in Above(entries[k].rel)
      BY <2>1, <2>2, <2>3, AboveAbove DEF Under
    <3> QED
      BY <3>1, EntriesRelate
  <2>4. CASE q = r /\ tree2[q].kind = "dir"
    <3>1. ~Data(k) /\ (r \in Above(entries[k].rel) \/ r = entries[k].rel)
      BY <2>1, <2>4 DEF Under
    <3> QED
      BY <3>1, EntriesRelate
  <2> QED
    BY <2>3, <2>4
<1> QED
  BY <1>3, <1>4

\* So is a directory that is to be where, or below where, something else is.
LEMMA FileBlocks ==
  ASSUME WalkInv, TreeIs, NEW id \in DOMAIN entries, ~Data(id),
         NEW q \in DOMAIN tree2, q \in Under(id), tree2[q].kind # "dir"
  PROVE  Blocked(entries[id].from)
<1> DEFINE r == entries[id].rel
<1>1. r = Rel(entries[id].from) /\ SourceTree[entries[id].from].kind \in Dirs
  BY EntryIs DEF Data
<1>2. CASE q \in DOMAIN OldTree /\ OldTree[q].kind # "dir"
  BY <1>1, <1>2 DEF Blocked, Under, Dirs
<1>3. CASE \E k \in DOMAIN entries : Data(k) /\ q = entries[k].rel
  BY <1>3, EntriesRelate DEF Under
<1> QED
  BY <1>2, <1>3 DEF TreeIs, CameFrom

\* A link is never at the place all paths are relative to.
LEMMA LinkBelowRoot ==
  ASSUME WalkInv, NEW id \in DOMAIN entries, entries[id].kind = "link", Owner(id)
  PROVE  entries[id].rel # <<>>
<1> SUFFICES ASSUME entries[id].rel = <<>> PROVE FALSE
  OBVIOUS
<1>1. entries[id].ref \in 1 .. id - 1 /\ entries[id].ref \in DOMAIN entries
  BY EntryIs
<1>2. entries[entries[id].ref].rel \in Path
  BY <1>1, EntryIs
<1>3. CASE entries[entries[id].ref].rel = <<>>
  BY <1>1, <1>3 DEF Owner
<1>4. CASE <<>> \in Above(entries[entries[id].ref].rel)
  BY <1>1, <1>4, EntriesRelate DEF Data
<1> QED
  BY <1>2, <1>3, <1>4, RootAbove

\* What has no directory to go to is blocked, or came before its directory.
LEMMA HomelessExcused ==
  ASSUME WalkInv, ReceiverInv, TreeIs, FailIs,
         NEW id \in DOMAIN entries, Owner(id), Data(id), ~IsDir(Parent(entries[id].rel))
  PROVE  Blocked(entries[id].from) \/ Early(id)
<1> DEFINE r == entries[id].rel
           d == Parent(r)
<1>1. r \in Path /\ r = Rel(entries[id].from)
  BY EntryIs
<1>2. ASSUME NEW q \in DOMAIN OldTree, OldTree[q].kind = "dir", q \in Above(r), ~IsDir(q) PROVE FALSE
  <2>1. PICK k \in DOMAIN entries : entries[k].kind = "link" /\ entries[k].rel = q
    BY <1>2 DEF TreeIs, Gone
  <2> QED
    BY <1>2, <2>1, EntriesRelate DEF Data
<1>3. CASE r = <<>>
  <2>1. d = <<>>
    <3>1. Len(r) - 1 \in Int /\ Len(r) - 1 < 1
      BY <1>3, EmptySeq
    <3> QED
      BY <3>1, SubSeqEmpty DEF Parent
  <2>2. Gone(<<>>)
    BY <2>1, OldIs DEF TreeIs
  <2>3. PICK k \in DOMAIN entries : entries[k].kind = "link" /\ entries[k].rel = <<>> /\ Owner(k)
    BY <2>2 DEF Gone
  <2> QED
    BY <2>3, LinkBelowRoot
<1>4. CASE r # <<>>
  <2>1. d \in Above(r) /\ d \in Path
    BY <1>1, <1>4, ParentIs, AboveIs
  <2>2. CASE d \in DOMAIN OldTree
    <3>1. OldTree[d].kind # "dir"
      BY <1>2, <2>1, <2>2
    <3> QED
      BY <1>1, <2>1, <2>2, <3>1 DEF Blocked
  <2>3. CASE d \notin DOMAIN OldTree /\ ~Early(id)
    <3>1. PICK j \in 1 .. id - 1 : entries[j].rel = d
      BY <2>1, <2>3 DEF Early
    <3>2. j \in DOMAIN entries /\ Done(j)
      <4>1. /\ Len(entries) \in Nat /\ DOMAIN entries = 1 .. Len(entries) /\ taken \in Nat
            /\ id \in 1 .. Len(entries) /\ id <= taken
        BY CountIs DEF ReceiverInv, Owner
      <4> QED
        BY <4>1 DEF Done
    <3>3. PICK k \in 1 .. j : Owner(k) /\ entries[k].rel = d
      BY <3>1, <3>2 DEF ReceiverInv, TakenIs
    <3>4. k \in DOMAIN entries /\ ~Data(k)
      BY <2>1, <3>3, EntriesRelate DEF Owner, Done
    <3>5. outcome[k] \in {"ok", "fail"}
      BY <3>3, <3>4 DEF ReceiverInv, OutcomeIs, Fate, Resolved, Data
    <3>6. CASE outcome[k] = "ok"
      BY <3>3, <3>4, <3>6 DEF TreeIs, Stands, IsDir
    <3>7. CASE outcome[k] = "fail"
      <4>1. Blocked(entries[k].from) /\ Rel(entries[k].from) = d
        BY <3>3, <3>4, <3>7, EntryIs DEF FailIs, Excused, Data
      <4>2. PICK q \in Above(d) \cap DOMAIN OldTree : OldTree[q].kind # "dir"
        BY <2>3, <4>1 DEF Blocked
      <4>3. q \in Above(r)
        BY <1>1, <2>1, <4>2, AboveAbove
      <4> QED
        BY <1>1, <4>2, <4>3 DEF Blocked
    <3> QED
      BY <3>5, <3>6, <3>7
  <2> QED
    BY <2>2, <2>3
<1> QED
  BY <1>3, <1>4

\* Every step keeps the entries.
LEMMA StayStep ==
  ASSUME WalkInv, ReceiverInv, [MirrorNext]_mirrorVars PROVE EntriesStay
<1>1. taken \in Nat
  BY CountIs DEF ReceiverInv
<1>2. ASSUME \A id \in DOMAIN entries : id \in DOMAIN entries' /\ entries'[id] = entries[id],
             taken' = taken \/ taken' = taken + 1
      PROVE  \A id \in DOMAIN entries : Owner(id) => Owner(id)'
  <2> SUFFICES ASSUME NEW id \in DOMAIN entries, Owner(id) PROVE Owner(id)'
    OBVIOUS
  <2>1. id \in Nat /\ \A k \in 1 .. id - 1 : k \in DOMAIN entries
    <3>1. id \in Nat \ {0} /\ \A k \in 1 .. id : k \in DOMAIN entries
      BY EntryIs
    <3> QED
      BY <3>1
  <2>2. Done(id)'
    BY <1>1, <1>2, <2>1 DEF Owner, Done
  <2> QED
    BY <1>2, <2>1, <2>2 DEF Owner
<1>3. CASE Emit
  <2>1. \A id \in DOMAIN entries : id \in DOMAIN entries' /\ entries'[id] = entries[id]
    <3> DEFINE n == Len(entries) + 1
    <3>1. /\ n \in Nat /\ DOMAIN entries = 1 .. n - 1 /\ DOMAIN entries' = 1 .. n
          /\ \A id \in 1 .. n - 1 : entries'[id] = entries[id]
      BY <1>3, EmitIs
    <3> HIDE DEF n
    <3> QED
      BY <3>1
  <2> QED
    BY <1>2, <1>3, <2>1 DEF Emit, EntriesStay
<1>4. CASE entries' = entries /\ order' = order /\ src' = src /\ (taken' = taken \/ taken' = taken + 1)
  BY <1>2, <1>4 DEF EntriesStay
<1>5. CASE SkipEntry \/ ListDir \/ WalkStops
  BY <1>4, <1>5 DEF SkipEntry, ListDir, WalkStops, recvVars
<1>6. CASE Taking
  BY <1>4, <1>6 DEF Taking, TakeDuplicate, TakeDir, TakeFile, TakeLink, TakeEnd, walkVars
<1>7. CASE Disconnects \/ PostPass \/ Unwound \/ PassOver
  BY <1>4, <1>7 DEF Disconnects, PostPass, Unwound, PassOver, walkVars, recvVars
<1>8. CASE \E p \in DOMAIN src : Vanish(p)
  <2>1. entries' = entries /\ order' = order /\ DOMAIN src' \subseteq DOMAIN src /\ taken' = taken
    BY <1>8 DEF Vanish, walkVars, recvVars
  <2> QED
    BY <1>2, <2>1 DEF EntriesStay
<1>9. CASE \E id \in DOMAIN entries : Land(id) \/ Link(id)
  BY <1>4, <1>9 DEF Land, Link, walkVars
<1>10. CASE UNCHANGED mirrorVars
  BY <1>4, <1>10 DEF mirrorVars
<1> QED
  BY <1>3, <1>5, <1>6, <1>7, <1>8, <1>9, <1>10 DEF MirrorNext, Walking

\* A run that may still end well could before, and what is over stays over.
LEMMA WholeStep ==
  ASSUME [MirrorNext]_mirrorVars
  PROVE  /\ Whole' => Whole
         /\ stage = "over" => stage' = "over"
         /\ Whole' /\ stage' = "over" => PassOver \/ stage = "over"
<1>1. CASE UNCHANGED <<stage, broken>>
  BY <1>1 DEF Whole
<1>2. CASE Walking
  BY <1>1, <1>2 DEF Walking, SkipEntry, Emit, ListDir, WalkStops, recvVars
<1>3. CASE Taking
  BY <1>1, <1>3 DEF Taking, TakeDuplicate, TakeDir, TakeFile, TakeLink, TakeEnd
<1>4. CASE Disconnects \/ PostPass \/ Unwound \/ PassOver
  BY <1>4 DEF Disconnects, PostPass, Unwound, PassOver, recvVars, Whole
<1>5. CASE \E p \in DOMAIN src : Vanish(p)
  BY <1>1, <1>5 DEF Vanish, recvVars
<1>6. CASE \E id \in DOMAIN entries : Land(id) \/ Link(id)
  BY <1>1, <1>6 DEF Land, Link
<1>7. CASE UNCHANGED mirrorVars
  BY <1>1, <1>7 DEF mirrorVars
<1> QED
  BY <1>2, <1>3, <1>4, <1>5, <1>6, <1>7 DEF MirrorNext

\* What a step leaves of the excuses of what had failed.
LEMMA FailKeeps ==
  ASSUME WalkInv, ReceiverInv, FailIs, EntriesStay,
         \A id \in DOMAIN entries : outcome'[id] = outcome[id] \/ stage = "open" \/ entries[id].kind = "link",
         \A id \in DOMAIN entries' : outcome'[id] = "fail" =>
           (id \in DOMAIN entries /\ outcome[id] = "fail") \/ Excused(id)'
  PROVE  FailIs'
<1> SUFFICES ASSUME NEW id \in DOMAIN entries, outcome[id] = "fail" PROVE Excused(id)'
  BY DEF FailIs
<1> DEFINE e == entries[id]
<1>1. Excused(id)
  BY DEF FailIs
<1>2. e' = e
  BY DEF EntriesStay
<1>3. Blocked(e.from)' = Blocked(e.from)
  BY <1>2, OrderKeeps DEF EntriesStay
<1>4. Early(id) => Early(id)'
  <2>1. \A k \in 1 .. id - 1 : entries'[k] = entries[k]
    <3>1. id \in Nat \ {0} /\ \A k \in 1 .. id : k \in DOMAIN entries
      BY EntryIs
    <3> QED
      BY <3>1 DEF EntriesStay
  <2> QED
    BY <1>2, <2>1 DEF Early
<1>5. ASSUME e.kind = "link" PROVE outcome'[e.ref] = outcome[e.ref]
  <2>1. stage # "open"
    BY <1>5, FateIs DEF ReceiverInv, Resolved
  <2>2. e.ref \in DOMAIN entries /\ entries[e.ref].kind = "file"
    BY <1>5, EntryIs
  <2> QED
    BY <2>1, <2>2
<1> HIDE DEF e
<1>6. e.kind = "link" /\ outcome[e.ref] # "ok" => outcome'[e.ref] # "ok"
  BY <1>5
<1>7. CASE Blocked(e.from)
  BY <1>2, <1>3, <1>7 DEF Excused, e
<1>8. CASE e.kind = "file" /\ (e.from \notin DOMAIN src \/ Early(id))
  BY <1>2, <1>4, <1>8 DEF Excused, EntriesStay, e
<1>9. CASE e.kind = "link" /\ (Early(id) \/ outcome[e.ref] # "ok")
  BY <1>2, <1>4, <1>6, <1>9 DEF Excused, e
<1> QED
  BY <1>1, <1>7, <1>8, <1>9 DEF Excused, e

\* What a step that does nothing to the destination leaves of it.
LEMMA TreeKeeps ==
  ASSUME WalkInv, TreeIs, EntriesStay, tree2' = tree2,
         \A id \in DOMAIN entries : Ok(id) => Ok(id)',
         \A id \in DOMAIN entries' : outcome'[id] \in {"ok", "same"} =>
           (id \in DOMAIN entries /\ outcome'[id] = outcome[id]) \/ Stands(id)'
  PROVE  TreeIs'
<1>1. \A id \in DOMAIN entries : /\ id \in DOMAIN entries' /\ Data(id)' = Data(id) /\ Under(id)' = Under(id)
                                 /\ Carrier(id)' = Carrier(id) /\ entries'[id] = entries[id]
  BY DEF EntriesStay, Data, Under, Carrier
<1>2. ASSUME NEW q \in DOMAIN tree2, CameFrom(q) PROVE CameFrom(q)'
  BY <1>1, <1>2 DEF CameFrom
<1>3. \A q : IsDir(q)' = IsDir(q) /\ (Gone(q) => Gone(q)')
  BY <1>1 DEF IsDir, Gone, EntriesStay
<1>4. ASSUME NEW id \in DOMAIN entries, Stands(id), outcome'[id] = outcome[id] PROVE Stands(id)'
  BY <1>1, <1>4 DEF Stands, Ok
<1> QED
  BY <1>2, <1>3, <1>4 DEF TreeIs

\* Nothing was decided.
LEMMA NothingDecided ==
  ASSUME WalkInv, ReceiverInv, TreeIs, FailIs, EntriesStay, UNCHANGED <<entries, outcome, tree2>>
  PROVE  TreeIs' /\ FailIs'
<1>1. TreeIs'
  BY TreeKeeps DEF Ok
<1>2. FailIs'
  BY FailKeeps
<1> QED
  BY <1>1, <1>2

\* A new entry is not decided yet.
LEMMA EmitUndecided ==
  ASSUME WalkInv, ReceiverInv, TreeIs, FailIs, EntriesStay, Emit
  PROVE  TreeIs' /\ FailIs'
<1> DEFINE n == Len(entries) + 1
<1>1. n \in Nat /\ DOMAIN entries = 1 .. n - 1 /\ DOMAIN entries' = 1 .. n
  BY EmitIs
<1>2. tree2' = tree2 /\ outcome' = Append(outcome, "open")
  BY DEF Emit
<1>3. outcome'[n] = "open" /\ \A id \in DOMAIN entries : outcome'[id] = outcome[id]
  <2>1. outcome \in Seq(Hows) /\ DOMAIN outcome = 1 .. n - 1 /\ "open" \in Hows
    BY <1>1 DEF ReceiverInv, OutcomeIs, Hows
  <2>2. DOMAIN outcome = 1 .. Len(outcome) /\ Len(outcome) \in Nat
    BY <2>1, LenProperties
  <2>3. Len(entries) \in Nat /\ DOMAIN entries = 1 .. Len(entries)
    BY CountIs DEF ReceiverInv
  <2>4. Len(outcome) = Len(entries)
    BY <1>1, <2>1, <2>2, <2>3
  <2>5. /\ \A i \in 1 .. Len(outcome) : Append(outcome, "open")[i] = outcome[i]
        /\ Append(outcome, "open")[Len(outcome) + 1] = "open"
    BY <2>1, AppendProperties
  <2> QED
    BY <1>2, <2>3, <2>4, <2>5
<1> HIDE DEF n
<1>4. \A id \in DOMAIN entries' : id = n \/ id \in DOMAIN entries
  BY <1>1
<1>5. TreeIs'
  BY <1>2, <1>3, <1>4, TreeKeeps DEF Ok
<1>6. FailIs'
  BY <1>3, <1>4, FailKeeps
<1> QED
  BY <1>5, <1>6

\* One entry was decided, with nothing put in its place.
LEMMA OneDecided ==
  ASSUME WalkInv, ReceiverInv, TreeIs, FailIs, EntriesStay, UNCHANGED <<entries, tree2>>, stage = "open",
         NEW id \in DOMAIN entries, outcome[id] = "open",
         NEW how \in {"open", "skip", "planned", "same", "fail"}, outcome' = [outcome EXCEPT ![id] = how],
         how = "same" => Stands(id)', how = "fail" => Excused(id)'
  PROVE  TreeIs' /\ FailIs'
<1>1. DOMAIN outcome = DOMAIN entries
  BY DEF ReceiverInv, OutcomeIs
<1>2. \A k \in DOMAIN entries : outcome'[k] = IF k = id THEN how ELSE outcome[k]
  BY <1>1
<1>3. TreeIs'
  BY <1>2, TreeKeeps DEF Ok
<1>4. FailIs'
  BY <1>2, FailKeeps
<1> QED
  BY <1>3, <1>4

\* Taking a duplicate, a file or a link.
LEMMA TakesUndecided ==
  ASSUME WalkInv, ReceiverInv, TreeIs, FailIs, EntriesStay, TakeDuplicate \/ TakeFile \/ TakeLink
  PROVE  TreeIs' /\ FailIs'
<1>1. CASE TakeLink
  BY <1>1, NothingDecided DEF TakeLink, walkVars
<1> DEFINE n == taken + 1
<1>2. ASSUME TakeDuplicate \/ TakeFile
      PROVE  /\ n \in DOMAIN entries /\ Now = entries[n] /\ outcome[n] = "open" /\ stage = "open"
             /\ UNCHANGED <<entries, tree2>>
  <2>1. Coming /\ UNCHANGED <<entries, tree2>> /\ taken' = taken + 1
    BY <1>2 DEF TakeDuplicate, TakeFile, walkVars
  <2> QED
    BY <2>1, NextEntry DEF Coming
<1>3. CASE TakeDuplicate
  <2>1. outcome' = [outcome EXCEPT ![n] = "skip"]
    BY <1>3 DEF TakeDuplicate, Resolves
  <2> HIDE DEF n
  <2> QED
    BY <1>2, <1>3, <2>1, OneDecided
<1>4. CASE TakeFile
  <2> DEFINE there == Now.rel \in DOMAIN tree2 /\ tree2[Now.rel].data = Now.ino
             how == IF order.dry THEN "planned" ELSE IF there THEN "same" ELSE "open"
  <2>1. outcome' = [outcome EXCEPT ![n] = how] /\ Now.kind = "file"
    BY <1>4 DEF TakeFile, Resolves
  <2>2. PICK m : m = n
    OBVIOUS
  <2>3. DOMAIN outcome = DOMAIN entries
    BY DEF ReceiverInv, OutcomeIs
  <2>4. how = "same" => Stands(m)'
    <3> SUFFICES ASSUME how = "same" PROVE Stands(m)'
      OBVIOUS
    <3>1. there /\ outcome'[m] = "same"
      BY <1>2, <1>4, <2>1, <2>2, <2>3
    <3>2. Data(m)' /\ entries'[m] = Now /\ tree2' = tree2 /\ ~Ok(m)'
      BY <1>2, <1>4, <2>1, <2>2, <3>1 DEF Data, Ok
    <3> QED
      BY <3>1, <3>2 DEF Stands
  <2>5. how \in {"planned", "same", "open"}
    OBVIOUS
  <2> HIDE DEF n, how
  <2> QED
    BY <1>2, <1>4, <2>1, <2>2, <2>4, <2>5, OneDecided
<1> QED
  BY <1>1, <1>3, <1>4

\* A directory is made, or something else is in its way.
LEMMA DirMade ==
  ASSUME WalkInv, ReceiverInv, TreeIs, FailIs, EntriesStay, TakeDir
  PROVE  TreeIs' /\ FailIs'
<1>1. PICK n : n = taken + 1
  OBVIOUS
<1>2. /\ Coming /\ entries' = entries /\ taken' = taken + 1 /\ ~Mentioned(Now.rel) /\ Now.kind = "dir"
  BY DEF TakeDir, walkVars
<1>3. /\ n \in DOMAIN entries /\ Now = entries[n] /\ outcome[n] = "open" /\ stage = "open"
  BY <1>1, <1>2, NextEntry DEF Coming
<1>4. ~Data(n) /\ Under(n) = Above(Now.rel) \cup {Now.rel} /\ DOMAIN outcome = DOMAIN entries
  BY <1>2, <1>3 DEF Data, Under, ReceiverInv, OutcomeIs
<1>5. CASE \A q \in Under(n) : q \in DOMAIN tree2 => IsDir(q)
  <2>1. /\ outcome' = [outcome EXCEPT ![n] = "ok"]
        /\ tree2' = [q \in DOMAIN tree2 \cup Under(n) |-> IF q \in DOMAIN tree2 THEN tree2[q] ELSE ADir]
    <3>1. \A q \in Above(Now.rel) \cup {Now.rel} : q \in DOMAIN tree2 => IsDir(q)
      BY <1>4, <1>5
    <3>2. DOMAIN tree2 \cup Above(Now.rel) \cup {Now.rel} = DOMAIN tree2 \cup Under(n)
      BY <1>4
    <3> QED
      BY <1>1, <3>1, <3>2 DEF TakeDir, Resolves
  <2>2. \A k \in DOMAIN entries : outcome'[k] = IF k = n THEN "ok" ELSE outcome[k]
    BY <1>3, <1>4, <2>1
  <2>3. \A k \in DOMAIN entries : Data(k)' = Data(k) /\ Under(k)' = Under(k) /\ Carrier(k)' = Carrier(k)
    BY <1>2 DEF Data, Under, Carrier
  <2>4. ASSUME NEW q \in DOMAIN tree2' PROVE CameFrom(q)'
    <3>1. CASE q \in DOMAIN tree2
      <4>1. CameFrom(q) /\ tree2'[q] = tree2[q]
        BY <2>1, <3>1 DEF TreeIs
      <4> QED
        BY <1>2, <2>2, <2>3, <4>1 DEF CameFrom, Ok
    <3>2. CASE q \notin DOMAIN tree2
      <4>1. q \in Under(n) /\ tree2'[q].kind = "dir"
        BY <2>1, <3>2 DEF ADir
      <4> QED
        BY <1>2, <1>3, <1>4, <2>2, <2>3, <4>1 DEF CameFrom, Ok
    <3> QED
      BY <3>1, <3>2
  <2>5. ASSUME NEW q \in DOMAIN OldTree, OldTree[q].kind = "dir" PROVE IsDir(q)' \/ Gone(q)'
    <3>1. IsDir(q) \/ Gone(q)
      BY <2>5 DEF TreeIs
    <3>2. IsDir(q) => IsDir(q)'
      BY <2>1 DEF IsDir
    <3>3. Gone(q) => Gone(q)'
      BY <1>2 DEF Gone, EntriesStay
    <3> QED
      BY <3>1, <3>2, <3>3
  <2>6. ASSUME NEW k \in DOMAIN entries, outcome'[k] \in {"ok", "same"} PROVE Stands(k)'
    <3>1. CASE k = n
      <4>1. Now.rel \in DOMAIN tree2' /\ tree2'[Now.rel].kind = "dir"
        BY <1>4, <1>5, <2>1 DEF IsDir, ADir
      <4> QED
        BY <1>2, <1>3, <1>4, <2>3, <3>1, <4>1 DEF Stands
    <3>2. CASE k # n
      <4>1. Stands(k) /\ outcome'[k] = outcome[k]
        BY <2>2, <2>6, <3>2 DEF TreeIs
      <4>2. entries[k].rel \in DOMAIN tree2' /\ tree2'[entries[k].rel] = tree2[entries[k].rel]
        BY <2>1, <4>1 DEF Stands
      <4> QED
        BY <1>2, <2>3, <4>1, <4>2 DEF Stands, Ok
    <3> QED
      BY <3>1, <3>2
  <2>7. TreeIs'
    BY <1>2, <2>4, <2>5, <2>6 DEF TreeIs
  <2>8. FailIs'
    BY <1>2, <1>3, <2>2, FailKeeps
  <2> QED
    BY <2>7, <2>8
<1>6. CASE \E q \in Under(n) : q \in DOMAIN tree2 /\ ~IsDir(q)
  <2>1. outcome' = [outcome EXCEPT ![n] = "fail"] /\ tree2' = tree2
    <3>1. ~\A q \in Above(Now.rel) \cup {Now.rel} : q \in DOMAIN tree2 => IsDir(q)
      BY <1>4, <1>6
    <3> QED
      BY <1>1, <3>1 DEF TakeDir, Resolves
  <2>2. Blocked(entries[n].from)
    BY <1>3, <1>4, <1>6, FileBlocks DEF IsDir
  <2>3. Excused(n)'
    <3>1. order' = order /\ entries' = entries
      BY <1>2 DEF EntriesStay
    <3>2. Blocked(entries[n].from)'
      BY <2>2, <3>1, OrderKeeps
    <3> QED
      BY <3>2 DEF Excused
  <2> QED
    BY <1>2, <1>3, <2>1, <2>3, OneDecided
<1> QED
  BY <1>5, <1>6

\* A file lands, or has its excuse.
LEMMA FileLands ==
  ASSUME WalkInv, ReceiverInv, TreeIs, FailIs, EntriesStay, NEW id \in DOMAIN entries, Land(id)
  PROVE  TreeIs' /\ FailIs'
<1> DEFINE e == entries[id]
<1>1. /\ stage = "open" /\ id <= taken /\ e.kind = "file" /\ outcome[id] = "open"
      /\ UNCHANGED <<src, order, entries>>
  BY DEF Land, walkVars
<1>2. Owner(id) /\ Data(id) /\ DOMAIN outcome = DOMAIN entries
  BY <1>1, OpenOwns DEF ReceiverInv, OutcomeIs, Data
<1>3. CASE e.from \in DOMAIN src /\ ~IsDir(e.rel) /\ IsDir(Parent(e.rel))
  <2> DEFINE new == [kind |-> "file", obj |-> id, data |-> e.ino]
  <2>1. /\ outcome' = [outcome EXCEPT ![id] = "ok"]
        /\ tree2' = [q \in DOMAIN tree2 \cup {e.rel} |-> IF q = e.rel THEN new ELSE tree2[q]]
    BY <1>3 DEF Land, Resolves, With
  <2>2. \A k \in DOMAIN entries : outcome'[k] = IF k = id THEN "ok" ELSE outcome[k]
    BY <1>2, <2>1
  <2>3. \A k \in DOMAIN entries : Data(k)' = Data(k) /\ Under(k)' = Under(k) /\ Carrier(k)' = Carrier(k)
    BY <1>1 DEF Data, Under, Carrier
  <2>4. ASSUME NEW q \in DOMAIN tree2' PROVE CameFrom(q)'
    <3>1. CASE q = e.rel
      <4>1. tree2'[q].kind # "dir"
        BY <2>1, <3>1
      <4> QED
        BY <1>1, <1>2, <2>2, <2>3, <3>1, <4>1 DEF CameFrom, Ok
    <3>2. CASE q # e.rel
      <4>1. q \in DOMAIN tree2 /\ CameFrom(q) /\ tree2'[q] = tree2[q]
        BY <2>1, <3>2 DEF TreeIs
      <4> QED
        BY <1>1, <2>2, <2>3, <4>1 DEF CameFrom, Ok
    <3> QED
      BY <3>1, <3>2
  <2>5. ASSUME NEW q \in DOMAIN OldTree, OldTree[q].kind = "dir" PROVE IsDir(q)' \/ Gone(q)'
    <3>1. IsDir(q) \/ Gone(q)
      BY <2>5 DEF TreeIs
    <3>2. IsDir(q) => IsDir(q)'
      BY <1>3, <2>1 DEF IsDir
    <3>3. Gone(q) => Gone(q)'
      BY <1>1 DEF Gone, EntriesStay
    <3> QED
      BY <3>1, <3>2, <3>3
  <2>6. ASSUME NEW k \in DOMAIN entries, outcome'[k] \in {"ok", "same"} PROVE Stands(k)'
    <3>1. CASE k = id
      <4>1. e.rel \in DOMAIN tree2' /\ tree2'[e.rel] = new /\ Carrier(id) = id
        BY <1>1, <2>1 DEF Carrier
      <4> QED
        BY <1>1, <1>2, <2>3, <3>1, <4>1 DEF Stands
    <3>2. CASE k # id
      <4>1. Stands(k) /\ outcome'[k] = outcome[k] /\ Owner(k)
        BY <2>2, <2>6, <3>2, FateIs DEF TreeIs, ReceiverInv
      <4>2. entries[k].rel # e.rel
        BY <1>2, <3>2, <4>1, OwnerSole
      <4>3. entries[k].rel \in DOMAIN tree2' /\ tree2'[entries[k].rel] = tree2[entries[k].rel]
        BY <2>1, <4>1, <4>2 DEF Stands
      <4> QED
        BY <1>1, <2>3, <4>1, <4>3 DEF Stands, Ok
    <3> QED
      BY <3>1, <3>2
  <2>7. TreeIs'
    BY <1>1, <2>4, <2>5, <2>6 DEF TreeIs
  <2>8. FailIs'
    BY <1>1, <2>2, FailKeeps
  <2> QED
    BY <2>7, <2>8
<1>4. CASE ~(e.from \in DOMAIN src /\ ~IsDir(e.rel) /\ IsDir(Parent(e.rel)))
  <2>1. outcome' = [outcome EXCEPT ![id] = "fail"] /\ tree2' = tree2
    BY <1>4 DEF Land, Resolves
  <2>2. e.from \notin DOMAIN src \/ Blocked(e.from) \/ Early(id)
    <3>1. CASE IsDir(e.rel)
      BY <1>2, <3>1, TakenBlocks DEF IsDir
    <3>2. CASE ~IsDir(Parent(e.rel))
      BY <1>2, <3>2, HomelessExcused
    <3> QED
      BY <1>4, <3>1, <3>2
  <2>3. Excused(id)'
    <3>1. Blocked(e.from)' = Blocked(e.from) /\ Early(id)' = Early(id)
      <4>1. \A p : Blocked(p)' = Blocked(p)
        BY <1>1, OrderKeeps
      <4> QED
        BY <1>1, <4>1 DEF Early
    <3> QED
      BY <1>1, <2>2, <3>1 DEF Excused
  <2> QED
    BY <1>1, <2>1, <2>3, OneDecided
<1> QED
  BY <1>3, <1>4

\* In a last pass after a run that was not cut short, what has a link's data
\* has come or failed.
LEMMA CarrierSettled ==
  ASSUME WalkInv, ReceiverInv, stage # "open", ~broken,
         NEW id \in DOMAIN entries, entries[id].kind = "link"
  PROVE  /\ entries[id].ref \in DOMAIN entries /\ entries[id].ref # id
         /\ entries[entries[id].ref].kind = "file" /\ entries[entries[id].ref].ino = entries[id].ino
         /\ outcome[entries[id].ref] \in {"ok", "same", "fail"} /\ Owner(entries[id].ref)
<1> DEFINE r == entries[id].ref
<1>1. /\ order.links /\ r \in 1 .. id - 1 /\ r \in DOMAIN entries
      /\ entries[r].kind = "file" /\ entries[r].ino = entries[id].ino /\ id \in Nat
  BY EntryIs
<1>2. ManifestDone /\ outcome[r] \notin {"open", "planned"}
  BY <1>1 DEF ReceiverInv, StageIs, Pending
<1>3. Done(r)
  <2>1. taken > Len(entries) /\ taken \in Nat /\ r \in 1 .. Len(entries) /\ Len(entries) \in Nat
    BY <1>1, <1>2, CountIs DEF ReceiverInv, ManifestDone
  <2> QED
    BY <1>1, <2>1 DEF Done
<1>4. Owner(r)
  <2>1. PICK k \in 1 .. r : Owner(k) /\ entries[k].rel = entries[r].rel
    BY <1>1, <1>3 DEF ReceiverInv, TakenIs
  <2>2. ~(k < r)
    BY <1>1, <2>1, SoleCarrier DEF Owner, Done
  <2>3. k = r
    BY <1>1, <2>1, <2>2
  <2> QED
    BY <2>1, <2>3
<1>5. outcome[r] \in {"ok", "same", "fail"}
  BY <1>1, <1>2, <1>4 DEF ReceiverInv, OutcomeIs, Fate, Resolved
<1>6. r # id
  BY <1>1
<1> QED
  BY <1>1, <1>4, <1>5, <1>6

\* A link is made to what has its data, or has its excuse.
LEMMA LinkMade ==
  ASSUME WalkInv, ReceiverInv, TreeIs, FailIs, EntriesStay, ~broken, NEW id \in DOMAIN entries, Link(id)
  PROVE  TreeIs' /\ FailIs'
<1> DEFINE e == entries[id]
           target == entries[e.ref].rel
<1>1. /\ stage = "post" /\ id <= taken /\ e.kind = "link" /\ outcome[id] = "open"
      /\ UNCHANGED <<src, order, entries>>
  BY DEF Link, Pending, walkVars
<1>2. Owner(id) /\ Data(id) /\ DOMAIN outcome = DOMAIN entries
  BY <1>1, OpenOwns DEF ReceiverInv, OutcomeIs, Data
<1>3. /\ e.ref \in DOMAIN entries /\ e.ref # id /\ Data(e.ref)
      /\ entries[e.ref].kind = "file" /\ entries[e.ref].ino = e.ino
      /\ outcome[e.ref] \in {"ok", "same", "fail"} /\ Owner(e.ref)
  BY <1>1, CarrierSettled DEF Data
<1>4. target # e.rel
  BY <1>2, <1>3, OwnerSole
<1>5. \A k \in DOMAIN entries : Data(k)' = Data(k) /\ Under(k)' = Under(k) /\ Carrier(k)' = Carrier(k)
  BY <1>1 DEF Data, Under, Carrier
<1>6. ASSUME NEW how \in {"ok", "fail"}, Resolves(id, how),
             \A q \in DOMAIN tree2 \ {e.rel} : q \in DOMAIN tree2' /\ tree2'[q] = tree2[q],
             DOMAIN tree2' \subseteq DOMAIN tree2 \cup {e.rel},
             e.rel \in DOMAIN tree2' =>
               (tree2'[e.rel] = tree2[e.rel] /\ e.rel \in DOMAIN tree2) \/ how = "ok",
             how = "ok" => /\ e.rel \in DOMAIN tree2' /\ tree2'[e.rel].kind = "file"
                           /\ tree2'[e.rel].obj = e.ref /\ tree2'[e.rel].data = e.ino,
             how = "fail" => Excused(id)'
      PROVE  TreeIs' /\ FailIs'
  <2>1. \A k \in DOMAIN entries : outcome'[k] = IF k = id THEN how ELSE outcome[k]
    BY <1>2, <1>6 DEF Resolves
  <2>2. ASSUME NEW q \in DOMAIN tree2' PROVE CameFrom(q)'
    <3>1. CASE q \in DOMAIN tree2 /\ tree2'[q] = tree2[q]
      <4>1. CameFrom(q)
        BY <3>1 DEF TreeIs
      <4>2. \A k \in DOMAIN entries : Ok(k) => Ok(k)'
        BY <1>1, <2>1 DEF Ok
      <4> QED
        BY <1>1, <1>5, <3>1, <4>1, <4>2 DEF CameFrom
    <3>2. CASE q = e.rel /\ how = "ok"
      <4>1. tree2'[q].kind # "dir" /\ Ok(id)'
        BY <1>6, <2>1, <3>2 DEF Ok
      <4> QED
        BY <1>1, <1>2, <1>5, <3>2, <4>1 DEF CameFrom
    <3> QED
      BY <1>6, <3>1, <3>2
  <2>3. ASSUME NEW q \in DOMAIN OldTree, OldTree[q].kind = "dir" PROVE IsDir(q)' \/ Gone(q)'
    <3>1. IsDir(q) \/ Gone(q)
      BY <2>3 DEF TreeIs
    <3>2. Gone(q) => Gone(q)'
      BY <1>1 DEF Gone, EntriesStay
    <3>3. CASE q = e.rel
      BY <1>1, <1>2, <3>3 DEF Gone, EntriesStay
    <3>4. CASE q # e.rel
      <4>1. IsDir(q) => IsDir(q)'
        BY <1>6, <3>4 DEF IsDir
      <4> QED
        BY <3>1, <3>2, <4>1
    <3> QED
      BY <3>3, <3>4
  <2>4. ASSUME NEW k \in DOMAIN entries, outcome'[k] \in {"ok", "same"} PROVE Stands(k)'
    <3>1. CASE k = id
      <4>1. how = "ok" /\ Carrier(id) = e.ref
        BY <1>1, <2>1, <2>4, <3>1 DEF Carrier
      <4> QED
        BY <1>1, <1>2, <1>5, <1>6, <3>1, <4>1 DEF Stands
    <3>2. CASE k # id
      <4>1. Stands(k) /\ outcome'[k] = outcome[k] /\ Owner(k)
        BY <2>1, <2>4, <3>2, FateIs DEF TreeIs, ReceiverInv
      <4>2. entries[k].rel # e.rel
        BY <1>2, <3>2, <4>1, OwnerSole
      <4>3. entries[k].rel \in DOMAIN tree2' /\ tree2'[entries[k].rel] = tree2[entries[k].rel]
        BY <1>6, <4>1, <4>2 DEF Stands
      <4> QED
        BY <1>1, <1>5, <4>1, <4>3 DEF Stands, Ok
    <3> QED
      BY <3>1, <3>2
  <2>5. TreeIs'
    BY <1>1, <2>2, <2>3, <2>4 DEF TreeIs
  <2>6. FailIs'
    BY <1>1, <1>6, <2>1, FailKeeps
  <2> QED
    BY <2>5, <2>6
<1>7. outcome[e.ref] = "ok" => /\ target \in DOMAIN tree2 /\ tree2[target].kind = "file"
                               /\ tree2[target].obj = e.ref /\ tree2[target].data = e.ino
  BY <1>3 DEF TreeIs, Stands, Ok, Carrier
<1>8. ASSUME Blocked(e.from) \/ Early(id) PROVE Excused(id)'
  <2>1. Blocked(e.from)' = Blocked(e.from) /\ Early(id)' = Early(id)
    <3>1. \A p : Blocked(p)' = Blocked(p)
      BY <1>1, OrderKeeps
    <3> QED
      BY <1>1, <3>1 DEF Early
  <2> QED
    BY <1>1, <1>8, <2>1 DEF Excused
<1>9. ASSUME outcome[e.ref] # "ok", Resolves(id, "fail") PROVE Excused(id)'
  <2>1. outcome'[e.ref] = outcome[e.ref]
    BY <1>2, <1>3, <1>9 DEF Resolves
  <2> QED
    BY <1>1, <1>9, <2>1 DEF Excused
<1>10. CASE /\ target \in DOMAIN tree2 \ {e.rel} /\ IsDir(Parent(e.rel)) /\ Removable(e.rel)
            /\ outcome[e.ref] = "ok" /\ Resolves(id, "ok")
            /\ tree2' = With(e.rel, tree2[target])
  <2>1. tree2' = [q \in DOMAIN tree2 \cup {e.rel} |-> IF q = e.rel THEN tree2[target] ELSE tree2[q]]
    BY <1>10 DEF With
  <2>2. tree2'[e.rel] = tree2[target] /\ e.rel \in DOMAIN tree2'
    BY <2>1
  <2>3. \A q \in DOMAIN tree2 \ {e.rel} : q \in DOMAIN tree2' /\ tree2'[q] = tree2[q]
    BY <2>1
  <2>4. DOMAIN tree2' \subseteq DOMAIN tree2 \cup {e.rel}
    BY <2>1
  <2> QED
    BY <1>6, <1>7, <1>10, <2>2, <2>3, <2>4
<1>11. CASE /\ Resolves(id, "fail") /\ outcome[e.ref] = "ok"
            /\ ~(target \in DOMAIN tree2 \ {e.rel} /\ IsDir(Parent(e.rel)) /\ Removable(e.rel))
            /\ tree2' = IF Removable(e.rel) THEN Unlink(e.rel) ELSE tree2
  <2>1. Excused(id)'
    <3>1. CASE ~IsDir(Parent(e.rel))
      BY <1>2, <1>8, <3>1, HomelessExcused
    <3>2. CASE ~Removable(e.rel)
      <4>1. PICK q \in DOMAIN tree2 : e.rel \in Above(q)
        BY <3>2 DEF Removable
      <4> QED
        BY <1>2, <1>8, <4>1, TakenBlocks
    <3> QED
      BY <1>4, <1>7, <1>11, <3>1, <3>2
  <2>2. /\ \A q \in DOMAIN tree2 \ {e.rel} : q \in DOMAIN tree2' /\ tree2'[q] = tree2[q]
        /\ DOMAIN tree2' \subseteq DOMAIN tree2 \cup {e.rel}
        /\ e.rel \in DOMAIN tree2' => tree2'[e.rel] = tree2[e.rel] /\ e.rel \in DOMAIN tree2
    BY <1>11 DEF Unlink
  <2> QED
    BY <1>6, <1>11, <2>1, <2>2
<1>12. CASE outcome[e.ref] # "ok" /\ Resolves(id, "fail") /\ tree2' = tree2
  <2>1. Excused(id)'
    BY <1>9, <1>12
  <2> QED
    BY <1>6, <1>12, <2>1
<1>13. outcome[e.ref] \notin {"open", "skip"}
  BY <1>3
<1> QED
  BY <1>10, <1>11, <1>12, <1>13 DEF Link

\* The last pass removes nothing that an entry has, with all its directories.
LEMMA PassLeaves ==
  ASSUME WalkInv, ReceiverInv, TreeIs, ~broken, PassOver
  PROVE  Remains'
<1>1. /\ stage = "post" /\ UNCHANGED <<order, entries, mentioned, outcome>>
      /\ tree2' = IF order.delete /\ ManifestDone THEN WithoutDoomed ELSE tree2
  BY DEF PassOver, walkVars
<1>2. ManifestDone
  BY <1>1 DEF ReceiverInv, StageIs
<1>3. CASE ~order.delete
  <2>1. tree2' = tree2
    BY <1>1, <1>3
  <2> QED
    BY <1>1, <1>3, <2>1 DEF Remains, TreeIs, Stands, Data, Ok, Carrier, Rooted
<1>4. CASE order.delete
  <2>1. tree2' = [p \in {q \in DOMAIN tree2 : Doomed \cap (Above(q) \cup {q}) = {}} |-> tree2[p]]
    BY <1>1, <1>2, <1>4 DEF WithoutDoomed
  <2>2. ASSUME NEW id \in DOMAIN entries, outcome[id] \in {"ok", "same"}, Rooted(id) PROVE Stands(id)'
    <3>1. Stands(id) /\ Owner(id)
      BY <2>2, FateIs DEF TreeIs, ReceiverInv
    <3>2. entries[id].rel \in mentioned
      BY <3>1 DEF ReceiverInv, TakenIs, Owner
    <3>3. Doomed \cap (Above(entries[id].rel) \cup {entries[id].rel}) = {}
      BY <2>2, <3>2 DEF Rooted, Doomed
    <3>4. entries[id].rel \in DOMAIN tree2' /\ tree2'[entries[id].rel] = tree2[entries[id].rel]
      BY <2>1, <3>1, <3>3 DEF Stands
    <3> QED
      BY <1>1, <3>1, <3>4 DEF Stands, Data, Ok, Carrier
  <2>3. ASSUME NEW p \in DOMAIN tree2' \ {<<>>} PROVE p \in mentioned \/ tree2'[p].kind = "part"
    <3>1. p \in DOMAIN tree2 /\ p \notin Doomed /\ tree2'[p] = tree2[p]
      BY <2>1
    <3> QED
      BY <3>1 DEF Doomed
  <2> QED
    BY <1>1, <2>2, <2>3 DEF Remains, Rooted
<1> QED
  BY <1>3, <1>4

-----------------------------------------------------------------------------
(* The invariant, and what it says of a run that came to its end *)

MirrorInv == WalkInv /\ ReceiverInv /\ TreeInv /\ FailInv /\ LeftInv

\* At first nothing has come.
LEMMA MirrorInvInit == MirrorInit => MirrorInv
<1> SUFFICES ASSUME MirrorInit PROVE MirrorInv
  OBVIOUS
<1>1. WalkInv /\ ReceiverInv
  BY WalkInit, ReceiverInit
<1>2. tree2 = OldTree /\ entries = <<>> /\ stage = "open"
  BY DEF MirrorInit
<1>3. DOMAIN entries = {}
  BY <1>2, EmptySeq
<1>4. TreeIs /\ FailIs
  BY <1>2, <1>3 DEF TreeIs, FailIs, CameFrom, IsDir
<1> QED
  BY <1>1, <1>2, <1>4 DEF MirrorInv, TreeInv, FailInv, LeftInv

\* After a clean end nothing is decided, put or removed any more.
LEMMA OverStep ==
  ASSUME StageIs, stage = "over", ~broken, [MirrorNext]_mirrorVars
  PROVE  UNCHANGED <<entries, outcome, tree2, mentioned>>
<1>1. agenda = <<>>
  BY DEF StageIs, ManifestDone
<1>2. ~Walking
  BY <1>1 DEF Walking, SkipEntry, Emit, ListDir, WalkStops, AtEntry
<1>3. ~Taking
  BY DEF Taking, TakeDuplicate, TakeDir, TakeFile, TakeLink, TakeEnd, Coming
<1>4. ~(Disconnects \/ PostPass \/ Unwound \/ PassOver)
  BY DEF Disconnects, PostPass, Unwound, PassOver
<1>5. ~\E id \in DOMAIN entries : Land(id) \/ Link(id)
  BY DEF Land, Link
<1>6. CASE \E p \in DOMAIN src : Vanish(p)
  BY <1>6 DEF Vanish, walkVars, recvVars
<1>7. CASE UNCHANGED mirrorVars
  BY <1>7 DEF mirrorVars
<1> QED
  BY <1>2, <1>3, <1>4, <1>5, <1>6, <1>7 DEF MirrorNext

\* While the run goes on, the destination is as it should be.
LEMMA OpenStep ==
  ASSUME WalkInv, ReceiverInv, TreeIs, FailIs, [MirrorNext]_mirrorVars, ~PassOver, Whole
  PROVE  TreeIs' /\ FailIs'
<1>1. EntriesStay
  BY StayStep
<1>2. CASE UNCHANGED <<entries, outcome, tree2>>
  BY <1>1, <1>2, NothingDecided
<1>3. CASE SkipEntry \/ ListDir \/ WalkStops
  BY <1>2, <1>3 DEF SkipEntry, ListDir, WalkStops, recvVars
<1>4. CASE Emit
  BY <1>1, <1>4, EmitUndecided
<1>5. CASE TakeDuplicate \/ TakeFile \/ TakeLink
  BY <1>1, <1>5, TakesUndecided
<1>6. CASE TakeDir
  BY <1>1, <1>6, DirMade
<1>7. CASE TakeEnd
  BY <1>2, <1>7 DEF TakeEnd, walkVars
<1>8. CASE Disconnects \/ PostPass \/ Unwound
  BY <1>2, <1>8 DEF Disconnects, PostPass, Unwound, walkVars, recvVars
<1>9. CASE \E p \in DOMAIN src : Vanish(p)
  BY <1>2, <1>9 DEF Vanish, walkVars, recvVars
<1>10. CASE \E id \in DOMAIN entries : Land(id)
  BY <1>1, <1>10, FileLands
<1>11. CASE \E id \in DOMAIN entries : Link(id)
  <2>1. ~broken
    BY <1>11 DEF Link, Whole
  <2> QED
    BY <1>1, <1>11, <2>1, LinkMade
<1>12. CASE UNCHANGED mirrorVars
  BY <1>2, <1>12 DEF mirrorVars
<1> QED
  BY <1>3, <1>4, <1>5, <1>6, <1>7, <1>8, <1>9, <1>10, <1>11, <1>12 DEF MirrorNext, Walking, Taking

\* Every step keeps the invariant.
LEMMA MirrorInvStep == MirrorInv /\ [MirrorNext]_mirrorVars => MirrorInv'
<1> SUFFICES ASSUME MirrorInv, [MirrorNext]_mirrorVars PROVE MirrorInv'
  OBVIOUS
<1>1. WalkInv /\ ReceiverInv /\ TreeInv /\ FailInv /\ LeftInv
  BY DEF MirrorInv
<1>2. WalkInv' /\ ReceiverInv' /\ EntriesStay
  BY <1>1, WalkStep, ReceiverStep, StayStep
<1>3. /\ Whole' => Whole
      /\ stage = "over" => stage' = "over"
      /\ Whole' /\ stage' = "over" => PassOver \/ stage = "over"
  BY WholeStep
<1>4. ASSUME stage = "over", Whole PROVE UNCHANGED <<entries, outcome, tree2, mentioned>>
  BY <1>1, <1>4, OverStep DEF ReceiverInv, Whole
<1>5. ASSUME Whole' PROVE FailIs'
  <2>1. CASE stage = "over" \/ PassOver
    <3>1. UNCHANGED <<entries, outcome>>
      BY <1>3, <1>4, <1>5, <2>1 DEF PassOver, walkVars
    <3> QED
      BY <1>1, <1>2, <1>3, <1>5, <3>1, FailKeeps DEF FailInv
  <2>2. CASE stage # "over" /\ ~PassOver
    BY <1>1, <1>3, <1>5, <2>2, OpenStep DEF TreeInv, FailInv
  <2> QED
    BY <2>1, <2>2
<1>6. ASSUME Whole', stage' # "over" PROVE TreeIs'
  <2>1. stage # "over" /\ ~PassOver
    BY <1>3, <1>6 DEF PassOver
  <2> QED
    BY <1>1, <1>3, <1>6, <2>1, OpenStep DEF TreeInv, FailInv
<1>7. ASSUME stage' = "over", ~broken' PROVE Remains'
  <2>1. Whole' /\ Whole
    BY <1>3, <1>7 DEF Whole
  <2>2. CASE PassOver
    <3>1. stage = "post" /\ ~broken
      BY <1>7, <2>2 DEF PassOver
    <3>2. TreeIs
      BY <1>1, <2>1, <3>1 DEF TreeInv
    <3> QED
      BY <1>1, <2>2, <3>1, <3>2, PassLeaves
  <2>3. CASE stage = "over"
    <3>1. UNCHANGED <<entries, outcome, tree2, mentioned>> /\ order' = order
      BY <1>2, <1>4, <2>1, <2>3 DEF EntriesStay
    <3>2. Remains
      BY <1>1, <2>1, <2>3 DEF LeftInv, Whole
    <3> QED
      BY <3>1, <3>2 DEF Remains, Rooted, Stands, Data, Ok, Carrier
  <2> QED
    BY <1>3, <1>7, <2>1, <2>2, <2>3
<1> QED
  BY <1>2, <1>5, <1>6, <1>7 DEF MirrorInv, TreeInv, FailInv, LeftInv

\* After a clean end the source has been rebuilt.
LEMMA InvRebuilt == MirrorInv => Rebuilt
<1> SUFFICES ASSUME MirrorInv, Clean PROVE
      /\ \A p \in DOMAIN src : Wanted(p) /\ ~Blocked(p) => Arrived(p)
      /\ \A id \in Ids({"ok", "same"}) : Rooted(id) => InPlace(id)
      /\ order.links => \A i, j \in {id \in Ids({"ok"}) : Data(id) /\ Rooted(id)} :
           (entries[i].ino = entries[j].ino) = SameFile(i, j)
      /\ order.delete => \A p \in DOMAIN tree2 \ {<<>>} : p \in mentioned \/ tree2[p].kind = "part"
  BY DEF Rebuilt
<1>1. WalkInv /\ ReceiverInv /\ stage = "over" /\ ~broken /\ ~stopped /\ Remains /\ FailIs
  BY DEF MirrorInv, Clean, LeftInv, FailInv, Whole
<1>2. ManifestDone /\ \A id \in DOMAIN entries : outcome[id] \notin {"open", "planned"}
  BY <1>1 DEF ReceiverInv, StageIs, Pending
<1>3. ASSUME NEW p \in DOMAIN src, Wanted(p), ~Blocked(p) PROVE Arrived(p)
  <2>1. Covered(p)
    BY <1>1, <1>3 DEF WalkInv, Covering
  <2>2. On(agenda) = {}
    BY <1>2 DEF ManifestDone, On
  <2>3. PICK j \in DOMAIN entries : entries[j].from = p
    BY <2>1, <2>2 DEF Covered
  <2>4. Done(j)
    <3>1. taken > Len(entries) /\ taken \in Nat /\ j \in 1 .. Len(entries) /\ Len(entries) \in Nat
      BY <1>1, <1>2, <2>3, CountIs DEF ReceiverInv, ManifestDone
    <3> QED
      BY <3>1 DEF Done
  <2>5. PICK id \in 1 .. j : Owner(id) /\ entries[id].rel = entries[j].rel
    BY <1>1, <2>3, <2>4 DEF ReceiverInv, TakenIs
  <2>6. id \in DOMAIN entries /\ entries[id].from = p /\ entries[id].rel = Rel(p)
    BY <1>1, <2>3, <2>5, EntriesRelate, EntryIs DEF Owner, Done
  <2>7. outcome[id] \in {"ok", "same", "fail"}
    BY <1>1, <1>2, <2>5, <2>6 DEF ReceiverInv, OutcomeIs, Fate, Resolved
  <2>8. CASE outcome[id] = "fail"
    <3>1. Excused(id)
      BY <1>1, <2>6, <2>8 DEF FailIs
    <3>2. Early(id) \/ Orphaned(id)
      BY <1>3, <2>6, <2>8, <3>1 DEF Excused, Orphaned
    <3> QED
      BY <2>6, <3>2 DEF Arrived
  <2> QED
    BY <2>6, <2>7, <2>8 DEF Arrived
<1>4. ASSUME NEW id \in Ids({"ok", "same"}), Rooted(id) PROVE Stands(id) /\ InPlace(id)
  BY <1>1, <1>4 DEF Remains, Ids, Stands, InPlace
<1>5. ASSUME order.links,
             NEW i \in {id \in Ids({"ok"}) : Data(id) /\ Rooted(id)},
             NEW j \in {id \in Ids({"ok"}) : Data(id) /\ Rooted(id)}
      PROVE  entries[i].ino = entries[j].ino <=> SameFile(i, j)
  <2>1. ASSUME NEW id \in {id \in Ids({"ok"}) : Data(id) /\ Rooted(id)}
        PROVE  /\ tree2[entries[id].rel].obj = Carrier(id) /\ Carrier(id) \in DOMAIN entries
               /\ entries[Carrier(id)].kind = "file" /\ entries[Carrier(id)].ino = entries[id].ino
    <3>1. id \in DOMAIN entries /\ Ok(id) /\ Data(id) /\ Stands(id)
      BY <1>4 DEF Ids, Ok
    <3>2. /\ Carrier(id) \in DOMAIN entries
          /\ entries[Carrier(id)].kind = "file" /\ entries[Carrier(id)].ino = entries[id].ino
      BY <1>1, <3>1, EntryIs DEF Carrier, Data
    <3> QED
      BY <3>1, <3>2 DEF Stands
  <2>2. SameFile(i, j) <=> Carrier(i) = Carrier(j)
    BY <2>1 DEF SameFile
  <2>3. Carrier(i) = Carrier(j) => entries[i].ino = entries[j].ino
    <3>1. entries[i].ino = entries[Carrier(i)].ino /\ entries[j].ino = entries[Carrier(j)].ino
      BY <2>1
    <3> QED
      BY <3>1
  <2>4. ASSUME entries[i].ino = entries[j].ino PROVE Carrier(i) = Carrier(j)
    <3>1. /\ Carrier(i) \in DOMAIN entries /\ entries[Carrier(i)].kind = "file"
          /\ entries[Carrier(i)].ino = entries[i].ino
      BY <2>1
    <3>2. /\ Carrier(j) \in DOMAIN entries /\ entries[Carrier(j)].kind = "file"
          /\ entries[Carrier(j)].ino = entries[j].ino
      BY <2>1
    <3> QED
      BY <1>1, <1>5, <2>4, <3>1, <3>2, SoleCarrier
  <2> QED
    BY <2>2, <2>3, <2>4
<1>6. order.links => \A i, j \in {id \in Ids({"ok"}) : Data(id) /\ Rooted(id)} :
        (entries[i].ino = entries[j].ino) = SameFile(i, j)
  BY <1>5 DEF SameFile
<1> QED
  BY <1>1, <1>3, <1>4, <1>6 DEF Remains

\* A run that came to its end has rebuilt the source: what was asked for and is
\* still there has arrived, with its content and its hardlinks, and --delete has
\* left nothing else but parts.
THEOREM SourceRebuilt == MirrorSpec => []Rebuilt
<1>1. MirrorInit => MirrorInv
  BY MirrorInvInit
<1>2. MirrorInv /\ [MirrorNext]_mirrorVars => MirrorInv'
  BY MirrorInvStep
<1>3. MirrorInv => Rebuilt
  BY InvRebuilt
<1> QED
  BY <1>1, <1>2, <1>3, PTL DEF MirrorSpec

=============================================================================
