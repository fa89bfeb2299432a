-------------------------- MODULE PartLock_proofs ---------------------------
(* One writer per part, and a final file of one version, for any number of   *)
(* sessions, chunks and versions, and whatever is removed, adopted or        *)
(* renamed between two system calls.                                         *)
EXTENDS PartLock, FiniteSetTheorems, TLAPS

(***************************************************************************)
(* A name may go and another file take it, so nothing can be said by name: *)
(* the writer of an inode is the one that has its lock.                    *)
(***************************************************************************)
Inodes == DOMAIN held
Stages == {"start", "open", "lock", "fill", "rename", "prune", "remove", "ok", "fail", "lost"}
USE DEF Stages

PartTypes ==
  /\ \E n \in Nat : DOMAIN body = 1 .. n /\ DOMAIN held = 1 .. n
  /\ \A n \in DOMAIN dir : dir[n] \in Inodes
  /\ pc \in [Sessions -> Stages]
  /\ fd \in [Sessions -> Nat]
  /\ held = [i \in Inodes |-> held[i]] /\ body = [i \in Inodes |-> body[i]]

\* A session opens before it locks, and holds the lock of what it fills.
Locked ==
  \A s \in Sessions :
    /\ pc[s] \in {"lock", "fill"} => fd[s] \in Inodes
    /\ pc[s] = "fill" => held[fd[s]] = s

LockInv == PartTypes /\ Locked

-----------------------------------------------------------------------------

\* The next inode is new.
LEMMA NextInode ==
  ASSUME NEW n \in Nat, DOMAIN body = 1 .. n
  PROVE  Cardinality(DOMAIN body) + 1 = n + 1 /\ n + 1 \notin 1 .. n
<1>1. Cardinality(1 .. n) = n
  BY FS_Interval
<1> QED
  BY <1>1

\* The sessions open nothing at first.
LEMMA LockInit == ASSUME PartInit PROVE LockInv
<1>1. PICK v \in OldFinal :
        LET ns == (IF v = 0 THEN {} ELSE {Final}) \cup (IF OldPart THEN {Left} ELSE {})
        IN /\ dir = [n \in ns |-> IF n = Final \/ v = 0 THEN 1 ELSE 2]
           /\ body = [i \in 1 .. Cardinality(ns) |-> IF v # 0 /\ i = 1 THEN Whole(v) ELSE Blank]
           /\ held = [i \in 1 .. Cardinality(ns) |-> Nobody]
  BY DEF PartInit
<1> DEFINE ns == (IF v = 0 THEN {} ELSE {Final}) \cup (IF OldPart THEN {Left} ELSE {})
<1>2. /\ dir = [n \in ns |-> IF n = Final \/ v = 0 THEN 1 ELSE 2]
      /\ body = [i \in 1 .. Cardinality(ns) |-> IF v # 0 /\ i = 1 THEN Whole(v) ELSE Blank]
      /\ held = [i \in 1 .. Cardinality(ns) |-> Nobody]
  BY <1>1
<1>3. /\ Cardinality(ns) \in Nat
      /\ \A n \in ns : (IF n = Final \/ v = 0 THEN 1 ELSE 2) \in 1 .. Cardinality(ns)
  <2>1. Cardinality({}) = 0 /\ Cardinality({Final}) = 1 /\ Cardinality({Left}) = 1
    BY FS_EmptySet, FS_Singleton
  <2>2. Cardinality({Final} \cup {Left}) = 2
    <3>1. Left \notin {Final} /\ IsFiniteSet({Final})
      BY FS_Singleton DEF Left, Final
    <3>2. Cardinality({Final} \cup {Left}) = Cardinality({Final}) + 1
      BY <3>1, FS_AddElement
    <3> QED
      BY <2>1, <3>2
  <2>3. CASE v = 0 /\ OldPart
    <3>1. ns = {Left}
      BY <2>3
    <3> QED
      BY <2>1, <2>3, <3>1
  <2>4. CASE v = 0 /\ ~OldPart
    <3>1. ns = {}
      BY <2>4
    <3> QED
      BY <2>1, <2>4, <3>1
  <2>5. CASE v # 0 /\ OldPart
    <3>1. ns = {Final} \cup {Left}
      BY <2>5
    <3> QED
      BY <2>2, <2>5, <3>1
  <2>6. CASE v # 0 /\ ~OldPart
    <3>1. ns = {Final}
      BY <2>6
    <3> QED
      BY <2>1, <2>6, <3>1
  <2> QED
    BY <2>3, <2>4, <2>5, <2>6
<1> HIDE DEF ns
<1>4. PartTypes
  BY <1>2, <1>3 DEF PartTypes, Inodes, PartInit
<1>5. Locked
  BY DEF Locked, PartInit
<1> QED
  BY <1>4, <1>5 DEF LockInv

\* A session that takes a free lock displaces nobody: the others hold theirs.
LEMMA TakesLock ==
  ASSUME LockInv, NEW s \in Sessions, NEW i \in Inodes, CanLock(i), NEW to \in {"fill", "remove"},
         held' = [held EXCEPT ![i] = s], fd' = [fd EXCEPT ![s] = i], pc' = [pc EXCEPT ![s] = to]
  PROVE  Locked' /\ Inodes' = Inodes
<1>1. Inodes' = Inodes /\ held'[i] = s /\ \A j \in Inodes : j # i => held'[j] = held[j]
  BY DEF LockInv, PartTypes, Inodes
<1>2. fd'[s] = i /\ pc'[s] = to
  BY DEF LockInv, PartTypes
<1>3. ASSUME NEW t \in Sessions, t # s
      PROVE  /\ fd'[t] = fd[t] /\ pc'[t] = pc[t]
             /\ pc[t] = "fill" => fd[t] # i
  BY <1>3, PartAssumption DEF LockInv, PartTypes, Locked, CanLock
<1> QED
  BY <1>1, <1>2, <1>3 DEF Locked, LockInv

\* A session that lets go of its lock lets go of no other's.
LEMMA LetsGo ==
  ASSUME LockInv, NEW s \in Sessions, NEW to \in {"rename", "prune", "lost"},
         held' = Unlocked(s), fd' = [fd EXCEPT ![s] = 0], pc' = [pc EXCEPT ![s] = to],
         UNCHANGED body, \A n \in DOMAIN dir' : dir'[n] \in {dir[m] : m \in DOMAIN dir}
  PROVE  LockInv'
<1>1. Inodes' = Inodes
  BY DEF Unlocked, Inodes
<1>2. PartTypes'
  BY <1>1 DEF LockInv, PartTypes, Unlocked, Inodes
<1>3. Locked'
  BY <1>1, PartAssumption DEF LockInv, PartTypes, Locked, Unlocked, Inodes
<1> QED
  BY <1>2, <1>3 DEF LockInv

\* A step that neither locks nor opens, and gives no name to another file than
\* one there is.
LEMMA NamesOnly ==
  ASSUME LockInv, NEW s \in Sessions, NEW to \in {"open", "prune", "ok", "fail"},
         pc' = [pc EXCEPT ![s] = to], UNCHANGED <<body, held, fd>>,
         \A n \in DOMAIN dir' : dir'[n] \in {dir[m] : m \in DOMAIN dir}
  PROVE  LockInv'
<1>1. Inodes' = Inodes
  BY DEF Inodes
<1>2. PartTypes'
  BY <1>1 DEF LockInv, PartTypes, Inodes
<1>3. Locked'
  BY <1>1 DEF LockInv, PartTypes, Locked
<1> QED
  BY <1>2, <1>3 DEF LockInv

\* Open: a file of its own when the name is not there.
LEMMA OpenInv == ASSUME LockInv, NEW s \in Sessions, Open(s) PROVE LockInv'
<1> DEFINE i == Cardinality(DOMAIN body) + 1
<1>0. PICK n \in Nat : DOMAIN body = 1 .. n /\ DOMAIN held = 1 .. n
  BY DEF LockInv, PartTypes
<1>1. i = n + 1 /\ n + 1 \notin 1 .. n
  BY <1>0, NextInode
<1>2. CASE part[s] \in DOMAIN dir
  <2>1. fd' = [fd EXCEPT ![s] = dir[part[s]]] /\ UNCHANGED <<dir, body, held>>
    BY <1>2 DEF Open
  <2>2. dir[part[s]] \in Inodes /\ dir[part[s]] \in Nat
    BY <1>0, <1>2 DEF LockInv, PartTypes, Inodes
  <2>3. PartTypes'
    BY <2>1, <2>2 DEF LockInv, PartTypes, Inodes, Open, Go
  <2>4. Locked'
    BY <2>1, <2>2 DEF LockInv, PartTypes, Locked, Inodes, Open, Go
  <2> QED
    BY <2>3, <2>4 DEF LockInv
<1>3. CASE part[s] \notin DOMAIN dir
  <2>1. /\ dir' = Linked(part[s], i)
        /\ body' = [j \in 1 .. i |-> IF j = i THEN Blank ELSE body[j]]
        /\ held' = [j \in 1 .. i |-> IF j = i THEN Nobody ELSE held[j]]
        /\ fd' = [fd EXCEPT ![s] = i] /\ pc' = [pc EXCEPT ![s] = "lock"]
    BY <1>3 DEF Open, Go
  <2> HIDE DEF i
  <2>2. DOMAIN held' = 1 .. n + 1 /\ DOMAIN body' = 1 .. n + 1 /\ i \in Inodes' /\ i \in Nat
    BY <1>1, <2>1 DEF Inodes
  <2>3. \A j \in Inodes : j \in Inodes' /\ held'[j] = held[j]
    BY <1>0, <1>1, <2>1 DEF Inodes
  <2>4. \A m \in DOMAIN dir' : dir'[m] \in Inodes'
    BY <2>1, <2>2, <2>3 DEF Linked, LockInv, PartTypes
  <2>5. held' = [j \in Inodes' |-> held'[j]] /\ body' = [j \in Inodes' |-> body'[j]]
    BY <2>1, <2>2 DEF Inodes
  <2>6. PartTypes'
    BY <2>1, <2>2, <2>4, <2>5 DEF LockInv, PartTypes
  <2>7. Locked'
    BY <2>1, <2>2, <2>3 DEF LockInv, PartTypes, Locked
  <2> QED
    BY <2>6, <2>7 DEF LockInv
<1> QED
  BY <1>2, <1>3

\* AdoptFinal: the final file becomes the part, under its lock.
LEMMA AdoptInv == ASSUME LockInv, NEW s \in Sessions, AdoptFinal(s) PROVE LockInv'
<1>1. /\ dir[Final] \in Inodes /\ dir[Final] \in Nat /\ CanLock(dir[Final])
      /\ held' = [held EXCEPT ![dir[Final]] = s] /\ fd' = [fd EXCEPT ![s] = dir[Final]]
      /\ pc' = [pc EXCEPT ![s] = "fill"] /\ UNCHANGED <<dir, body>>
  BY DEF AdoptFinal, Adoptable, Go, LockInv, PartTypes, Inodes
<1>2. Locked' /\ Inodes' = Inodes
  BY <1>1, TakesLock
<1>3. PartTypes'
  BY <1>1, <1>2 DEF LockInv, PartTypes, Inodes
<1> QED
  BY <1>2, <1>3 DEF LockInv

\* Lock: what it has open is what it locks.
LEMMA LocksInv == ASSUME LockInv, NEW s \in Sessions, Lock(s) PROVE LockInv'
<1>1. /\ fd[s] \in Inodes /\ CanLock(fd[s])
      /\ held' = [held EXCEPT ![fd[s]] = s] /\ fd' = [fd EXCEPT ![s] = fd[s]]
      /\ pc' = [pc EXCEPT ![s] = "fill"] /\ UNCHANGED <<dir, body>>
  BY DEF Lock, Go, LockInv, PartTypes, Locked
<1>2. Locked' /\ Inodes' = Inodes
  BY <1>1, TakesLock
<1>3. PartTypes'
  BY <1>1, <1>2 DEF LockInv, PartTypes, Inodes
<1> QED
  BY <1>2, <1>3 DEF LockInv

\* LockStale: what has the listed name is what is locked.
LEMMA StaleInv ==
  ASSUME LockInv, NEW s \in Sessions, NEW n \in PartNames, LockStale(s, n) PROVE LockInv'
<1>1. /\ dir[n] \in Inodes /\ dir[n] \in Nat /\ CanLock(dir[n])
      /\ held' = [held EXCEPT ![dir[n]] = s] /\ fd' = [fd EXCEPT ![s] = dir[n]]
      /\ pc' = [pc EXCEPT ![s] = "remove"] /\ UNCHANGED <<dir, body>>
  BY DEF LockStale, Go, LockInv, PartTypes, Inodes
<1>2. Locked' /\ Inodes' = Inodes
  BY <1>1, TakesLock
<1>3. PartTypes'
  BY <1>1, <1>2 DEF LockInv, PartTypes, Inodes
<1> QED
  BY <1>2, <1>3 DEF LockInv

\* LockRefused: nothing is open any more.
LEMMA RefusedInv == ASSUME LockInv, NEW s \in Sessions, LockRefused(s) PROVE LockInv'
<1>1. PICK to \in {"open", "fail"} : pc' = [pc EXCEPT ![s] = to]
  BY DEF LockRefused, Go
<1>2. fd' = [fd EXCEPT ![s] = 0] /\ UNCHANGED <<dir, body, held>> /\ Inodes' = Inodes
  BY DEF LockRefused, Inodes
<1>3. PartTypes' /\ Locked'
  BY <1>1, <1>2 DEF LockInv, PartTypes, Locked
<1> QED
  BY <1>3 DEF LockInv

\* Write: what is in the file is of no account.
LEMMA WriteLockInv ==
  ASSUME LockInv, NEW s \in Sessions, NEW c \in Pieces, Write(s, c) PROVE LockInv'
<1>1. UNCHANGED <<dir, held, pc, fd>> /\ Inodes' = Inodes
      /\ DOMAIN body' = DOMAIN body /\ body' = [i \in Inodes |-> body'[i]]
  BY DEF Write, LockInv, PartTypes, Inodes
<1>2. PartTypes' /\ Locked'
  BY <1>1 DEF LockInv, PartTypes, Locked
<1> QED
  BY <1>2 DEF LockInv

\* A step of any session keeps the invariant.
LEMMA StepInv == ASSUME LockInv, NEW s \in Sessions, PartSteps(s) \/ Lose(s) PROVE LockInv'
<1>1. CASE Skip(s)
  BY <1>1, NamesOnly DEF Skip, Go
<1>2. CASE AdoptFinal(s)
  BY <1>2, AdoptInv
<1>3. CASE Discover(s)
  BY <1>3, NamesOnly DEF Discover, Go, Unlinked
<1>4. CASE Open(s)
  BY <1>4, OpenInv
<1>5. CASE Lock(s) \/ LockRefused(s)
  BY <1>5, LocksInv, RefusedInv
<1>6. CASE \E c \in Pieces : Write(s, c)
  BY <1>6, WriteLockInv
<1>7. CASE ClosePart(s) \/ Lose(s) \/ RemovePart(s)
  BY <1>7, LetsGo DEF ClosePart, Lose, RemovePart, Unlinked, Go
<1>8. CASE Rename(s)
  BY <1>8, NamesOnly DEF Rename, Renamed, Go
<1>9. CASE PruneEnds(s) \/ \E n \in PartNames : Pass(s, n)
  <2>1. pc' = [pc EXCEPT ![s] = "prune"] \/ pc' = [pc EXCEPT ![s] = "ok"]
    BY <1>9 DEF PruneEnds, Pass, Go, LockInv, PartTypes
  <2> QED
    BY <1>9, <2>1, NamesOnly DEF PruneEnds, Pass
<1>10. CASE \E n \in PartNames : LockStale(s, n)
  BY <1>10, StaleInv
<1> QED
  BY <1>1, <1>2, <1>3, <1>4, <1>5, <1>6, <1>7, <1>8, <1>9, <1>10 DEF PartSteps

-----------------------------------------------------------------------------

\* The invariant holds throughout.
THEOREM LockInvariant == PartSpec => []LockInv
<1>1. PartInit => LockInv
  BY LockInit
<1>2. ASSUME LockInv, [PartNext]_partVars PROVE LockInv'
  <2>1. CASE UNCHANGED partVars
    BY <1>2, <2>1 DEF partVars, LockInv, PartTypes, Locked, Inodes
  <2>2. CASE PartNext
    BY <1>2, <2>2, StepInv DEF PartNext
  <2> QED
    BY <1>2, <2>1, <2>2
<1> QED
  BY <1>1, <1>2, PTL DEF PartSpec

\* No two sessions write into one file, though names are removed, taken by
\* another file and renamed between any two of their calls (receiver.go:721-725).
THEOREM PartsExclusive == PartSpec => []OneWriter
<1>1. LockInv => OneWriter
  BY DEF LockInv, Locked, OneWriter
<1> QED
  BY <1>1, LockInvariant, PTL

-----------------------------------------------------------------------------
(***************************************************************************)
(* The file in place is whole.                                             *)
(*                                                                         *)
(* A rename moves whatever has the name by then, which another session may *)
(* have created a moment ago and not yet locked.  What saves the file is   *)
(* that somebody will still fill it: a file that is, or may become, the    *)
(* final one is covered, by being whole, or by a session that has it open. *)
(* Nobody lets a covered file go uncovered: a session that is refused a    *)
(* lock leaves the file to the one that fills it (Holders; not to one that *)
(* only removes it, hence `jostled`), and one that closes has put its own  *)
(* version into every piece (FillHas).                                     *)
(***************************************************************************)
Versions == {Source[s] : s \in Sessions} \cup OldFinal \cup {0}

WholeTypes ==
  /\ body \in [Inodes -> [Pieces -> Versions]]
  /\ held \in [Inodes -> Sessions \cup {Nobody}]
  /\ part \in [Sessions -> PartNames \cup {Final}] /\ have \in [Sessions -> SUBSET Pieces]
  /\ index \in [Sessions -> SUBSET PartNames]
  /\ \A s \in Sessions : pc[s] \in {"open", "lock", "remove"} => part[s] \in PartNames

\* A lock is that of a session filling the file, or removing its name.
Holders ==
  \A i \in Inodes : held[i] # Nobody => pc[held[i]] \in {"fill", "remove"} /\ fd[held[i]] = i

\* What a session has, it has in the file it fills.
FillHas == \A s \in Sessions : pc[s] = "fill" => \A c \in have[s] : body[fd[s]][c] = Source[s]

Cover(i) ==
  \/ \E s \in Sessions : body[i] = Whole(Source[s])
  \/ \E s \in Sessions : pc[s] \in {"lock", "fill"} /\ fd[s] = i

FinalCovered ==
  Final \in DOMAIN dir => Cover(dir[Final]) \/ \A s \in Sessions : pc[s] = "start"

\* What a session will rename is covered, whoever has made it.
PartsCovered ==
  \A s \in Sessions :
    pc[s] \in {"lock", "fill", "rename"} /\ part[s] \in DOMAIN dir \ {Final} => Cover(dir[part[s]])

Calm == ~jostled /\ \A s \in Sessions : pc[s] # "lost"

WholeInv == WholeTypes /\ Holders /\ FillHas /\ (Calm => FinalCovered /\ PartsCovered)

\* No name of a part, and no session, is the final file's or nobody.
LEMMA PlainNames == Final \notin PartNames /\ Nobody \notin Sessions /\ \A s \in Sessions : s \in PartNames
BY PartAssumption DEF PartNames, Final, Left

\* Nobody has started: the files are of old versions.
LEMMA WholeInit == ASSUME PartInit, LockInv PROVE WholeInv
<1>1. /\ pc = [s \in Sessions |-> "start"] /\ part = [s \in Sessions |-> Final]
      /\ have = [s \in Sessions |-> {}] /\ index = [s \in Sessions |-> {}]
  BY DEF PartInit
<1>2. PICK v \in OldFinal, n \in {Cardinality(ns) : ns \in SUBSET {Final, Left}} :
        /\ body = [i \in 1 .. n |-> IF v # 0 /\ i = 1 THEN Whole(v) ELSE Blank]
        /\ held = [i \in 1 .. n |-> Nobody]
  <2>1. PICK v \in OldFinal :
          LET ns == (IF v = 0 THEN {} ELSE {Final}) \cup (IF OldPart THEN {Left} ELSE {})
          IN /\ body = [i \in 1 .. Cardinality(ns) |-> IF v # 0 /\ i = 1 THEN Whole(v) ELSE Blank]
             /\ held = [i \in 1 .. Cardinality(ns) |-> Nobody]
    BY DEF PartInit
  <2> DEFINE ns == (IF v = 0 THEN {} ELSE {Final}) \cup (IF OldPart THEN {Left} ELSE {})
  <2>2. ns \in SUBSET {Final, Left}
    OBVIOUS
  <2> QED
    BY <2>1, <2>2
<1>3. Whole(v) \in [Pieces -> Versions] /\ Blank \in [Pieces -> Versions]
  BY DEF Whole, Blank, Versions
<1>4. body \in [Inodes -> [Pieces -> Versions]] /\ held \in [Inodes -> Sessions \cup {Nobody}]
  BY <1>2, <1>3 DEF Inodes
<1>5. WholeTypes
  BY <1>1, <1>4 DEF WholeTypes
<1>6. Holders
  BY <1>2 DEF Holders, Inodes
<1>7. FillHas /\ FinalCovered /\ PartsCovered
  BY <1>1 DEF FillHas, FinalCovered, PartsCovered
<1> QED
  BY <1>5, <1>6, <1>7 DEF WholeInv

\* A covered file stays covered, unless a session is lost.
LEMMA CoverKept ==
  ASSUME LockInv, WholeInv, NEW s \in Sessions, PartSteps(s), ~jostled', NEW i \in Inodes, Cover(i)
  PROVE  Cover(i)'
<1>1. \A t \in Sessions \ {s} : pc'[t] = pc[t] /\ fd'[t] = fd[t]
  BY DEF PartSteps, Skip, AdoptFinal, Discover, Open, Lock, LockRefused, Write, ClosePart, Rename,
     Pass, LockStale, RemovePart, PruneEnds, Go, LockInv, PartTypes
<1>2. CASE \E t \in Sessions \ {s} : pc[t] \in {"lock", "fill"} /\ fd[t] = i
  BY <1>1, <1>2 DEF Cover
<1>3. CASE pc[s] = "lock" /\ fd[s] = i
  <2>1. Lock(s) \/ LockRefused(s)
    BY <1>3 DEF PartSteps, Skip, AdoptFinal, Discover, Open, Write, ClosePart, Rename,
         Pass, LockStale, RemovePart, PruneEnds
  <2>2. CASE Lock(s)
    <3>1. pc'[s] = "fill" /\ fd'[s] = i
      BY <1>3, <2>2 DEF Lock, Go, LockInv, PartTypes
    <3> QED
      BY <3>1 DEF Cover
  <2>3. CASE LockRefused(s)
    <3>1. held[i] # Nobody
      BY <1>3, <2>3 DEF LockRefused, CanLock
    <3>2. PICK u \in Sessions : u = held[i] /\ pc[u] = "fill" /\ fd[u] = i
      BY <1>3, <2>3, <3>1 DEF WholeInv, WholeTypes, Holders, LockRefused
    <3>3. u \in Sessions \ {s}
      BY <1>3, <3>2
    <3> QED
      BY <3>2, <3>3, <1>1 DEF Cover
  <2> QED
    BY <2>1, <2>2, <2>3
<1>4. CASE pc[s] = "fill" /\ fd[s] = i
  <2>1. (\E c \in Pieces : Write(s, c)) \/ ClosePart(s)
    BY <1>4 DEF PartSteps, Skip, AdoptFinal, Discover, Open, Lock, LockRefused, Rename,
         Pass, LockStale, RemovePart, PruneEnds
  <2>2. CASE \E c \in Pieces : Write(s, c)
    BY <1>4, <2>2 DEF Write, Cover
  <2>3. CASE ClosePart(s)
    <3>1. body' = body /\ have[s] = Pieces
      BY <2>3 DEF ClosePart
    <3>2. body[i] \in [Pieces -> Versions] /\ \A c \in Pieces : body[i][c] = Source[s]
      BY <1>4, <3>1 DEF WholeInv, WholeTypes, FillHas
    <3>3. body[i] = Whole(Source[s])
      BY <3>2 DEF Whole
    <3> QED
      BY <3>1, <3>3 DEF Cover
  <2> QED
    BY <2>1, <2>2, <2>3
<1>5. CASE (\E t \in Sessions : body[i] = Whole(Source[t])) /\ ~(pc[s] \in {"lock", "fill"} /\ fd[s] = i)
  <2>1. body'[i] = body[i]
    <3>1. CASE \E c \in Pieces : Write(s, c)
      <4>1. pc[s] = "fill" /\ fd[s] # i
        BY <1>5, <3>1 DEF Write
      <4> QED
        BY <3>1, <4>1 DEF Write, WholeInv, WholeTypes
    <3>2. CASE Open(s)
      <4>1. PICK n \in Nat : DOMAIN body = 1 .. n /\ DOMAIN held = 1 .. n
        BY DEF LockInv, PartTypes
      <4>2. Cardinality(DOMAIN body) + 1 = n + 1 /\ n + 1 \notin 1 .. n /\ i \in 1 .. n
        BY <4>1, NextInode DEF Inodes
      <4>3. \/ body' = body
            \/ body' = [j \in 1 .. n + 1 |-> IF j = n + 1 THEN Blank ELSE body[j]]
        BY <3>2, <4>2 DEF Open
      <4> QED
        BY <4>2, <4>3
    <3>3. CASE ~Open(s) /\ ~\E c \in Pieces : Write(s, c)
      BY <3>3 DEF PartSteps, Skip, AdoptFinal, Discover, Lock, LockRefused, ClosePart, Rename,
         Pass, LockStale, RemovePart, PruneEnds
    <3> QED
      BY <3>1, <3>2, <3>3
  <2> QED
    BY <1>5, <2>1 DEF Cover
<1> QED
  BY <1>2, <1>3, <1>4, <1>5 DEF Cover


\* Opening makes one file more, or none: those there are stay as they are.
LEMMA OldFiles ==
  ASSUME LockInv, NEW s \in Sessions, Open(s)
  PROVE  /\ \A i \in Inodes : i \in Inodes' /\ body'[i] = body[i] /\ held'[i] = held[i]
         /\ \A i \in Inodes' \ Inodes : body'[i] = Blank /\ held'[i] = Nobody /\ fd'[s] = i
         /\ DOMAIN body' = Inodes' /\ body' = [i \in Inodes' |-> body'[i]]
         /\ held' = [i \in Inodes' |-> held'[i]]
         /\ pc' = [pc EXCEPT ![s] = "lock"] /\ pc[s] = "open" /\ UNCHANGED <<part, have, index>>
         /\ \A t \in Sessions \ {s} : fd'[t] = fd[t]
<1>1. PICK n \in Nat : DOMAIN body = 1 .. n /\ DOMAIN held = 1 .. n
  BY DEF LockInv, PartTypes
<1>2. Cardinality(DOMAIN body) + 1 = n + 1 /\ n + 1 \notin 1 .. n
  BY <1>1, NextInode
<1>3. pc' = [pc EXCEPT ![s] = "lock"] /\ pc[s] = "open" /\ UNCHANGED <<part, have, index>>
  BY DEF Open, Go
<1>4. \A t \in Sessions \ {s} : fd'[t] = fd[t]
  BY DEF Open, LockInv, PartTypes
<1>5. CASE part[s] \in DOMAIN dir
  <2>1. UNCHANGED <<body, held>>
    BY <1>5 DEF Open
  <2>2. Inodes' = Inodes
    BY <2>1 DEF Inodes
  <2> QED
    BY <1>1, <1>3, <1>4, <2>1, <2>2 DEF LockInv, PartTypes, Inodes
<1>6. CASE part[s] \notin DOMAIN dir
  <2>1. /\ body' = [j \in 1 .. n + 1 |-> IF j = n + 1 THEN Blank ELSE body[j]]
        /\ held' = [j \in 1 .. n + 1 |-> IF j = n + 1 THEN Nobody ELSE held[j]]
        /\ fd' = [fd EXCEPT ![s] = n + 1]
    BY <1>2, <1>6 DEF Open
  <2>2. Inodes' = 1 .. n + 1 /\ Inodes = 1 .. n
    BY <1>1, <2>1 DEF Inodes
  <2>3. \A i \in Inodes : i \in Inodes' /\ i # n + 1 /\ body'[i] = body[i] /\ held'[i] = held[i]
    BY <1>1, <2>1, <2>2
  <2>4. fd'[s] = n + 1
    BY <2>1 DEF LockInv, PartTypes
  <2>5. \A i \in Inodes' \ Inodes : i = n + 1
    BY <2>2
  <2>6. \A i \in Inodes' \ Inodes : body'[i] = Blank /\ held'[i] = Nobody /\ fd'[s] = i
    BY <2>1, <2>2, <2>4, <2>5
  <2> QED
    BY <1>3, <1>4, <2>1, <2>2, <2>3, <2>6
<1> QED
  BY <1>5, <1>6

\* A step keeps the types.
LEMMA WholeTypesStep ==
  ASSUME LockInv, WholeInv, NEW s \in Sessions, PartSteps(s) \/ Lose(s) PROVE WholeTypes'
<1> USE DEF WholeInv, WholeTypes
<1>1. CASE Skip(s) \/ Rename(s) \/ PruneEnds(s) \/ \E n \in PartNames : Pass(s, n)
  <2>1. UNCHANGED <<body, held, part, have>> /\ Inodes' = Inodes
        /\ \E to \in {"prune", "ok", "fail"} : pc' = [pc EXCEPT ![s] = to]
    <3>1. CASE \E n \in PartNames : Pass(s, n)
      <4>1. pc' = [pc EXCEPT ![s] = "prune"]
        BY <3>1 DEF Pass, LockInv, PartTypes
      <4> QED
        BY <3>1, <4>1 DEF Pass, Inodes
    <3> QED
      BY <1>1, <3>1 DEF Skip, Rename, PruneEnds, Go, Inodes
  <2>2. index' \in [Sessions -> SUBSET PartNames]
    BY <1>1 DEF Skip, Rename, PruneEnds, Pass
  <2> QED
    BY <2>1, <2>2 DEF LockInv, PartTypes
<1>2. CASE AdoptFinal(s)
  <2>1. dir[Final] \in Inodes
    BY <1>2 DEF AdoptFinal, Adoptable, LockInv, PartTypes
  <2> QED
    BY <1>2, <2>1 DEF AdoptFinal, Go, Inodes, LockInv, PartTypes, Matches
<1>3. CASE Discover(s)
  <2>1. pc' = [pc EXCEPT ![s] = "open"] /\ UNCHANGED <<body, held, have>>
        /\ \E n \in PartNames : part' = [part EXCEPT ![s] = n]
        /\ \E ns \in SUBSET PartNames : index' = [index EXCEPT ![s] = ns]
    <3>1. CASE DOMAIN dir \cap PartNames = {}
      BY <1>3, <3>1, PlainNames DEF Discover, Go
    <3>2. CASE DOMAIN dir \cap PartNames # {}
      BY <1>3, <3>2 DEF Discover, Go
    <3> QED
      BY <3>1, <3>2
  <2> QED
    BY <2>1 DEF Inodes, LockInv, PartTypes
<1>4. CASE Open(s)
  <2>1. Blank \in [Pieces -> Versions]
    BY DEF Blank, Versions
  <2>2. \A i \in Inodes' : body'[i] \in [Pieces -> Versions] /\ held'[i] \in Sessions \cup {Nobody}
    BY <1>4, <2>1, OldFiles
  <2>3. body' \in [Inodes' -> [Pieces -> Versions]] /\ held' \in [Inodes' -> Sessions \cup {Nobody}]
    BY <1>4, <2>2, OldFiles
  <2>4. UNCHANGED <<part, have, index>> /\ pc' = [pc EXCEPT ![s] = "lock"] /\ pc[s] = "open"
    BY <1>4, OldFiles
  <2> QED
    BY <2>3, <2>4 DEF LockInv, PartTypes
<1>5. CASE Lock(s)
  <2>1. fd[s] \in Inodes
    BY <1>5 DEF Lock, LockInv, Locked
  <2> QED
    BY <1>5, <2>1 DEF Lock, Go, Inodes, LockInv, PartTypes, Matches
<1>6. CASE LockRefused(s)
  BY <1>6, PlainNames DEF LockRefused, Fallback, Go, Inodes, LockInv, PartTypes
<1>7. ASSUME NEW c \in Pieces, Write(s, c) PROVE WholeTypes'
  <2>1. Source[s] \in Versions /\ fd[s] \in Inodes
    BY <1>7 DEF Versions, Write, LockInv, Locked
  <2>2. body' \in [Inodes -> [Pieces -> Versions]]
    BY <1>7, <2>1 DEF Write
  <2> QED
    BY <1>7, <2>2 DEF Write, Inodes
<1>8. CASE ClosePart(s) \/ Lose(s) \/ RemovePart(s)
  <2>1. held' \in [Inodes -> Sessions \cup {Nobody}] /\ Inodes' = Inodes
    BY <1>8 DEF ClosePart, Lose, RemovePart, Unlocked, Inodes
  <2> QED
    BY <1>8, <2>1 DEF ClosePart, Lose, RemovePart, Go, LockInv, PartTypes
<1>9. ASSUME NEW n \in PartNames, LockStale(s, n) PROVE WholeTypes'
  <2>1. dir[n] \in Inodes
    BY <1>9 DEF LockStale, LockInv, PartTypes
  <2> QED
    BY <1>9, <2>1 DEF LockStale, Go, Inodes, LockInv, PartTypes
<1> QED
  BY <1>1, <1>2, <1>3, <1>4, <1>5, <1>6, <1>7, <1>8, <1>9 DEF PartSteps

\* A step keeps locks with those who fill.
LEMMA HoldersStep ==
  ASSUME LockInv, WholeInv, NEW s \in Sessions, PartSteps(s) \/ Lose(s) PROVE Holders'
<1>0. /\ held \in [Inodes -> Sessions \cup {Nobody}] /\ Nobody \notin Sessions
      /\ \A i \in Inodes : held[i] # Nobody =>
           held[i] \in Sessions /\ pc[held[i]] \in {"fill", "remove"} /\ fd[held[i]] = i
      /\ pc \in [Sessions -> Stages]
      /\ fd \in [Sessions -> Nat]
  BY PlainNames DEF WholeInv, WholeTypes, Holders, LockInv, PartTypes
<1>1. CASE Skip(s) \/ Discover(s) \/ Rename(s) \/ PruneEnds(s) \/ \E n \in PartNames : Pass(s, n)
  <2>1. /\ UNCHANGED <<held, fd>> /\ pc[s] \notin {"fill", "remove"}
        /\ \A t \in Sessions \ {s} : pc'[t] = pc[t]
    BY <1>0, <1>1 DEF Skip, Discover, Rename, PruneEnds, Pass, Go
  <2> QED
    BY <1>0, <2>1 DEF Holders, Inodes
<1>2. CASE Open(s)
  <2>1. \A i \in Inodes' : held'[i] # Nobody => i \in Inodes /\ held'[i] = held[i]
    BY <1>2, OldFiles
  <2>2. pc[s] \notin {"fill", "remove"} /\ \A t \in Sessions \ {s} : pc'[t] = pc[t] /\ fd'[t] = fd[t]
    BY <1>0, <1>2, OldFiles
  <2> QED
    BY <1>0, <2>1, <2>2 DEF Holders
<1>3. CASE AdoptFinal(s) \/ Lock(s) \/ \E n \in PartNames : LockStale(s, n)
  <2> DEFINE Takes(k) == /\ held[k] = Nobody /\ held' = [held EXCEPT ![k] = s]
                         /\ fd'[s] = k /\ pc'[s] \in {"fill", "remove"}
                         /\ pc[s] \notin {"fill", "remove"}
                         /\ \A t \in Sessions \ {s} : pc'[t] = pc[t] /\ fd'[t] = fd[t]
  <2>0. \E k \in Inodes : Takes(k)
    <3>1. CASE AdoptFinal(s)
      <4>1. dir[Final] \in Inodes
        BY <3>1 DEF AdoptFinal, Adoptable, LockInv, PartTypes
      <4> QED
        BY <1>0, <3>1, <4>1 DEF AdoptFinal, Adoptable, CanLock, Go
    <3>2. CASE Lock(s)
      <4>1. fd[s] \in Inodes
        BY <3>2 DEF Lock, LockInv, Locked
      <4> QED
        BY <1>0, <3>2, <4>1 DEF Lock, CanLock, Go
    <3>3. ASSUME NEW n \in PartNames, LockStale(s, n) PROVE \E k \in Inodes : Takes(k)
      <4>1. dir[n] \in Inodes
        BY <3>3 DEF LockStale, LockInv, PartTypes
      <4> QED
        BY <1>0, <3>3, <4>1 DEF LockStale, CanLock, Go
    <3> QED
      BY <1>3, <3>1, <3>2, <3>3
  <2>1. PICK k \in Inodes : Takes(k)
    BY <2>0
  <2>2. Inodes' = Inodes /\ held'[k] = s /\ \A i \in Inodes \ {k} : held'[i] = held[i]
    BY <1>0, <2>1 DEF Inodes
  <2> QED
    BY <1>0, <2>1, <2>2 DEF Holders
<1>4. CASE LockRefused(s)
  <2>1. held' = held /\ pc[s] \notin {"fill", "remove"} /\ \A t \in Sessions \ {s} : pc'[t] = pc[t] /\ fd'[t] = fd[t]
    BY <1>0, <1>4 DEF LockRefused, Go
  <2> QED
    BY <1>0, <2>1 DEF Holders, Inodes
<1>5. CASE \E c \in Pieces : Write(s, c)
  BY <1>0, <1>5 DEF Write, Holders, Inodes
<1>6. CASE ClosePart(s) \/ Lose(s) \/ RemovePart(s)
  <2>1. \A t \in Sessions \ {s} : pc'[t] = pc[t] /\ fd'[t] = fd[t]
    BY <1>0, <1>6 DEF ClosePart, Lose, RemovePart, Go
  <2>2. Inodes' = Inodes /\ \A i \in Inodes : held'[i] = IF held[i] = s THEN Nobody ELSE held[i]
    BY <1>6 DEF ClosePart, Lose, RemovePart, Unlocked, Inodes
  <2> QED
    BY <1>0, <2>1, <2>2 DEF Holders
<1> QED
  BY <1>1, <1>2, <1>3, <1>4, <1>5, <1>6 DEF PartSteps

\* A step keeps what the filling sessions have: nobody else writes there.
LEMMA FillHasStep ==
  ASSUME LockInv, WholeInv, NEW s \in Sessions, PartSteps(s) \/ Lose(s) PROVE FillHas'
<1>0. /\ body \in [Inodes -> [Pieces -> Versions]] /\ have \in [Sessions -> SUBSET Pieces]
      /\ \A t \in Sessions : pc[t] = "fill" =>
           fd[t] \in Inodes /\ held[fd[t]] = t /\ \A c \in have[t] : body[fd[t]][c] = Source[t]
      /\ pc \in [Sessions -> Stages]
      /\ fd \in [Sessions -> Nat]
  BY DEF WholeInv, WholeTypes, FillHas, LockInv, PartTypes, Locked
<1>1. CASE \/ Skip(s) \/ Discover(s) \/ LockRefused(s) \/ ClosePart(s) \/ Rename(s) \/ Lose(s)
           \/ RemovePart(s) \/ PruneEnds(s) \/ \E n \in PartNames : Pass(s, n) \/ LockStale(s, n)
  <2>1. UNCHANGED <<body, have>> /\ pc'[s] # "fill"
        /\ \A t \in Sessions \ {s} : pc'[t] = pc[t] /\ fd'[t] = fd[t]
    BY <1>0, <1>1 DEF Skip, Discover, LockRefused, ClosePart, Rename, Lose, Go,
       Pass, LockStale, RemovePart, PruneEnds
  <2>2. \A t \in Sessions : pc'[t] = "fill" => pc[t] = "fill" /\ fd'[t] = fd[t]
    BY <2>1
  <2> QED
    BY <1>0, <2>1, <2>2 DEF FillHas
<1>2. CASE Open(s)
  <2>1. /\ have' = have /\ pc'[s] # "fill"
        /\ \A i \in Inodes : body'[i] = body[i]
        /\ \A t \in Sessions \ {s} : pc'[t] = pc[t] /\ fd'[t] = fd[t]
    BY <1>0, <1>2, OldFiles
  <2>2. \A t \in Sessions : pc'[t] = "fill" =>
          fd'[t] \in Inodes /\ have'[t] = have[t] /\ \A c \in have[t] : body'[fd'[t]][c] = Source[t]
    BY <1>0, <2>1
  <2> QED
    BY <2>2 DEF FillHas
<1>3. CASE AdoptFinal(s) \/ Lock(s)
  <2>1. /\ body' = body /\ have'[s] = Matches(s, fd'[s])
        /\ \A t \in Sessions \ {s} : pc'[t] = pc[t] /\ fd'[t] = fd[t] /\ have'[t] = have[t]
    BY <1>0, <1>3 DEF AdoptFinal, Lock, Go
  <2>2. \A c \in have'[s] : body'[fd'[s]][c] = Source[s]
    BY <2>1 DEF Matches
  <2> QED
    BY <1>0, <2>1, <2>2 DEF FillHas
<1>4. ASSUME NEW c \in Pieces, Write(s, c) PROVE FillHas'
  <2>1. /\ pc[s] = "fill" /\ UNCHANGED <<pc, fd>> /\ body' = [body EXCEPT ![fd[s]][c] = Source[s]]
        /\ have'[s] = have[s] \cup {c} /\ \A t \in Sessions \ {s} : have'[t] = have[t]
    BY <1>0, <1>4 DEF Write
  <2>2. /\ body'[fd[s]][c] = Source[s] /\ \A d \in Pieces \ {c} : body'[fd[s]][d] = body[fd[s]][d]
        /\ \A i \in Inodes \ {fd[s]} : body'[i] = body[i]
    BY <1>0, <2>1
  <2>3. \A t \in Sessions \ {s} : pc[t] = "fill" => fd[t] \in Inodes \ {fd[s]}
    BY <1>0, <2>1
  <2>4. \A d \in have'[s] : body'[fd[s]][d] = Source[s]
    BY <1>0, <2>1, <2>2
  <2> QED
    BY <1>0, <2>1, <2>2, <2>3, <2>4 DEF FillHas
<1> QED
  BY <1>1, <1>2, <1>3, <1>4 DEF PartSteps


\* A step that loses no session keeps the final file covered.
LEMMA FinalCoveredStep ==
  ASSUME LockInv, WholeInv, Calm, ~jostled', NEW s \in Sessions, PartSteps(s) PROVE FinalCovered'
<1>1. FinalCovered /\ PartsCovered
  BY DEF WholeInv
<1> SUFFICES ASSUME Final \in DOMAIN dir', \E t \in Sessions : pc'[t] # "start"
             PROVE  Cover(dir[Final])'
  BY DEF FinalCovered
<1>2. CASE Rename(s) /\ part[s] # Final /\ part[s] \in DOMAIN dir
  <2>1. dir'[Final] = dir[part[s]] /\ dir[part[s]] \in Inodes
    BY <1>2 DEF Rename, Renamed, LockInv, PartTypes
  <2>2. PICK i \in Inodes : i = dir[part[s]]
    BY <2>1
  <2>3. Cover(i)
    BY <1>1, <1>2, <2>2 DEF Rename, PartsCovered
  <2>4. Cover(i)'
    BY <2>3, CoverKept
  <2> QED
    BY <2>1, <2>2, <2>4 DEF Cover
<1>3. CASE ~(Rename(s) /\ part[s] # Final /\ part[s] \in DOMAIN dir)
  <2>1. Final \in DOMAIN dir /\ dir'[Final] = dir[Final] /\ dir[Final] \in Inodes
    <3>1. \/ UNCHANGED dir
          \/ \E ns \in SUBSET PartNames : dir' = Unlinked(ns)
          \/ \E n \in PartNames, i \in Nat : dir' = Linked(n, i)
      <4>1. CASE Open(s)
        <5>1. PICK n \in Nat : DOMAIN body = 1 .. n /\ DOMAIN held = 1 .. n
          BY DEF LockInv, PartTypes
        <5>2. Cardinality(DOMAIN body) + 1 \in Nat
          BY <5>1, NextInode
        <5>3. part[s] \in PartNames
          BY <4>1 DEF Open, WholeInv, WholeTypes
        <5> QED
          BY <4>1, <5>2, <5>3 DEF Open
      <4>2. CASE Discover(s)
        BY <4>2 DEF Discover
      <4>3. CASE RemovePart(s)
        <5>1. part[s] \in PartNames
          BY <4>3 DEF RemovePart, WholeInv, WholeTypes
        <5> QED
          BY <4>3, <5>1 DEF RemovePart
      <4>4. CASE ~Open(s) /\ ~Discover(s) /\ ~RemovePart(s)
        BY <1>3, <4>4 DEF PartSteps, Skip, AdoptFinal, Lock, LockRefused, Write, ClosePart, Rename,
           Pass, LockStale, PruneEnds
      <4> QED
        BY <4>1, <4>2, <4>3, <4>4
    <3>2. Final \in DOMAIN dir /\ dir'[Final] = dir[Final]
      BY <3>1, PlainNames DEF Unlinked, Linked
    <3> QED
      BY <3>2 DEF LockInv, PartTypes
  <2>2. PICK i \in Inodes : i = dir[Final]
    BY <2>1
  <2>3. CASE Cover(i)
    <3>1. Cover(i)'
      BY <2>3, CoverKept
    <3> QED
      BY <2>1, <2>2, <3>1 DEF Cover
  <2>4. CASE \A t \in Sessions : pc[t] = "start"
    <3>1. Skip(s) \/ AdoptFinal(s) \/ Discover(s)
      BY <2>4 DEF PartSteps, Open, Lock, LockRefused, Write, ClosePart, Rename,
         Pass, LockStale, RemovePart, PruneEnds
    <3>2. CASE Skip(s)
      BY <2>1, <3>2 DEF Skip, Cover
    <3>3. CASE AdoptFinal(s)
      BY <2>1, <3>3 DEF AdoptFinal, Go, Cover, LockInv, PartTypes
    <3>4. CASE Discover(s)
      <4>1. held[i] # Nobody
        BY <2>1, <2>2, <3>4 DEF Discover, Adoptable, CanLock
      <4>2. held[i] \in Sessions /\ pc[held[i]] \in {"fill", "remove"}
        BY <4>1 DEF WholeInv, WholeTypes, Holders
      <4> QED
        BY <2>4, <4>2
    <3> QED
      BY <3>1, <3>2, <3>3, <3>4
  <2> QED
    BY <1>1, <2>1, <2>2, <2>3, <2>4 DEF FinalCovered
<1> QED
  BY <1>2, <1>3


\* A step that loses no session keeps the files to be renamed covered.
LEMMA PartsCoveredStep ==
  ASSUME LockInv, WholeInv, Calm, ~jostled', NEW s \in Sessions, PartSteps(s) PROVE PartsCovered'
<1>1. PartsCovered
  BY DEF WholeInv
<1>2. SUFFICES ASSUME NEW t \in Sessions, pc'[t] \in {"lock", "fill", "rename"},
                      part'[t] \in DOMAIN dir' \ {Final}
               PROVE  Cover(dir[part[t]])'
  BY DEF PartsCovered
<1>3. CASE Open(s) /\ t = s
  <2>1. dir'[part'[s]] = fd'[s] /\ pc'[s] = "lock"
    BY <1>3 DEF Open, Linked, Go, LockInv, PartTypes
  <2> QED
    BY <1>3, <2>1 DEF Cover
<1>4. CASE AdoptFinal(s) /\ t = s
  <2>1. part'[s] = Final
    BY <1>4 DEF AdoptFinal, WholeInv, WholeTypes
  <2> QED
    BY <1>4, <2>1, <1>2
<1>5. CASE ~(t = s /\ (Open(s) \/ AdoptFinal(s)))
  <2>1. part'[t] = part[t] /\ pc[t] \in {"lock", "fill", "rename"}
    <3>1. CASE t # s
      BY <1>2, <3>1 DEF PartSteps, Skip, AdoptFinal, Discover, Open, Lock, LockRefused, Write,
         ClosePart, Rename, Pass, LockStale, RemovePart, PruneEnds, Go, LockInv, PartTypes, WholeInv, WholeTypes
    <3>2. CASE t = s
      <4>1. Lock(s) \/ (\E c \in Pieces : Write(s, c)) \/ ClosePart(s)
        BY <1>2, <1>5, <3>2 DEF PartSteps, Skip, Discover, LockRefused, Rename,
           Pass, LockStale, RemovePart, PruneEnds, Go, LockInv, PartTypes
      <4> QED
        BY <3>2, <4>1 DEF Lock, Write, ClosePart
    <3> QED
      BY <3>1, <3>2
  <2>2. part[t] \in PartNames /\ part[t] # Final
    BY <1>2, <2>1 DEF WholeInv, WholeTypes
  <2>3. CASE part[t] \in DOMAIN dir /\ dir'[part[t]] = dir[part[t]]
    <3>1. PICK i \in Inodes : i = dir[part[t]]
      BY <2>3 DEF LockInv, PartTypes
    <3>2. Cover(i)
      BY <1>1, <2>1, <2>2, <2>3, <3>1 DEF PartsCovered
    <3>3. Cover(i)'
      BY <3>2, CoverKept
    <3> QED
      BY <2>1, <2>3, <3>1, <3>3 DEF Cover
  <2>4. CASE ~(part[t] \in DOMAIN dir /\ dir'[part[t]] = dir[part[t]])
    <3>1. Open(s) /\ part[s] = part[t] /\ part[s] \notin DOMAIN dir
      <4>1. CASE Open(s)
        BY <1>2, <2>1, <2>4, <4>1 DEF Open, Linked
      <4>2. CASE ~Open(s)
        BY <1>2, <2>1, <2>2, <2>4, <4>2 DEF PartSteps, Skip, AdoptFinal, Discover, Unlinked, Lock,
           LockRefused, Write, ClosePart, Rename, Renamed, Pass, LockStale, RemovePart, PruneEnds
      <4> QED
        BY <4>1, <4>2
    <3>2. dir'[part'[t]] = fd'[s] /\ pc'[s] = "lock"
      BY <2>1, <3>1 DEF Open, Linked, Go, LockInv, PartTypes
    <3> QED
      BY <3>2 DEF Cover
  <2> QED
    BY <2>3, <2>4
<1> QED
  BY <1>3, <1>4, <1>5

\* The files that are, or may become, the final one are covered, for any number
\* of sessions, pieces and versions.
THEOREM WholeInvariant == PartSpec => []WholeInv
<1>1. PartInit /\ LockInv => WholeInv
  BY WholeInit
<1>2. LockInv /\ WholeInv /\ [PartNext]_partVars => WholeInv'
  <2> SUFFICES ASSUME LockInv, WholeInv, [PartNext]_partVars PROVE WholeInv'
    OBVIOUS
  <2>1. CASE UNCHANGED partVars
    BY <2>1 DEF partVars, WholeInv, WholeTypes, Holders, FillHas, Calm, FinalCovered,
      PartsCovered, Cover, Inodes
  <2>2. ASSUME NEW s \in Sessions, PartSteps(s) PROVE WholeInv'
    <3>1. Calm' => Calm
      BY <2>2 DEF Calm, PartSteps, Skip, AdoptFinal, Discover, Open, Lock, LockRefused, Write,
         ClosePart, Rename, Pass, LockStale, RemovePart, PruneEnds, Go, LockInv, PartTypes
    <3> QED
      BY <2>2, <3>1, WholeTypesStep, HoldersStep, FillHasStep, FinalCoveredStep, PartsCoveredStep
         DEF WholeInv, Calm
  <2>3. ASSUME NEW s \in Sessions, Lose(s) PROVE WholeInv'
    <3>1. ~Calm'
      BY <2>3 DEF Calm, Lose, Go, LockInv, PartTypes
    <3> QED
      BY <2>3, <3>1, WholeTypesStep, HoldersStep, FillHasStep DEF WholeInv
  <2> QED
    BY <2>1, <2>2, <2>3 DEF PartNext
<1> QED
  BY <1>1, <1>2, LockInvariant, PTL DEF PartSpec

\* Once everybody is done and no connection was lost, the file in place is of one
\* version of the source, whoever renamed, removed or adopted what
\* (receiver.go:1119-1195, 595-608).
THEOREM PlacedWhole == PartSpec => []FinalWhole
<1>1. WholeInv => FinalWhole
  <2> SUFFICES ASSUME WholeInv, Settled, Calm, Final \in DOMAIN dir
               PROVE  \E v \in {Source[s] : s \in Sessions} : body[dir[Final]] = Whole(v)
    BY DEF FinalWhole, Calm
  <2>1. \A s \in Sessions : pc[s] \notin {"start", "lock", "fill"}
    BY DEF Settled
  <2>2. Cover(dir[Final])
    BY <2>1, PartAssumption DEF WholeInv, FinalCovered
  <2> QED
    BY <2>1, <2>2 DEF Cover
<1> QED
  BY <1>1, WholeInvariant, PTL

=============================================================================
