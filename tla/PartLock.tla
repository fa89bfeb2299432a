------------------------------ MODULE PartLock ------------------------------
(***************************************************************************)
(* Several sessions that receive the same path: part files, their advisory *)
(* locks and the rename over the final name.  internal/engine/receiver.go  *)
(* (discoverPartsOnce, prepareRegular, adoptFinalAsPart, finalize,         *)
(* pruneStaleParts, removeIfUnlocked, closeAllParts, openPartLocked) and   *)
(* internal/sidecar.  Module Transfer has the inside of one session; here  *)
(* a chunk of a file is what its last writer put there.                    *)
(*                                                                         *)
(* A lock belongs to the inode, the directory to everybody: every step     *)
(* below is between two system calls another session may come between.     *)
(***************************************************************************)
EXTENDS Naturals, FiniteSets

CONSTANTS
  Sessions,   \* each names its own parts by its nonce
  Pieces,     \* the file's chunks
  Source,     \* [session -> the version of the source it sends], all of one size
  OldFinal,   \* the versions the final file may have to begin with; 0: there is none
  OldPart,    \* is there a part of an interrupted run
  MaxLost     \* bound: sessions that are lost

Final == "final"
Left  == "left"     \* the nonce of the interrupted run
PartNames == Sessions \cup {Left}
Nobody == "nobody"

ASSUME PartAssumption ==
  /\ DOMAIN Source = Sessions /\ Sessions # {} /\ {Final, Left, Nobody} \cap Sessions = {}
  /\ OldPart \in BOOLEAN /\ MaxLost \in Nat

VARIABLES
  dir,    \* [name -> inode], the names there are
  body,   \* [inode -> its chunks], inodes being 1, 2, ...
  held,   \* [inode -> the session that has its lock, or nobody]
  pc,     \* "start", "open", "lock", "fill", "rename", "prune", "remove", "ok", "fail", "lost"
  part,   \* the name a session writes under, or removes
  fd,     \* the inode it has open, or 0
  have,   \* the chunks it has, written or verified
  index,  \* the part names it has listed, once
  jostled \* was a session refused by one that only removes

partVars == <<dir, body, held, pc, part, fd, have, index, jostled>>

Blank == [c \in Pieces |-> 0]
Whole(v) == [c \in Pieces |-> v]
Matches(s, i) == {c \in Pieces : body[i][c] = Source[s]}

Go(s, to) == pc' = [pc EXCEPT ![s] = to]
Unlinked(ns) == [n \in DOMAIN dir \ ns |-> dir[n]]
Linked(n, i) == [m \in DOMAIN dir \cup {n} |-> IF m = n THEN i ELSE dir[m]]
Unlocked(s) == [i \in DOMAIN held |-> IF held[i] = s THEN Nobody ELSE held[i]]

\* mutant: the answer is not looked at
CanLockAll(i) == TRUE

\* flock(LOCK_EX | LOCK_NB)
CanLock(i) == held[i] = Nobody

-----------------------------------------------------------------------------

\* The final file is this version already: nothing to do but to prune.
Skip(s) ==
  /\ pc[s] = "start" /\ Final \in DOMAIN dir /\ body[dir[Final]] = Whole(Source[s])
  /\ index' = [index EXCEPT ![s] = DOMAIN dir \cap PartNames]
  /\ Go(s, "prune")
  /\ UNCHANGED <<dir, body, held, part, fd, have, jostled>>

\* A final file of the same size, of another version, becomes the part.
Adoptable(s) ==
  Final \in DOMAIN dir /\ body[dir[Final]] # Whole(Source[s]) /\ CanLock(dir[Final])

AdoptFinal(s) ==
  /\ pc[s] = "start" /\ Adoptable(s)
  /\ held' = [held EXCEPT ![dir[Final]] = s]
  /\ fd' = [fd EXCEPT ![s] = dir[Final]] /\ part' = [part EXCEPT ![s] = Final]
  /\ have' = [have EXCEPT ![s] = Matches(s, dir[Final])]
  /\ Go(s, "fill")
  /\ UNCHANGED <<dir, body, index, jostled>>

\* Otherwise the newest part is tried, whoever it belongs to, and the others
\* are removed, whoever they belong to.
Discover(s) ==
  /\ pc[s] = "start" /\ ~Adoptable(s)
  /\ Final \in DOMAIN dir => body[dir[Final]] # Whole(Source[s])
  /\ LET found == DOMAIN dir \cap PartNames
     IN IF found = {}
        THEN part' = [part EXCEPT ![s] = s] /\ UNCHANGED dir
        ELSE \E newest \in found :
               part' = [part EXCEPT ![s] = newest] /\ dir' = Unlinked(found \ {newest})
  /\ index' = [index EXCEPT ![s] = DOMAIN dir \cap PartNames]
  /\ Go(s, "open")
  /\ UNCHANGED <<body, held, fd, have, jostled>>

\* open(O_CREATE)
Open(s) ==
  /\ pc[s] = "open" /\ Go(s, "lock")
  /\ IF part[s] \in DOMAIN dir
     THEN fd' = [fd EXCEPT ![s] = dir[part[s]]] /\ UNCHANGED <<dir, body, held>>
     ELSE LET i == Cardinality(DOMAIN body) + 1
          IN /\ dir' = Linked(part[s], i)
             /\ body' = [j \in 1 .. i |-> IF j = i THEN Blank ELSE body[j]]
             /\ held' = [j \in 1 .. i |-> IF j = i THEN Nobody ELSE held[j]]
             /\ fd' = [fd EXCEPT ![s] = i]
  /\ UNCHANGED <<part, have, index, jostled>>

\* The lock, and the re-hash of what the part holds.
Lock(s) ==
  /\ pc[s] = "lock" /\ CanLock(fd[s])
  /\ held' = [held EXCEPT ![fd[s]] = s]
  /\ have' = [have EXCEPT ![s] = Matches(s, fd[s])]
  /\ index' = [index EXCEPT ![s] = @ \cup {part[s]}]
  /\ Go(s, "fill")
  /\ UNCHANGED <<dir, body, part, fd, jostled>>

\* The part is a live session's: a private one instead.
Fallback(s) == s

LockRefused(s) ==
  /\ pc[s] = "lock" /\ ~CanLock(fd[s])
  /\ fd' = [fd EXCEPT ![s] = 0]
  /\ IF part[s] = s THEN Go(s, "fail") /\ UNCHANGED part
     ELSE Go(s, "open") /\ part' = [part EXCEPT ![s] = Fallback(s)]
  /\ jostled' = (jostled \/ pc[held[fd[s]]] = "remove")
  /\ UNCHANGED <<dir, body, held, have, index>>

Write(s, c) ==
  /\ pc[s] = "fill" /\ c \notin have[s]
  /\ body' = [body EXCEPT ![fd[s]][c] = Source[s]]
  /\ have' = [have EXCEPT ![s] = @ \cup {c}]
  /\ UNCHANGED <<dir, held, pc, part, fd, index, jostled>>

\* finalize: attributes, then the close that lets the lock go ...
ClosePart(s) ==
  /\ pc[s] = "fill" /\ have[s] = Pieces
  /\ held' = Unlocked(s) /\ fd' = [fd EXCEPT ![s] = 0]
  /\ Go(s, "rename")
  /\ UNCHANGED <<dir, body, part, have, index, jostled>>

\* ... then the rename of whatever has the part's name by now.
Renamed(n) == [m \in (DOMAIN dir \ {n}) \cup {Final} |-> IF m = Final THEN dir[n] ELSE dir[m]]

Rename(s) ==
  /\ pc[s] = "rename"
  /\ IF part[s] = Final THEN Go(s, "prune") /\ UNCHANGED dir
     ELSE IF part[s] \in DOMAIN dir THEN dir' = Renamed(part[s]) /\ Go(s, "prune")
     ELSE Go(s, "fail") /\ UNCHANGED dir
  /\ index' = [index EXCEPT ![s] =
                  IF part[s] = Final THEN DOMAIN dir \cap PartNames ELSE @ \ {part[s]}]
  /\ UNCHANGED <<body, held, part, fd, have, jostled>>

\* removeIfUnlocked of the listed parts: one that is gone, or that has a lock,
\* is let be ...
Pass(s, n) ==
  /\ pc[s] = "prune" /\ n \in index[s]
  /\ n \in DOMAIN dir => ~CanLock(dir[n])
  /\ index' = [index EXCEPT ![s] = @ \ {n}]
  /\ UNCHANGED <<dir, body, held, pc, part, fd, have, jostled>>

\* ... another is opened and locked ...
LockStale(s, n) ==
  /\ pc[s] = "prune" /\ Go(s, "remove")
  /\ n \in index[s] \cap DOMAIN dir /\ CanLock(dir[n])
  /\ index' = [index EXCEPT ![s] = @ \ {n}] /\ part' = [part EXCEPT ![s] = n]
  /\ held' = [held EXCEPT ![dir[n]] = s] /\ fd' = [fd EXCEPT ![s] = dir[n]]
  /\ UNCHANGED <<dir, body, have, jostled>>

\* ... and the name goes, whatever has it by now, then the lock.
RemovePart(s) ==
  /\ pc[s] = "remove" /\ Go(s, "prune")
  /\ dir' = Unlinked({part[s]})
  /\ held' = Unlocked(s) /\ fd' = [fd EXCEPT ![s] = 0]
  /\ UNCHANGED <<body, part, have, index, jostled>>

PruneEnds(s) ==
  /\ pc[s] = "prune" /\ index[s] = {} /\ Go(s, "ok")
  /\ UNCHANGED <<dir, body, held, part, fd, have, index, jostled>>

\* The connection or the process is lost; closed files drop their locks.
Lose(s) ==
  /\ Cardinality({t \in Sessions : pc[t] = "lost"}) < MaxLost
  /\ pc[s] \in {"open", "lock", "fill", "rename", "remove"} /\ Go(s, "lost")
  /\ held' = Unlocked(s) /\ fd' = [fd EXCEPT ![s] = 0]
  /\ UNCHANGED <<dir, body, part, have, index, jostled>>

-----------------------------------------------------------------------------

PartInit ==
  /\ \E v \in OldFinal :
       LET ns == (IF v = 0 THEN {} ELSE {Final}) \cup (IF OldPart THEN {Left} ELSE {})
       IN /\ dir = [n \in ns |-> IF n = Final \/ v = 0 THEN 1 ELSE 2]
          /\ body = [i \in 1 .. Cardinality(ns) |-> IF v # 0 /\ i = 1 THEN Whole(v) ELSE Blank]
          /\ held = [i \in 1 .. Cardinality(ns) |-> Nobody]
  /\ pc = [s \in Sessions |-> "start"] /\ part = [s \in Sessions |-> Final]
  /\ fd = [s \in Sessions |-> 0] /\ have = [s \in Sessions |-> {}]
  /\ index = [s \in Sessions |-> {}] /\ jostled = FALSE

PartSteps(s) ==
  \/ Skip(s) \/ AdoptFinal(s) \/ Discover(s) \/ Open(s) \/ Lock(s) \/ LockRefused(s)
  \/ \E c \in Pieces : Write(s, c)
  \/ ClosePart(s) \/ Rename(s) \/ RemovePart(s) \/ PruneEnds(s)
  \/ \E n \in PartNames : Pass(s, n) \/ LockStale(s, n)

PartNext == \E s \in Sessions : PartSteps(s) \/ Lose(s)

PartSpec == PartInit /\ [][PartNext]_partVars

-----------------------------------------------------------------------------

Settled == \A s \in Sessions : pc[s] \in {"ok", "fail", "lost"}

\* No two sessions write into one file, whether it is a part one left to the
\* other, or the final file a delta is written into (receiver.go:721-725).
OneWriter ==
  \A s, t \in Sessions : s # t /\ pc[s] = "fill" /\ pc[t] = "fill" => fd[s] # fd[t]

\* Once everybody is done and no connection was lost, the file in place is of
\* one version: a session may still write into a part that another renamed
\* over it, but then all of it (receiver.go:1119-1195, 595-608).  Unless the
\* lock a session takes only to remove a part has turned another away: that one
\* leaves behind a file nobody fills (receiver.go:1217-1231).
FinalWhole ==
  Settled /\ ~jostled /\ (\A s \in Sessions : pc[s] # "lost") /\ Final \in DOMAIN dir
    => \E v \in {Source[s] : s \in Sessions} : body[dir[Final]] = Whole(v)

\* A part a session has locked keeps its name until that session renames it:
\* "a part owned by a still-live session must not be adopted", "parts locked by
\* a live session are left alone" (receiver.go:596-598, 1199-1200).
LivePartKept ==
  [][\A s \in Sessions :
       pc[s] = "fill" /\ pc'[s] = "fill" /\ part[s] \in DOMAIN dir /\ dir[part[s]] = fd[s]
         => part[s] \in DOMAIN dir']_partVars

\* The file that has somebody's part's lock is not yet the final file.
PartNotFinal ==
  \A s \in Sessions :
    pc[s] = "fill" /\ part[s] # Final /\ Final \in DOMAIN dir => fd[s] # dir[Final]
=============================================================================
