------------------------------- MODULE Spool --------------------------------
(***************************************************************************)
(* One direction of a paired session at the relay: internal/relay/spool.go *)
(* between the two copy loops of Broker.pipe.  The producer copies the     *)
(* source into the spool, the consumer copies the spool to the             *)
(* destination.  The spool is held in memory until a threshold, then in a  *)
(* file; it blocks the producer at a limit and the consumer when empty,    *)
(* with one condition variable for both.                                   *)
(*                                                                         *)
(* An action is a critical section, from taking s.mu (or waking) to        *)
(* releasing it (or going to sleep).  A byte is its position in the        *)
(* stream, so that a byte lost, doubled or moved shows.                    *)
(***************************************************************************)
EXTENDS Integers, Sequences

CONSTANTS
  Limit,      \* SpoolMax, 0 for none
  MemLimit,   \* SpoolMem
  Disk,       \* SpoolDir is set
  DiskFails,  \* the disk may fail
  TruncFails, \* so may the truncation of the file, which is not looked at
  CopyMax,    \* the copy loops' buffer (32 KiB in the code)
  MaxIn       \* bound: bytes the source has

ASSUME LimitAssumption == Limit \in Nat /\ MemLimit \in Nat /\ MaxIn \in Nat
ASSUME CopyAssumption  == CopyMax \in Nat \ {0}
ASSUME DiskAssumption  == Disk \in BOOLEAN /\ DiskFails \in BOOLEAN /\ TruncFails \in BOOLEAN

VARIABLES
  \* the spool
  mem,        \* mem: bytes in memory
  file, rd,   \* the spill file up to fileWrOff, and fileRdOff
  rest,       \* what an earlier use left in the file past fileWrOff
  onFile,     \* file # nil
  buffered, eof, err,
  \* the goroutines
  prod,       \* producer: "read" the source, "write", "fail", "close" or "done"
  pend,       \* bytes it still has to write
  cons,       \* consumer: "read", "deliver", "fail", "finish" or "done"
  pAsleep, cAsleep,   \* in cond.Wait
  \* what went through
  in,         \* bytes the spool has accepted
  got         \* bytes given to the consumer

spoolVars == <<mem, file, rd, rest, onFile, buffered, eof, err>>
vars == <<spoolVars, prod, pend, cons, pAsleep, cAsleep, in, got>>

Lesser(m, n) == IF m < n THEN m ELSE n

-----------------------------------------------------------------------------
(* Waking and failing *)

\* mutants: only the producer is woken; a failure wakes nobody
BroadcastOne == pAsleep' = FALSE /\ UNCHANGED cAsleep
Broadcast == pAsleep' = FALSE /\ cAsleep' = FALSE

FailLockedQuiet == err' = TRUE /\ onFile' = FALSE /\ UNCHANGED <<pAsleep, cAsleep>>
\* failLocked: the first failure stays, the file is dropped with all it holds.
FailLocked == err' = TRUE /\ onFile' = FALSE /\ Broadcast

-----------------------------------------------------------------------------
(* Producer: io.Copy(spool, source) *)

SourceGives(n) ==
  /\ prod = "read" /\ in + n <= MaxIn
  /\ prod' = "write" /\ pend' = n
  /\ UNCHANGED <<spoolVars, cons, pAsleep, cAsleep, in, got>>

\* The source ends, or its connection breaks.
SourceEnds(broken) ==
  /\ prod = "read"
  /\ prod' = IF broken THEN "fail" ELSE "close"
  /\ UNCHANGED <<spoolVars, pend, cons, pAsleep, cAsleep, in, got>>

Full == Limit > 0 /\ buffered >= Limit

\* mutant: a write is cut to the room, also when it is shorter
RoomFree == IF Limit > 0 THEN Limit - buffered ELSE pend
Room == IF Limit > 0 THEN Lesser(pend, Limit - buffered) ELSE pend

Taken(n) == [i \in 1 .. n |-> in + i]

\* Memory is over its threshold, and goes to the file before anything new.
SpillDue == Disk /\ mem # <<>> /\ Len(mem) >= MemLimit

Writing == prod = "write" /\ ~pAsleep

WriteSleeps ==
  /\ Writing /\ Full /\ ~err
  /\ pAsleep' = TRUE
  /\ UNCHANGED <<spoolVars, prod, pend, cons, cAsleep, in, got>>

WriteGivesUp ==
  /\ Writing /\ err
  /\ prod' = "fail"
  /\ UNCHANGED <<spoolVars, pend, cons, pAsleep, cAsleep, in, got>>

\* What fits is accepted; the rest waits for room.
Accepted(n) ==
  /\ buffered' = buffered + n /\ in' = in + n /\ pend' = pend - n
  /\ prod' = IF n = pend THEN "read" ELSE "write"
  /\ Broadcast
  /\ UNCHANGED <<rd, eof, err, cons, got>>

WriteMem ==
  /\ Writing /\ ~Full /\ ~err /\ ~SpillDue /\ ~onFile
  /\ mem' = mem \o Taken(Room)
  /\ Accepted(Room)
  /\ UNCHANGED <<file, rest, onFile>>

\* mutant: the memory buffer is emptied before it is written out
SpilledEmpty == file
Spilled == IF SpillDue THEN file \o mem ELSE file

WriteFile ==
  /\ Writing /\ ~Full /\ ~err /\ (SpillDue \/ onFile)
  /\ file' = Spilled \o Taken(Room)
  /\ rest' = SubSeq(rest, Len(file') - Len(file) + 1, Len(rest))
  /\ mem' = IF SpillDue THEN <<>> ELSE mem
  /\ onFile' = TRUE
  /\ Accepted(Room)

\* The file cannot be made or written; memory may be in it already.
WriteFails ==
  /\ DiskFails /\ Writing /\ ~Full /\ ~err /\ (SpillDue \/ onFile)
  /\ FailLocked /\ prod' = "fail"
  /\ mem' \in {mem, IF SpillDue THEN <<>> ELSE mem}
  /\ UNCHANGED <<file, rd, rest, buffered, eof, pend, cons, in, got>>

\* Fail, when the copy ended in an error; then CloseWrite in any case.
ProducerFails ==
  /\ prod = "fail" /\ prod' = "close" /\ FailLocked
  /\ UNCHANGED <<mem, file, rd, rest, buffered, eof, pend, cons, in, got>>

CloseWrite ==
  /\ prod = "close" /\ prod' = "done"
  /\ eof' = TRUE /\ Broadcast
  /\ UNCHANGED <<mem, file, rd, rest, onFile, buffered, err, pend, cons, in, got>>

-----------------------------------------------------------------------------
(* Consumer: io.Copy(destination, spool) *)

InFile  == IF onFile /\ rd < Len(file) THEN Len(file) - rd ELSE 0
Reading == cons = "read" /\ ~cAsleep
Empty   == InFile = 0 /\ mem = <<>>

\* mutant: the file is given back as soon as part of it was read
DrainedEarly(r) == mem = <<>>
\* the whole file has been read, and nothing is in memory
Drained(r) == r = Len(file) /\ mem = <<>>

Given(bytes) ==
  /\ got' = got \o bytes /\ buffered' = buffered - Len(bytes)
  /\ cons' = "deliver"
  /\ Broadcast

\* The file first; once drained its offsets go back and it is truncated, to be
\* used again.  If the truncation failed (spool.go:218 drops its error) the old
\* bytes stay past the offset, and a later read with room for them gets them too.
ReadFile ==
  /\ Reading /\ InFile > 0
  /\ LET n == Lesser(CopyMax, InFile + Len(rest))
     IN /\ Given(SubSeq(file \o rest, rd + 1, rd + n))
        /\ file' = IF Drained(rd + n) THEN <<>> ELSE file
        /\ rd'   = IF Drained(rd + n) THEN 0 ELSE rd + n
        /\ \/ rest' = IF Drained(rd + n) THEN <<>> ELSE rest
           \/ TruncFails /\ Drained(rd + n) /\ rest' = file \o rest
  /\ UNCHANGED <<mem, onFile, eof, err, prod, pend, in>>

ReadMem ==
  /\ Reading /\ InFile = 0 /\ mem # <<>>
  /\ LET n == Lesser(CopyMax, Len(mem))
     IN Given(SubSeq(mem, 1, n)) /\ mem' = SubSeq(mem, n + 1, Len(mem))
  /\ UNCHANGED <<file, rd, rest, onFile, eof, err, prod, pend, in>>

ReadFails ==
  /\ DiskFails /\ Reading /\ InFile > 0
  /\ FailLocked /\ cons' = "fail"
  /\ UNCHANGED <<mem, file, rd, rest, buffered, eof, prod, pend, in, got>>

\* The end of the stream is seen before a failure is.
ReadEnds ==
  /\ Reading /\ Empty /\ (eof \/ err)
  /\ cons' = IF eof THEN "finish" ELSE "fail"
  /\ UNCHANGED <<spoolVars, prod, pend, pAsleep, cAsleep, in, got>>

ReadSleeps ==
  /\ Reading /\ Empty /\ ~eof /\ ~err
  /\ cAsleep' = TRUE
  /\ UNCHANGED <<spoolVars, prod, pend, cons, pAsleep, in, got>>

\* The destination takes what was read, or its connection breaks.
Delivered(broken) ==
  /\ cons = "deliver"
  /\ cons' = IF broken THEN "fail" ELSE "read"
  /\ UNCHANGED <<spoolVars, prod, pend, pAsleep, cAsleep, in, got>>

ConsumerFails ==
  /\ cons = "fail" /\ cons' = "finish" /\ FailLocked
  /\ UNCHANGED <<mem, file, rd, rest, buffered, eof, prod, pend, in, got>>

\* Finish drops the file; the destination's write side is closed.
Finish ==
  /\ cons = "finish" /\ cons' = "done"
  /\ onFile' = FALSE
  /\ UNCHANGED <<mem, file, rd, rest, buffered, eof, err, prod, pend, pAsleep, cAsleep, in, got>>

-----------------------------------------------------------------------------
(* Specification *)

Init ==
  /\ mem = <<>> /\ file = <<>> /\ rd = 0 /\ rest = <<>> /\ onFile = FALSE
  /\ buffered = 0 /\ eof = FALSE /\ err = FALSE
  /\ prod = "read" /\ pend = 0 /\ cons = "read" /\ pAsleep = FALSE /\ cAsleep = FALSE
  /\ in = 0 /\ got = <<>>

Producer ==
  \/ \E n \in 1 .. CopyMax : SourceGives(n)
  \/ \E broken \in BOOLEAN : SourceEnds(broken)
  \/ WriteSleeps \/ WriteGivesUp \/ WriteMem \/ WriteFile \/ WriteFails
  \/ ProducerFails \/ CloseWrite

Consumer ==
  \/ ReadFile \/ ReadMem \/ ReadFails \/ ReadEnds \/ ReadSleeps
  \/ \E broken \in BOOLEAN : Delivered(broken)
  \/ ConsumerFails \/ Finish

Next == Producer \/ Consumer

Spec == Init /\ [][Next]_vars

\* Both copy loops keep running, and a destination takes what it is given or
\* breaks; nothing obliges the source to give or to end, or the disk to fail.
Fairness ==
  /\ WF_vars(WriteSleeps \/ WriteGivesUp \/ WriteMem \/ WriteFile)
  /\ WF_vars(ProducerFails \/ CloseWrite)
  /\ WF_vars(ReadFile \/ ReadMem \/ ReadEnds \/ ReadSleeps)
  /\ WF_vars(\E broken \in BOOLEAN : Delivered(broken))
  /\ WF_vars(ConsumerFails \/ Finish)

FairSpec == Spec /\ Fairness

-----------------------------------------------------------------------------
(* Properties *)

TypeFlags ==
  /\ onFile \in BOOLEAN /\ eof \in BOOLEAN /\ err \in BOOLEAN
  /\ pAsleep \in BOOLEAN /\ cAsleep \in BOOLEAN
TypeStore ==
  /\ mem \in Seq(Nat) /\ file \in Seq(Nat) /\ got \in Seq(Nat)
  /\ rd \in Nat /\ rd <= Len(file) /\ buffered \in Nat /\ in \in Nat
TypeLoops ==
  /\ prod \in {"read", "write", "fail", "close", "done"}
  /\ pend \in Nat /\ (prod = "write" => pend > 0)
  /\ cons \in {"read", "deliver", "fail", "finish", "done"}

TypeOK == TypeFlags /\ TypeStore /\ TypeLoops

\* The relay's promise: the bytes of the source reach the destination in order,
\* none lost or doubled across memory, spill and reuse of the file; no more
\* than the limit is held; and a clean end means all of it arrived.
Promise == INSTANCE Stream WITH closed <- eof, broken <- err, ended <- cons = "done"
IsStream == Promise!Spec

\* Nobody sleeps through its reason to wake: one condition variable serves
\* both sides, and every change one may wait for must be broadcast.
NoLostWakeup ==
  /\ pAsleep => prod = "write" /\ Full /\ ~err
  /\ cAsleep => cons = "read" /\ Empty /\ ~eof /\ ~err

\* A producer at the limit gets on, whatever becomes of the destination.
WriteReturns == prod = "write" ~> prod # "write"
\* When the source has ended or failed, the destination learns of it.
StreamEnds == prod \in {"fail", "close"} ~> cons = "done"

\* The inductive invariant behind the promise.  The file is older than memory,
\* and memory is empty while there is one ...
FileFirst ==
  /\ onFile => ~err /\ mem = <<>>
  /\ ~onFile /\ ~err /\ cons # "done" => file = <<>> /\ rd = 0
\* ... the two hold the bytes that follow the ones given out, in order ...
Contents ==
  /\ \A i \in 1 .. Len(got) : got[i] = i
  /\ onFile => \A i \in rd + 1 .. Len(file) : file[i] = Len(got) + (i - rd)
  /\ \A i \in 1 .. Len(mem) : mem[i] = Len(got) + InFile + i
\* ... all of those accepted, while nothing failed; held() counts them ...
Accounting ==
  /\ Len(got) + InFile + Len(mem) <= in /\ InFile + Len(mem) <= buffered
  /\ ~err => Len(got) + InFile + Len(mem) = in /\ buffered = InFile + Len(mem)
  /\ Limit > 0 => buffered <= Limit
\* ... and the loops end for a reason.
Endings ==
  /\ eof => prod = "done"
  /\ cons \in {"finish", "done"} => err \/ (eof /\ Empty)

SInv == FileFirst /\ Contents /\ Accounting /\ Endings

\* "never more than `--spool-max` (default 2GiB) held" (ARCHITECTURE.md:134), and the
\* file is reclaimed lest "a long stream grows the unlinked file to the whole
\* transfer size" (spool.go:144-146): it stays within the limit.
DiskBounded == onFile => Len(file) <= Limit
=============================================================================
