---------------------------- MODULE Relay_proofs ----------------------------
(***************************************************************************)
(* The relay's spool keeps its promise, for every limit, threshold, copy   *)
(* size and length of stream, with or without a disk, and whatever fails   *)
(* but a truncation of the file, an error the code drops (spool.go:218).   *)
(* At its broker no taker sends on a channel the janitor has closed, which *)
(* would bring it down with every pair it serves; an offer that waits can  *)
(* be found, and a taker that was told OK is joined: for any number of     *)
(* offerers, takers, codes and slots.                                      *)
(***************************************************************************)
EXTENDS Spool, Broker, SequenceTheorems, TLAPS

-----------------------------------------------------------------------------
(* The spool: its content is the stream, in memory, on disk or read. *)

IInv == TypeOK /\ SInv /\ NoLostWakeup

-----------------------------------------------------------------------------
(* Sequences *)

\* What the source gives next is a sequence of the next positions.
LEMMA TakenSeq ==
  ASSUME NEW n \in Nat, in \in Nat
  PROVE  /\ Taken(n) \in Seq(Nat) /\ Len(Taken(n)) = n
         /\ \A i \in 1 .. n : Taken(n)[i] = in + i
<1>1. Taken(n) \in [1 .. n -> Nat]
  BY DEF Taken
<1>2. Taken(n) \in Seq(Nat)
  BY <1>1
<1> QED
  BY <1>1, <1>2, LenProperties DEF Taken

\* What k bytes read after the first m are.
LEMMA Slice ==
  ASSUME NEW s \in Seq(Nat), NEW m \in Nat, NEW k \in Nat, m + k <= Len(s)
  PROVE  /\ SubSeq(s, m + 1, m + k) \in Seq(Nat) /\ Len(SubSeq(s, m + 1, m + k)) = k
         /\ \A i \in 1 .. k : SubSeq(s, m + 1, m + k)[i] = s[m + i]
<1> DEFINE a == m + 1
           b == m + k
<1>1. Len(s) \in Nat /\ \A i \in a .. b : s[i] \in Nat
  BY LenProperties, ElementOfSeq
<1>2. a \in Nat /\ b \in Nat /\ 1 <= a /\ a <= b + 1 /\ b - a + 1 = k
  OBVIOUS
<1>3. \A i \in 1 .. k : a + i - 1 = m + i
  OBVIOUS
<1>4. a \in Int /\ b \in Int /\ (IF a <= b THEN b - a + 1 ELSE 0) = k
  BY <1>2
<1> HIDE DEF a, b
<1>5. /\ SubSeq(s, a, b) \in Seq(Nat)
      /\ Len(SubSeq(s, a, b)) = (IF a <= b THEN b - a + 1 ELSE 0)
      /\ \A i \in 1 .. b - a + 1 : SubSeq(s, a, b)[i] = s[a + i - 1]
  BY <1>1, <1>4, SubSeqProperties
<1>6. \A i \in 1 .. k : SubSeq(s, a, b)[i] = s[m + i]
  BY <1>2, <1>3, <1>5
<1>7. SubSeq(s, a, b) \in Seq(Nat) /\ Len(SubSeq(s, a, b)) = k
  BY <1>4, <1>5
<1> QED
  BY <1>6, <1>7 DEF a, b

\* Two sequences, one after the other.
LEMMA Joined ==
  ASSUME NEW s \in Seq(Nat), NEW t \in Seq(Nat)
  PROVE  /\ s \o t \in Seq(Nat) /\ Len(s \o t) = Len(s) + Len(t)
         /\ \A i \in 1 .. Len(s) : (s \o t)[i] = s[i]
         /\ \A i \in 1 .. Len(s \o t) :
               i > Len(s) => i - Len(s) \in 1 .. Len(t) /\ (s \o t)[i] = t[i - Len(s)]
<1>1. Len(s) \in Nat /\ Len(t) \in Nat
  BY LenProperties
<1>2. /\ s \o t \in Seq(Nat) /\ Len(s \o t) = Len(s) + Len(t)
      /\ \A i \in 1 .. Len(s) + Len(t) : (s \o t)[i] = IF i <= Len(s) THEN s[i] ELSE t[i - Len(s)]
  BY ConcatProperties
<1> QED
  BY <1>1, <1>2

\* There is room for at least a byte, and the limit is kept.
LEMMA RoomBounds ==
  ASSUME TypeOK, ~Full, Writing
  PROVE  Room \in Nat /\ 1 <= Room /\ Room <= pend /\ (Limit > 0 => buffered + Room <= Limit)
  BY LimitAssumption DEF TypeOK, TypeStore, TypeLoops, Full, Writing, Room, Lesser

-----------------------------------------------------------------------------
(* The invariant *)

\* It holds at first.
LEMMA InvInit == Init => IInv
<1> SUFFICES ASSUME Init PROVE IInv
  OBVIOUS
<1>1. Len(<<>>) = 0 /\ <<>> \in Seq(Nat)
  BY EmptySeq
<1>2. TypeOK
  <2>1. TypeFlags
    BY DEF Init, TypeFlags
  <2>2. TypeStore
    BY <1>1 DEF Init, TypeStore
  <2>3. TypeLoops
    BY DEF Init, TypeLoops
  <2> QED
    BY <2>1, <2>2, <2>3 DEF TypeOK
<1>3. FileFirst /\ Contents /\ Endings
  BY <1>1 DEF Init, FileFirst, Contents, Endings, InFile
<1>4. Accounting
  BY <1>1, LimitAssumption DEF Init, Accounting, InFile
<1>5. NoLostWakeup
  BY DEF Init, NoLostWakeup
<1> QED
  BY <1>2, <1>3, <1>4, <1>5 DEF IInv, SInv

\* A write to memory keeps it.
LEMMA KeepsWriteMem == ASSUME IInv, WriteMem PROVE IInv'
<1> DEFINE n == Room
           s == Taken(n)
<1>1. n \in Nat /\ 1 <= n /\ n <= pend /\ (Limit > 0 => buffered + n <= Limit)
  BY RoomBounds DEF WriteMem, IInv
<1>2. s \in Seq(Nat) /\ Len(s) = n /\ \A i \in 1 .. n : s[i] = in + i
  BY <1>1, TakenSeq DEF IInv, TypeOK, TypeStore
<1>3. mem' = mem \o s
  BY DEF WriteMem
<1>4. /\ mem' \in Seq(Nat) /\ Len(mem') = Len(mem) + n
      /\ \A i \in 1 .. Len(mem) : mem'[i] = mem[i]
      /\ \A i \in 1 .. Len(mem') : i > Len(mem) => i - Len(mem) \in 1 .. n /\ mem'[i] = s[i - Len(mem)]
  <2> HIDE DEF s, n
  <2>1. mem \in Seq(Nat)
    BY DEF IInv, TypeOK, TypeStore
  <2>2. /\ mem \o s \in Seq(Nat) /\ Len(mem \o s) = Len(mem) + n
        /\ \A i \in 1 .. Len(mem) : (mem \o s)[i] = mem[i]
        /\ \A i \in 1 .. Len(mem \o s) :
              i > Len(mem) => i - Len(mem) \in 1 .. n /\ (mem \o s)[i] = s[i - Len(mem)]
    BY <1>2, <2>1, Joined
  <2> QED
    BY <1>3, <2>2
<1>5. Len(mem) \in Nat /\ Len(file) \in Nat /\ Len(got) \in Nat
  BY LenProperties DEF IInv, TypeOK, TypeStore
<1>6. /\ ~onFile /\ ~onFile' /\ ~err /\ ~err' /\ InFile = 0 /\ InFile' = 0
      /\ prod = "write" /\ ~eof /\ ~eof'
  BY DEF WriteMem, Accepted, InFile, Writing, IInv, SInv, Endings
<1>7. Len(got) + Len(mem) = in /\ buffered = Len(mem)
  BY <1>5, <1>6 DEF IInv, SInv, Accounting, TypeOK, TypeStore
<1> HIDE DEF n, s
<1>8. /\ buffered' = buffered + n /\ in' = in + n /\ pend' = pend - n
      /\ prod' = IF n = pend THEN "read" ELSE "write"
      /\ pAsleep' = FALSE /\ cAsleep' = FALSE /\ UNCHANGED <<rd, eof, err, cons, got, file, onFile>>
  BY DEF WriteMem, Accepted, Broadcast, n
<1>9. TypeOK'
  <2>1. TypeFlags'
    BY <1>8 DEF IInv, TypeOK, TypeFlags
  <2>2. TypeStore'
    <3>1. TypeStore
      BY DEF IInv, TypeOK
    <3>2. buffered' \in Nat /\ in' \in Nat
      BY <3>1, <1>1, <1>8 DEF TypeStore
    <3> QED
      BY <3>1, <3>2, <1>4, <1>8 DEF TypeStore
  <2>3. TypeLoops'
    BY <1>1, <1>8 DEF IInv, TypeOK, TypeLoops
  <2> QED
    BY <2>1, <2>2, <2>3 DEF TypeOK
<1>10. FileFirst' /\ Endings' /\ NoLostWakeup'
  BY <1>6, <1>8 DEF IInv, SInv, FileFirst, Endings, NoLostWakeup
<1>11. Contents'
  <2>1. \A i \in 1 .. Len(mem') : mem'[i] = Len(got) + i
    <3> SUFFICES ASSUME NEW i \in 1 .. Len(mem') PROVE mem'[i] = Len(got) + i
      OBVIOUS
    <3>1. CASE i <= Len(mem)
      BY <3>1, <1>4, <1>5, <1>6 DEF IInv, SInv, Contents
    <3>2. CASE i > Len(mem)
      BY <3>2, <1>2, <1>4, <1>5, <1>7
    <3> QED
      BY <3>1, <3>2, <1>1, <1>5
  <2> QED
    BY <2>1, <1>5, <1>6, <1>8 DEF IInv, SInv, Contents
<1>12. Accounting'
  BY <1>1, <1>4, <1>5, <1>6, <1>7, <1>8 DEF IInv, SInv, Accounting
<1> QED
  BY <1>9, <1>10, <1>11, <1>12 DEF IInv, SInv

\* So does a write to the file: it follows what is unread there, or what was in
\* memory until now.
LEMMA KeepsWriteFile == ASSUME IInv, WriteFile PROVE IInv'
<1> DEFINE n == Room
           s == Taken(n)
           b == Spilled
<1>1. n \in Nat /\ 1 <= n /\ n <= pend /\ (Limit > 0 => buffered + n <= Limit)
  BY RoomBounds DEF WriteFile, IInv
<1>2. s \in Seq(Nat) /\ Len(s) = n /\ \A i \in 1 .. n : s[i] = in + i
  BY <1>1, TakenSeq DEF IInv, TypeOK, TypeStore
<1>3. /\ ~err /\ prod = "write" /\ ~eof /\ cons # "done" /\ cons # "finish"
      /\ (SpillDue \/ onFile) /\ file' = b \o s /\ mem' = IF SpillDue THEN <<>> ELSE mem
      /\ onFile' = TRUE
  BY DEF WriteFile, Writing, IInv, SInv, Endings
<1>4. TypeStore /\ FileFirst /\ Contents /\ Accounting /\ Len(<<>>) = 0 /\ <<>> \in Seq(Nat)
  BY EmptySeq DEF IInv, SInv, TypeOK
<1>5. Len(mem) \in Nat /\ Len(file) \in Nat /\ Len(got) \in Nat
  BY <1>4, LenProperties DEF TypeStore
<1>6. /\ b \in Seq(Nat) /\ rd <= Len(b) /\ mem' = <<>>
      /\ Len(got) + (Len(b) - rd) = in /\ buffered = Len(b) - rd
      /\ \A i \in rd + 1 .. Len(b) : b[i] = Len(got) + (i - rd)
  <2>1. CASE SpillDue
    <3>1. ~onFile /\ file = <<>> /\ rd = 0 /\ InFile = 0
      BY <1>3, <1>4, <2>1 DEF FileFirst, SpillDue, InFile
    <3>2. b = mem
      BY <2>1, <3>1, <1>4, ConcatEmptySeq DEF Spilled, TypeStore
    <3> HIDE DEF b
    <3> QED
      BY <1>3, <1>4, <1>5, <2>1, <3>1, <3>2 DEF TypeStore, Contents, Accounting
  <2>2. CASE ~SpillDue
    <3>1. onFile /\ mem = <<>> /\ b = file /\ InFile = Len(file) - rd
      <4>1. onFile /\ mem = <<>> /\ b = file
        BY <1>3, <1>4, <2>2 DEF FileFirst, Spilled
      <4>2. rd \in Nat /\ rd <= Len(file)
        BY <1>4 DEF TypeStore
      <4> QED
        BY <4>1, <4>2, <1>5 DEF InFile
    <3> HIDE DEF b
    <3> QED
      BY <1>3, <1>4, <1>5, <2>2, <3>1 DEF TypeStore, Contents, Accounting
  <2> QED
    BY <2>1, <2>2
<1>7. /\ buffered' = buffered + n /\ in' = in + n /\ pend' = pend - n
      /\ prod' = IF n = pend THEN "read" ELSE "write"
      /\ pAsleep' = FALSE /\ cAsleep' = FALSE /\ UNCHANGED <<rd, eof, err, cons, got>>
  BY DEF WriteFile, Accepted, Broadcast
<1> HIDE DEF n, s, b
<1>8. /\ file' \in Seq(Nat) /\ Len(file') = Len(b) + n
      /\ \A i \in 1 .. Len(b) : file'[i] = b[i]
      /\ \A i \in 1 .. Len(file') : i > Len(b) => i - Len(b) \in 1 .. n /\ file'[i] = s[i - Len(b)]
  <2>1. /\ b \o s \in Seq(Nat) /\ Len(b \o s) = Len(b) + n
        /\ \A i \in 1 .. Len(b) : (b \o s)[i] = b[i]
        /\ \A i \in 1 .. Len(b \o s) :
              i > Len(b) => i - Len(b) \in 1 .. n /\ (b \o s)[i] = s[i - Len(b)]
    BY <1>2, <1>6, Joined
  <2> QED
    BY <1>3, <2>1
<1>9. Len(b) \in Nat /\ rd \in Nat /\ InFile' = Len(b) + n - rd /\ Len(mem') = 0
  <2>1. Len(b) \in Nat /\ rd \in Nat /\ Len(mem') = 0
    BY <1>4, <1>6, LenProperties DEF TypeStore
  <2>2. InFile' = Len(file') - rd'
    BY <2>1, <1>1, <1>3, <1>6, <1>7, <1>8 DEF InFile
  <2> QED
    BY <2>1, <2>2, <1>1, <1>7, <1>8
<1>10. TypeOK'
  <2>1. TypeFlags'
    BY <1>3, <1>7 DEF IInv, TypeOK, TypeFlags
  <2>2. TypeStore'
    <3>1. buffered' \in Nat /\ in' \in Nat /\ rd' <= Len(file')
      BY <1>1, <1>4, <1>6, <1>7, <1>8, <1>9 DEF TypeStore
    <3> QED
      BY <3>1, <1>4, <1>6, <1>7, <1>8 DEF TypeStore
  <2>3. TypeLoops'
    BY <1>1, <1>7 DEF IInv, TypeOK, TypeLoops
  <2> QED
    BY <2>1, <2>2, <2>3 DEF TypeOK
<1>11. FileFirst' /\ Endings' /\ NoLostWakeup'
  BY <1>3, <1>6, <1>7 DEF FileFirst, Endings, NoLostWakeup
<1>12. Contents'
  <2>1. ASSUME NEW i \in rd + 1 .. Len(file') PROVE file'[i] = Len(got) + (i - rd)
    <3>1. CASE i <= Len(b)
      BY <3>1, <1>6, <1>8, <1>9
    <3>2. CASE i > Len(b)
      <4>1. i - Len(b) \in 1 .. n /\ file'[i] = s[i - Len(b)]
        BY <3>2, <1>8, <1>9
      <4>2. file'[i] = in + (i - Len(b))
        BY <4>1, <1>2
      <4> QED
        BY <4>1, <4>2, <1>1, <1>5, <1>6, <1>8, <1>9
    <3> QED
      BY <3>1, <3>2, <1>9
  <2>2. \A i \in 1 .. Len(mem') : mem'[i] = Len(got') + InFile' + i
    BY <1>9
  <2> QED
    BY <2>1, <2>2, <1>4, <1>7 DEF Contents
<1>13. Accounting'
  <2>1. Len(got') = Len(got) /\ InFile' \in Nat
    BY <1>1, <1>6, <1>7, <1>9
  <2>3. buffered' = InFile' + Len(mem') /\ Len(got') + InFile' + Len(mem') = in'
    BY <2>1, <1>1, <1>5, <1>6, <1>7, <1>9
  <2>2. Limit > 0 => buffered' <= Limit
    BY <1>1, <1>7
  <2> QED
    BY <2>1, <2>2, <2>3, <1>5, <1>9 DEF Accounting
<1> QED
  BY <1>10, <1>11, <1>12, <1>13 DEF IInv, SInv

\* Bytes that follow the ones given out extend them.
LEMMA GivenNext ==
  ASSUME NEW t \in Seq(Nat), got \in Seq(Nat), \A i \in 1 .. Len(got) : got[i] = i,
         \A i \in 1 .. Len(t) : t[i] = Len(got) + i
  PROVE  /\ got \o t \in Seq(Nat) /\ Len(got \o t) = Len(got) + Len(t)
         /\ \A i \in 1 .. Len(got \o t) : (got \o t)[i] = i
<1>1. /\ got \o t \in Seq(Nat) /\ Len(got \o t) = Len(got) + Len(t)
      /\ \A i \in 1 .. Len(got) : (got \o t)[i] = got[i]
      /\ \A i \in 1 .. Len(got \o t) :
            i > Len(got) => i - Len(got) \in 1 .. Len(t) /\ (got \o t)[i] = t[i - Len(got)]
  BY Joined
<1>2. Len(got) \in Nat /\ Len(t) \in Nat
  BY LenProperties
<1>3. ASSUME NEW i \in 1 .. Len(got \o t) PROVE (got \o t)[i] = i
  <2>1. CASE i <= Len(got)
    BY <2>1, <1>1, <1>2
  <2>2. CASE i > Len(got)
    <3>1. i - Len(got) \in 1 .. Len(t) /\ (got \o t)[i] = t[i - Len(got)]
      BY <2>2, <1>1
    <3>2. (got \o t)[i] = Len(got) + (i - Len(got))
      BY <3>1
    <3> QED
      BY <3>2, <1>1, <1>2
  <2> QED
    BY <2>1, <2>2, <1>1, <1>2
<1> QED
  BY <1>1, <1>3

\* What a read from the file gives: the next bytes.
LEMMA FileGives ==
  ASSUME IInv, InFile > 0,
         NEW n, n = Lesser(CopyMax, InFile), NEW t, t = SubSeq(file, rd + 1, rd + n)
  PROVE  /\ n \in Nat /\ 1 <= n /\ n <= InFile /\ onFile /\ InFile = Len(file) - rd
         /\ t \in Seq(Nat) /\ Len(t) = n
         /\ \A i \in 1 .. Len(t) : t[i] = Len(got) + i
<1>1. TypeStore /\ Contents /\ Len(file) \in Nat /\ Len(got) \in Nat /\ rd \in Nat
  BY LenProperties DEF IInv, SInv, TypeOK, TypeStore
<1>2. onFile /\ InFile = Len(file) - rd
  BY DEF InFile
<1>3. n \in Nat /\ 1 <= n /\ n <= InFile
  BY <1>1, <1>2, CopyAssumption DEF Lesser
<1>4. rd + n \in Nat /\ rd + n <= Len(file) /\ file \in Seq(Nat) /\ rd <= rd + n
  BY <1>1, <1>2, <1>3 DEF TypeStore
<1>5. /\ SubSeq(file, rd + 1, rd + n) \in Seq(Nat) /\ Len(SubSeq(file, rd + 1, rd + n)) = n
      /\ \A i \in 1 .. n : SubSeq(file, rd + 1, rd + n)[i] = file[rd + i]
  BY <1>1, <1>3, <1>4, Slice
<1>7. t \in Seq(Nat) /\ Len(t) = n /\ \A i \in 1 .. n : t[i] = file[rd + i]
  BY <1>5
<1>8. ASSUME NEW i \in 1 .. n PROVE t[i] = Len(got) + i
  <2>1. t[i] = file[rd + i]
    BY <1>7
  <2>2. rd + i \in rd + 1 .. Len(file) /\ rd + i - rd = i
    BY <1>1, <1>3, <1>4
  <2>3. file[rd + i] = Len(got) + (rd + i - rd)
    BY <2>2, <1>1, <1>2 DEF Contents
  <2> QED
    BY <2>1, <2>2, <2>3
<1> QED
  BY <1>2, <1>3, <1>7, <1>8

\* A truncation that works leaves nothing past the offset.
LEMMA StaysClean == ASSUME ~TruncFails, TypeOK, rest = <<>>, [Next]_vars PROVE rest' = <<>>
<1>1. CASE WriteFile
  <2>1. Len(<<>>) = 0 /\ \A k \in Int : k + 1 > 0 => SubSeq(<<>>, k + 1, 0) = <<>>
    BY EmptySeq, SubSeqProperties
  <2> QED
    BY <1>1, <2>1 DEF WriteFile
<1>2. CASE ReadFile
  BY <1>2 DEF ReadFile
<1>3. CASE UNCHANGED rest
  BY <1>3
<1> QED
  BY <1>1, <1>2, <1>3 DEF Next, Producer, Consumer, vars, spoolVars, SourceGives, SourceEnds,
     WriteSleeps, WriteGivesUp, WriteMem, WriteFails, ProducerFails, CloseWrite, ReadMem,
     ReadFails, ReadEnds, ReadSleeps, Delivered, ConsumerFails, Finish

\* A read then gives what is in the file up to it, and no more.
LEMMA PlainRead ==
  ASSUME TypeStore, rest = <<>>, ReadFile,
         NEW n, n = Lesser(CopyMax, InFile), NEW t, t = SubSeq(file, rd + 1, rd + n)
  PROVE  /\ Given(t)
         /\ file' = IF Drained(rd + n) THEN <<>> ELSE file
         /\ rd'   = IF Drained(rd + n) THEN 0 ELSE rd + n
<1>1. file \o rest = file /\ Len(rest) = 0
  BY ConcatEmptySeq, EmptySeq DEF TypeStore
<1>2. InFile + Len(rest) = InFile
  BY <1>1, LenProperties DEF InFile, TypeStore
<1> QED
  BY <1>1, <1>2 DEF ReadFile

\* Reading the file keeps the invariant, whether it is truncated or not.
LEMMA KeepsReadFile == ASSUME IInv, rest = <<>>, ReadFile PROVE IInv'
<1> DEFINE n == Lesser(CopyMax, InFile)
           t == SubSeq(file, rd + 1, rd + n)
<1>1. /\ n \in Nat /\ 1 <= n /\ n <= InFile /\ onFile /\ InFile = Len(file) - rd
      /\ t \in Seq(Nat) /\ Len(t) = n
      /\ \A i \in 1 .. Len(t) : t[i] = Len(got) + i
  BY FileGives DEF ReadFile
<1>2. /\ got' = got \o t /\ buffered' = buffered - Len(t) /\ cons' = "deliver"
      /\ pAsleep' = FALSE /\ cAsleep' = FALSE /\ UNCHANGED <<mem, onFile, eof, err, prod, pend, in>>
      /\ file' = IF Drained(rd + n) THEN <<>> ELSE file
      /\ rd'   = IF Drained(rd + n) THEN 0 ELSE rd + n
  <2>1. TypeStore
    BY DEF IInv, TypeOK
  <2>2. /\ Given(t)
        /\ file' = IF Drained(rd + n) THEN <<>> ELSE file
        /\ rd'   = IF Drained(rd + n) THEN 0 ELSE rd + n
    BY <2>1, PlainRead
  <2>3. UNCHANGED <<mem, onFile, eof, err, prod, pend, in>>
    BY DEF ReadFile
  <2> HIDE DEF n, t
  <2> QED
    BY <2>2, <2>3 DEF Given, Broadcast
<1> HIDE DEF n, t
<1>3. /\ TypeStore /\ FileFirst /\ Contents /\ Accounting /\ Endings
      /\ Len(file) \in Nat /\ Len(got) \in Nat /\ rd \in Nat /\ Len(<<>>) = 0 /\ <<>> \in Seq(Nat)
  BY LenProperties, EmptySeq DEF IInv, SInv, TypeOK, TypeStore
<1>4. mem = <<>> /\ mem' = <<>> /\ ~err /\ Len(mem) = 0
  BY <1>1, <1>2, <1>3 DEF FileFirst
<1>5. /\ got' \in Seq(Nat) /\ Len(got') = Len(got) + n
      /\ \A i \in 1 .. Len(got') : got'[i] = i
  BY <1>1, <1>2, <1>3, GivenNext DEF TypeStore, Contents
<1>6. /\ file' \in Seq(Nat) /\ rd' \in Nat /\ rd' <= Len(file')
      /\ Len(file') - rd' = InFile - n
      /\ \A i \in rd' + 1 .. Len(file') : file'[i] = Len(got') + (i - rd')
  <2>1. CASE Drained(rd + n)
    <3>1. rd + n = Len(file) /\ file' = <<>> /\ rd' = 0
      BY <2>1, <1>2 DEF Drained
    <3> QED
      BY <3>1, <1>1, <1>3
  <2>2. CASE ~Drained(rd + n)
    <3>1. file' = file /\ rd' = rd + n
      BY <2>2, <1>2
    <3>2. \A i \in rd + 1 .. Len(file) : file[i] = Len(got) + (i - rd)
      BY <1>1, <1>3 DEF Contents
    <3> QED
      BY <3>1, <3>2, <1>1, <1>3, <1>5 DEF TypeStore
  <2> QED
    BY <2>1, <2>2
<1>7. InFile' = InFile - n /\ InFile' \in Nat
  <2>1. InFile' = Len(file') - rd'
    BY <1>1, <1>2, <1>6, LenProperties DEF InFile
  <2> QED
    BY <2>1, <1>1, <1>3, <1>6
<1>8. buffered = InFile /\ Len(got) + InFile = in /\ buffered \in Nat
  BY <1>1, <1>3, <1>4 DEF Accounting, TypeStore
<1>9. TypeOK'
  <2>1. TypeFlags'
    BY <1>2 DEF IInv, TypeOK, TypeFlags
  <2>2. TypeStore'
    <3>1. buffered' \in Nat
      BY <1>1, <1>2, <1>7, <1>8
    <3> QED
      BY <3>1, <1>2, <1>3, <1>5, <1>6 DEF TypeStore
  <2>3. TypeLoops'
    BY <1>2 DEF IInv, TypeOK, TypeLoops
  <2> QED
    BY <2>1, <2>2, <2>3 DEF TypeOK
<1>10. FileFirst' /\ Endings' /\ NoLostWakeup'
  BY <1>1, <1>2, <1>3, <1>4 DEF FileFirst, Endings, NoLostWakeup
<1>11. Contents'
  BY <1>2, <1>4, <1>5, <1>6, EmptySeq DEF Contents
<1>12. Accounting'
  <2>1. /\ buffered' = InFile' + Len(mem') /\ Len(got') + InFile' + Len(mem') = in'
    BY <1>1, <1>2, <1>3, <1>4, <1>5, <1>7, <1>8
  <2>2. Limit > 0 => buffered' <= Limit
    BY <1>1, <1>2, <1>3, <1>8, LimitAssumption DEF Accounting
  <2> QED
    BY <2>1, <2>2, <1>2, <1>3, <1>4, <1>5, <1>7, <1>8 DEF Accounting, TypeStore
<1> QED
  BY <1>9, <1>10, <1>11, <1>12 DEF IInv, SInv

\* What a read from memory gives, and what it leaves.
LEMMA MemGives ==
  ASSUME TypeStore, mem # <<>>, NEW n, n = Lesser(CopyMax, Len(mem)),
         NEW t, t = SubSeq(mem, 1, n), NEW r, r = SubSeq(mem, n + 1, Len(mem))
  PROVE  /\ n \in Nat /\ 1 <= n /\ n <= Len(mem)
         /\ t \in Seq(Nat) /\ Len(t) = n /\ \A i \in 1 .. n : t[i] = mem[i]
         /\ r \in Seq(Nat) /\ Len(r) = Len(mem) - n
         /\ \A i \in 1 .. Len(mem) - n : r[i] = mem[n + i]
<1>1. mem \in Seq(Nat) /\ Len(mem) \in Nat /\ Len(mem) > 0
  <2>1. mem \in Seq(Nat) /\ Len(mem) \in Nat
    BY LenProperties DEF TypeStore
  <2>2. Len(mem) # 0
    BY <2>1, EmptySeq
  <2> QED
    BY <2>1, <2>2
<1>2. n \in Nat /\ 1 <= n /\ n <= Len(mem)
  BY <1>1, CopyAssumption DEF Lesser
<1>3. /\ 1 \in Int /\ n \in Int /\ n + 1 \in Int /\ Len(mem) \in Int
      /\ \A i \in 1 .. n : mem[i] \in Nat
      /\ \A i \in n + 1 .. Len(mem) : mem[i] \in Nat
  BY <1>1, <1>2, ElementOfSeq
<1>4. /\ t \in Seq(Nat) /\ Len(t) = (IF 1 <= n THEN n - 1 + 1 ELSE 0)
      /\ \A i \in 1 .. n - 1 + 1 : t[i] = mem[1 + i - 1]
  BY <1>3, SubSeqProperties
<1>5. /\ r \in Seq(Nat)
      /\ Len(r) = (IF n + 1 <= Len(mem) THEN Len(mem) - (n + 1) + 1 ELSE 0)
      /\ \A i \in 1 .. Len(mem) - (n + 1) + 1 : r[i] = mem[n + 1 + i - 1]
  BY <1>3, SubSeqProperties
<1>6. t \in Seq(Nat) /\ Len(t) = n /\ \A i \in 1 .. n : t[i] = mem[i]
  BY <1>2, <1>4
<1>7. /\ r \in Seq(Nat) /\ Len(r) = Len(mem) - n
      /\ \A i \in 1 .. Len(mem) - n : r[i] = mem[n + i]
  <2>1. r \in Seq(Nat) /\ Len(r) = Len(mem) - n
    BY <1>1, <1>2, <1>5
  <2> DEFINE m == Len(mem)
  <2>3. m \in Int /\ n \in Int /\ m - (n + 1) + 1 = m - n
    BY <1>1, <1>2
  <2>4. \A i \in 1 .. m - n : r[i] = mem[n + 1 + i - 1]
    BY <2>3, <1>5
  <2>2. ASSUME NEW i \in 1 .. Len(mem) - n PROVE r[i] = mem[n + i]
    <3>1. i \in Int /\ n + 1 + i - 1 = n + i
      BY <2>3
    <3> QED
      BY <3>1, <2>4
  <2> QED
    BY <2>1, <2>2
<1> QED
  BY <1>2, <1>6, <1>7

\* Reading memory keeps the invariant, also after a failure.
LEMMA KeepsReadMem == ASSUME IInv, ReadMem PROVE IInv'
<1> DEFINE n == Lesser(CopyMax, Len(mem))
           t == SubSeq(mem, 1, n)
<1>1. /\ TypeStore /\ FileFirst /\ Contents /\ Accounting /\ Endings
      /\ Len(file) \in Nat /\ Len(got) \in Nat /\ Len(mem) \in Nat
      /\ cons = "read" /\ ~cAsleep /\ mem # <<>> /\ InFile = 0
  BY LenProperties DEF IInv, SInv, TypeOK, TypeStore, ReadMem, Reading
<1>2. /\ got' = got \o t /\ buffered' = buffered - Len(t) /\ cons' = "deliver"
      /\ pAsleep' = FALSE /\ cAsleep' = FALSE
      /\ UNCHANGED <<file, rd, onFile, eof, err, prod, pend, in>>
      /\ mem' = SubSeq(mem, n + 1, Len(mem))
  BY DEF ReadMem, Given, Broadcast
<1>3. /\ n \in Nat /\ 1 <= n /\ n <= Len(mem)
      /\ t \in Seq(Nat) /\ Len(t) = n /\ \A i \in 1 .. n : t[i] = mem[i]
      /\ mem' \in Seq(Nat) /\ Len(mem') = Len(mem) - n
      /\ \A i \in 1 .. Len(mem) - n : mem'[i] = mem[n + i]
  <2> DEFINE r == SubSeq(mem, n + 1, Len(mem))
  <2>1. /\ n \in Nat /\ 1 <= n /\ n <= Len(mem)
        /\ t \in Seq(Nat) /\ Len(t) = n /\ \A i \in 1 .. n : t[i] = mem[i]
        /\ r \in Seq(Nat) /\ Len(r) = Len(mem) - n
        /\ \A i \in 1 .. Len(mem) - n : r[i] = mem[n + i]
    BY <1>1, MemGives
  <2>2. mem' = r
    BY <1>2
  <2> HIDE DEF n, t, r
  <2> QED
    BY <2>1, <2>2
<1> HIDE DEF n, t
<1>4. ~onFile /\ ~onFile' /\ InFile' = 0
  BY <1>1, <1>2 DEF FileFirst, InFile
<1>5. \A i \in 1 .. Len(t) : t[i] = Len(got) + i
  BY <1>1, <1>3 DEF Contents
<1>6. /\ got' \in Seq(Nat) /\ Len(got') = Len(got) + n
      /\ \A i \in 1 .. Len(got') : got'[i] = i
  <2>1. got \in Seq(Nat) /\ \A i \in 1 .. Len(got) : got[i] = i
    BY <1>1 DEF TypeStore, Contents
  <2>2. /\ got \o t \in Seq(Nat) /\ Len(got \o t) = Len(got) + Len(t)
        /\ \A i \in 1 .. Len(got \o t) : (got \o t)[i] = i
    BY <2>1, <1>3, <1>5, GivenNext
  <2> QED
    BY <2>2, <1>2, <1>3
<1>7. \A i \in 1 .. Len(mem') : mem'[i] = Len(got') + i
  <2> SUFFICES ASSUME NEW i \in 1 .. Len(mem') PROVE mem'[i] = Len(got') + i
    OBVIOUS
  <2>1. n + i \in 1 .. Len(mem) /\ mem'[i] = mem[n + i]
    BY <1>1, <1>3
  <2>2. mem[n + i] = Len(got) + InFile + (n + i)
    BY <2>1, <1>1 DEF Contents
  <2> QED
    BY <2>1, <2>2, <1>1, <1>3, <1>6
<1>8. buffered \in Nat /\ buffered' = buffered - n /\ Len(mem) <= buffered
  BY <1>1, <1>2, <1>3 DEF TypeStore, Accounting
<1>9. TypeOK'
  <2>1. TypeFlags'
    BY <1>2 DEF IInv, TypeOK, TypeFlags
  <2>2. TypeStore'
    <3>1. buffered' \in Nat
      BY <1>1, <1>3, <1>8
    <3> QED
      BY <3>1, <1>1, <1>2, <1>3, <1>6 DEF TypeStore
  <2>3. TypeLoops'
    BY <1>2 DEF IInv, TypeOK, TypeLoops
  <2> QED
    BY <2>1, <2>2, <2>3 DEF TypeOK
<1>10. FileFirst' /\ Endings' /\ NoLostWakeup'
  BY <1>1, <1>2, <1>4 DEF FileFirst, Endings, NoLostWakeup
<1>11. Contents'
  BY <1>1, <1>4, <1>6, <1>7 DEF Contents
<1>12. Accounting'
  <2>1. Len(got') + InFile' + Len(mem') = Len(got) + InFile + Len(mem)
    BY <1>1, <1>3, <1>4, <1>6
  <2>2. InFile' + Len(mem') = InFile + Len(mem) - n
    BY <1>1, <1>3, <1>4
  <2>3. Len(got) + InFile + Len(mem) \in Int /\ InFile + Len(mem) \in Int
    BY <1>1
  <2> HIDE DEF n
  <2> QED
    BY <2>1, <2>2, <2>3, <1>1, <1>2, <1>3, <1>8, LimitAssumption DEF Accounting
<1> QED
  BY <1>9, <1>10, <1>11, <1>12 DEF IInv, SInv

\* A failure, of the disk or of either connection, keeps it: the file goes, and
\* what may be left is memory.
LEMMA KeepsFails ==
  ASSUME IInv, WriteFails \/ ProducerFails \/ ReadFails \/ ConsumerFails
  PROVE  IInv'
<1>1. /\ TypeStore /\ FileFirst /\ Contents /\ Accounting /\ Endings
      /\ Len(file) \in Nat /\ Len(got) \in Nat /\ Len(mem) \in Nat
      /\ Len(<<>>) = 0 /\ <<>> \in Seq(Nat)
  BY LenProperties, EmptySeq DEF IInv, SInv, TypeOK, TypeStore
<1>2. /\ err' = TRUE /\ onFile' = FALSE /\ pAsleep' = FALSE /\ cAsleep' = FALSE
      /\ UNCHANGED <<file, rd, buffered, eof, pend, in, got>> /\ mem' \in {mem, <<>>}
  BY DEF WriteFails, ProducerFails, ReadFails, ConsumerFails, FailLocked, Broadcast
<1>3. /\ prod' \in {prod, "fail", "close"} /\ cons' \in {cons, "fail", "finish"}
      /\ (prod' = "write" => prod = "write") /\ (prod = "done" => prod' = "done")
  BY DEF WriteFails, ProducerFails, ReadFails, ConsumerFails, Writing
<1>4. InFile' = 0 /\ InFile \in Nat /\ (InFile # 0 => mem = <<>>)
  BY <1>1, <1>2 DEF InFile, FileFirst, TypeStore
<1>5. Len(mem') \in Nat /\ Len(mem') <= Len(mem) /\ mem' \in Seq(Nat)
  <2>1. CASE mem' = <<>>
    BY <2>1, <1>1
  <2>2. CASE mem' = mem
    BY <2>2, <1>1 DEF TypeStore
  <2> QED
    BY <2>1, <2>2, <1>2
<1>6. TypeOK'
  <2>1. TypeFlags'
    BY <1>2 DEF IInv, TypeOK, TypeFlags
  <2>2. TypeStore'
    BY <1>1, <1>2, <1>5 DEF TypeStore
  <2>3. TypeLoops'
    BY <1>2, <1>3 DEF IInv, TypeOK, TypeLoops
  <2> QED
    BY <2>1, <2>2, <2>3 DEF TypeOK
<1>7. Contents'
  <2>1. \A i \in 1 .. Len(mem') : mem'[i] = Len(got') + InFile' + i
    <3>1. CASE mem' = <<>>
      BY <3>1, <1>1
    <3>2. CASE mem' = mem /\ mem # <<>>
      BY <3>2, <1>1, <1>2, <1>4 DEF Contents
    <3> QED
      BY <3>1, <3>2, <1>2
  <2> QED
    BY <2>1, <1>1, <1>2 DEF Contents
<1>8. Accounting'
  BY <1>1, <1>2, <1>4, <1>5, LimitAssumption DEF Accounting, TypeStore
<1>9. FileFirst' /\ Endings' /\ NoLostWakeup'
  BY <1>1, <1>2, <1>3 DEF FileFirst, Endings, NoLostWakeup
<1> QED
  BY <1>6, <1>7, <1>8, <1>9 DEF IInv, SInv

\* So do the steps that only move a copy loop, sleep, or end the stream.
LEMMA KeepsRest ==
  ASSUME IInv,
         \/ \E n \in 1 .. CopyMax : SourceGives(n)
         \/ \E broken \in BOOLEAN : SourceEnds(broken)
         \/ WriteSleeps \/ WriteGivesUp \/ CloseWrite
         \/ ReadEnds \/ ReadSleeps \/ Finish
         \/ \E broken \in BOOLEAN : Delivered(broken)
  PROVE  IInv'
<1>1. UNCHANGED <<mem, file, rd, buffered, err, in, got>> /\ onFile' \in {onFile, FALSE}
  BY DEF SourceGives, SourceEnds, WriteSleeps, WriteGivesUp, CloseWrite, ReadEnds, ReadSleeps,
         Delivered, Finish, spoolVars
<1>2. /\ TypeStore /\ FileFirst /\ Contents /\ Accounting /\ Endings
      /\ Len(file) \in Nat /\ Len(got) \in Nat /\ Len(mem) \in Nat
  BY LenProperties DEF IInv, SInv, TypeOK, TypeStore
<1>3. TypeOK'
  <2>1. TypeStore'
    BY <1>1, <1>2 DEF TypeStore
  <2>2. TypeFlags'
    BY DEF IInv, TypeOK, TypeFlags, SourceGives, SourceEnds, WriteSleeps, WriteGivesUp,
           CloseWrite, ReadEnds, ReadSleeps, Delivered, Finish, spoolVars, Broadcast
  <2>3. TypeLoops'
    <3>1. TypeLoops
      BY DEF IInv, TypeOK
    <3>2. CASE \E n \in 1 .. CopyMax : SourceGives(n)
      BY <3>1, <3>2, CopyAssumption DEF TypeLoops, SourceGives
    <3>3. CASE ~\E n \in 1 .. CopyMax : SourceGives(n)
      BY <3>1, <3>3 DEF TypeLoops, SourceEnds, WriteSleeps, WriteGivesUp, CloseWrite, ReadEnds,
                        ReadSleeps, Delivered, Finish
    <3> QED
      BY <3>2, <3>3
  <2> QED
    BY <2>1, <2>2, <2>3 DEF TypeOK
<1>4. CASE ~Finish
  <2>1. onFile' = onFile /\ InFile' = InFile
    BY <1>1, <1>4 DEF InFile, SourceGives, SourceEnds, WriteSleeps, WriteGivesUp, CloseWrite,
                      ReadEnds, ReadSleeps, Delivered, spoolVars
  <2>2. Contents' /\ Accounting'
    BY <1>1, <1>2, <2>1 DEF Contents, Accounting
  <2>3. /\ cons = "done" => cons' = "done"
        /\ cons' \in {"finish", "done"} => cons' = cons \/ (eof /\ Empty)
        /\ eof => eof'
        /\ prod = "done" => prod' = "done"
        /\ eof' => eof \/ prod' = "done"
    BY <1>4 DEF SourceGives, SourceEnds, WriteSleeps, WriteGivesUp, CloseWrite, ReadEnds,
                ReadSleeps, Delivered, spoolVars, Reading, Writing
  <2>4. FileFirst' /\ Endings'
    BY <1>1, <1>2, <2>1, <2>3 DEF FileFirst, Endings, Empty
  <2>5. NoLostWakeup'
    BY <1>1, <1>4, <2>1 DEF IInv, NoLostWakeup, Empty, Full, SourceGives, SourceEnds,
       WriteSleeps, WriteGivesUp, CloseWrite, ReadEnds, ReadSleeps, Delivered, spoolVars,
       Writing, Reading, Broadcast
  <2> QED
    BY <1>3, <2>2, <2>4, <2>5 DEF IInv, SInv
<1>5. CASE Finish
  <2>1. /\ onFile' = FALSE /\ cons = "finish" /\ cons' = "done"
        /\ UNCHANGED <<eof, prod, pAsleep, cAsleep>> /\ InFile' = 0 /\ (err \/ (eof /\ Empty))
    BY <1>2, <1>5 DEF Finish, InFile, Endings
  <2>2. InFile \in Nat /\ (InFile # 0 => mem = <<>>) /\ (Empty => InFile = 0)
    BY <1>2 DEF InFile, FileFirst, TypeStore, Empty
  <2>3. Contents'
    <3>1. \A i \in 1 .. Len(mem) : mem[i] = Len(got) + i
      <4>1. CASE mem = <<>>
        BY <4>1, EmptySeq
      <4>2. CASE mem # <<>>
        BY <4>2, <1>2, <2>2 DEF Contents
      <4> QED
        BY <4>1, <4>2
    <3> QED
      BY <3>1, <1>1, <1>2, <2>1 DEF Contents
  <2>4. Accounting'
    <3>1. Len(got') + InFile' + Len(mem') <= in' /\ InFile' + Len(mem') <= buffered'
      BY <1>1, <1>2, <2>1, <2>2 DEF Accounting, TypeStore
    <3>2. ~err' => InFile = 0
      BY <1>1, <2>1, <2>2
    <3>3. ~err' => Len(got') + InFile' + Len(mem') = in' /\ buffered' = InFile' + Len(mem')
      BY <3>2, <1>1, <1>2, <2>1 DEF Accounting
    <3> QED
      BY <3>1, <3>3, <1>1, <1>2 DEF Accounting
  <2>5. FileFirst' /\ Endings'
    BY <1>1, <1>2, <2>1 DEF FileFirst, Endings, Empty
  <2>6. NoLostWakeup'
    BY <1>1, <2>1 DEF IInv, NoLostWakeup, Full
  <2> QED
    BY <1>3, <2>3, <2>4, <2>5, <2>6 DEF IInv, SInv
<1> QED
  BY <1>4, <1>5

\* Every step keeps it.
LEMMA InvStep == IInv /\ rest = <<>> /\ [Next]_vars => IInv'
<1> SUFFICES ASSUME IInv, rest = <<>>, [Next]_vars PROVE IInv'
  OBVIOUS
<1>1. CASE UNCHANGED vars
  <2>1. UNCHANGED <<mem, file, rd, onFile, buffered, eof, err, prod, pend, cons, pAsleep, cAsleep,
                    in, got>>
    BY <1>1 DEF vars, spoolVars
  <2> QED
    BY <2>1 DEF IInv, SInv, TypeOK, TypeFlags, TypeStore, TypeLoops, NoLostWakeup, FileFirst,
                Contents, Accounting, Endings, InFile, Empty, Full
<1>2. CASE Next
  BY <1>2, KeepsWriteMem, KeepsWriteFile, KeepsReadFile, KeepsReadMem, KeepsFails, KeepsRest
     DEF Next, Producer, Consumer
<1> QED
  BY <1>1, <1>2

\* It holds at first, with nothing past the offset ...
LEMMA CleanInit == Init => IInv /\ rest = <<>>
  BY InvInit DEF Init

\* ... and every step keeps both, unless a truncation fails.
LEMMA CleanStep ==
  ~TruncFails /\ (IInv /\ rest = <<>>) /\ [Next]_vars => (IInv /\ rest = <<>>)'
<1> SUFFICES ASSUME ~TruncFails, IInv, rest = <<>>, [Next]_vars PROVE IInv' /\ rest' = <<>>
  OBVIOUS
<1> QED
  BY InvStep, StaysClean DEF IInv

\* The invariant holds for every limit, threshold, copy size and stream.
LEMMA Invariant == ASSUME ~TruncFails PROVE Spec => [](IInv /\ rest = <<>>)
<1>1. []~TruncFails
  BY PTL
<1> QED
  BY <1>1, CleanInit, CleanStep, PTL DEF Spec

\* What follows from it.
LEMMA Follows == IInv => TypeOK /\ SInv /\ NoLostWakeup
  BY DEF IInv

\* The variables have their types: no count goes below zero, no offset passes
\* the end of the file.
THEOREM TypeCorrect == ASSUME ~TruncFails PROVE Spec => []TypeOK
<1> QED
  BY Follows, Invariant, PTL

\* The file is older than memory, the two hold what is to come in order, held()
\* counts them, and the loops end for a reason.
THEOREM Sound == ASSUME ~TruncFails PROVE Spec => []SInv
<1> QED
  BY Follows, Invariant, PTL

\* Nobody sleeps in cond.Wait while what it waits for has come.
THEOREM NobodyOversleeps == ASSUME ~TruncFails PROVE Spec => []NoLostWakeup
<1> QED
  BY Follows, Invariant, PTL

-----------------------------------------------------------------------------
(* The promise *)

\* The spool starts as a stream does.
LEMMA InitMaps == Init => Promise!Init
  BY DEF Init, Promise!Init

\* A step of the spool is a step of the stream, or none.
LEMMA StepMaps ==
  IInv /\ IInv' /\ rest = <<>> /\ [Next]_vars => [Promise!Next]_(Promise!vars)
<1> SUFFICES ASSUME IInv, IInv', rest = <<>>, [Next]_vars PROVE [Promise!Next]_(Promise!vars)
  OBVIOUS
<1> USE DEF Promise!vars
<1>1. /\ Accounting /\ Endings /\ TypeStore /\ Len(got) \in Nat /\ Len(mem) \in Nat
      /\ Accounting' /\ TypeStore' /\ Len(got') \in Nat /\ Len(mem') \in Nat
      /\ Len(file) \in Nat /\ Len(file') \in Nat
  BY LenProperties DEF IInv, SInv, TypeOK, TypeStore
<1>2. InFile \in Nat /\ InFile' \in Nat
  BY <1>1 DEF InFile, TypeStore
<1>3. CASE WriteMem \/ WriteFile
  <2>1. /\ in' = in + Room /\ ~err' /\ ~eof /\ ~err /\ UNCHANGED <<got, eof, err, cons>>
        /\ Room \in Nat /\ 1 <= Room
    BY <1>1, <1>3, RoomBounds DEF WriteMem, WriteFile, Accepted, Writing, Endings, IInv
  <2>2. Limit > 0 => in' - Len(got) <= Limit
    <3>1. Len(got') + InFile' + Len(mem') = in' /\ buffered' = InFile' + Len(mem')
      BY <2>1, <1>1 DEF Accounting
    <3>2. in' - Len(got) = buffered'
      BY <3>1, <2>1, <1>1, <1>2
    <3> QED
      BY <3>2, <1>1 DEF Accounting
  <2>3. Promise!Accept
    BY <2>1, <2>2, <1>1 DEF Promise!Accept, TypeStore
  <2> QED
    BY <2>3 DEF Promise!Next
<1>4. CASE ReadFile \/ ReadMem
  <2>1. /\ cons = "read" /\ cons' = "deliver" /\ UNCHANGED <<in, eof, err>>
    BY <1>4 DEF ReadFile, ReadMem, Given, Reading
  <2>2. Len(got') > Len(got)
    <3>1. CASE ReadFile
      <4> DEFINE n == Lesser(CopyMax, InFile)
                 t == SubSeq(file, rd + 1, rd + n)
      <4>1. n \in Nat /\ 1 <= n /\ t \in Seq(Nat) /\ Len(t) = n
        BY <3>1, FileGives DEF ReadFile
      <4>2. got' = got \o t
        BY <3>1, <1>1, PlainRead DEF Given
      <4> HIDE DEF n, t
      <4>3. Len(got \o t) = Len(got) + Len(t)
        BY <4>1, <1>1, Joined DEF TypeStore
      <4> QED
        BY <4>1, <4>2, <4>3, <1>1
    <3>2. CASE ReadMem
      <4> DEFINE n == Lesser(CopyMax, Len(mem))
                 t == SubSeq(mem, 1, n)
      <4>1. n \in Nat /\ 1 <= n /\ t \in Seq(Nat) /\ Len(t) = n
        BY <3>2, <1>1, MemGives DEF ReadMem
      <4>2. got' = got \o t
        BY <3>2 DEF ReadMem, Given
      <4> HIDE DEF n, t
      <4>3. Len(got \o t) = Len(got) + Len(t)
        BY <4>1, <1>1, Joined DEF TypeStore
      <4> QED
        BY <4>1, <4>2, <4>3, <1>1
    <3> QED
      BY <1>4, <3>1, <3>2
  <2>3. Len(got') <= in
    <3>1. Len(got') + InFile' + Len(mem') <= in' /\ in' = in /\ in \in Nat
      BY <1>1, <2>1 DEF Accounting, TypeStore
    <3> QED
      BY <3>1, <1>1, <1>2
  <2>4. Len(got') \in Len(got) + 1 .. in
    BY <1>1, <2>2, <2>3 DEF TypeStore
  <2>5. got' = Promise!First(Len(got'))
    <3>1. got' \in Seq(Nat) /\ \A i \in 1 .. Len(got') : got'[i] = i
      BY DEF IInv, SInv, TypeOK, TypeStore, Contents
    <3>2. got' = [i \in 1 .. Len(got') |-> got'[i]]
      BY <3>1
    <3> QED
      BY <3>1, <3>2 DEF Promise!First
  <2>6. Promise!Deliver
    BY <2>1, <2>4, <2>5 DEF Promise!Deliver
  <2> QED
    BY <2>6 DEF Promise!Next
<1>5. CASE WriteFails \/ ProducerFails \/ ReadFails \/ ConsumerFails
  <2>1. Promise!Break
    BY <1>5 DEF Promise!Break, WriteFails, ProducerFails, ReadFails, ConsumerFails, FailLocked,
                Reading
  <2> QED
    BY <2>1 DEF Promise!Next
<1>6. CASE CloseWrite
  <2>1. Promise!Close
    BY <1>1, <1>6 DEF Promise!Close, CloseWrite, Endings
  <2> QED
    BY <2>1 DEF Promise!Next
<1>7. CASE Finish
  <2>1. /\ cons = "finish" /\ cons' = "done" /\ UNCHANGED <<in, got, eof, err>>
        /\ (err \/ (eof /\ Empty))
    BY <1>1, <1>7 DEF Finish, Endings
  <2>2. Empty /\ ~err => Len(got) = in
    BY <1>1, EmptySeq DEF Empty, Accounting, TypeStore
  <2>3. Promise!End
    BY <2>1, <2>2 DEF Promise!End
  <2> QED
    BY <2>3 DEF Promise!Next
<1>8. CASE \/ \E n \in 1 .. CopyMax : SourceGives(n)
           \/ \E broken \in BOOLEAN : SourceEnds(broken)
           \/ WriteSleeps \/ WriteGivesUp \/ ReadEnds \/ ReadSleeps
           \/ \E broken \in BOOLEAN : Delivered(broken)
  BY <1>8 DEF SourceGives, SourceEnds, WriteSleeps, WriteGivesUp, ReadEnds, ReadSleeps, Delivered,
              spoolVars, Reading
<1>9. CASE UNCHANGED vars
  BY <1>9 DEF vars, spoolVars
<1> QED
  BY <1>3, <1>4, <1>5, <1>6, <1>7, <1>8, <1>9 DEF Next, Producer, Consumer

\* One direction of the relay is a bounded stream in order, that ends cleanly
\* only when all of it has arrived.
THEOREM Implements == ASSUME ~TruncFails PROVE Spec => IsStream
<1> QED
  BY InitMaps, StepMaps, Invariant, PTL DEF Spec, IsStream, Promise!Spec

-----------------------------------------------------------------------------
(* The broker *)

(***************************************************************************)
(* That the channel is open when a taker sends on it, long after it took   *)
(* the slot, rests on who can still reach the slot: an offerer is parked   *)
(* under its own code only; once a taker took its slot, or the janitor     *)
(* dropped it, it is in no slot again, so the other cannot come after.     *)
(***************************************************************************)
States == {"new", "reply", "parked", "hand", "pipe", "return", "done"}

Parked == {slots[c] : c \in DOMAIN slots}

\* The takers that took a slot and have yet to send on its channel.
Taking == {t \in Takers : at[t] \in {"reply", "hand"}}

BrokerTypes ==
  /\ at \in [Ends -> States] /\ DOMAIN code = Ends /\ stale \subseteq Offerers
  /\ DOMAIN wake = Offerers /\ DOMAIN mate = Ends /\ DOMAIN lines = Ends
  /\ Parked \subseteq Offerers

\* An offerer is in the slot of its code.
OwnSlot == \A c \in DOMAIN slots : code[slots[c]] = c /\ at[slots[c]] # "new"

\* Before it connects nobody knows an offerer.
Fresh ==
  \A o \in Offerers : at[o] = "new" => o \notin stale /\ wake[o] = "empty" /\ \A t \in Taking : mate[t] # o

\* The janitor closes the channels of those in no slot only.
ClosedOut == \A o \in Offerers : o \in stale \/ wake[o] = "closed" => o \notin Parked

\* A taker has taken its offerer out of the slots before the janitor could.
TakenOut ==
  \A t \in Taking : mate[t] \in Offerers \ (Parked \cup stale) /\ wake[mate[t]] # "closed"

BrokerInv == BrokerTypes /\ OwnSlot /\ Fresh /\ ClosedOut /\ TakenOut /\ BrokerLives

(***************************************************************************)
(* ParkedFindable and DroppedLate speak of an offerer at the end; what the *)
(* handlers have said to whom on the way must be followed.  A slot's end   *)
(* waits or has a reason not to (InSlot), a slot is taken once (TakenOnce) *)
(* and its taker has or will get what it was promised (Promised).          *)
(***************************************************************************)
Waits(o) == at[o] \in {"reply", "parked"}

\* Channels and pipes join takers; what is stale is old; who has not come is not closed.
BrokerFacts ==
  /\ \A o \in Offerers : mate[o] \notin Offerers /\ wake[o] \in {"empty", "closed", "read"} \cup Takers
  /\ stale \subseteq old
  /\ \A o \in Offerers : at[o] = "new" => o \notin shut
  /\ \A t \in Takers : at[t] \in {"new", "reply"} => "OK" \notin lines[t]

InSlot ==
  \A o \in Parked :
    /\ wake[o] = "empty" /\ o \notin shut
    /\ Waits(o) \/ (at[o] = "return" /\ o \in old \cup gone)

TakenOnce ==
  \A t \in Takers :
    /\ at[t] = "new" => mate[t] = NoEnd
    /\ mate[t] # NoEnd =>
         /\ mate[t] \in Offerers \ Parked /\ at[mate[t]] # "new"
         /\ \A u \in Takers : mate[u] = mate[t] => u = t

\* A taker that took a slot, and was not told ERR.
Hopes(t) == at[t] \in {"reply", "hand"} \/ "OK" \in lines[t]

Promised ==
  \A t \in Takers : Hopes(t) =>
    /\ mate[t] \in Offerers
    /\ \/ mate[t] \in old \cup gone
       \/ mate[mate[t]] = t /\ ~Waits(mate[t])
       \/ /\ Waits(mate[t]) /\ mate[t] \notin shut
          /\ wake[mate[t]] = IF at[t] = "done" THEN t ELSE "empty"

\* ParkedFindable, from the moment the slot is there.
Findable ==
  \A o \in Offerers :
    Waits(o) /\ wake[o] = "empty" /\ o \notin stale /\ (\A t \in Takers : mate[t] # o) => o \in Parked

PairInv == BrokerFacts /\ InSlot /\ TakenOnce /\ Promised /\ Findable

-----------------------------------------------------------------------------

\* At first no slot is taken.
LEMMA BrokerInvInit == ASSUME BrokerInit PROVE BrokerInv
<1> USE DEF BrokerInit
<1>1. Parked = {} /\ Taking = {}
  BY DEF Parked, Taking, Ends
<1>2. BrokerTypes
  BY <1>1 DEF BrokerTypes, States
<1> QED
  BY <1>1, <1>2 DEF BrokerInv, OwnSlot, Fresh, ClosedOut, TakenOut, BrokerLives

\* What the clients do, and what is only told or aged, is of no account.
LEMMA BrokerUntouched ==
  ASSUME BrokerInv, UNCHANGED <<slots, stale, wake, at, mate, panicked, code>>, DOMAIN lines' = DOMAIN lines
  PROVE  BrokerInv'
BY DEF BrokerInv, BrokerTypes, OwnSlot, Fresh, ClosedOut, TakenOut, BrokerLives, Parked, Taking

\* A handler that moves on without a slot, a channel or a taker.
LEMMA MovesOn ==
  ASSUME BrokerInv, NEW p \in Ends, NEW to \in States \ {"new"}, at' = [at EXCEPT ![p] = to],
         p \in Takers => to \notin {"reply", "hand"} \/ at[p] = "reply",
         UNCHANGED <<slots, stale, wake, mate, panicked>>, DOMAIN lines' = DOMAIN lines,
         code' = code \/ (at[p] = "new" /\ \E c \in Codes : code' = [code EXCEPT ![p] = c])
  PROVE  BrokerInv'
<1>1. Parked' = Parked /\ Taking' \subseteq Taking
  BY DEF BrokerInv, BrokerTypes, Parked, Taking
<1>2. BrokerTypes' /\ BrokerLives'
  BY <1>1 DEF BrokerInv, BrokerTypes, BrokerLives
<1>3. OwnSlot'
  <2> SUFFICES ASSUME NEW d \in DOMAIN slots PROVE code'[slots[d]] = d /\ at'[slots[d]] # "new"
    BY DEF OwnSlot
  <2>1. slots[d] \in Ends /\ code[slots[d]] = d /\ at[slots[d]] # "new"
    BY DEF BrokerInv, BrokerTypes, OwnSlot, Parked, Ends
  <2>2. at'[slots[d]] # "new"
    BY <2>1 DEF BrokerInv, BrokerTypes
  <2>3. code'[slots[d]] = d
    BY <2>1 DEF BrokerInv, BrokerTypes
  <2> QED
    BY <2>2, <2>3
<1>4. Fresh' /\ ClosedOut' /\ TakenOut'
  BY <1>1 DEF BrokerInv, BrokerTypes, Fresh, ClosedOut, TakenOut
<1> QED
  BY <1>2, <1>3, <1>4 DEF BrokerInv

\* Slots may go: the others stay in order.
LEMMA SlotsGo ==
  ASSUME BrokerInv, DOMAIN slots' \subseteq DOMAIN slots, \A c \in DOMAIN slots' : slots'[c] = slots[c],
         \A q \in Ends : at[q] # "new" => at'[q] # "new" /\ code'[q] = code[q]
  PROVE  OwnSlot' /\ Parked' \subseteq Parked
<1>1. Parked' \subseteq Parked
  BY DEF Parked
<1>2. OwnSlot'
  <2> SUFFICES ASSUME NEW c \in DOMAIN slots' PROVE code'[slots'[c]] = c /\ at'[slots'[c]] # "new"
    BY DEF OwnSlot
  <2>1. /\ slots'[c] = slots[c] /\ code[slots[c]] = c /\ at[slots[c]] # "new"
        /\ slots[c] \in Ends
    BY DEF BrokerInv, BrokerTypes, OwnSlot, Parked, Ends
  <2> QED
    BY <2>1
<1> QED
  BY <1>1, <1>2

-----------------------------------------------------------------------------
(* The offerers *)

\* OfferHello: parked under its code, or refused.
LEMMA OfferHelloInv ==
  ASSUME BrokerInv, NEW o \in Offerers, NEW c \in Codes, OfferHello(o, c) PROVE BrokerInv'
<1>0. o \in Ends /\ o \notin Takers /\ at[o] = "new" /\ code' = [code EXCEPT ![o] = c]
  BY BrokerAssumption DEF OfferHello, Connects, Ends
<1>1. CASE OfferRefused(o, c)
  <2>1. /\ at' = [at EXCEPT ![o] = "done"] /\ UNCHANGED <<slots, stale, wake, mate, panicked>>
        /\ DOMAIN lines' = DOMAIN lines
    BY <1>1 DEF OfferRefused, Refuse, Move, Say
  <2>2. "done" \in States \ {"new"}
    BY DEF States
  <2> QED
    BY <1>0, <2>1, <2>2, MovesOn
<1>2. CASE Park(o, c)
  <2>1. /\ c \notin DOMAIN slots /\ slots' = [d \in DOMAIN slots \cup {c} |-> IF d = c THEN o ELSE slots[d]]
        /\ at' = [at EXCEPT ![o] = "reply"] /\ UNCHANGED <<stale, wake, mate, lines, panicked>>
    BY <1>2 DEF Park, Move
  <2>2. Parked' = Parked \cup {o}
    BY <2>1 DEF Parked
  <2>3. Taking' = Taking
    BY <1>0, <2>1 DEF Taking, BrokerInv, BrokerTypes
  <2>4. BrokerTypes' /\ BrokerLives'
    BY <1>0, <2>1, <2>2 DEF BrokerInv, BrokerTypes, BrokerLives, States
  <2>5. OwnSlot'
    <3> SUFFICES ASSUME NEW d \in DOMAIN slots' PROVE code'[slots'[d]] = d /\ at'[slots'[d]] # "new"
      BY DEF OwnSlot
    <3>1. CASE d = c
      BY <1>0, <2>1, <3>1 DEF BrokerInv, BrokerTypes
    <3>2. CASE d # c
      <4>1. d \in DOMAIN slots /\ slots'[d] = slots[d] /\ slots[d] \in Ends
            /\ code[slots[d]] = d /\ at[slots[d]] # "new"
        BY <2>1, <3>2 DEF BrokerInv, BrokerTypes, OwnSlot, Parked, Ends
      <4> QED
        BY <1>0, <2>1, <4>1 DEF BrokerInv, BrokerTypes
    <3> QED
      BY <3>1, <3>2
  <2>6. Fresh' /\ ClosedOut' /\ TakenOut'
    BY <1>0, <2>1, <2>2, <2>3 DEF BrokerInv, BrokerTypes, Fresh, ClosedOut, TakenOut
  <2> QED
    BY <2>4, <2>5, <2>6 DEF BrokerInv
<1> QED
  BY <1>1, <1>2 DEF OfferHello

\* Woken: the offerer has its taker, or finds its channel closed.
LEMMA WokenInv == ASSUME BrokerInv, NEW o \in Offerers, Woken(o) PROVE BrokerInv'
<1>0. o \in Ends /\ o \notin Takers /\ at[o] = "parked"
  BY BrokerAssumption DEF Woken, Ends
<1>1. CASE wake[o] = "closed"
  <2>1. at' = [at EXCEPT ![o] = "return"] /\ UNCHANGED <<slots, stale, wake, mate, lines, panicked, code>>
    BY <1>1 DEF Woken, Move
  <2>2. "return" \in States \ {"new"}
    BY DEF States
  <2> QED
    BY <1>0, <2>1, <2>2, MovesOn
<1>2. CASE wake[o] # "closed"
  <2>1. /\ at' = [at EXCEPT ![o] = "pipe"] /\ wake' = [wake EXCEPT ![o] = "read"]
        /\ mate' = [mate EXCEPT ![o] = wake[o]] /\ UNCHANGED <<slots, stale, lines, panicked, code>>
    BY <1>2 DEF Woken, Move
  <2>2. Parked' = Parked /\ Taking' = Taking /\ \A t \in Taking : mate'[t] = mate[t]
    BY <1>0, <2>1 DEF Parked, Taking, BrokerInv, BrokerTypes
  <2>3. BrokerTypes' /\ BrokerLives' /\ OwnSlot'
    BY <1>0, <2>1, <2>2 DEF BrokerInv, BrokerTypes, BrokerLives, OwnSlot, States
  <2>4. Fresh' /\ ClosedOut' /\ TakenOut'
    BY <1>0, <2>1, <2>2 DEF BrokerInv, BrokerTypes, Fresh, ClosedOut, TakenOut
  <2> QED
    BY <2>3, <2>4 DEF BrokerInv
<1> QED
  BY <1>1, <1>2

\* Remove: a handler takes its own slot with it, at most.
LEMMA RemoveInv == ASSUME BrokerInv, NEW o \in Offerers, Remove(o) PROVE BrokerInv'
<1>0. o \in Ends /\ o \notin Takers /\ at' = [at EXCEPT ![o] = "done"]
      /\ UNCHANGED <<stale, wake, mate, lines, panicked, code>>
  BY BrokerAssumption DEF Remove, Move, Ends
<1>1. OwnSlot' /\ Parked' \subseteq Parked
  <2>1. DOMAIN slots' \subseteq DOMAIN slots /\ \A c \in DOMAIN slots' : slots'[c] = slots[c]
    BY DEF Remove, Without
  <2> QED
    BY <1>0, <2>1, SlotsGo DEF BrokerInv, BrokerTypes
<1>2. Taking' = Taking
  BY <1>0 DEF Taking, BrokerInv, BrokerTypes
<1>3. BrokerTypes' /\ BrokerLives'
  BY <1>0, <1>1 DEF BrokerInv, BrokerTypes, BrokerLives, States
<1>4. Fresh' /\ ClosedOut' /\ TakenOut'
  BY <1>0, <1>1, <1>2 DEF BrokerInv, BrokerTypes, Fresh, ClosedOut, TakenOut
<1> QED
  BY <1>1, <1>3, <1>4 DEF BrokerInv

-----------------------------------------------------------------------------
(* The takers and the janitor *)

\* TakeHello: the slot is claimed, and neither the janitor nor another taker
\* finds its offerer again.
LEMMA TakeHelloInv ==
  ASSUME BrokerInv, NEW t \in Takers, NEW c \in Codes, TakeHello(t, c) PROVE BrokerInv'
<1>0. t \in Ends /\ t \notin Offerers /\ at[t] = "new" /\ code' = [code EXCEPT ![t] = c]
  BY BrokerAssumption DEF TakeHello, Connects, Ends
<1>1. CASE c \notin DOMAIN slots
  <2>1. /\ at' = [at EXCEPT ![t] = "done"] /\ UNCHANGED <<slots, stale, wake, mate, panicked>>
        /\ DOMAIN lines' = DOMAIN lines
    BY <1>1 DEF TakeHello, Refuse, Move, Say
  <2>2. "done" \in States \ {"new"}
    BY DEF States
  <2> QED
    BY <1>0, <2>1, <2>2, MovesOn
<1>2. CASE c \in DOMAIN slots
  <2>1. /\ slots' = [d \in DOMAIN slots \ {c} |-> slots[d]]
        /\ mate' = [mate EXCEPT ![t] = slots[c]] /\ at' = [at EXCEPT ![t] = "reply"]
        /\ UNCHANGED <<stale, wake, lines, panicked>>
    BY <1>2 DEF TakeHello, Claimed, Without, Move
  <2>2. slots[c] \in Offerers /\ slots[c] \in Parked /\ at[slots[c]] # "new"
    BY <1>2 DEF BrokerInv, BrokerTypes, OwnSlot, Parked
  <2>3. OwnSlot' /\ Parked' \subseteq Parked
    <3>1. \A q \in Ends : at[q] # "new" => at'[q] # "new" /\ code'[q] = code[q]
      BY <1>0, <2>1 DEF BrokerInv, BrokerTypes
    <3> QED
      BY <2>1, <3>1, SlotsGo
  <2>4. slots[c] \notin Parked'
    <3>1. \A d \in DOMAIN slots : slots[d] = slots[c] => d = c
      BY <1>2 DEF BrokerInv, OwnSlot
    <3> QED
      BY <2>1, <3>1 DEF Parked
  <2>5. Taking' = Taking \cup {t} /\ t \notin Taking
    BY <1>0, <2>1 DEF Taking, BrokerInv, BrokerTypes
  <2>6. BrokerTypes' /\ BrokerLives'
    BY <1>0, <2>1, <2>3 DEF BrokerInv, BrokerTypes, BrokerLives, States
  <2>7. Fresh' /\ ClosedOut'
    BY <1>0, <2>1, <2>2, <2>3, <2>5 DEF BrokerInv, BrokerTypes, Fresh, ClosedOut, Ends
  <2>8. slots[c] \notin stale /\ wake[slots[c]] # "closed"
    BY <2>2 DEF BrokerInv, ClosedOut
  <2>9. TakenOut'
    BY <1>0, <2>1, <2>2, <2>3, <2>4, <2>5, <2>8 DEF BrokerInv, BrokerTypes, TakenOut, Taking, Ends
  <2> QED
    BY <2>3, <2>6, <2>7, <2>9 DEF BrokerInv
<1> QED
  BY <1>1, <1>2

\* TakeReply: on to the channel, or away.
LEMMA TakeReplyInv == ASSUME BrokerInv, NEW t \in Takers, TakeReply(t) PROVE BrokerInv'
<1>1. PICK to \in {"hand", "done"} : at' = [at EXCEPT ![t] = to]
  BY DEF TakeReply, Move
<1>2. /\ at[t] = "reply" /\ t \in Ends /\ UNCHANGED <<slots, stale, wake, mate, panicked, code>>
      /\ DOMAIN lines' = DOMAIN lines /\ to \in States \ {"new"}
  BY <1>1 DEF TakeReply, Say, Ends, States
<1> QED
  BY <1>1, <1>2, MovesOn

\* Hand: the channel is open, so the broker lives.
LEMMA HandInv == ASSUME BrokerInv, NEW t \in Takers, Hand(t) PROVE BrokerInv'
<1>0. /\ t \in Ends /\ t \in Taking /\ t # "closed" /\ mate[t] \in Offerers
      /\ mate[t] \notin Parked \cup stale /\ wake[mate[t]] # "closed"
      /\ at' = [at EXCEPT ![t] = "done"] /\ UNCHANGED <<slots, stale, mate, code>>
  BY BrokerAssumption DEF Hand, Move, Ends, Taking, TakenOut, BrokerInv
<1>1. /\ UNCHANGED panicked /\ DOMAIN lines' = DOMAIN lines
      /\ wake' = wake \/ wake' = [wake EXCEPT ![mate[t]] = t]
  BY <1>0 DEF Hand, Say
<1>2. Parked' = Parked /\ Taking' \subseteq Taking
  BY <1>0 DEF Parked, Taking, BrokerInv, BrokerTypes
<1>3. DOMAIN wake' = Offerers /\ \A o \in Offerers : wake'[o] = wake[o] \/ (o = mate[t] /\ wake'[o] = t)
  BY <1>0, <1>1 DEF BrokerInv, BrokerTypes
<1>4. BrokerTypes' /\ BrokerLives'
  BY <1>0, <1>1, <1>2, <1>3 DEF BrokerInv, BrokerTypes, BrokerLives, States
<1>5. OwnSlot'
  <2>1. \A q \in Ends : at[q] # "new" => at'[q] # "new" /\ code'[q] = code[q]
    BY <1>0 DEF BrokerInv, BrokerTypes
  <2> QED
    BY <1>0, <2>1, SlotsGo
<1>6. Fresh'
  BY <1>0, <1>2, <1>3, BrokerAssumption DEF BrokerInv, BrokerTypes, Fresh, Ends
<1>7. ClosedOut' /\ TakenOut'
  BY <1>0, <1>2, <1>3 DEF BrokerInv, ClosedOut, TakenOut
<1> QED
  BY <1>4, <1>5, <1>6, <1>7 DEF BrokerInv

\* Sweep: what the janitor drops nobody is taking.
LEMMA SweepInv == ASSUME BrokerInv, Sweep PROVE BrokerInv'
<1> DEFINE olds == {o \in Offerers : Expired(o) /\ Mine(o)}
<1>1. /\ slots' = [c \in {d \in DOMAIN slots : slots[d] \notin olds} |-> slots[c]]
      /\ stale' = olds /\ UNCHANGED <<wake, at, mate, lines, panicked, code>>
  BY DEF Sweep
<1>2. olds \subseteq Parked /\ olds \subseteq Offerers
  BY DEF Mine, Parked
<1> HIDE DEF olds
<1>3. Parked' = Parked \ olds
  BY <1>1 DEF Parked
<1>4. OwnSlot'
  BY <1>1, SlotsGo
<1>5. BrokerTypes' /\ BrokerLives'
  BY <1>1, <1>2, <1>3 DEF BrokerInv, BrokerTypes, BrokerLives
<1>6. \A o \in olds : at[o] # "new"
  BY <1>2 DEF BrokerInv, OwnSlot, Parked
<1>7. Taking' = Taking
  BY <1>1 DEF Taking
<1>8. Fresh' /\ ClosedOut' /\ TakenOut'
  BY <1>1, <1>2, <1>3, <1>6, <1>7 DEF BrokerInv, Fresh, ClosedOut, TakenOut
<1> QED
  BY <1>4, <1>5, <1>8 DEF BrokerInv

\* TellStale: the channel that is closed is nobody's any more.
LEMMA TellStaleInv == ASSUME BrokerInv, NEW o \in Offerers, TellStale(o) PROVE BrokerInv'
<1>1. /\ o \in stale /\ stale' = stale \ {o} /\ wake' = [wake EXCEPT ![o] = "closed"]
      /\ DOMAIN lines' = DOMAIN lines /\ UNCHANGED <<slots, at, mate, panicked, code>>
  BY DEF TellStale, Say
<1>2. Parked' = Parked /\ Taking' = Taking
  BY <1>1 DEF Parked, Taking
<1>3. BrokerTypes' /\ BrokerLives' /\ OwnSlot'
  BY <1>1, <1>2 DEF BrokerInv, BrokerTypes, BrokerLives, OwnSlot
<1>4. Fresh' /\ ClosedOut' /\ TakenOut'
  BY <1>1, <1>2 DEF BrokerInv, BrokerTypes, Fresh, ClosedOut, TakenOut
<1> QED
  BY <1>3, <1>4 DEF BrokerInv

-----------------------------------------------------------------------------

\* What else moves a handler on.
LEMMA OthersInv ==
  ASSUME BrokerInv, NEW o \in Offerers, OfferReply(o) \/ TimerFires(o) \/ PipeEnds(o) PROVE BrokerInv'
<1>1. PICK to \in {"return", "parked"} : at' = [at EXCEPT ![o] = to]
  BY DEF OfferReply, TimerFires, PipeEnds, Move
<1>2. /\ o \in Ends /\ o \notin Takers /\ to \in States \ {"new"} /\ DOMAIN lines' = DOMAIN lines
      /\ UNCHANGED <<slots, stale, wake, mate, panicked, code>>
  BY BrokerAssumption DEF OfferReply, TimerFires, PipeEnds, Say, Ends, States
<1> QED
  BY <1>1, <1>2, MovesOn

\* The invariant holds throughout.
THEOREM BrokerInvariant == BrokerSpec => []BrokerInv
<1>1. BrokerInit => BrokerInv
  BY BrokerInvInit
<1>2. ASSUME BrokerInv, [BrokerNext]_brokerVars PROVE BrokerInv'
  <2>1. CASE UNCHANGED brokerVars
    BY <1>2, <2>1, BrokerUntouched DEF brokerVars
  <2>2. CASE \E o \in Offerers, c \in Codes : OfferHello(o, c)
    BY <1>2, <2>2, OfferHelloInv
  <2>3. CASE \E t \in Takers, c \in Codes : TakeHello(t, c)
    BY <1>2, <2>3, TakeHelloInv
  <2>4. ASSUME NEW o \in Offerers, OfferRuns(o) \/ Age(o) \/ PipeEnds(o) PROVE BrokerInv'
    <3>1. CASE Age(o)
      BY <1>2, <3>1, BrokerUntouched DEF Age, clientVars
    <3> QED
      BY <1>2, <2>4, <3>1, OthersInv, WokenInv, RemoveInv DEF OfferRuns
  <2>5. CASE \E t \in Takers : TakeRuns(t)
    BY <1>2, <2>5, TakeReplyInv, HandInv DEF TakeRuns
  <2>6. CASE Janitor
    BY <1>2, <2>6, SweepInv, TellStaleInv DEF Janitor
  <2>7. CASE \E p \in Ends : EndRuns(p) \/ Leaves(p)
    <3>1. UNCHANGED brokerSide
      BY <2>7 DEF EndRuns, ReadReply, ReadHello, Deadline, Hangup, Leaves
    <3> QED
      BY <1>2, <3>1, BrokerUntouched DEF brokerSide
  <2> QED
    BY <1>2, <2>1, <2>2, <2>3, <2>4, <2>5, <2>6, <2>7 DEF BrokerNext
<1> QED
  BY <1>1, <1>2, PTL DEF BrokerSpec

\* The broker survives its timeouts: no taker sends on a channel the janitor has
\* closed, however late it comes to it (broker.go:87, 196, 207-208).
THEOREM BrokerSurvives == BrokerSpec => []BrokerLives
<1>1. BrokerInv => BrokerLives
  BY DEF BrokerInv
<1> QED
  BY <1>1, BrokerInvariant, PTL

-----------------------------------------------------------------------------
(* Who is promised what *)

\* At first nobody has come.
LEMMA PairInvInit == ASSUME BrokerInit PROVE PairInv
<1> USE DEF BrokerInit
<1>0. /\ \A p \in Ends : at[p] = "new" /\ mate[p] = NoEnd /\ lines[p] = {}
      /\ \A o \in Offerers : wake[o] = "empty"
      /\ Offerers \subseteq Ends /\ Takers \subseteq Ends /\ NoEnd \notin Ends
  BY BrokerAssumption DEF Ends
<1>1. Parked = {}
  BY DEF Parked
<1>2. BrokerFacts
  BY <1>0 DEF BrokerFacts
<1>3. InSlot /\ TakenOnce /\ Promised /\ Findable
  BY <1>0, <1>1 DEF InSlot, TakenOnce, Promised, Hopes, Findable, Waits
<1> QED
  BY <1>2, <1>3 DEF PairInv

\* Time passes and ends go: nothing is promised or taken back.
LEMMA PairGrows ==
  ASSUME PairInv, UNCHANGED <<slots, stale, wake, at, mate, lines, shut>>, old \subseteq old', gone \subseteq gone'
  PROVE  PairInv'
<1>1. Parked' = Parked
  BY DEF Parked
<1>2. BrokerFacts' /\ TakenOnce'
  BY <1>1 DEF PairInv, BrokerFacts, TakenOnce
<1>3. InSlot' /\ Findable'
  BY <1>1 DEF PairInv, InSlot, Findable, Waits
<1>4. Promised'
  BY DEF PairInv, Promised, Hopes, Waits
<1> QED
  BY <1>2, <1>3, <1>4 DEF PairInv

\* What an end may expect of the others' state.
LEMMA EndsApart ==
  ASSUME BrokerInv
  PROVE  /\ Offerers \subseteq Ends /\ Takers \subseteq Ends /\ Offerers \cap Takers = {}
         /\ NoEnd \notin Ends /\ {"empty", "closed", "read"} \cap Ends = {}
         /\ DOMAIN at = Ends /\ DOMAIN wake = Offerers /\ DOMAIN mate = Ends /\ DOMAIN lines = Ends
         /\ Parked \subseteq Offerers
BY BrokerAssumption DEF BrokerInv, BrokerTypes, Ends

\* An end that is refused is in no slot and has none.
LEMMA RefusePair ==
  ASSUME BrokerInv, PairInv, NEW p \in Ends, at[p] = "new", Refuse(p, "ERR") PROVE PairInv'
<1>0. /\ at' = [at EXCEPT ![p] = "done"] /\ shut' = shut \cup {p} /\ lines' = [lines EXCEPT ![p] = @ \cup {"ERR"}]
      /\ UNCHANGED <<slots, old, stale, wake, mate, gone>>
  BY DEF Refuse, Say, Close, Move, clientVars
<1>a. Parked' = Parked /\ p \notin Parked
  BY <1>0 DEF Parked, BrokerInv, OwnSlot
<1>b. \A q \in Ends \ {p} : at'[q] = at[q] /\ lines'[q] = lines[q] /\ (q \in shut' <=> q \in shut)
  BY <1>0, EndsApart
<1>c. at'[p] = "done" /\ lines'[p] = lines[p] \cup {"ERR"}
  BY <1>0, EndsApart
<1>d. \A t \in Takers : mate[t] # p
  BY EndsApart DEF PairInv, TakenOnce
<1>1. BrokerFacts'
  BY <1>0, <1>b, <1>c, EndsApart DEF PairInv, BrokerFacts
<1>2. InSlot'
  BY <1>0, <1>a, <1>b, EndsApart DEF PairInv, InSlot, Waits
<1>3. TakenOnce'
  BY <1>0, <1>a, <1>b, <1>c, <1>d, EndsApart DEF PairInv, TakenOnce
<1>4. Promised'
  <2> SUFFICES ASSUME NEW t \in Takers, Hopes(t)'
               PROVE  /\ mate[t] \in Offerers
                      /\ \/ mate[t] \in old \cup gone
                         \/ mate[mate[t]] = t /\ ~Waits(mate[t])'
                         \/ /\ Waits(mate[t])' /\ mate[t] \notin shut'
                            /\ wake[mate[t]] = IF at'[t] = "done" THEN t ELSE "empty"
    BY <1>0 DEF Promised
  <2>1. t # p
    BY <1>c DEF Hopes, PairInv, BrokerFacts
  <2>2. at'[t] = at[t] /\ Hopes(t) /\ mate[t] # p
    BY <1>b, <1>d, <2>1, EndsApart DEF Hopes
  <2>3. mate[t] \in Offerers
    BY <2>2 DEF PairInv, Promised
  <2>4. (Waits(mate[t])' <=> Waits(mate[t])) /\ (mate[t] \in shut' <=> mate[t] \in shut)
    BY <1>0, <1>b, <2>2, <2>3, EndsApart DEF Waits
  <2> QED
    BY <2>2, <2>3, <2>4 DEF PairInv, Promised
<1>5. Findable'
  BY <1>0, <1>a, <1>b, <1>c, EndsApart DEF PairInv, Findable, Waits
<1> QED
  BY <1>1, <1>2, <1>3, <1>4, <1>5 DEF PairInv

\* Park: a new slot, that nobody has taken.
LEMMA ParkPair ==
  ASSUME BrokerInv, PairInv, NEW o \in Offerers, NEW c, at[o] = "new", Park(o, c) PROVE PairInv'
<1>0. /\ at' = [at EXCEPT ![o] = "reply"] /\ UNCHANGED <<old, stale, wake, mate, lines, shut, gone>>
      /\ c \notin DOMAIN slots /\ slots' = [d \in DOMAIN slots \cup {c} |-> IF d = c THEN o ELSE slots[d]]
  BY DEF Park, Move, clientVars
<1>a. Parked' = Parked \cup {o} /\ o \notin Parked
  BY <1>0 DEF Parked, BrokerInv, OwnSlot
<1>b. at'[o] = "reply" /\ \A q \in Ends \ {o} : at'[q] = at[q]
  BY <1>0, EndsApart
<1>d. \A t \in Takers : mate[t] # o /\ t # o
  BY EndsApart DEF PairInv, TakenOnce
<1>1. BrokerFacts'
  BY <1>0, <1>b, EndsApart DEF PairInv, BrokerFacts
<1>2. InSlot'
  BY <1>0, <1>a, <1>b, EndsApart DEF PairInv, InSlot, Waits, BrokerInv, Fresh, BrokerFacts
<1>3. TakenOnce'
  BY <1>0, <1>a, <1>b, <1>d, EndsApart DEF PairInv, TakenOnce
<1>4. Promised'
  <2>1. \A t \in Takers : Hopes(t)' => Hopes(t) /\ mate[t] \in Offerers \ {o} /\ at'[t] = at[t]
    BY <1>0, <1>b, <1>d, EndsApart DEF PairInv, Promised, Hopes
  <2>2. \A q \in Offerers \ {o} : Waits(q)' <=> Waits(q)
    BY <1>b, EndsApart DEF Waits
  <2> QED
    BY <1>0, <2>1, <2>2 DEF PairInv, Promised
<1>5. Findable'
  BY <1>0, <1>a, <1>b, EndsApart DEF PairInv, Findable, Waits
<1> QED
  BY <1>1, <1>2, <1>3, <1>4, <1>5 DEF PairInv

\* An offerer's handler that stops waiting for a reason: it or its client is
\* gone, its time is over, or it is joined to its taker and that pipe ends.
LEMMA StopsPair ==
  ASSUME BrokerInv, PairInv, NEW o \in Offerers, OfferReply(o) \/ TimerFires(o) \/ PipeEnds(o) PROVE PairInv'
<1>0. /\ UNCHANGED <<slots, old, stale, wake, mate, gone>> /\ (at' = [at EXCEPT ![o] = "parked"] \/ at' = [at EXCEPT ![o] = "return"])
      /\ \A t \in Takers : lines'[t] = lines[t]
  BY EndsApart DEF OfferReply, TimerFires, PipeEnds, Move, Say, clientVars
<1>a. Parked' = Parked
  BY <1>0 DEF Parked
<1>b. at'[o] \in {"parked", "return"} /\ \A q \in Ends \ {o} : at'[q] = at[q]
  BY <1>0, EndsApart
<1>c. \/ at[o] = "reply" /\ at'[o] = "parked" /\ o \notin shut /\ shut' = shut
      \/ at[o] \in {"reply", "parked"} /\ at'[o] = "return" /\ o \in gone \cup shut \cup old /\ (at[o] = "parked" => o \in old) /\ shut' = shut
      \/ at[o] = "pipe" /\ at'[o] = "return" /\ shut' = shut \cup {o, mate[o]}
  BY <1>b, EndsApart DEF OfferReply, TimerFires, PipeEnds, Move, ReplyFails, Expired, Close
<1>d. \A q \in Offerers \ {o} : (Waits(q)' <=> Waits(q)) /\ at'[q] = at[q] /\ (q \in shut' <=> q \in shut)
  BY <1>b, <1>c, EndsApart DEF Waits, PairInv, BrokerFacts
<1>e. \A t \in Takers : at'[t] = at[t] /\ (Hopes(t)' <=> Hopes(t))
  BY <1>0, <1>b, EndsApart DEF Hopes
<1>1. BrokerFacts'
  BY <1>0, <1>b, <1>d, <1>e DEF PairInv, BrokerFacts
<1>2. InSlot'
  <2>1. CASE o \in Parked
    BY <1>0, <1>a, <1>b, <1>c, <1>d, <2>1, EndsApart DEF PairInv, InSlot, Waits
  <2>2. CASE o \notin Parked
    BY <1>0, <1>a, <1>d, <2>2, EndsApart DEF PairInv, InSlot
  <2> QED
    BY <2>1, <2>2
<1>3. TakenOnce'
  BY <1>0, <1>a, <1>b, <1>d, <1>e DEF PairInv, TakenOnce
<1>4. Promised'
  <2> SUFFICES ASSUME NEW t \in Takers, Hopes(t), NEW q \in Offerers, q = mate[t]
               PROVE  \/ q \in old \cup gone
                      \/ mate[q] = t /\ ~Waits(q)'
                      \/ Waits(q)' /\ q \notin shut' /\ wake[q] = IF at[t] = "done" THEN t ELSE "empty"
    BY <1>0, <1>e DEF Promised, PairInv
  <2>1. \/ q \in old \cup gone
        \/ mate[q] = t /\ ~Waits(q)
        \/ Waits(q) /\ q \notin shut /\ wake[q] = IF at[t] = "done" THEN t ELSE "empty"
    BY DEF PairInv, Promised
  <2>2. CASE q # o
    BY <1>d, <2>1, <2>2
  <2>3. CASE q = o
    BY <1>0, <1>b, <1>c, <2>1, <2>3 DEF Waits
  <2> QED
    BY <2>2, <2>3
<1>5. Findable'
  <2>1. \A q \in Offerers : Waits(q)' => Waits(q)
    BY <1>b, <1>c, <1>d DEF Waits
  <2> QED
    BY <1>0, <1>a, <2>1 DEF PairInv, Findable
<1> QED
  BY <1>1, <1>2, <1>3, <1>4, <1>5 DEF PairInv

\* Woken: the taker in the channel is the one it was promised.
LEMMA WokenPair == ASSUME BrokerInv, PairInv, NEW o \in Offerers, Woken(o) PROVE PairInv'
<1>0. /\ UNCHANGED <<slots, old, stale, lines, shut, gone>> /\ at[o] = "parked" /\ wake[o] # "empty"
      /\ \/ wake[o] = "closed" /\ at' = [at EXCEPT ![o] = "return"] /\ UNCHANGED <<wake, mate>>
         \/ /\ wake[o] # "closed" /\ at' = [at EXCEPT ![o] = "pipe"]
            /\ mate' = [mate EXCEPT ![o] = wake[o]] /\ wake' = [wake EXCEPT ![o] = "read"]
  BY DEF Woken, Move, clientVars
<1>a. Parked' = Parked /\ o \notin Parked
  BY <1>0 DEF Parked, PairInv, InSlot
<1>b. at'[o] \in {"pipe", "return"} /\ ~Waits(o)' /\ Waits(o)
  BY <1>0, EndsApart DEF Waits
<1>c. \A q \in Ends \ {o} : at'[q] = at[q] /\ mate'[q] = mate[q]
  BY <1>0, EndsApart
<1>d. \A q \in Offerers \ {o} : wake'[q] = wake[q] /\ (Waits(q)' <=> Waits(q)) /\ mate'[q] = mate[q]
  BY <1>0, <1>c, EndsApart DEF Waits
<1>e. \A t \in Takers : at'[t] = at[t] /\ (Hopes(t)' <=> Hopes(t)) /\ mate'[t] = mate[t]
  BY <1>0, <1>c, EndsApart DEF Hopes
<1>f. \/ wake[o] = "closed" /\ wake'[o] = wake[o] /\ mate'[o] = mate[o]
      \/ wake[o] # "closed" /\ mate'[o] = wake[o] /\ wake'[o] = "read"
  BY <1>0, EndsApart
<1>g. wake[o] \notin Offerers
  BY EndsApart DEF PairInv, BrokerFacts
<1>1. BrokerFacts'
  BY <1>0, <1>b, <1>c, <1>d, <1>e, <1>f, <1>g, EndsApart DEF PairInv, BrokerFacts
<1>2. InSlot'
  BY <1>0, <1>a, <1>c, <1>d, EndsApart DEF PairInv, InSlot
<1>3. TakenOnce'
  BY <1>a, <1>b, <1>c, <1>e, EndsApart DEF PairInv, TakenOnce
<1>4. Promised'
  <2> SUFFICES ASSUME NEW t \in Takers, Hopes(t), NEW q \in Offerers, q = mate[t]
               PROVE  \/ q \in old \cup gone
                      \/ mate'[q] = t /\ ~Waits(q)'
                      \/ Waits(q)' /\ q \notin shut /\ wake'[q] = IF at[t] = "done" THEN t ELSE "empty"
    BY <1>0, <1>e DEF Promised, PairInv
  <2>1. \/ q \in old \cup gone
        \/ mate[q] = t /\ ~Waits(q)
        \/ Waits(q) /\ q \notin shut /\ wake[q] = IF at[t] = "done" THEN t ELSE "empty"
    BY DEF PairInv, Promised
  <2>2. CASE q # o
    BY <1>d, <2>1, <2>2
  <2>3. CASE q = o
    BY <1>0, <1>b, <1>f, <2>1, <2>3, EndsApart
  <2> QED
    BY <2>2, <2>3
<1>5. Findable'
  BY <1>0, <1>a, <1>b, <1>d, <1>e DEF PairInv, Findable
<1> QED
  BY <1>1, <1>2, <1>3, <1>4, <1>5 DEF PairInv

\* Remove: a handler that returns takes no slot but its own.
LEMMA RemovePair == ASSUME BrokerInv, PairInv, NEW o \in Offerers, Remove(o) PROVE PairInv'
<1>0. /\ UNCHANGED <<old, stale, wake, mate, lines, gone>> /\ at[o] = "return"
      /\ at' = [at EXCEPT ![o] = "done"] /\ shut' = shut \cup {o}
      /\ slots' = IF Mine(o) THEN Without(slots, code[o]) ELSE slots
  BY DEF Remove, Move, Close, clientVars
<1>a. Parked' = Parked \ {o}
  <2>1. \A c \in DOMAIN slots : slots[c] = o <=> Mine(o) /\ c = code[o]
    BY DEF BrokerInv, OwnSlot, Mine
  <2>2. DOMAIN slots' = {c \in DOMAIN slots : slots[c] # o}
    BY <1>0, <2>1 DEF Without
  <2>3. \A c \in DOMAIN slots' : slots'[c] = slots[c]
    BY <1>0 DEF Without
  <2>4. Parked' \subseteq Parked \ {o}
    BY <2>2, <2>3 DEF Parked
  <2>5. Parked \ {o} \subseteq Parked'
    BY <2>2, <2>3 DEF Parked
  <2> QED
    BY <2>4, <2>5
<1>b. at'[o] = "done" /\ ~Waits(o)' /\ ~Waits(o)
  BY <1>0, EndsApart DEF Waits
<1>c. \A q \in Ends \ {o} : at'[q] = at[q] /\ (q \in shut' <=> q \in shut) /\ (Waits(q)' <=> Waits(q))
  BY <1>0, EndsApart DEF Waits
<1>e. \A t \in Takers : at'[t] = at[t] /\ (Hopes(t)' <=> Hopes(t))
  BY <1>0, <1>c, EndsApart DEF Hopes
<1>1. BrokerFacts'
  BY <1>0, <1>b, <1>c, <1>e, EndsApart DEF PairInv, BrokerFacts
<1>2. InSlot'
  BY <1>0, <1>a, <1>c, EndsApart DEF PairInv, InSlot
<1>3. TakenOnce'
  BY <1>0, <1>a, <1>b, <1>c, <1>e, EndsApart DEF PairInv, TakenOnce
<1>4. Promised'
  BY <1>0, <1>b, <1>c, <1>e, EndsApart DEF PairInv, Promised
<1>5. Findable'
  BY <1>0, <1>a, <1>b, <1>c, EndsApart DEF PairInv, Findable
<1> QED
  BY <1>1, <1>2, <1>3, <1>4, <1>5 DEF PairInv

\* TakeHello: the slot goes to one taker, with whoever waits in it.
LEMMA TakeHelloPair ==
  ASSUME BrokerInv, PairInv, NEW t \in Takers, NEW c \in Codes, TakeHello(t, c) PROVE PairInv'
<1>0. at[t] = "new" /\ t \in Ends
  BY EndsApart DEF TakeHello, Connects
<1>1. CASE c \notin DOMAIN slots
  BY <1>0, <1>1, RefusePair DEF TakeHello
<1>2. CASE c \in DOMAIN slots
  <2> DEFINE o == slots[c]
  <2>0. /\ UNCHANGED <<old, stale, wake, lines, shut, gone>> /\ at' = [at EXCEPT ![t] = "reply"]
        /\ mate' = [mate EXCEPT ![t] = o] /\ slots' = [d \in DOMAIN slots \ {c} |-> slots[d]]
    BY <1>2 DEF TakeHello, Claimed, Without, Move, clientVars
  <2>a. Parked' = Parked \ {o} /\ o \in Parked /\ o \in Offerers /\ at[o] # "new"
    <3>1. \A d \in DOMAIN slots : slots[d] = o => d = c
      BY <1>2 DEF BrokerInv, OwnSlot
    <3>2. o \in Parked /\ at[o] # "new" /\ o \in Offerers
      BY <1>2, EndsApart DEF BrokerInv, OwnSlot, Parked
    <3>3. Parked' \subseteq Parked \ {o}
      BY <2>0, <3>1 DEF Parked
    <3>4. Parked \ {o} \subseteq Parked'
      BY <2>0 DEF Parked
    <3> QED
      BY <3>2, <3>3, <3>4
  <2>b. PICK q \in Offerers : q = o
    BY <2>a
  <2> HIDE DEF o
  <2>c. at'[t] = "reply" /\ mate'[t] = q /\ \A p \in Ends \ {t} : at'[p] = at[p] /\ mate'[p] = mate[p]
    BY <2>0, <2>b, <1>0, EndsApart
  <2>d. t \notin Offerers /\ \A p \in Offerers : at'[p] = at[p] /\ mate'[p] = mate[p] /\ (Waits(p)' <=> Waits(p))
    BY <2>c, EndsApart DEF Waits
  <2>e. \A u \in Takers : mate[u] # q
    BY <2>a, <2>b, EndsApart DEF PairInv, TakenOnce
  <2>1. BrokerFacts'
    BY <1>0, <2>0, <2>c, <2>d, EndsApart DEF PairInv, BrokerFacts
  <2>2. InSlot'
    BY <2>0, <2>a, <2>d, EndsApart DEF PairInv, InSlot
  <2>3. TakenOnce'
    <3> SUFFICES ASSUME NEW u \in Takers
                 PROVE  /\ at'[u] = "new" => mate'[u] = NoEnd
                        /\ mate'[u] # NoEnd =>
                             /\ mate'[u] \in Offerers \ Parked' /\ at'[mate'[u]] # "new"
                             /\ \A v \in Takers : mate'[v] = mate'[u] => v = u
      BY DEF TakenOnce
    <3>1. CASE u = t
      BY <2>a, <2>b, <2>c, <2>d, <2>e, <3>1, EndsApart
    <3>2. CASE u # t
      <4>1. at'[u] = at[u] /\ mate'[u] = mate[u] /\ mate[u] # q
        BY <2>c, <2>e, <3>2, EndsApart
      <4>2. /\ at[u] = "new" => mate[u] = NoEnd
            /\ mate[u] # NoEnd =>
                 /\ mate[u] \in Offerers \ Parked /\ at[mate[u]] # "new"
                 /\ \A v \in Takers : mate[v] = mate[u] => v = u
        BY DEF PairInv, TakenOnce
      <4>3. \A v \in Takers : mate'[v] = mate[u] => mate[v] = mate[u]
        BY <2>c, <4>1, EndsApart
      <4> QED
        BY <2>a, <2>d, <4>1, <4>2, <4>3
    <3> QED
      BY <3>1, <3>2
  <2>4. Promised'
    <3> SUFFICES ASSUME NEW u \in Takers, Hopes(u)'
                 PROVE  /\ mate'[u] \in Offerers
                        /\ \/ mate'[u] \in old \cup gone
                           \/ mate'[mate'[u]] = u /\ ~(at'[mate'[u]] \in {"reply", "parked"})
                           \/ /\ at'[mate'[u]] \in {"reply", "parked"} /\ mate'[u] \notin shut
                              /\ wake[mate'[u]] = IF at'[u] = "done" THEN u ELSE "empty"
      BY <2>0 DEF Promised, Waits
    <3>1. CASE u = t
      <4>1. wake[q] = "empty" /\ q \notin shut /\ (at[q] \in {"reply", "parked"} \/ q \in old \cup gone)
        BY <2>a, <2>b DEF PairInv, InSlot, Waits
      <4> QED
        BY <2>c, <2>d, <3>1, <4>1
    <3>2. CASE u # t
      <4>1. at'[u] = at[u] /\ mate'[u] = mate[u] /\ Hopes(u)
        BY <2>0, <2>c, <3>2, EndsApart DEF Hopes
      <4> QED
        BY <2>d, <4>1 DEF PairInv, Promised, Waits
    <3> QED
      BY <3>1, <3>2
  <2>5. Findable'
    BY <2>0, <2>a, <2>b, <2>c, <2>d, <1>0, EndsApart DEF PairInv, Findable, TakenOnce
  <2> QED
    BY <2>1, <2>2, <2>3, <2>4, <2>5 DEF PairInv
<1> QED
  BY <1>1, <1>2

\* TakeReply: the taker is told that it has its offerer, or its offerer is told off.
LEMMA TakeReplyPair == ASSUME BrokerInv, PairInv, NEW t \in Takers, TakeReply(t) PROVE PairInv'
<1>z. at[t] = "reply" /\ Hopes(t) /\ mate[t] \in Offerers /\ mate[t] # NoEnd /\ t \notin Offerers
  BY EndsApart DEF TakeReply, Hopes, PairInv, Promised
<1>y. PICK o \in Offerers : o = mate[t]
  BY <1>z
<1>0. /\ UNCHANGED <<slots, old, stale, wake, mate, gone>>
      /\ \/ lines' = [lines EXCEPT ![t] = @ \cup {"OK"}] /\ at' = [at EXCEPT ![t] = "hand"] /\ shut' = shut
         \/ lines' = [lines EXCEPT ![o] = @ \cup {"ERR gone"}] /\ at' = [at EXCEPT ![t] = "done"]
            /\ shut' = shut \cup {t, o}
  BY <1>y DEF TakeReply, Say, Close, Move, clientVars
<1>a. Parked' = Parked
  BY <1>0 DEF Parked
<1>b. \A p \in Ends \ {t} : at'[p] = at[p]
  BY <1>0, EndsApart
<1>c. \A p \in Offerers : at'[p] = at[p] /\ (Waits(p)' <=> Waits(p))
  BY <1>z, <1>b, EndsApart DEF Waits
<1>d. \A u \in Takers \ {t} : at'[u] = at[u] /\ mate[u] # o /\ lines'[u] = lines[u]
  <2>1. \A u \in Takers \ {t} : mate[u] # o
    BY <1>y, <1>z DEF PairInv, TakenOnce
  <2>2. \A u \in Takers \ {t} : lines'[u] = lines[u]
    BY <1>0, EndsApart
  <2> QED
    BY <1>b, <2>1, <2>2, EndsApart
<1>e. \/ at'[t] = "hand" /\ shut' = shut
      \/ at'[t] = "done" /\ "OK" \notin lines'[t] /\ shut' = shut \cup {t, o}
  <2>1. "OK" \notin lines[t]
    BY <1>z DEF PairInv, BrokerFacts
  <2> QED
    BY <1>0, <1>z, <2>1, EndsApart
<1>f. o \notin Parked /\ t \notin Parked
  BY <1>y, <1>z, EndsApart DEF PairInv, TakenOnce
<1>1. BrokerFacts'
  BY <1>0, <1>c, <1>d, <1>e, <1>y, <1>z, EndsApart DEF PairInv, BrokerFacts, TakenOnce
<1>2. InSlot'
  <2>1. \A p \in Parked : p \notin shut'
    BY <1>e, <1>f DEF PairInv, InSlot
  <2> QED
    BY <1>0, <1>a, <1>c, <2>1, EndsApart DEF PairInv, InSlot
<1>3. TakenOnce'
  BY <1>0, <1>a, <1>b, <1>c, <1>d, <1>e, EndsApart DEF PairInv, TakenOnce
<1>4. Promised'
  <2> SUFFICES ASSUME NEW u \in Takers, Hopes(u)', NEW q, q = mate[u]
               PROVE  /\ q \in Offerers
                      /\ \/ q \in old \cup gone
                         \/ mate[q] = u /\ ~Waits(q)
                         \/ Waits(q) /\ q \notin shut' /\ wake[q] = IF at'[u] = "done" THEN u ELSE "empty"
    BY <1>0, <1>c DEF Promised
  <2>0. Hopes(u) => /\ q \in Offerers
                    /\ \/ q \in old \cup gone
                       \/ mate[q] = u /\ ~Waits(q)
                       \/ Waits(q) /\ q \notin shut /\ wake[q] = IF at[u] = "done" THEN u ELSE "empty"
    BY DEF PairInv, Promised
  <2>1. CASE u = t
    BY <1>0, <1>e, <1>y, <1>z, <2>0, <2>1 DEF Hopes
  <2>2. CASE u # t
    BY <1>d, <1>e, <2>0, <2>2, EndsApart DEF Hopes
  <2> QED
    BY <2>1, <2>2
<1>5. Findable'
  BY <1>0, <1>a, <1>c DEF PairInv, Findable
<1> QED
  BY <1>1, <1>2, <1>3, <1>4, <1>5 DEF PairInv

\* Hand: the channel gets the one taker that took the slot.
LEMMA HandPair == ASSUME BrokerInv, PairInv, NEW t \in Takers, Hand(t) PROVE PairInv'
<1>z. t \in Taking /\ at[t] = "hand" /\ Hopes(t) /\ mate[t] \in Offerers /\ mate[t] # NoEnd /\ t \notin Offerers
  BY EndsApart DEF Hand, Taking, Hopes, PairInv, Promised
<1>y. PICK o \in Offerers : o = mate[t]
  BY <1>z
<1>x. wake[o] # "closed" /\ o \notin Parked
  BY <1>y, <1>z DEF BrokerInv, TakenOut
<1>0. /\ UNCHANGED <<slots, old, stale, mate, gone>> /\ at' = [at EXCEPT ![t] = "done"]
      /\ \/ wake[o] \in {"empty", "read"} /\ wake' = [wake EXCEPT ![o] = t] /\ lines' = lines /\ shut' = shut
         \/ wake[o] # "empty" /\ wake' = wake /\ lines' = [lines EXCEPT ![t] = @ \cup {"ERR gone"}] /\ shut' = shut \cup {t}
  BY <1>x, <1>y DEF Hand, Say, Close, Move, clientVars
<1>a. Parked' = Parked
  BY <1>0 DEF Parked
<1>b. at'[t] = "done" /\ \A p \in Ends \ {t} : at'[p] = at[p]
  BY <1>0, EndsApart
<1>c. \A p \in Offerers : at'[p] = at[p] /\ (Waits(p)' <=> Waits(p)) /\ (p \in shut' <=> p \in shut)
  BY <1>0, <1>z, <1>b, EndsApart DEF Waits
<1>d. \A u \in Takers \ {t} : at'[u] = at[u] /\ mate[u] # o /\ lines'[u] = lines[u]
  BY <1>0, <1>b, <1>y, <1>z, EndsApart DEF PairInv, TakenOnce
<1>e. (\A p \in Offerers \ {o} : wake'[p] = wake[p]) /\ (wake[o] = "empty" => wake'[o] = t)
      /\ wake'[o] \in {wake[o], t}
  BY <1>0, EndsApart
<1>1. BrokerFacts'
  BY <1>0, <1>b, <1>c, <1>d, <1>e, EndsApart DEF PairInv, BrokerFacts
<1>2. InSlot'
  BY <1>0, <1>a, <1>c, <1>e, <1>x, EndsApart DEF PairInv, InSlot
<1>3. TakenOnce'
  BY <1>0, <1>a, <1>b, <1>c, <1>d, EndsApart DEF PairInv, TakenOnce
<1>4. Promised'
  <2> SUFFICES ASSUME NEW u \in Takers, Hopes(u)', NEW q, q = mate[u]
               PROVE  /\ q \in Offerers
                      /\ \/ q \in old \cup gone
                         \/ mate[q] = u /\ ~Waits(q)
                         \/ Waits(q) /\ q \notin shut' /\ wake'[q] = IF at'[u] = "done" THEN u ELSE "empty"
    BY <1>0, <1>c DEF Promised
  <2>0. Hopes(u) => /\ q \in Offerers
                    /\ \/ q \in old \cup gone
                       \/ mate[q] = u /\ ~Waits(q)
                       \/ Waits(q) /\ q \notin shut /\ wake[q] = IF at[u] = "done" THEN u ELSE "empty"
    BY DEF PairInv, Promised
  <2>1. CASE u = t
    BY <1>b, <1>c, <1>e, <1>y, <1>z, <2>0, <2>1
  <2>2. CASE u # t
    BY <1>c, <1>d, <1>e, <2>0, <2>2, EndsApart DEF Hopes
  <2> QED
    BY <2>1, <2>2
<1>5. Findable'
  <2>1. \A q \in Offerers : wake'[q] = "empty" => wake[q] = "empty"
    BY <1>e, EndsApart
  <2> QED
    BY <1>0, <1>a, <1>c, <2>1 DEF PairInv, Findable
<1> QED
  BY <1>1, <1>2, <1>3, <1>4, <1>5 DEF PairInv

\* Sweep: what leaves the slots is stale, and old.
LEMMA SweepPair == ASSUME BrokerInv, PairInv, Sweep PROVE PairInv'
<1> DEFINE olds == {o \in Offerers : Expired(o) /\ Mine(o)}
<1>0. /\ UNCHANGED <<old, wake, at, mate, lines, shut, gone>> /\ stale = {} /\ stale' = olds
      /\ slots' = [c \in {d \in DOMAIN slots : slots[d] \notin olds} |-> slots[c]]
  BY DEF Sweep, clientVars
<1>a. olds \subseteq old
  BY DEF Expired
<1> HIDE DEF olds
<1>b. Parked' = Parked \ olds
  BY <1>0 DEF Parked
<1>1. BrokerFacts'
  BY <1>0, <1>a DEF PairInv, BrokerFacts
<1>2. InSlot' /\ TakenOnce'
  BY <1>0, <1>b DEF PairInv, InSlot, TakenOnce, Waits
<1>3. Promised'
  BY <1>0 DEF PairInv, Promised, Hopes, Waits
<1>4. Findable'
  BY <1>0, <1>b DEF PairInv, Findable, Waits
<1> QED
  BY <1>1, <1>2, <1>3, <1>4 DEF PairInv

\* TellStale: nobody is in a slot whose channel is closed.
LEMMA TellStalePair == ASSUME BrokerInv, PairInv, NEW o \in Offerers, TellStale(o) PROVE PairInv'
<1>0. /\ UNCHANGED <<slots, old, at, mate, shut, gone>> /\ o \in stale /\ stale' = stale \ {o}
      /\ wake' = [wake EXCEPT ![o] = "closed"] /\ \A t \in Takers : lines'[t] = lines[t]
  BY EndsApart DEF TellStale, Say, clientVars
<1>a. Parked' = Parked /\ o \notin Parked /\ o \in old
  <2>1. Parked' = Parked
    BY <1>0 DEF Parked
  <2>2. o \notin Parked /\ o \in old
    BY <1>0 DEF BrokerInv, ClosedOut, PairInv, BrokerFacts
  <2> QED
    BY <2>1, <2>2
<1>b. wake'[o] = "closed" /\ \A p \in Offerers \ {o} : wake'[p] = wake[p]
  BY <1>0, EndsApart
<1>1. BrokerFacts'
  BY <1>0, <1>b DEF PairInv, BrokerFacts
<1>2. InSlot' /\ TakenOnce'
  BY <1>0, <1>a, <1>b, EndsApart DEF PairInv, InSlot, TakenOnce, Waits
<1>3. Promised'
  BY <1>0, <1>a, <1>b DEF PairInv, Promised, Hopes, Waits
<1>4. Findable'
  BY <1>0, <1>a, <1>b DEF PairInv, Findable, Waits
<1> QED
  BY <1>1, <1>2, <1>3, <1>4 DEF PairInv

\* What is promised is kept throughout.
THEOREM PairInvariant == BrokerSpec => []PairInv
<1>1. BrokerInit => BrokerInv /\ PairInv
  BY BrokerInvInit, PairInvInit
<1>2. ASSUME BrokerInv, PairInv, [BrokerNext]_brokerVars PROVE PairInv'
  <2>1. CASE UNCHANGED brokerVars
    BY <1>2, <2>1, PairGrows DEF brokerVars
  <2>2. ASSUME NEW o \in Offerers, NEW c \in Codes, OfferHello(o, c) PROVE PairInv'
    <3>1. at[o] = "new" /\ o \in Ends
      BY <2>2 DEF OfferHello, Connects, Ends
    <3> QED
      BY <1>2, <2>2, <3>1, RefusePair, ParkPair DEF OfferHello, OfferRefused
  <2>3. CASE \E t \in Takers, c \in Codes : TakeHello(t, c)
    BY <1>2, <2>3, TakeHelloPair
  <2>4. ASSUME NEW o \in Offerers, OfferRuns(o) \/ Age(o) \/ PipeEnds(o) PROVE PairInv'
    <3>1. CASE Age(o)
      BY <1>2, <3>1, PairGrows DEF Age, clientVars
    <3> QED
      BY <1>2, <2>4, <3>1, StopsPair, WokenPair, RemovePair DEF OfferRuns
  <2>5. CASE \E t \in Takers : TakeRuns(t)
    BY <1>2, <2>5, TakeReplyPair, HandPair DEF TakeRuns
  <2>6. CASE Janitor
    BY <1>2, <2>6, SweepPair, TellStalePair DEF Janitor
  <2>7. CASE \E p \in Ends : EndRuns(p) \/ Leaves(p)
    <3>1. UNCHANGED brokerSide /\ gone \subseteq gone'
      BY <2>7 DEF EndRuns, ReadReply, ReadHello, Deadline, Hangup, Leaves, Fails
    <3> QED
      BY <1>2, <3>1, PairGrows DEF brokerSide
  <2> QED
    BY <1>2, <2>1, <2>2, <2>3, <2>4, <2>5, <2>6, <2>7 DEF BrokerNext
<1> QED
  BY <1>1, <1>2, BrokerInvariant, PTL DEF BrokerSpec

\* No late remove of an earlier offer under the same code, and no sweep of the
\* janitor, loses an offer that waits for its taker (broker.go:219-226).
THEOREM OffersAreFound == BrokerSpec => []ParkedFindable
<1>1. BrokerInv /\ PairInv => ParkedFindable
  <2> SUFFICES ASSUME BrokerInv, PairInv, NEW o \in Offerers, at[o] = "parked", wake[o] = "empty", o \notin stale,
                      \A t \in Takers : mate[t] # o
               PROVE  Mine(o)
    BY DEF ParkedFindable
  <2>1. PICK c \in DOMAIN slots : slots[c] = o
    BY DEF PairInv, Findable, Waits, Parked
  <2>2. code[o] = c
    BY <2>1 DEF BrokerInv, OwnSlot
  <2> QED
    BY <2>1, <2>2 DEF Mine
<1> QED
  BY <1>1, BrokerInvariant, PairInvariant, PTL

\* A taker that was told OK is joined to its offerer, unless that one's time was
\* over or its client had left (broker.go:167-183, 207-215).
THEOREM TakersAreJoined == BrokerSpec => []DroppedLate
<1>1. PairInv => DroppedLate
  BY DEF PairInv, Promised, Hopes, Waits, DroppedLate
<1> QED
  BY <1>1, PairInvariant, PTL
=============================================================================
