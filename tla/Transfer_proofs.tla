--------------------------- MODULE Transfer_proofs ---------------------------
(***************************************************************************)
(* Proofs about Transfer, for every grid, content set and bound.           *)
(***************************************************************************)
EXTENDS Transfer, FiniteSetTheorems, SequenceTheorems, TLAPS

USE CountAssumption, ContentAssumption, FileAssumption, NoFileAssumption, OptionAssumption, BoundAssumption

-----------------------------------------------------------------------------
(* Messages *)

\* Every control frame the two cores build is well typed.
LEMMA MessageTypes ==
  /\ EntryMsg \in ToRMsg /\ CommitMsg \in ToRMsg /\ FileErrorMsg \in ToRMsg
  /\ \A v \in SUBSET Chunk : ClaimMsg(v) \in ToRMsg
  /\ \A c \in Chunk : RetryMsg(c) \in ToSMsg
  /\ \A k \in BOOLEAN : ResultMsg(k) \in ToSMsg
  /\ \A st \in {"skip", "partial", "claims"}, hv \in SUBSET Chunk, cl \in [Chunk -> HashMark] :
        HaveMsg(st, hv, cl) \in ToSMsg
  BY DEF EntryMsg, CommitMsg, FileErrorMsg, ClaimMsg, RetryMsg, ResultMsg, HaveMsg,
         ToRMsg, ToSMsg

\* Queues stay well typed under the operations of the control stream.
LEMMA QueueTypes ==
  /\ \A q \in Seq(ToRMsg), m \in ToRMsg : Append(q, m) \in Seq(ToRMsg)
  /\ \A q \in Seq(ToSMsg), m \in ToSMsg : Append(q, m) \in Seq(ToSMsg)
  /\ \A q \in Seq(ToSMsg), m \in ToSMsg : Send(q, m) \in Seq(ToSMsg)
  /\ \A q \in Seq(ToRMsg) : q # <<>> => Tail(q) \in Seq(ToRMsg) /\ Head(q) \in ToRMsg
  /\ \A q \in Seq(ToSMsg) : q # <<>> => Tail(q) \in Seq(ToSMsg) /\ Head(q) \in ToSMsg
  BY AppendProperties, HeadTailProperties DEF Send

\* Re-hashing yields a sidecar.
LEMMA HashTypes ==
  /\ NoHash \in [Chunk -> HashMark]
  /\ \A d \in [Chunk -> Content] : SelfHash(d) \in [Chunk -> HashMark]
  /\ \A d \in [Chunk -> Content], h \in [Chunk -> HashMark] : ReHash(d, h) \in [Chunk -> HashMark]
  /\ \A h \in [Chunk -> HashMark] : Have(h) \in SUBSET Chunk
  BY DEF NoHash, SelfHash, ReHash, HashMark, Have

\* The current source is a file.
LEMMA SourceType ==
  ASSUME TypeOK PROVE src \in [Chunk -> Content] /\ now \in Nat /\ now # 0
  BY DEF TypeOK, TypeDisk, src, now

-----------------------------------------------------------------------------
(* Type correctness *)

\* The types hold at first.
LEMMA TypeInit == Init => TypeOK
<1> SUFFICES ASSUME Init PROVE TypeOK
  OBVIOUS
<1> USE DEF Init
<1>1. TypeDisk
  <2>1. PICK s \in Sources : history = <<s>>
    OBVIOUS
  <2>2. history \in Seq([Chunk -> Content]) /\ history # <<>>
    BY <2>1
  <2>3. final \in {NoFile} \cup [data : [Chunk -> Content], mtime : Nat]
    OBVIOUS
  <2> QED
    BY <2>2, <2>3 DEF TypeDisk
<1>2. TypeSession
  BY DEF TypeSession
<1>3. TypeSender
  BY HashTypes DEF TypeSender
<1>4. TypeWire
  BY DEF TypeWire
<1>5. TypeReceiver
  BY HashTypes DEF TypeReceiver
<1>6. HandleOK
  BY DEF HandleOK
<1>7. EntryOnce
  BY DEF EntryOnce
<1> QED
  BY <1>1, <1>2, <1>3, <1>4, <1>5, <1>6, <1>7 DEF TypeOK

\* The number of queued tasks is a natural number.
LEMMA QueuedCount ==
  ASSUME TypeOK PROVE Cardinality(queued) \in Nat
<1>1. IsFiniteSet(Chunk)
  BY FS_Interval DEF Chunk
<1>2. IsFiniteSet(queued)
  BY <1>1, FS_Subset DEF TypeOK, TypeSender
<1> QED
  BY <1>2, FS_CardinalityType

\* The entry frame under the queue operations.
LEMMA EntryFirst ==
  ASSUME TypeOK, Heard(toR, "entry") PROVE ~open
<1>1. 1 \in DOMAIN toR /\ toR[1] = Head(toR)
  BY LenProperties, EmptySeq DEF TypeOK, TypeWire, Heard
<1> QED
  BY <1>1 DEF TypeOK, EntryOnce, Heard

\* A step that leaves the queue alone and opens nothing keeps the entry in front.
LEMMA EntryKept ==
  ASSUME TypeOK, UNCHANGED toR, open' => open PROVE EntryOnce'
  BY DEF TypeOK, EntryOnce

\* A frame that is no entry may be appended.
LEMMA EntryAppend ==
  ASSUME TypeOK, NEW m \in ToRMsg, m.type # "entry", toR' = Append(toR, m), open' => open
  PROVE  EntryOnce'
<1>1. /\ DOMAIN toR' = 1 .. Len(toR) + 1 /\ DOMAIN toR = 1 .. Len(toR)
      /\ toR'[Len(toR) + 1] = m
      /\ \A i \in 1 .. Len(toR) : toR'[i] = toR[i]
  BY AppendProperties, LenProperties DEF TypeOK, TypeWire
<1>2. Len(toR) \in Nat
  BY LenProperties DEF TypeOK, TypeWire
<1> QED
  BY <1>1, <1>2 DEF TypeOK, EntryOnce

\* Hearing a frame leaves no entry behind.
LEMMA EntryTail ==
  ASSUME TypeOK, toR # <<>>, toR' = Tail(toR) PROVE EntryOnce'
<1>1. toR' \in Seq(ToRMsg) /\ Len(toR') = Len(toR) - 1 /\ Len(toR) \in Nat
  BY HeadTailProperties, LenProperties DEF TypeOK, TypeWire
<1>2. \A i \in DOMAIN toR' : i + 1 \in DOMAIN toR /\ i \in Nat \ {0} /\ toR'[i] = toR[i + 1]
  BY <1>1, HeadTailProperties, LenProperties DEF TypeOK, TypeWire
<1> QED
  BY <1>2 DEF TypeOK, EntryOnce

\* The environment keeps the types.
LEMMA TypeEnvironment == TypeOK /\ Environment => TypeOK'
<1> SUFFICES ASSUME TypeOK, Environment PROVE TypeOK'
  OBVIOUS
<1> USE DEF TypeOK, diskVars, sessVars, sendVars, rxVars
<1>1. ASSUME NEW c \in Chunk, NEW v \in Content, SourceWrite(c, v) PROVE TypeOK'
  <2>1. TypeDisk'
    <3>1. [src EXCEPT ![c] = v] \in [Chunk -> Content]
      BY SourceType
    <3>2. history' \in Seq([Chunk -> Content]) /\ history' # <<>>
      BY <1>1, <3>1, AppendProperties, EmptySeq DEF SourceWrite, TypeDisk
    <3> QED
      BY <1>1, <3>2 DEF SourceWrite, TypeDisk
  <2>2. TypeSession' /\ TypeSender' /\ TypeWire' /\ TypeReceiver' /\ HandleOK'
    BY <1>1 DEF SourceWrite, TypeSession, TypeSender, TypeWire, TypeReceiver, HandleOK
  <2>9. EntryOnce'
    BY <1>1, EntryKept DEF SourceWrite
  <2> QED
    BY <2>1, <2>2, <2>9 DEF TypeOK
<1>2. ASSUME NEW m \in Modes, Connect(m) PROVE TypeOK'
  <2>1. TypeDisk'
    BY <1>2 DEF Connect, TypeDisk
  <2>2. TypeSession'
    BY <1>2, SourceType DEF Connect, TypeSession
  <2>3. TypeSender'
    BY <1>2, HashTypes DEF Connect, TypeSender
  <2>4. TypeWire'
    BY <1>2, MessageTypes DEF Connect, TypeWire
  <2>5. TypeReceiver'
    BY <1>2, HashTypes DEF Connect, TypeReceiver
  <2>6. HandleOK'
    BY <1>2 DEF Connect, HandleOK
  <2>9. EntryOnce'
    BY <1>2 DEF Connect, EntryOnce, EntryMsg
  <2> QED
    BY <2>1, <2>2, <2>3, <2>4, <2>5, <2>6, <2>9 DEF TypeOK
<1>3. CASE Disconnect
  <2>1. TypeDisk' /\ TypeSession' /\ TypeSender'
    BY <1>3 DEF Disconnect, TypeDisk, TypeSession, TypeSender
  <2>2. TypeWire' /\ TypeReceiver' /\ HandleOK'
    BY <1>3 DEF Disconnect, TypeWire, TypeReceiver, HandleOK
  <2>9. EntryOnce'
    BY <1>3 DEF Disconnect, EntryOnce
  <2> QED
    BY <2>1, <2>2, <2>9 DEF TypeOK
<1>4. ASSUME NEW lost \in SUBSET Chunk, Kill(lost) PROVE TypeOK'
  <2>1. TypeDisk'
    BY <1>4 DEF Kill, TypeDisk
  <2>2. TypeSession' /\ TypeSender'
    BY <1>4 DEF Kill, TypeSession, TypeSender
  <2>3. TypeWire'
    BY <1>4 DEF Kill, TypeWire
  <2>4. TypeReceiver'
    BY <1>4 DEF Kill, TypeReceiver
  <2>5. HandleOK'
    BY <1>4 DEF Kill, HandleOK
  <2>9. EntryOnce'
    BY <1>4 DEF Kill, EntryOnce
  <2> QED
    BY <2>1, <2>2, <2>3, <2>4, <2>5, <2>9 DEF TypeOK
<1> QED
  BY <1>1, <1>2, <1>3, <1>4 DEF Environment

\* The sender keeps the types.
LEMMA TypeSenderStep == TypeOK /\ Sender => TypeOK'
<1> SUFFICES ASSUME TypeOK, Sender PROVE TypeOK'
  OBVIOUS
<1> USE DEF TypeOK, diskVars, sessVars, rxVars
<1>1. CASE GateOpen
  <2>1. TypeSender'
    <3>1. sHave' \in SUBSET Chunk /\ claim' \in [Chunk -> HashMark]
      BY <1>1, QueueTypes DEF GateOpen, Reads, Heard, TypeWire, ToSMsg
    <3>2. gate' \in {"wait", "verify", "ready", "skip"}
      BY <1>1, QueueTypes DEF GateOpen, Reads, Heard, TypeWire, ToSMsg
    <3>3. unverified' \in SUBSET Chunk
      BY <1>1, <3>1 DEF GateOpen
    <3>4. UNCHANGED <<next, queued, inflight, sRetries, sOut>>
      BY <1>1 DEF GateOpen
    <3> QED
      BY <3>1, <3>2, <3>3, <3>4 DEF TypeSender
  <2>2. TypeWire'
    BY <1>1 DEF GateOpen, TypeWire, Reads, Heard
  <2>3. TypeDisk' /\ TypeSession' /\ TypeReceiver' /\ HandleOK'
    BY <1>1 DEF GateOpen, TypeDisk, TypeSession, TypeReceiver, HandleOK
  <2>9. EntryOnce'
    BY <1>1, EntryKept DEF GateOpen
  <2> QED
    BY <2>1, <2>2, <2>3, <2>9 DEF TypeOK
<1>2. ASSUME NEW c \in Chunk, NEW k \in BOOLEAN, VerifyClaim(c, k) PROVE TypeOK'
  <2>1. TypeSender'
    BY <1>2 DEF VerifyClaim, TypeSender
  <2>2. TypeWire'
    BY <1>2 DEF VerifyClaim, TypeWire
  <2>3. TypeDisk' /\ TypeSession' /\ TypeReceiver' /\ HandleOK'
    BY <1>2 DEF VerifyClaim, TypeDisk, TypeSession, TypeReceiver, HandleOK
  <2>9. EntryOnce'
    BY <1>2, EntryKept DEF VerifyClaim
  <2> QED
    BY <2>1, <2>2, <2>3, <2>9 DEF TypeOK
<1>3. CASE VerifyEnd
  <2>1. TypeSender'
    BY <1>3 DEF VerifyEnd, TypeSender
  <2>2. TypeWire'
    <3>1. toR' \in Seq(ToRMsg)
      BY <1>3, MessageTypes, QueueTypes DEF VerifyEnd, TypeWire, TypeSender
    <3>2. toS' \in Seq(ToSMsg)
      BY <1>3 DEF VerifyEnd, TypeWire
    <3>3. frames' \in SUBSET Frame
      BY <1>3 DEF VerifyEnd, TypeWire
    <3> QED
      BY <3>1, <3>2, <3>3 DEF TypeWire
  <2>3. TypeDisk' /\ TypeSession' /\ TypeReceiver' /\ HandleOK'
    BY <1>3 DEF VerifyEnd, TypeDisk, TypeSession, TypeReceiver, HandleOK
  <2>9. EntryOnce'
    BY <1>3, EntryAppend, EntryKept, MessageTypes DEF VerifyEnd, CommitMsg, ClaimMsg, TypeSender
  <2> QED
    BY <2>1, <2>2, <2>3, <2>9 DEF TypeOK
<1>4. CASE Schedule
  <2>1. TypeSender'
    <3>1. next' \in 1 .. ChunkCount + 1
      BY <1>4 DEF Schedule, TypeSender, NextTask, Chunk
    <3>2. queued' \in SUBSET Chunk /\ inflight' \in Nat
      <4>1. CASE next \in sHave
        BY <1>4, <4>1 DEF Schedule, TypeSender
      <4>2. CASE next \notin sHave
        <5>1. queued' = queued \cup {next} /\ inflight' = inflight + 1 /\ next \in Chunk
          BY <1>4, <4>2 DEF Schedule
        <5> QED
          BY <5>1 DEF TypeSender
      <4> QED
        BY <4>1, <4>2
    <3>3. UNCHANGED <<gate, sHave, claim, unverified, sRetries, sOut>>
      BY <1>4 DEF Schedule
    <3> QED
      BY <3>1, <3>2, <3>3 DEF TypeSender
  <2>2. TypeWire'
    BY <1>4 DEF Schedule, TypeWire
  <2>3. TypeDisk' /\ TypeSession' /\ TypeReceiver' /\ HandleOK'
    BY <1>4 DEF Schedule, TypeDisk, TypeSession, TypeReceiver, HandleOK
  <2>9. EntryOnce'
    BY <1>4, EntryKept DEF Schedule
  <2> QED
    BY <2>1, <2>2, <2>3, <2>9 DEF TypeOK
<1>5. ASSUME NEW c \in queued, SendChunk(c) PROVE TypeOK'
  <2>1. TypeSender'
    BY <1>5 DEF SendChunk, TypeSender
  <2>2. TypeWire'
    <3>1. toR' \in Seq(ToRMsg)
      BY <1>5 DEF SendChunk, TypeWire
    <3>2. toS' \in Seq(ToSMsg)
      BY <1>5 DEF SendChunk, TypeWire
    <3>3. frames' \in SUBSET Frame
      <4>1. [chunk |-> c, data |-> src[c], zero |-> Sparse /\ src[c] = Zero] \in Frame
        BY SourceType DEF TypeSender, Frame
      <4> QED
        BY <1>5, <4>1 DEF SendChunk, TypeWire
    <3> QED
      BY <3>1, <3>2, <3>3 DEF TypeWire
  <2>3. TypeDisk' /\ TypeSession' /\ TypeReceiver' /\ HandleOK'
    BY <1>5 DEF SendChunk, TypeDisk, TypeSession, TypeReceiver, HandleOK
  <2>9. EntryOnce'
    BY <1>5, EntryKept DEF SendChunk
  <2> QED
    BY <2>1, <2>2, <2>3, <2>9 DEF TypeOK
<1>6. ASSUME NEW c \in queued, SendFails(c) PROVE TypeOK'
  <2>1. TypeSender'
    BY <1>6 DEF SendFails, TypeSender, FailFile
  <2>2. TypeWire'
    BY <1>6, MessageTypes DEF SendFails, TypeWire, FailFile
  <2>3. TypeDisk' /\ TypeSession' /\ TypeReceiver' /\ HandleOK'
    BY <1>6 DEF SendFails, TypeDisk, TypeSession, TypeReceiver, HandleOK
  <2>9. EntryOnce'
    BY <1>6, EntryAppend, EntryKept, MessageTypes DEF SendFails, FailFile, FileErrorMsg
  <2> QED
    BY <2>1, <2>2, <2>3, <2>9 DEF TypeOK
<1>7. CASE TaskDone
  <2>1. TypeSender'
    BY <1>7, QueuedCount DEF TaskDone, TypeSender, FailFile
  <2>2. TypeWire'
    <3>1. toR' \in Seq(ToRMsg)
      <4>1. toR' = toR \/ toR' = Append(toR, FileErrorMsg)
        BY <1>7 DEF TaskDone, FailFile
      <4>2. toR \in Seq(ToRMsg) /\ Append(toR, FileErrorMsg) \in Seq(ToRMsg)
        BY MessageTypes, QueueTypes DEF TypeWire
      <4> QED
        BY <4>1, <4>2
    <3>2. toS' \in Seq(ToSMsg)
      BY <1>7 DEF TaskDone, TypeWire
    <3>3. frames' \in SUBSET Frame
      BY <1>7 DEF TaskDone, TypeWire
    <3> QED
      BY <3>1, <3>2, <3>3 DEF TypeWire
  <2>3. TypeDisk' /\ TypeSession' /\ TypeReceiver' /\ HandleOK'
    BY <1>7 DEF TaskDone, TypeDisk, TypeSession, TypeReceiver, HandleOK
  <2>9. EntryOnce'
    BY <1>7, EntryAppend, EntryKept, MessageTypes DEF TaskDone, FailFile, FileErrorMsg
  <2> QED
    BY <2>1, <2>2, <2>3, <2>9 DEF TypeOK
<1>8. CASE RetryChunk
  <2>1. TypeSender'
    <3>1. Head(toS).chunk \in Chunk
      BY <1>8, QueueTypes DEF RetryChunk, Reads, Heard, TypeWire, ToSMsg
    <3>2. sRetries' \in [Chunk -> Nat]
      BY <1>8, <3>1 DEF RetryChunk, TypeSender
    <3>3. queued' \in SUBSET Chunk /\ inflight' \in Nat
      BY <1>8, <3>1 DEF RetryChunk, TypeSender
    <3>4. sOut' \in {"none", "ok", "error"}
      BY <1>8 DEF RetryChunk, TypeSender, FailFile
    <3>5. UNCHANGED <<gate, sHave, claim, unverified, next>>
      BY <1>8 DEF RetryChunk
    <3> QED
      BY <3>1, <3>2, <3>3, <3>4, <3>5 DEF TypeSender
  <2>2. TypeWire'
    <3>1. toR' \in Seq(ToRMsg)
      BY <1>8, MessageTypes, QueueTypes DEF RetryChunk, TypeWire, FailFile
    <3>2. toS' \in Seq(ToSMsg)
      BY <1>8, QueueTypes DEF RetryChunk, TypeWire, Reads, Heard
    <3>3. frames' \in SUBSET Frame
      BY <1>8 DEF RetryChunk, TypeWire
    <3> QED
      BY <3>1, <3>2, <3>3 DEF TypeWire
  <2>3. TypeDisk' /\ TypeSession' /\ TypeReceiver' /\ HandleOK'
    BY <1>8 DEF RetryChunk, TypeDisk, TypeSession, TypeReceiver, HandleOK
  <2>9. EntryOnce'
    BY <1>8, EntryAppend, EntryKept, MessageTypes DEF RetryChunk, FailFile, FileErrorMsg
  <2> QED
    BY <2>1, <2>2, <2>3, <2>9 DEF TypeOK
<1>9. CASE FileResult
  <2>1. TypeSender'
    BY <1>9 DEF FileResult, TypeSender, Reads, Heard, ToSMsg
  <2>2. TypeWire'
    BY <1>9 DEF FileResult, TypeWire, Reads, Heard
  <2>3. TypeDisk' /\ TypeSession' /\ TypeReceiver' /\ HandleOK'
    BY <1>9 DEF FileResult, TypeDisk, TypeSession, TypeReceiver, HandleOK
  <2>9. EntryOnce'
    BY <1>9, EntryKept DEF FileResult
  <2> QED
    BY <2>1, <2>2, <2>3, <2>9 DEF TypeOK
<1> QED
  BY <1>1, <1>2, <1>3, <1>4, <1>5, <1>6, <1>7, <1>8, <1>9 DEF Sender

\* A flushed sidecar is a sidecar.
LEMMA FlushedType ==
  ASSUME TypeOK PROVE Flushed \in [Chunk -> HashMark]
  BY DEF TypeOK, TypeReceiver, Flushed, HashMark

\* Where a frame's bytes go.
LEMMA AbsorbCases ==
  ASSUME TypeOK, NEW f \in frames, AbsorbWrite(f)
  PROVE  /\ f \in Frame
         /\ \/ UNCHANGED <<part, final>>
            \/ /\ ~Droppable(f) /\ target = "part" /\ part \in [Chunk -> Content]
               /\ part' = [part EXCEPT ![f.chunk] = f.data] /\ UNCHANGED final
            \/ /\ ~Droppable(f) /\ target = "final"
               /\ final \in [data : [Chunk -> Content], mtime : Nat]
               /\ final' = [data |-> [final.data EXCEPT ![f.chunk] = f.data], mtime |-> 0]
               /\ UNCHANGED part
<1>1. f \in Frame
  BY DEF TypeOK, TypeWire
<1>2. CASE Droppable(f)
  BY <1>1, <1>2 DEF AbsorbWrite
<1>3. CASE ~Droppable(f) /\ f.zero /\ ~mayStale
  BY <1>1, <1>3 DEF AbsorbWrite
<1>4. CASE ~Droppable(f) /\ ~(f.zero /\ ~mayStale)
  <2>1. open /\ target \in {"part", "final"}
    BY <1>4 DEF Droppable, TypeOK, HandleOK, TypeReceiver
  <2>2. CASE target = "part"
    <3>1. part \in [Chunk -> Content]
      BY <2>1, <2>2 DEF TypeOK, HandleOK, TypeDisk
    <3>2. part' = [part EXCEPT ![f.chunk] = f.data] /\ UNCHANGED final
      BY <1>4, <2>2 DEF AbsorbWrite
    <3> QED
      BY <1>1, <1>4, <2>2, <3>1, <3>2
  <2>3. CASE target = "final"
    <3>1. final \in [data : [Chunk -> Content], mtime : Nat]
      BY <2>1, <2>3 DEF TypeOK, HandleOK, TypeDisk
    <3>2. /\ final' = [data |-> [final.data EXCEPT ![f.chunk] = f.data], mtime |-> 0]
          /\ UNCHANGED part
      BY <1>4, <2>3 DEF AbsorbWrite
    <3> QED
      BY <1>1, <1>4, <2>3, <3>1, <3>2
  <2> QED
    BY <2>1, <2>2, <2>3
<1> QED
  BY <1>2, <1>3, <1>4

\* What finalize does to the disk.
LEMMA FinalizeCases ==
  ASSUME TypeOK, Finalize
  PROVE  \/ UNCHANGED <<final, part, meta, open, dirty, rOut, toS>>
         \/ /\ open /\ rOut = "none" /\ open' = FALSE /\ dirty' = FALSE /\ rOut' = "ok"
            /\ Bytes \in [Chunk -> Content]
            /\ final' = [data |-> Bytes, mtime |-> entry]
            /\ part' = NoFile /\ meta' = NoFile
            /\ toS' = Send(toS, ResultMsg(TRUE))
<1>1. open => Bytes \in [Chunk -> Content]
  <2>1. open /\ target = "part" => part \in [Chunk -> Content]
    BY DEF TypeOK, HandleOK, TypeDisk
  <2>2. open /\ target = "final" => final \in [data : [Chunk -> Content], mtime : Nat]
    BY DEF TypeOK, HandleOK, TypeDisk
  <2> QED
    BY <2>1, <2>2 DEF TypeOK, HandleOK, Bytes
<1>2. CASE rOut # "none" \/ ~open
  BY <1>2 DEF Finalize
<1>3. CASE ~(rOut # "none" \/ ~open)
  <2>1. final' = [data |-> Bytes, mtime |-> entry]
    BY <1>3 DEF Finalize, Bytes
  <2>2. /\ open' = FALSE /\ dirty' = FALSE /\ rOut' = "ok"
        /\ part' = NoFile /\ meta' = NoFile /\ toS' = Send(toS, ResultMsg(TRUE))
    BY <1>3 DEF Finalize
  <2> QED
    BY <1>1, <1>3, <2>1, <2>2
<1> QED
  BY <1>2, <1>3

\* prepareRegular leaves a well-typed sidecar in memory.
LEMMA PreparedHash ==
  ASSUME TypeOK, PreparePart PROVE hash' \in [Chunk -> HashMark]
<1>1. \/ part # NoFile /\ meta # NoFile /\ hash' = ReHash(part, meta.hash)
      \/ part # NoFile /\ hash' = SelfHash(part)
      \/ hash' = NoHash
  BY DEF PreparePart, ValidMeta
<1>2. part # NoFile => part \in [Chunk -> Content]
  BY DEF TypeOK, TypeDisk
<1>3. meta # NoFile => meta.hash \in [Chunk -> HashMark]
  BY DEF TypeOK, TypeDisk
<1> QED
  BY <1>1, <1>2, <1>3, HashTypes

\* The receiver keeps the types.
LEMMA TypeReceiverStep == TypeOK /\ Receiver => TypeOK'
<1> SUFFICES ASSUME TypeOK, Receiver PROVE TypeOK'
  OBVIOUS
<1> USE DEF TypeOK, sessVars, sendVars
<1>1. CASE PrepareSkip
  <2>1. TypeDisk'
    BY <1>1 DEF PrepareSkip, TypeDisk
  <2>2. TypeWire'
    <3>1. toR' \in Seq(ToRMsg)
      BY <1>1, QueueTypes DEF PrepareSkip, TypeWire, Heard
    <3>2. toS' \in Seq(ToSMsg)
      BY <1>1, MessageTypes, HashTypes, QueueTypes DEF PrepareSkip, TypeWire
    <3>3. frames' \in SUBSET Frame
      BY <1>1 DEF PrepareSkip, TypeWire
    <3> QED
      BY <3>1, <3>2, <3>3 DEF TypeWire
  <2>3. TypeSession' /\ TypeSender'
    BY <1>1 DEF PrepareSkip, TypeSession, TypeSender
  <2>4. TypeReceiver'
    <3>1. rOut' \in {"none", "ok", "error"}
      BY <1>1 DEF PrepareSkip
    <3>2. UNCHANGED <<target, open, hash, adopted, await, settled, arrived, mayStale, dirty,
                     writing, finalQ, finalQueued, rRetries>>
      BY <1>1 DEF PrepareSkip
    <3> QED
      BY <3>1, <3>2 DEF TypeReceiver
  <2>5. HandleOK'
    <3>1. ~open
      BY <1>1, EntryFirst DEF PrepareSkip
    <3> QED
      BY <1>1, <3>1 DEF PrepareSkip, HandleOK
  <2>9. EntryOnce'
    BY <1>1, EntryTail DEF PrepareSkip, Heard
  <2> QED
    BY <2>1, <2>2, <2>3, <2>4, <2>5, <2>9 DEF TypeOK
<1>2. CASE PrepareAdopt
  <2>1. TypeDisk'
    BY <1>2 DEF PrepareAdopt, TypeDisk, diskVars
  <2>2. TypeWire'
    <3>0. hash' \in [Chunk -> HashMark]
      BY <1>2, HashTypes DEF PrepareAdopt, TypeDisk, CompleteFinal
    <3>1. toR' \in Seq(ToRMsg)
      BY <1>2, QueueTypes DEF PrepareAdopt, TypeWire, Heard
    <3>2. toS' \in Seq(ToSMsg)
      BY <1>2, <3>0, MessageTypes, HashTypes, QueueTypes DEF PrepareAdopt, TypeWire
    <3>3. frames' \in SUBSET Frame
      BY <1>2 DEF PrepareAdopt, TypeWire
    <3> QED
      BY <3>1, <3>2, <3>3 DEF TypeWire
  <2>3. TypeSession' /\ TypeSender'
    BY <1>2 DEF PrepareAdopt, TypeSession, TypeSender
  <2>4. TypeReceiver'
    BY <1>2, HashTypes DEF PrepareAdopt, TypeReceiver, TypeDisk
  <2>5. HandleOK'
    BY <1>2 DEF PrepareAdopt, HandleOK, diskVars
  <2>9. EntryOnce'
    BY <1>2, EntryTail DEF PrepareAdopt, Heard
  <2> QED
    BY <2>1, <2>2, <2>3, <2>4, <2>5, <2>9 DEF TypeOK
<1>3. CASE PreparePart
  <2>1. TypeDisk'
    BY <1>3 DEF PreparePart, TypeDisk
  <2>2. TypeWire'
    <3>0. hash' \in [Chunk -> HashMark]
      BY <1>3, PreparedHash
    <3>1. toR' \in Seq(ToRMsg)
      BY <1>3, QueueTypes DEF PreparePart, TypeWire, Heard
    <3>2. toS' \in Seq(ToSMsg)
      BY <1>3, <3>0, MessageTypes, HashTypes, QueueTypes DEF PreparePart, TypeWire
    <3>3. frames' \in SUBSET Frame
      BY <1>3 DEF PreparePart, TypeWire
    <3> QED
      BY <3>1, <3>2, <3>3 DEF TypeWire
  <2>3. TypeSession' /\ TypeSender'
    BY <1>3 DEF PreparePart, TypeSession, TypeSender
  <2>4. TypeReceiver'
    <3>1. target' \in {"none", "part", "final"} /\ open' \in BOOLEAN
      BY <1>3 DEF PreparePart, TypeReceiver
    <3>2. hash' \in [Chunk -> HashMark]
      BY <1>3, PreparedHash
    <3>3. adopted' \in BOOLEAN /\ await' \in BOOLEAN
      BY <1>3 DEF PreparePart, TypeReceiver
    <3>4. mayStale' \in BOOLEAN /\ dirty' \in BOOLEAN
      BY <1>3 DEF PreparePart, TypeReceiver
    <3>5. finalQ' \in Nat
      BY <1>3 DEF PreparePart, TypeReceiver
    <3>6. UNCHANGED <<settled, arrived, writing, finalQueued, rRetries, rOut>>
      BY <1>3 DEF PreparePart
    <3> QED
      BY <3>1, <3>2, <3>3, <3>4, <3>5, <3>6 DEF TypeReceiver
  <2>5. HandleOK'
    <3>1. part' # NoFile
      BY <1>3 DEF PreparePart
    <3>2. target' = "part"
      BY <1>3 DEF PreparePart
    <3> QED
      BY <3>1, <3>2 DEF HandleOK
  <2>9. EntryOnce'
    BY <1>3, EntryTail DEF PreparePart, Heard
  <2> QED
    BY <2>1, <2>2, <2>3, <2>4, <2>5, <2>9 DEF TypeOK
<1>4. CASE PrepareFails
  <2>1. TypeDisk'
    BY <1>4 DEF PrepareFails, TypeDisk, diskVars
  <2>2. TypeWire'
    <3>1. toR' \in Seq(ToRMsg)
      BY <1>4, QueueTypes DEF PrepareFails, TypeWire, Heard
    <3>2. toS' \in Seq(ToSMsg)
      BY <1>4, MessageTypes, QueueTypes DEF PrepareFails, TypeWire
    <3>3. frames' \in SUBSET Frame
      BY <1>4 DEF PrepareFails, TypeWire
    <3> QED
      BY <3>1, <3>2, <3>3 DEF TypeWire
  <2>3. TypeSession' /\ TypeSender'
    BY <1>4 DEF PrepareFails, TypeSession, TypeSender
  <2>4. TypeReceiver' /\ HandleOK'
    BY <1>4 DEF PrepareFails, TypeReceiver, HandleOK, diskVars
  <2>9. EntryOnce'
    BY <1>4, EntryTail DEF PrepareFails, Heard
  <2> QED
    BY <2>1, <2>2, <2>3, <2>4, <2>9 DEF TypeOK
<1>5. ASSUME NEW f \in frames, AbsorbWrite(f) PROVE TypeOK'
  <2>0. f \in Frame /\ f.chunk \in Chunk /\ f.data \in Content
    BY <1>5, AbsorbCases DEF Frame
  <2>1. TypeDisk'
    <3>1. UNCHANGED <<history, meta>>
      BY <1>5 DEF AbsorbWrite
    <3>2. part' \in {NoFile} \cup [Chunk -> Content]
      BY <1>5, <2>0, AbsorbCases DEF TypeDisk
    <3>3. final' \in {NoFile} \cup [data : [Chunk -> Content], mtime : Nat]
      BY <1>5, <2>0, AbsorbCases DEF TypeDisk
    <3> QED
      BY <3>1, <3>2, <3>3 DEF TypeDisk
  <2>2. TypeWire'
    BY <1>5 DEF AbsorbWrite, TypeWire
  <2>3. TypeSession' /\ TypeSender'
    BY <1>5 DEF AbsorbWrite, TypeSession, TypeSender
  <2>4. TypeReceiver'
    <3>1. writing' \in SUBSET Frame
      BY <1>5, <2>0 DEF AbsorbWrite, TypeReceiver
    <3>2. UNCHANGED <<target, open, hash, adopted, await, settled, arrived, mayStale, dirty,
                     finalQ, finalQueued, rRetries, rOut>>
      BY <1>5 DEF AbsorbWrite
    <3> QED
      BY <3>1, <3>2 DEF TypeReceiver
  <2>5. HandleOK'
    <3>1. UNCHANGED <<open, target>>
      BY <1>5 DEF AbsorbWrite
    <3>2. part # NoFile => part' # NoFile
      BY <1>5, <2>0, AbsorbCases
    <3>3. final # NoFile => final' # NoFile
      <4>1. UNCHANGED final \/ final' \in [data : [Chunk -> Content], mtime : Nat]
        BY <1>5, <2>0, AbsorbCases
      <4> QED
        BY <4>1
    <3> QED
      BY <3>1, <3>2, <3>3 DEF HandleOK
  <2>9. EntryOnce'
    BY <1>5, EntryKept DEF AbsorbWrite
  <2> QED
    BY <2>1, <2>2, <2>3, <2>4, <2>5, <2>9 DEF TypeOK
<1>6. ASSUME NEW f \in writing, AbsorbRecord(f) PROVE TypeOK'
  <2>1. TypeDisk'
    BY <1>6 DEF AbsorbRecord, TypeDisk, diskVars
  <2>2. TypeWire'
    BY <1>6 DEF AbsorbRecord, TypeWire
  <2>3. TypeSession' /\ TypeSender'
    BY <1>6 DEF AbsorbRecord, TypeSession, TypeSender
  <2>4. TypeReceiver'
    BY <1>6 DEF AbsorbRecord, TypeReceiver, MaybeComplete, Frame, HashMark
  <2>5. HandleOK'
    BY <1>6 DEF AbsorbRecord, HandleOK, diskVars
  <2>9. EntryOnce'
    BY <1>6, EntryKept DEF AbsorbRecord
  <2> QED
    BY <2>1, <2>2, <2>3, <2>4, <2>5, <2>9 DEF TypeOK
<1>7. ASSUME NEW f \in frames, AbsorbFails(f) PROVE TypeOK'
  <2>1. TypeDisk'
    BY <1>7 DEF AbsorbFails, TypeDisk, diskVars
  <2>2. TypeWire'
    <3>1. toR' \in Seq(ToRMsg)
      BY <1>7 DEF AbsorbFails, TypeWire
    <3>2. toS' \in Seq(ToSMsg)
      <4>1. RetryMsg(f.chunk) \in ToSMsg /\ ResultMsg(FALSE) \in ToSMsg
        BY MessageTypes DEF TypeWire, Frame
      <4>2. toS' = Send(toS, RetryMsg(f.chunk)) \/ toS' = Send(toS, ResultMsg(FALSE))
        BY <1>7 DEF AbsorbFails, RxFail
      <4>3. /\ Send(toS, RetryMsg(f.chunk)) \in Seq(ToSMsg)
            /\ Send(toS, ResultMsg(FALSE)) \in Seq(ToSMsg)
        BY <4>1, QueueTypes DEF TypeWire
      <4> QED
        BY <4>2, <4>3
    <3>3. frames' \in SUBSET Frame
      BY <1>7 DEF AbsorbFails, TypeWire
    <3> QED
      BY <3>1, <3>2, <3>3 DEF TypeWire
  <2>3. TypeSession' /\ TypeSender'
    BY <1>7 DEF AbsorbFails, TypeSession, TypeSender
  <2>4. TypeReceiver'
    <3>1. rRetries' \in [Chunk -> Nat]
      BY <1>7 DEF AbsorbFails, TypeReceiver, TypeWire, Frame
    <3>2. open' \in BOOLEAN /\ rOut' \in {"none", "ok", "error"}
      BY <1>7 DEF AbsorbFails, TypeReceiver, RxFail
    <3>3. UNCHANGED <<target, hash, adopted, await, settled, arrived, mayStale, dirty, writing, finalQ, finalQueued>>
      BY <1>7 DEF AbsorbFails
    <3> QED
      BY <3>1, <3>2, <3>3 DEF TypeReceiver
  <2>5. HandleOK'
    BY <1>7 DEF AbsorbFails, HandleOK, diskVars, RxFail
  <2>9. EntryOnce'
    BY <1>7, EntryKept DEF AbsorbFails, RxFail
  <2> QED
    BY <2>1, <2>2, <2>3, <2>4, <2>5, <2>9 DEF TypeOK
<1>8. CASE CommitFile
  <2>1. TypeDisk'
    BY <1>8 DEF CommitFile, TypeDisk, diskVars
  <2>2. TypeWire'
    BY <1>8 DEF CommitFile, TypeWire, Heard
  <2>3. TypeSession' /\ TypeSender'
    BY <1>8 DEF CommitFile, TypeSession, TypeSender
  <2>4. TypeReceiver'
    <3>1. settled' \in BOOLEAN
      BY <1>8 DEF CommitFile, TypeReceiver
    <3>2. finalQ' \in Nat
      BY <1>8 DEF CommitFile, TypeReceiver
    <3>3. UNCHANGED <<target, open, hash, adopted, await, arrived, mayStale, dirty, writing, finalQueued, rRetries, rOut>>
      BY <1>8 DEF CommitFile
    <3> QED
      BY <3>1, <3>2, <3>3 DEF TypeReceiver
  <2>5. HandleOK'
    BY <1>8 DEF CommitFile, HandleOK, diskVars
  <2>9. EntryOnce'
    BY <1>8, EntryTail DEF CommitFile, Heard
  <2> QED
    BY <2>1, <2>2, <2>3, <2>4, <2>5, <2>9 DEF TypeOK
<1>9. CASE ClaimResult
  <2>1. TypeDisk'
    BY <1>9 DEF ClaimResult, TypeDisk, diskVars
  <2>2. TypeWire'
    BY <1>9 DEF ClaimResult, TypeWire, Heard
  <2>3. TypeSession' /\ TypeSender'
    BY <1>9 DEF ClaimResult, TypeSession, TypeSender
  <2>4. TypeReceiver'
    <3>1. hash' \in [Chunk -> HashMark]
      BY <1>9 DEF ClaimResult, TypeReceiver, Cleared, HashMark
    <3>2. dirty' \in BOOLEAN
      BY <1>9 DEF ClaimResult, TypeReceiver
    <3>3. settled' \in BOOLEAN
      BY <1>9 DEF ClaimResult, TypeReceiver
    <3>4. finalQ' \in Nat
      BY <1>9 DEF ClaimResult, TypeReceiver, MaybeComplete
    <3>5. finalQueued' \in BOOLEAN
      BY <1>9 DEF ClaimResult, TypeReceiver, MaybeComplete
    <3>6. UNCHANGED <<target, open, adopted, await, arrived, mayStale, writing, rRetries, rOut>>
      BY <1>9 DEF ClaimResult
    <3> QED
      BY <3>1, <3>2, <3>3, <3>4, <3>5, <3>6 DEF TypeReceiver
  <2>5. HandleOK'
    BY <1>9 DEF ClaimResult, HandleOK, diskVars
  <2>9. EntryOnce'
    BY <1>9, EntryTail DEF ClaimResult, Heard
  <2> QED
    BY <2>1, <2>2, <2>3, <2>4, <2>5, <2>9 DEF TypeOK
<1>10. CASE SenderFileError
  <2>1. TypeDisk'
    BY <1>10 DEF SenderFileError, TypeDisk, diskVars
  <2>2. TypeWire'
    BY <1>10 DEF SenderFileError, TypeWire, Heard
  <2>3. TypeSession' /\ TypeSender'
    BY <1>10 DEF SenderFileError, TypeSession, TypeSender
  <2>4. TypeReceiver'
    BY <1>10 DEF SenderFileError, TypeReceiver
  <2>5. HandleOK'
    BY <1>10 DEF SenderFileError, HandleOK, diskVars
  <2>9. EntryOnce'
    BY <1>10, EntryTail DEF SenderFileError, Heard
  <2> QED
    BY <2>1, <2>2, <2>3, <2>4, <2>5, <2>9 DEF TypeOK
<1>11. CASE Finalize
  <2>1. TypeDisk'
    <3>1. part' \in {NoFile} \cup [Chunk -> Content]
      BY <1>11, FinalizeCases DEF TypeDisk
    <3>2. meta' \in {NoFile} \cup [hash : [Chunk -> HashMark], mtime : Nat]
      BY <1>11, FinalizeCases DEF TypeDisk
    <3>3. final' \in {NoFile} \cup [data : [Chunk -> Content], mtime : Nat]
      <4>1. \/ final' = final
            \/ Bytes \in [Chunk -> Content] /\ final' = [data |-> Bytes, mtime |-> entry]
        BY <1>11, FinalizeCases
      <4> QED
        BY <4>1 DEF TypeDisk, TypeSession
    <3>4. UNCHANGED history
      BY <1>11 DEF Finalize
    <3> QED
      BY <3>1, <3>2, <3>3, <3>4 DEF TypeDisk
  <2>2. TypeWire'
    <3>1. toR' \in Seq(ToRMsg)
      BY <1>11 DEF Finalize, TypeWire
    <3>2. toS' \in Seq(ToSMsg)
      <4>1. toS' = toS \/ toS' = Send(toS, ResultMsg(TRUE))
        BY <1>11, FinalizeCases
      <4>2. toS \in Seq(ToSMsg) /\ Send(toS, ResultMsg(TRUE)) \in Seq(ToSMsg)
        BY MessageTypes, QueueTypes DEF TypeWire
      <4> QED
        BY <4>1, <4>2
    <3>3. frames' \in SUBSET Frame
      BY <1>11 DEF Finalize, TypeWire
    <3> QED
      BY <3>1, <3>2, <3>3 DEF TypeWire
  <2>3. TypeSession' /\ TypeSender'
    BY <1>11 DEF Finalize, TypeSession, TypeSender
  <2>4. TypeReceiver'
    <3>1. finalQ' \in Nat
      BY <1>11 DEF Finalize, TypeReceiver
    <3>2. open' \in BOOLEAN /\ dirty' \in BOOLEAN /\ rOut' \in {"none", "ok", "error"}
      BY <1>11 DEF Finalize, TypeReceiver
    <3>3. UNCHANGED <<target, hash, adopted, await, settled, arrived, mayStale, writing, finalQueued, rRetries>>
      BY <1>11 DEF Finalize
    <3> QED
      BY <3>1, <3>2, <3>3 DEF TypeReceiver
  <2>5. HandleOK'
    BY <1>11 DEF Finalize, HandleOK
  <2>9. EntryOnce'
    BY <1>11, EntryKept DEF Finalize
  <2> QED
    BY <2>1, <2>2, <2>3, <2>4, <2>5, <2>9 DEF TypeOK
<1>12. CASE FinalizeFails
  <2>1. TypeDisk'
    BY <1>12 DEF FinalizeFails, TypeDisk, diskVars
  <2>2. TypeWire'
    <3>1. toR' \in Seq(ToRMsg)
      BY <1>12 DEF FinalizeFails, TypeWire
    <3>2. toS' \in Seq(ToSMsg)
      BY <1>12, MessageTypes, QueueTypes DEF FinalizeFails, TypeWire, RxFail
    <3>3. frames' \in SUBSET Frame
      BY <1>12 DEF FinalizeFails, TypeWire
    <3> QED
      BY <3>1, <3>2, <3>3 DEF TypeWire
  <2>3. TypeSession' /\ TypeSender'
    BY <1>12 DEF FinalizeFails, TypeSession, TypeSender
  <2>4. TypeReceiver'
    <3>1. finalQ' \in Nat
      BY <1>12 DEF FinalizeFails, TypeReceiver
    <3>2. open' \in BOOLEAN /\ rOut' \in {"none", "ok", "error"}
      BY <1>12 DEF FinalizeFails, TypeReceiver, RxFail
    <3>3. UNCHANGED <<target, hash, adopted, await, settled, arrived, mayStale, dirty, writing, finalQueued, rRetries>>
      BY <1>12 DEF FinalizeFails
    <3> QED
      BY <3>1, <3>2, <3>3 DEF TypeReceiver
  <2>5. HandleOK'
    BY <1>12 DEF FinalizeFails, HandleOK, diskVars, RxFail
  <2>9. EntryOnce'
    BY <1>12, EntryKept DEF FinalizeFails, RxFail
  <2> QED
    BY <2>1, <2>2, <2>3, <2>4, <2>5, <2>9 DEF TypeOK
<1>13. CASE ReceiverEnd
  <2>1. TypeDisk'
    BY <1>13, FlushedType DEF ReceiverEnd, TypeDisk, TypeSession
  <2>2. TypeWire'
    BY <1>13 DEF ReceiverEnd, TypeWire
  <2>3. TypeSession' /\ TypeSender'
    BY <1>13 DEF ReceiverEnd, TypeSession, TypeSender
  <2>4. TypeReceiver'
    BY <1>13, FlushedType DEF ReceiverEnd, TypeReceiver
  <2>5. HandleOK'
    BY <1>13 DEF ReceiverEnd, HandleOK
  <2>9. EntryOnce'
    BY <1>13, EntryKept DEF ReceiverEnd
  <2> QED
    BY <2>1, <2>2, <2>3, <2>4, <2>5, <2>9 DEF TypeOK
<1> QED
  BY <1>1, <1>2, <1>3, <1>4, <1>5, <1>6, <1>7, <1>8, <1>9, <1>10, <1>11, <1>12, <1>13 DEF Receiver

\* Every state of every behaviour is well typed, and an open part handle is
\* on a file that exists.
THEOREM TypeCorrect == Spec => []TypeOK
<1>1. TypeOK /\ UNCHANGED vars => TypeOK'
  BY DEF vars, diskVars, sessVars, sendVars, rxVars, TypeOK, TypeDisk, TypeSession,
         TypeSender, TypeWire, TypeReceiver, HandleOK, EntryOnce
<1>2. TypeOK /\ [Next]_vars => TypeOK'
  BY <1>1, TypeEnvironment, TypeSenderStep, TypeReceiverStep DEF Next
<1> QED
  BY TypeInit, <1>2, PTL DEF Spec
=============================================================================
