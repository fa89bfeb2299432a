----------------------- MODULE TransferSafety_proofs -----------------------
(***************************************************************************)
(* FinalExact and SidecarSound hold in every state, for every grid,        *)
(* content set and bound: IInv is inductive relative to TypeOK.  So does   *)
(* OneCarrier, by an invariant of its own, and no step breaks ArrivedStays.*)
(***************************************************************************)
EXTENDS Transfer_proofs

USE ContentAssumption, FileAssumption, NoFileAssumption, OptionAssumption

-----------------------------------------------------------------------------
(* Steps of a session *)

PrepareStep == PrepareSkip \/ PrepareAdopt \/ PreparePart \/ PrepareFails
SourceStep  == \E c \in Chunk, v \in Content : SourceWrite(c, v)

\* What can happen inside a session: all but its opening and its two ends.
SessionStep ==
  \/ SourceStep
  \/ Disconnect
  \/ PrepareStep
  \/ \E f \in frames : AbsorbWrite(f)
  \/ \E f \in writing : AbsorbRecord(f)
  \/ \E f \in frames : AbsorbFails(f)
  \/ CommitFile \/ ClaimResult \/ SenderFileError
  \/ Finalize \/ FinalizeFails
  \/ Sender

\* A step opens a session, ends one, or happens inside one.
LEMMA StepKinds ==
  ASSUME Next
  PROVE  \/ \E m \in Modes : Connect(m)
         \/ \E lost \in SUBSET Chunk : Kill(lost)
         \/ ReceiverEnd
         \/ SessionStep
  BY DEF Next, Environment, Receiver, Sender, SessionStep, PrepareStep, SourceStep

SessionInv ==
  /\ EntryPhase /\ AwaitAdopted /\ GatePhase /\ HaveInFlight /\ VerdictPhase
  /\ QueueComplete

-----------------------------------------------------------------------------
(* Queues, element by element *)

\* A queue keeps its frames when one is appended.
LEMMA Appended ==
  ASSUME NEW S, NEW q \in Seq(S), NEW m \in S, NEW r, r = Append(q, m)
  PROVE  /\ Len(q) \in Nat /\ DOMAIN q = 1 .. Len(q) /\ DOMAIN r = 1 .. Len(q) + 1
         /\ r[Len(q) + 1] = m
         /\ \A i \in 1 .. Len(q) : r[i] = q[i]
  BY AppendProperties, LenProperties

\* Appending to one frame makes two.
LEMMA AppendToOne ==
  ASSUME NEW x, NEW y PROVE Append(<<x>>, y) = <<x, y>>
<1> DEFINE S == {x, y}
<1>1. <<x>> \in Seq(S) /\ Len(<<x>>) = 1 /\ <<x>>[1] = x
  OBVIOUS
<1>2. /\ Append(<<x>>, y) \in Seq(S) /\ Len(Append(<<x>>, y)) = 2
      /\ Append(<<x>>, y)[1] = x /\ Append(<<x>>, y)[2] = y
  BY <1>1, AppendProperties
<1>3. <<x, y>> \in Seq(S) /\ Len(<<x, y>>) = 2 /\ <<x, y>>[1] = x /\ <<x, y>>[2] = y
  OBVIOUS
<1>4. \A i \in 1 .. 2 : Append(<<x>>, y)[i] = <<x, y>>[i]
  BY <1>2, <1>3
<1> HIDE DEF S
<1> QED
  BY <1>2, <1>3, <1>4, SeqEqual

\* Taking the head shifts the rest.
LEMMA Popped ==
  ASSUME NEW S, NEW q \in Seq(S), q # <<>>, NEW r, r = Tail(q)
  PROVE  /\ 1 \in DOMAIN q /\ q[1] = Head(q) /\ q[1] \in S
         /\ \A i \in DOMAIN r : i \in Nat \ {0} /\ i + 1 \in DOMAIN q /\ r[i] = q[i + 1]
<1>1. Len(q) \in Nat \ {0} /\ DOMAIN q = 1 .. Len(q) /\ r \in Seq(S)
  BY HeadTailProperties, LenProperties, EmptySeq
<1>2. Len(r) = Len(q) - 1 /\ DOMAIN r = 1 .. Len(r)
  BY <1>1, HeadTailProperties, LenProperties
<1>3. \A i \in 1 .. Len(r) : r[i] = q[i + 1]
  BY HeadTailProperties
<1>4. q[1] = Head(q) /\ q[1] \in S
  BY <1>1, HeadTailProperties, ElementOfSeq
<1> QED
  BY <1>1, <1>2, <1>3, <1>4

\* The frame a core hears is the first of its queue.
LEMMA HeardFirst ==
  ASSUME TypeOK
  PROVE  /\ \A t : Heard(toR, t) => 1 \in DOMAIN toR /\ toR[1] = Head(toR) /\ toR[1].type = t
                                    /\ toR[1] \in ToRMsg
         /\ \A t : Heard(toS, t) => 1 \in DOMAIN toS /\ toS[1] = Head(toS) /\ toS[1].type = t
                                    /\ toS[1] \in ToSMsg
<1>1. toR # <<>> => 1 \in DOMAIN toR /\ toR[1] = Head(toR) /\ toR[1] \in ToRMsg
  BY Popped DEF TypeOK, TypeWire
<1>2. toS # <<>> => 1 \in DOMAIN toS /\ toS[1] = Head(toS) /\ toS[1] \in ToSMsg
  BY Popped DEF TypeOK, TypeWire
<1> QED
  BY <1>1, <1>2 DEF Heard

\* What a step does to each queue.
LEMMA StepToR ==
  ASSUME TypeOK, SessionStep
  PROVE  \/ toR' = toR
         \/ toR' = <<>>
         \/ toR # <<>> /\ toR' = Tail(toR)
         \/ toR' = Append(toR, FileErrorMsg)
         \/ toR' = Append(toR, CommitMsg)
         \/ toR' = Append(toR, ClaimMsg(sHave))
  BY DEF SessionStep, PrepareStep, SourceStep, Sender, SourceWrite, Disconnect, PrepareSkip,
         PrepareAdopt, PreparePart, PrepareFails, AbsorbWrite, AbsorbRecord, AbsorbFails,
         CommitFile, ClaimResult, SenderFileError, Finalize, FinalizeFails, GateOpen,
         VerifyClaim, VerifyEnd, Schedule, SendChunk, SendFails, TaskDone, RetryChunk,
         FileResult, FailFile, Heard

-----------------------------------------------------------------------------
(* Phases of a session *)

\* taskDone needs a task.
LEMMA NoTasks ==
  ASSUME queued = {}, inflight = 0 PROVE ~TaskDone
  BY FS_EmptySet DEF TaskDone

\* While the entry waits, nothing runs but the receiver's preparation.
LEMMA EntryWaits ==
  ASSUME TypeOK, EntryPhase, GatePhase, SessionStep,
         NEW i \in DOMAIN toR, toR[i].type = "entry"
  PROVE  SourceStep \/ Disconnect \/ PrepareStep
<1>1. /\ toR = <<EntryMsg>> /\ toS = <<>> /\ gate = "wait" /\ finalQ = 0
      /\ frames = {} /\ writing = {} /\ queued = {} /\ inflight = 0
  BY DEF EntryPhase, GatePhase
<1>2. Head(toR).type = "entry"
  BY <1>1 DEF EntryMsg
<1>3. ~CommitFile /\ ~ClaimResult /\ ~SenderFileError /\ ~Finalize /\ ~FinalizeFails
  <2>1. ~CommitFile /\ ~ClaimResult /\ ~SenderFileError
    BY <1>2 DEF CommitFile, ClaimResult, SenderFileError, Heard
  <2>2. ~Finalize /\ ~FinalizeFails
    BY <1>1 DEF Finalize, FinalizeFails
  <2> QED
    BY <2>1, <2>2
<1>4. ~Sender
  BY <1>1, NoTasks DEF Sender, GateOpen, VerifyClaim, VerifyEnd, Schedule, SendChunk,
     SendFails, RetryChunk, FileResult, Reads, Heard
<1> QED
  BY <1>1, <1>3, <1>4 DEF SessionStep

\* A session step keeps the entry phase: preparation is what ends it.
LEMMA EntryPhaseStep ==
  ASSUME TypeOK, EntryPhase, GatePhase, SessionStep PROVE EntryPhase'
<1> SUFFICES ASSUME NEW i \in DOMAIN toR', toR'[i].type = "entry"
             PROVE  /\ toR' = <<EntryMsg>> /\ toS' = <<>> /\ gate' = "wait"
                    /\ ~open' /\ finalQ' = 0 /\ hash' = NoHash /\ ~await' /\ target' = "none"
  BY DEF EntryPhase
<1>1. i \in DOMAIN toR /\ toR[i] = toR'[i] /\ ~(toR # <<>> /\ toR' = Tail(toR))
  <2>1. ~(toR # <<>> /\ toR' = Tail(toR))
    <3> SUFFICES ASSUME toR # <<>>, toR' = Tail(toR) PROVE FALSE
      OBVIOUS
    <3>1. i \in Nat \ {0} /\ i + 1 \in DOMAIN toR /\ toR[i + 1].type = "entry"
      BY Popped DEF TypeOK, TypeWire
    <3> QED
      BY <3>1 DEF TypeOK, EntryOnce
  <2>2. toR' # <<>>
    OBVIOUS
  <2>3. ASSUME NEW m \in ToRMsg, m.type # "entry", toR' = Append(toR, m)
        PROVE  i \in DOMAIN toR /\ toR[i] = toR'[i]
    BY <2>3, Appended DEF TypeOK, TypeWire
  <2>4. /\ FileErrorMsg.type # "entry" /\ CommitMsg.type # "entry" /\ ClaimMsg(sHave).type # "entry"
        /\ FileErrorMsg \in ToRMsg /\ CommitMsg \in ToRMsg /\ ClaimMsg(sHave) \in ToRMsg
    BY MessageTypes DEF FileErrorMsg, CommitMsg, ClaimMsg, TypeOK, TypeSender
  <2> QED
    BY <2>1, <2>2, <2>3, <2>4, StepToR
<1>2. SourceStep \/ Disconnect \/ PrepareStep
  BY <1>1, EntryWaits
<1>3. CASE SourceStep
  BY <1>1, <1>3 DEF SourceStep, SourceWrite, EntryPhase, diskVars, sessVars, sendVars, rxVars
<1>4. CASE Disconnect
  BY <1>4 DEF Disconnect
<1>5. CASE PrepareStep
  BY <1>1, <1>5 DEF PrepareStep, PrepareSkip, PrepareAdopt, PreparePart, PrepareFails, Heard
<1> QED
  BY <1>2, <1>3, <1>4, <1>5

\* A session step starts to await a verdict only by adopting.
LEMMA AwaitAdoptedStep ==
  ASSUME AwaitAdopted, EntryPhase, SessionStep, TypeOK PROVE AwaitAdopted'
<1>1. UNCHANGED <<await, adopted>> \/ PrepareAdopt \/ PreparePart
  BY DEF SessionStep, PrepareStep, SourceStep, Sender, SourceWrite, Disconnect, PrepareSkip,
         PrepareFails, AbsorbWrite, AbsorbRecord, AbsorbFails,
         CommitFile, ClaimResult, SenderFileError, Finalize, FinalizeFails, GateOpen,
         VerifyClaim, VerifyEnd, Schedule, SendChunk, SendFails, TaskDone, RetryChunk,
         FileResult, rxVars
<1> QED
  BY <1>1 DEF AwaitAdopted, PrepareAdopt, PreparePart

\* Preparation finds a session in which nothing has happened yet.
LEMMA PrepareFinds ==
  ASSUME TypeOK, EntryPhase, PrepareStep
  PROVE  /\ toR = <<EntryMsg>> /\ toS = <<>> /\ gate = "wait" /\ finalQ = 0
         /\ hash = NoHash /\ ~await /\ ~open /\ target = "none"
         /\ toR' = <<>>
<1>1. 1 \in DOMAIN toR /\ toR[1].type = "entry" /\ toR # <<>> /\ toR' = Tail(toR)
  BY HeardFirst DEF PrepareStep, PrepareSkip, PrepareAdopt, PreparePart, PrepareFails, Heard
<1>2. /\ toR = <<EntryMsg>> /\ toS = <<>> /\ gate = "wait" /\ finalQ = 0
      /\ hash = NoHash /\ ~await /\ ~open /\ target = "none"
  BY <1>1 DEF EntryPhase
<1> QED
  BY <1>1, <1>2

\* What preparation answers.
PreparedHave == HaveMsg(IF await' THEN "claims" ELSE "partial", Have(hash'), hash')

\* Preparation answers with one bitmap that describes the sidecar.
LEMMA PreparedAnswer ==
  ASSUME TypeOK, EntryPhase, PrepareStep
  PROVE  \/ PrepareFails /\ toS' = <<ResultMsg(FALSE)>>
         \/ PrepareSkip /\ toS' = <<HaveMsg("skip", {}, NoHash), ResultMsg(TRUE)>>
         \/ (PrepareAdopt \/ PreparePart) /\ toS' = <<PreparedHave>>
<1>1. toS = <<>>
  BY PrepareFinds
<1>0. \A x : Append(<<>>, x) = <<x>>
  OBVIOUS
<1>2. CASE PrepareFails
  <2>1. toS' = Append(toS, ResultMsg(FALSE))
    BY <1>2 DEF PrepareFails
  <2> QED
    BY <1>0, <1>1, <1>2, <2>1
<1>3. CASE PrepareSkip
  <2>1. toS' = Append(Append(toS, HaveMsg("skip", {}, NoHash)), ResultMsg(TRUE))
    BY <1>3 DEF PrepareSkip
  <2>2. Append(toS, HaveMsg("skip", {}, NoHash)) = <<HaveMsg("skip", {}, NoHash)>>
    BY <1>0, <1>1
  <2> QED
    BY <1>3, <2>1, <2>2, AppendToOne
<1>4. CASE PrepareAdopt
  <2>1. toS' = Append(toS, PreparedHave)
    BY <1>4 DEF PrepareAdopt, PreparedHave
  <2> QED
    BY <1>0, <1>1, <1>4, <2>1
<1>5. CASE PreparePart
  <2>1. toS' = Append(toS, HaveMsg(IF adopted' THEN "claims" ELSE "partial", Have(hash'), hash'))
    BY <1>5 DEF PreparePart
  <2>2. await' = adopted'
    BY <1>5 DEF PreparePart
  <2> QED
    BY <1>1, <1>5, <2>1, <2>2 DEF PreparedHave
<1> QED
  BY <1>2, <1>3, <1>4, <1>5 DEF PrepareStep

\* Behind a closed gate neither data nor verdicts move.
LEMMA ClosedGate ==
  ASSUME TypeOK, EntryPhase, GatePhase, SessionStep, gate # "ready"
  PROVE  \/ SourceStep \/ Disconnect \/ PrepareStep \/ Finalize \/ FinalizeFails
         \/ GateOpen \/ FileResult \/ VerifyEnd
         \/ \E c \in Chunk, k \in BOOLEAN : VerifyClaim(c, k)
<1>1. /\ frames = {} /\ writing = {} /\ queued = {} /\ inflight = 0
      /\ \A i \in DOMAIN toR : toR[i].type = "entry"
      /\ \A i \in DOMAIN toS : toS[i].type # "retry"
  BY DEF GatePhase
<1>2. ~CommitFile /\ ~ClaimResult /\ ~SenderFileError
  <2>1. ASSUME NEW t, Heard(toR, t) PROVE t = "entry"
    BY <1>1, <2>1, HeardFirst
  <2> QED
    BY <2>1 DEF CommitFile, ClaimResult, SenderFileError
<1>3. ~RetryChunk
  BY <1>1, HeardFirst DEF RetryChunk, Reads
<1>4. ~Schedule /\ ~TaskDone
  BY <1>1, NoTasks DEF Schedule
<1> QED
  BY <1>1, <1>2, <1>3, <1>4 DEF SessionStep, Sender

\* Once the gate is open, what it decided stays.
LEMMA OpenGate ==
  ASSUME TypeOK, EntryPhase, SessionStep, gate = "ready"
  PROVE  /\ UNCHANGED <<gate, sHave, claim, unverified, await, adopted>>
         /\ ~PrepareStep /\ ~VerifyEnd
<1>1. ~PrepareStep
  BY PrepareFinds
<1>2. ~VerifyEnd
  BY DEF VerifyEnd
<1> QED
  BY <1>1, <1>2 DEF SessionStep, SourceStep, Sender, SourceWrite, Disconnect, AbsorbWrite,
     AbsorbRecord, AbsorbFails, CommitFile, ClaimResult, SenderFileError, Finalize,
     FinalizeFails, GateOpen, VerifyClaim, Schedule, SendChunk, SendFails, TaskDone,
     RetryChunk, FileResult, rxVars, sendVars

\* The messages a step adds to the sender's queue, outside preparation.
LEMMA StepToS ==
  ASSUME TypeOK, SessionStep, ~PrepareStep
  PROVE  \/ toS' = toS
         \/ toS' = <<>>
         \/ toS # <<>> /\ toS' = Tail(toS) /\ (GateOpen \/ FileResult \/ RetryChunk)
         \/ \E k \in BOOLEAN : toS' = Append(toS, ResultMsg(k))
         \/ \E f \in frames : toS' = Append(toS, RetryMsg(f.chunk))
<1>1. CASE \E f \in frames : AbsorbFails(f)
  BY <1>1 DEF AbsorbFails, RxFail, Send
<1>2. CASE Finalize \/ FinalizeFails
  BY <1>2 DEF Finalize, FinalizeFails, RxFail, Send
<1>3. CASE GateOpen \/ FileResult \/ RetryChunk
  BY <1>3 DEF GateOpen, FileResult, RetryChunk, Reads, Heard
<1> QED
  BY <1>1, <1>2, <1>3 DEF SessionStep, SourceStep, Sender, SourceWrite, Disconnect, AbsorbWrite,
     AbsorbRecord, CommitFile, ClaimResult, SenderFileError, VerifyClaim, VerifyEnd, Schedule,
     SendChunk, SendFails, TaskDone

\* A session step keeps data and verdicts behind the gate.
LEMMA GatePhaseStep ==
  ASSUME TypeOK, EntryPhase, GatePhase, SessionStep PROVE GatePhase'
<1> SUFFICES ASSUME gate' # "ready"
             PROVE  /\ frames' = {} /\ writing' = {} /\ queued' = {} /\ inflight' = 0
                    /\ arrived' = {} /\ ~settled'
                    /\ \A i \in DOMAIN toR' : toR'[i].type = "entry"
                    /\ \A i \in DOMAIN toS' : toS'[i].type # "retry"
  BY DEF GatePhase
<1>1. gate # "ready"
  BY OpenGate
<1>2. /\ frames = {} /\ writing = {} /\ queued = {} /\ inflight = 0 /\ arrived = {} /\ ~settled
      /\ \A i \in DOMAIN toR : toR[i].type = "entry"
      /\ \A i \in DOMAIN toS : toS[i].type # "retry"
  BY <1>1 DEF GatePhase
<1>3. \/ SourceStep \/ Disconnect \/ PrepareStep \/ Finalize \/ FinalizeFails
      \/ GateOpen \/ FileResult
      \/ \E c \in Chunk, k \in BOOLEAN : VerifyClaim(c, k)
  BY <1>1, ClosedGate DEF VerifyEnd
<1>4. UNCHANGED <<writing, arrived, settled>> /\ frames' = {} /\ queued' = {} /\ inflight' = 0
  <2>1. CASE PrepareStep
    BY <1>2, <2>1 DEF PrepareStep, PrepareSkip, PrepareAdopt, PreparePart, PrepareFails, sendVars
  <2>2. CASE SourceStep
    BY <1>2, <2>2 DEF SourceStep, SourceWrite, sendVars, rxVars
  <2>3. CASE Disconnect
    BY <1>2, <2>3 DEF Disconnect, rxVars
  <2>4. CASE Finalize
    BY <1>2, <2>4 DEF Finalize, sendVars
  <2>5. CASE FinalizeFails
    BY <1>2, <2>5 DEF FinalizeFails, sendVars
  <2>6. CASE GateOpen \/ FileResult
    BY <1>2, <2>6 DEF GateOpen, FileResult, rxVars
  <2>7. CASE \E c \in Chunk, k \in BOOLEAN : VerifyClaim(c, k)
    BY <1>2, <2>7 DEF VerifyClaim, rxVars
  <2> QED
    BY <1>3, <2>1, <2>2, <2>3, <2>4, <2>5, <2>6, <2>7
<1>7. toR' = toR \/ toR' = <<>>
  <2>1. CASE PrepareStep
    BY <2>1, PrepareFinds
  <2> QED
    BY <1>3, <2>1 DEF SourceStep, SourceWrite, Disconnect, Finalize, FinalizeFails, GateOpen,
       FileResult, VerifyClaim
<1>5. \A i \in DOMAIN toR' : toR'[i].type = "entry"
  BY <1>2, <1>7
<1>6. \A i \in DOMAIN toS' : toS'[i].type # "retry"
  <2>1. CASE PrepareStep
    BY <2>1, PreparedAnswer DEF PreparedHave, HaveMsg, ResultMsg
  <2>2. CASE ~PrepareStep /\ toS # <<>> /\ toS' = Tail(toS)
    BY <1>2, <2>2, Popped DEF TypeOK, TypeWire
  <2>3. ASSUME NEW k \in BOOLEAN, toS' = Append(toS, ResultMsg(k))
        PROVE  \A i \in DOMAIN toS' : toS'[i].type # "retry"
    <3>1. ResultMsg(k) \in ToSMsg /\ ResultMsg(k).type = "result"
      BY MessageTypes DEF ResultMsg
    <3>2. toS \in Seq(ToSMsg)
      BY DEF TypeOK, TypeWire
    <3>3. /\ Len(toS) \in Nat /\ DOMAIN toS = 1 .. Len(toS) /\ DOMAIN toS' = 1 .. Len(toS) + 1
          /\ toS'[Len(toS) + 1] = ResultMsg(k)
          /\ \A i \in 1 .. Len(toS) : toS'[i] = toS[i]
      BY <2>3, <3>1, <3>2, Appended
    <3> QED
      BY <1>2, <3>1, <3>3
  <2> QED
    BY <1>2, <2>1, <2>2, <2>3, StepToS
<1> QED
  BY <1>2, <1>4, <1>5, <1>6

\* A session step keeps the bitmap in flight a description of the sidecar.
LEMMA HaveInFlightStep ==
  ASSUME TypeOK, EntryPhase, GatePhase, HaveInFlight, SessionStep PROVE HaveInFlight'
<1> SUFFICES ASSUME NEW i \in DOMAIN toS', toS'[i].type = "have"
             PROVE  /\ i = 1 /\ gate' = "wait" /\ toR' = <<>>
                    /\ toS'[i].status = "claims" <=> await'
                    /\ await' => toS'[i].claim = hash' /\ toS'[i].have = Have(hash')
  BY DEF HaveInFlight
<1>1. CASE PrepareStep
  <2>1. gate' = "wait" /\ toR' = <<>>
    BY <1>1, PrepareFinds DEF PrepareStep, PrepareSkip, PrepareAdopt, PreparePart, PrepareFails,
       sendVars
  <2>2. CASE PrepareFails /\ toS' = <<ResultMsg(FALSE)>>
    BY <2>2 DEF ResultMsg
  <2>3. CASE PrepareSkip /\ toS' = <<HaveMsg("skip", {}, NoHash), ResultMsg(TRUE)>>
    <3>1. ~await'
      BY <1>1, <2>3, PrepareFinds DEF PrepareSkip
    <3>2. i = 1
      BY <2>3 DEF ResultMsg
    <3>3. toS'[i].status = "skip"
      BY <2>3, <3>2 DEF HaveMsg
    <3> QED
      BY <2>1, <3>1, <3>2, <3>3
  <2>4. CASE toS' = <<PreparedHave>>
    BY <2>1, <2>4 DEF PreparedHave, HaveMsg
  <2> QED
    BY <1>1, <2>2, <2>3, <2>4, PreparedAnswer
<1>2. CASE ~PrepareStep
  <2>1. i \in DOMAIN toS /\ toS[i] = toS'[i] /\ ~(GateOpen \/ FileResult \/ RetryChunk)
    <3>1. ASSUME NEW m \in ToSMsg, m.type # "have", toS' = Append(toS, m)
          PROVE  i \in DOMAIN toS /\ toS[i] = toS'[i]
      BY <3>1, Appended DEF TypeOK, TypeWire
    <3>2. ASSUME NEW f \in frames
          PROVE  RetryMsg(f.chunk) \in ToSMsg /\ RetryMsg(f.chunk).type # "have"
      <4>1. f.chunk \in Chunk
        BY DEF TypeOK, TypeWire, Frame
      <4> QED
        BY <4>1, MessageTypes DEF RetryMsg
    <3>3. \A k \in BOOLEAN : ResultMsg(k) \in ToSMsg /\ ResultMsg(k).type # "have"
      BY MessageTypes DEF ResultMsg
    <3>4. ~(GateOpen \/ FileResult \/ RetryChunk)
      <4> SUFFICES ASSUME GateOpen \/ FileResult \/ RetryChunk PROVE FALSE
        OBVIOUS
      <4>1. toS # <<>> /\ toS' = Tail(toS)
        BY DEF GateOpen, FileResult, RetryChunk, Reads, Heard
      <4>2. i \in Nat \ {0} /\ i + 1 \in DOMAIN toS /\ toS[i + 1].type = "have"
        BY <4>1, Popped DEF TypeOK, TypeWire
      <4> QED
        BY <4>2 DEF HaveInFlight
    <3> QED
      BY <1>2, <3>1, <3>2, <3>3, <3>4, StepToS
  <2>2. /\ i = 1 /\ gate = "wait" /\ toR = <<>>
        /\ toS[i].status = "claims" <=> await
        /\ await => toS[i].claim = hash /\ toS[i].have = Have(hash)
    BY <2>1 DEF HaveInFlight
  <2>3. SourceStep \/ Disconnect \/ Finalize \/ FinalizeFails
    BY <1>2, <2>1, <2>2, ClosedGate DEF VerifyEnd, VerifyClaim
  <2>4. UNCHANGED <<gate, await, hash>> /\ toR' = <<>>
    BY <2>2, <2>3 DEF SourceStep, SourceWrite, Disconnect, Finalize, FinalizeFails, sendVars, rxVars
  <2> QED
    BY <2>1, <2>2, <2>4 DEF Have
<1> QED
  BY <1>1, <1>2

\* A verdict in the receiver's queue was put there through the open gate.
LEMMA VerdictReady ==
  ASSUME GatePhase, NEW i \in DOMAIN toR, Verdict(toR[i]) PROVE gate = "ready"
  BY DEF GatePhase, Verdict

\* Only a verdict settles the claims.
LEMMA SettledBy ==
  ASSUME SessionStep, ~CommitFile, ~ClaimResult PROVE UNCHANGED settled
  BY DEF SessionStep, PrepareStep, SourceStep, Sender, SourceWrite, Disconnect, PrepareSkip,
     PrepareAdopt, PreparePart, PrepareFails, AbsorbWrite, AbsorbRecord, AbsorbFails,
     SenderFileError, Finalize, FinalizeFails, GateOpen, VerifyClaim, VerifyEnd, Schedule,
     SendChunk, SendFails, TaskDone, RetryChunk, FileResult, rxVars

\* A session step sends no second verdict, and none after the claims are settled.
LEMMA VerdictPhaseStep ==
  ASSUME TypeOK, EntryPhase, GatePhase, HaveInFlight, VerdictPhase, SessionStep
  PROVE  VerdictPhase'
<1>1. gate' = "verify" => await' /\ claim' = hash'
  <2> SUFFICES ASSUME gate' = "verify" PROVE await' /\ claim' = hash'
    OBVIOUS
  <2>1. gate # "ready"
    BY OpenGate
  <2>2. CASE GateOpen
    <3>1. Head(toS).status = "claims" /\ claim' = Head(toS).claim /\ toS[1] = Head(toS)
          /\ 1 \in DOMAIN toS /\ toS[1].type = "have"
      <4>1. Heard(toS, "have") /\ claim' = Head(toS).claim
        BY <2>2 DEF GateOpen, Reads
      <4>2. 1 \in DOMAIN toS /\ toS[1] = Head(toS) /\ toS[1].type = "have" /\ toS[1] \in ToSMsg
        BY <4>1, HeardFirst
      <4>3. toS[1].status \in {"skip", "partial", "claims"}
        BY <4>2 DEF ToSMsg
      <4>4. Head(toS).status = "claims"
        BY <2>2, <4>2, <4>3 DEF GateOpen
      <4> QED
        BY <4>1, <4>2, <4>4
    <3>2. await /\ toS[1].claim = hash
      BY <3>1 DEF HaveInFlight
    <3>3. UNCHANGED <<await, hash>>
      BY <2>2 DEF GateOpen, rxVars
    <3> QED
      BY <3>1, <3>2, <3>3
  <2>3. CASE PrepareStep
    BY <2>3, PrepareFinds DEF PrepareStep, PrepareSkip, PrepareAdopt, PreparePart, PrepareFails,
       sendVars
  <2>4. CASE SourceStep \/ Disconnect \/ Finalize \/ FinalizeFails \/ FileResult
             \/ \E c \in Chunk, k \in BOOLEAN : VerifyClaim(c, k)
    <3>1. UNCHANGED <<gate, await, claim, hash>>
      BY <2>4 DEF SourceStep, SourceWrite, Disconnect, Finalize, FinalizeFails, FileResult,
         VerifyClaim, sendVars, rxVars
    <3> QED
      BY <3>1 DEF VerdictPhase
  <2> QED
    BY <2>1, <2>2, <2>3, <2>4, ClosedGate DEF VerifyEnd
<1>2. gate' = "ready" => unverified' = {}
  <2>1. CASE gate = "ready"
    BY <2>1, OpenGate DEF VerdictPhase
  <2>2. CASE gate # "ready"
    <3>1. CASE GateOpen
      BY <3>1 DEF GateOpen
    <3>2. CASE VerifyEnd
      BY <3>2 DEF VerifyEnd
    <3>3. CASE ~GateOpen /\ ~VerifyEnd
      <4>1. UNCHANGED gate
        BY <2>2, <3>3, ClosedGate DEF SourceStep, SourceWrite, Disconnect, PrepareStep, PrepareSkip,
           PrepareAdopt, PreparePart, PrepareFails, Finalize, FinalizeFails, FileResult,
           VerifyClaim, sendVars
      <4> QED
        BY <2>2, <4>1
    <3> QED
      BY <3>1, <3>2, <3>3
  <2> QED
    BY <2>1, <2>2
<1>3. ASSUME NEW i \in DOMAIN toR', Verdict(toR'[i])
      PROVE  /\ await' /\ ~settled'
             /\ toR'[i].type = "commit" => sHave' = Have(claim')
             /\ toR'[i].type = "claimResult" => toR'[i].verified = sHave'
             /\ \A j \in DOMAIN toR' : Verdict(toR'[j]) => i = j
  <2>1. CASE VerifyEnd
    <3>1. gate = "verify" /\ toR \in Seq(ToRMsg)
      BY <2>1 DEF VerifyEnd, TypeOK, TypeWire
    <3>2. \A j \in DOMAIN toR : ~Verdict(toR[j])
      BY <3>1, VerdictReady
    <3>3. PICK m \in {CommitMsg, ClaimMsg(sHave)} :
             /\ toR' = Append(toR, m)
             /\ m = CommitMsg => sHave = Have(claim)
      BY <2>1 DEF VerifyEnd, CommitMsg, ClaimMsg
    <3>4. m \in ToRMsg
      BY MessageTypes DEF TypeOK, TypeSender
    <3>5. \A j \in DOMAIN toR' : j # Len(toR) + 1 => ~Verdict(toR'[j])
      BY <3>1, <3>2, <3>3, <3>4, Appended
    <3>6. i = Len(toR) + 1 /\ toR'[i] = m
      BY <1>3, <3>1, <3>3, <3>4, <3>5, Appended
    <3>7. await /\ ~settled
      BY <3>1 DEF GatePhase, VerdictPhase
    <3>8. UNCHANGED <<await, settled, sHave, claim>>
      BY <2>1 DEF VerifyEnd, rxVars
    <3>9. Have(claim') = Have(claim)
      BY <3>8 DEF Have
    <3>10. /\ m.type = "commit" => m = CommitMsg
           /\ m.type = "claimResult" => m.verified = sHave
      BY <3>3 DEF CommitMsg, ClaimMsg
    <3> QED
      BY <3>3, <3>5, <3>6, <3>7, <3>8, <3>9, <3>10
  <2>2. CASE ~VerifyEnd
    <3>1. \/ toR' = toR
          \/ toR # <<>> /\ toR' = Tail(toR)
          \/ toR' = Append(toR, FileErrorMsg)
      <4>1. toR' # <<>>
        BY <1>3
      <4> QED
        BY <2>2, <4>1 DEF SessionStep, PrepareStep, SourceStep, Sender, SourceWrite, Disconnect,
         PrepareSkip, PrepareAdopt, PreparePart, PrepareFails, AbsorbWrite, AbsorbRecord,
         AbsorbFails, CommitFile, ClaimResult, SenderFileError, Finalize, FinalizeFails, GateOpen,
         VerifyClaim, Schedule, SendChunk, SendFails, TaskDone, RetryChunk,
         FileResult, FailFile, Heard
    <3>2. CASE toR # <<>> /\ toR' = Tail(toR)
      <4>1. \A j \in DOMAIN toR' : j \in Nat \ {0} /\ j + 1 \in DOMAIN toR /\ toR[j + 1] = toR'[j]
        BY <3>2, Popped DEF TypeOK, TypeWire
      <4>2. Verdict(toR[i + 1]) /\ i + 1 \in DOMAIN toR /\ i + 1 # 1
        BY <1>3, <4>1
      <4>3. ASSUME CommitFile \/ ClaimResult PROVE FALSE
        <5>1. Verdict(toR[1]) /\ 1 \in DOMAIN toR
          BY <4>3, HeardFirst DEF CommitFile, ClaimResult, Verdict
        <5> QED
          BY <4>2, <5>1 DEF VerdictPhase
      <4>4. UNCHANGED <<gate, sHave, claim, await, settled>>
        BY <4>2, <4>3, VerdictReady, OpenGate, SettledBy
      <4>5. /\ await /\ ~settled
            /\ toR[i + 1].type = "commit" => sHave = Have(claim)
            /\ toR[i + 1].type = "claimResult" => toR[i + 1].verified = sHave
            /\ \A j \in DOMAIN toR : Verdict(toR[j]) => i + 1 = j
        BY <4>2 DEF VerdictPhase
      <4>6. \A j \in DOMAIN toR' : Verdict(toR'[j]) => i = j
        BY <1>3, <4>1, <4>5
      <4> QED
        BY <1>3, <4>1, <4>4, <4>5, <4>6 DEF Have
    <3>3. CASE ~(toR # <<>> /\ toR' = Tail(toR))
      <4>1. \A j \in DOMAIN toR' : Verdict(toR'[j]) => j \in DOMAIN toR /\ toR[j] = toR'[j]
        <5>1. ~Verdict(FileErrorMsg) /\ FileErrorMsg \in ToRMsg
          BY MessageTypes DEF Verdict, FileErrorMsg
        <5>2. CASE toR' = Append(toR, FileErrorMsg)
          BY <5>1, <5>2, Appended DEF TypeOK, TypeWire
        <5> QED
          BY <3>1, <3>3, <5>2
      <4>2. ~CommitFile /\ ~ClaimResult
        BY <3>3 DEF CommitFile, ClaimResult, Heard
      <4>3. i \in DOMAIN toR /\ Verdict(toR[i])
        BY <1>3, <4>1
      <4>4. UNCHANGED <<gate, sHave, claim, await, settled>>
        BY <4>2, <4>3, VerdictReady, OpenGate, SettledBy
      <4>5. /\ await /\ ~settled
            /\ toR[i].type = "commit" => sHave = Have(claim)
            /\ toR[i].type = "claimResult" => toR[i].verified = sHave
            /\ \A j \in DOMAIN toR : Verdict(toR[j]) => i = j
        BY <4>3 DEF VerdictPhase
      <4> QED
        BY <1>3, <4>1, <4>4, <4>5 DEF Have
    <3> QED
      BY <3>2, <3>3
  <2> QED
    BY <2>1, <2>2
<1> QED
  BY <1>1, <1>2, <1>3 DEF VerdictPhase

\* Only a recorded frame, a verdict or preparation changes the sidecar.
LEMMA HashBy ==
  ASSUME SessionStep
  PROVE  \/ UNCHANGED hash
         \/ PrepareStep \/ ClaimResult
         \/ \E f \in writing : AbsorbRecord(f)
  BY DEF SessionStep, SourceStep, Sender, SourceWrite, Disconnect, AbsorbWrite, AbsorbFails,
     CommitFile, SenderFileError, Finalize, FinalizeFails, GateOpen, VerifyClaim, VerifyEnd,
     Schedule, SendChunk, SendFails, TaskDone, RetryChunk, FileResult, rxVars

\* A session step queues for finalize only what is complete and settled.
LEMMA QueueCompleteStep ==
  ASSUME TypeOK, EntryPhase, AwaitAdopted, GatePhase, VerdictPhase, QueueComplete, SessionStep
  PROVE  QueueComplete'
<1> SUFFICES ASSUME finalQ' > 0, open' PROVE Complete(hash)' /\ (~await' \/ settled')
  BY DEF QueueComplete
<1>1. CASE PrepareStep
  <2>1. finalQ = 0 /\ ~open
    BY <1>1, PrepareFinds
  <2>2. CASE PreparePart
    BY <2>2 DEF PreparePart, Complete, Have
  <2>3. CASE ~PreparePart
    <3>1. finalQ' = finalQ
      BY <1>1, <2>3 DEF PrepareStep, PrepareSkip, PrepareAdopt, PrepareFails
    <3> QED
      BY <2>1, <3>1
  <2> QED
    BY <2>2, <2>3
<1>2. ASSUME NEW f \in writing, AbsorbRecord(f) PROVE Complete(hash)' /\ (~await' \/ settled')
  <2>1. /\ UNCHANGED <<await, settled, open>>
        /\ hash' = [hash EXCEPT ![f.chunk] = IF f.zero THEN Hole ELSE f.data]
        /\ MaybeComplete(hash', settled)
    BY <1>2 DEF AbsorbRecord
  <2>2. CASE finalQ > 0
    <3>1. Complete(hash) /\ (~await \/ settled)
      BY <2>1, <2>2 DEF QueueComplete
    <3>2. f.chunk \in Chunk /\ f.data \in Content
      BY DEF TypeOK, TypeReceiver, Frame
    <3>3. Complete(hash')
      <4>1. \A c \in Chunk : hash[c] # Missing
        BY <3>1 DEF Complete, Have
      <4>2. \A c \in Chunk : hash'[c] # Missing
        BY <2>1, <3>2, <4>1 DEF TypeOK, TypeReceiver
      <4> QED
        BY <4>2 DEF Complete, Have
    <3> QED
      BY <2>1, <3>1, <3>3 DEF Complete, Have
  <2>3. CASE ~(finalQ > 0)
    BY <2>1, <2>3 DEF MaybeComplete, Complete, Have
  <2> QED
    BY <2>2, <2>3
<1>3. CASE ClaimResult
  <2>1. UNCHANGED <<await, open>> /\ await /\ ~settled /\ adopted
    <3>1. Verdict(toR[1]) /\ 1 \in DOMAIN toR
      BY <1>3, HeardFirst DEF ClaimResult, Verdict
    <3> QED
      BY <1>3, <3>1 DEF ClaimResult, VerdictPhase, AwaitAdopted
  <2>2. ~(finalQ > 0)
    BY <2>1 DEF QueueComplete
  <2>3. CASE rOut # "none"
    BY <1>3, <2>2, <2>3 DEF ClaimResult
  <2>4. CASE rOut = "none"
    BY <1>3, <2>1, <2>2, <2>4 DEF ClaimResult, MaybeComplete, Complete, Have
  <2> QED
    BY <2>3, <2>4
<1>4. CASE CommitFile
  BY <1>4 DEF CommitFile, QueueComplete, Complete, Have
<1>5. CASE ~PrepareStep /\ ~ClaimResult /\ ~CommitFile /\ ~\E f \in writing : AbsorbRecord(f)
  <2>1. UNCHANGED <<hash, settled>>
    BY <1>5, HashBy, SettledBy
  <2>2. UNCHANGED await /\ (open' => open) /\ (open' => finalQ' = finalQ \/ finalQ' = finalQ - 1)
    BY <1>5 DEF SessionStep, SourceStep, Sender, SourceWrite, Disconnect, AbsorbWrite, AbsorbFails,
     RxFail, SenderFileError, Finalize, FinalizeFails, GateOpen, VerifyClaim, VerifyEnd,
     Schedule, SendChunk, SendFails, TaskDone, RetryChunk, FileResult, rxVars
  <2>3. finalQ \in Nat
    BY DEF TypeOK, TypeReceiver
  <2> QED
    BY <2>1, <2>2, <2>3 DEF QueueComplete, Complete, Have
<1> QED
  BY <1>1, <1>2, <1>3, <1>4, <1>5

\* A session keeps its own invariant.
LEMMA SessionInvStep ==
  ASSUME TypeOK, SessionInv, SessionStep PROVE SessionInv'
<1>1. EntryPhase' /\ AwaitAdopted'
  BY EntryPhaseStep, AwaitAdoptedStep DEF SessionInv
<1>2. GatePhase' /\ HaveInFlight'
  BY GatePhaseStep, HaveInFlightStep DEF SessionInv
<1>3. VerdictPhase' /\ QueueComplete'
  BY VerdictPhaseStep, QueueCompleteStep DEF SessionInv
<1> QED
  BY <1>1, <1>2, <1>3 DEF SessionInv

\* And opens with it.
LEMMA SessionInvOpen ==
  ASSUME NEW m \in Modes, Connect(m) PROVE SessionInv'
<1>1. EntryPhase' /\ AwaitAdopted'
  BY DEF Connect, EntryPhase, AwaitAdopted
<1>2. GatePhase'
  BY DEF Connect, GatePhase, EntryMsg
<1>3. HaveInFlight' /\ QueueComplete'
  BY DEF Connect, HaveInFlight, QueueComplete
<1>4. VerdictPhase'
  BY DEF Connect, VerdictPhase, Verdict, EntryMsg
<1> QED
  BY <1>1, <1>2, <1>3, <1>4 DEF SessionInv

-----------------------------------------------------------------------------
(* While the entry names the current source *)

LiveInv == ClaimsChecked /\ FramesExact /\ HashExact /\ BytesExact

\* While the source stays, frames are cut from it.
LEMMA FramesExactStep ==
  ASSUME TypeOK, FramesExact, SessionStep, src' = src PROVE FramesExact'
<1>1. ASSUME NEW c \in queued, SendChunk(c) PROVE FramesExact'
  <2>1. frames' = frames \/ frames' = frames \cup
            {[chunk |-> c, data |-> src[c], zero |-> Sparse /\ src[c] = Zero]}
    BY <1>1 DEF SendChunk
  <2>2. UNCHANGED writing
    BY <1>1 DEF SendChunk, rxVars
  <2>3. ASSUME NEW g, g = [chunk |-> c, data |-> src[c], zero |-> Sparse /\ src[c] = Zero]
        PROVE  g.data = src[g.chunk] /\ (g.zero => g.data = Zero)
    BY <2>3
  <2> QED
    BY <2>1, <2>2, <2>3 DEF FramesExact
<1>2. ASSUME NEW f \in frames, AbsorbWrite(f) PROVE FramesExact'
  BY <1>2 DEF AbsorbWrite, FramesExact
<1>3. ASSUME NEW f \in writing, AbsorbRecord(f) PROVE FramesExact'
  BY <1>3 DEF AbsorbRecord, FramesExact
<1>4. ASSUME NEW f \in frames, AbsorbFails(f) PROVE FramesExact'
  BY <1>4 DEF AbsorbFails, FramesExact
<1>5. CASE Disconnect
  BY <1>5 DEF Disconnect, FramesExact, rxVars
<1>6. CASE UNCHANGED <<frames, writing>>
  BY <1>6 DEF FramesExact
<1>7. \/ UNCHANGED <<frames, writing>> \/ Disconnect
      \/ \E c \in queued : SendChunk(c)
      \/ \E f \in frames : AbsorbWrite(f) \/ AbsorbFails(f)
      \/ \E f \in writing : AbsorbRecord(f)
  BY DEF SessionStep, SourceStep, PrepareStep, Sender, SourceWrite, PrepareSkip, PrepareAdopt,
     PreparePart, PrepareFails, CommitFile, ClaimResult, SenderFileError, Finalize,
     FinalizeFails, GateOpen, VerifyClaim, VerifyEnd, Schedule, SendFails, TaskDone,
     RetryChunk, FileResult, rxVars
<1> QED
  BY <1>1, <1>2, <1>3, <1>4, <1>5, <1>6, <1>7

\* A recorded frame: its mark, and what it makes arrive.
LEMMA Recorded ==
  ASSUME TypeOK, NEW f \in writing, AbsorbRecord(f)
  PROVE  /\ f.chunk \in Chunk /\ f.data \in Content /\ hash \in [Chunk -> HashMark]
         /\ hash' = [hash EXCEPT ![f.chunk] = IF f.zero THEN Hole ELSE f.data]
         /\ arrived' = IF adopted THEN arrived \cup {f.chunk} ELSE arrived
         /\ UNCHANGED <<gate, claim, sHave, unverified, await, settled, adopted, open, target,
                       mayStale, part, final>>
         /\ writing' = writing \ {f}
<1>1. f \in Frame /\ hash \in [Chunk -> HashMark]
  BY DEF TypeOK, TypeReceiver
<1> QED
  BY <1>1 DEF Frame, AbsorbRecord, sendVars, diskVars

\* While the source stays, what the sender verified is its own data.
LEMMA ClaimsCheckedStep ==
  ASSUME TypeOK, SessionInv, ClaimsChecked, SessionStep, src' = src PROVE ClaimsChecked'
<1> SUFFICES ASSUME await', gate' \in {"verify", "ready"}
             PROVE  /\ \A c \in Chunk \ arrived' : hash'[c] \in {Missing, claim'[c]}
                    /\ \A c \in sHave' \ unverified' : claim'[c] = src[c]
  BY DEF ClaimsChecked
<1>1. CASE GateOpen
  <2>1. 1 \in DOMAIN toS /\ toS[1] = Head(toS) /\ toS[1].type = "have"
    BY <1>1, HeardFirst DEF GateOpen, Reads
  <2>2. UNCHANGED <<await, hash, arrived>> /\ await
    BY <1>1 DEF GateOpen, rxVars
  <2>3. Head(toS).status = "claims" /\ Head(toS).claim = hash
    BY <2>1, <2>2 DEF SessionInv, HaveInFlight
  <2>4. claim' = hash /\ unverified' = sHave'
    BY <1>1, <2>3 DEF GateOpen
  <2> QED
    BY <2>2, <2>4
<1>2. ASSUME NEW c \in Chunk, NEW k \in BOOLEAN, VerifyClaim(c, k)
      PROVE  /\ \A d \in Chunk \ arrived' : hash'[d] \in {Missing, claim'[d]}
             /\ \A d \in sHave' \ unverified' : claim'[d] = src[d]
  <2>1. UNCHANGED <<await, hash, arrived, claim>> /\ gate = "verify"
    BY <1>2 DEF VerifyClaim, rxVars
  <2>2. /\ unverified' = unverified \ {c}
        /\ sHave' = IF k /\ src[c] = claim[c] THEN sHave ELSE sHave \ {c}
    BY <1>2 DEF VerifyClaim
  <2> QED
    BY <2>1, <2>2 DEF ClaimsChecked
<1>3. ASSUME NEW f \in writing, AbsorbRecord(f)
      PROVE  /\ \A d \in Chunk \ arrived' : hash'[d] \in {Missing, claim'[d]}
             /\ \A d \in sHave' \ unverified' : claim'[d] = src[d]
  <2>1. await /\ adopted /\ arrived' = arrived \cup {f.chunk}
    BY <1>3, Recorded DEF SessionInv, AwaitAdopted
  <2> QED
    BY <1>3, <2>1, Recorded DEF ClaimsChecked
<1>4. CASE ClaimResult
  <2>1. UNCHANGED <<await, arrived, claim, sHave, unverified, gate>>
    BY <1>4 DEF ClaimResult, sendVars
  <2>2. \A c \in Chunk : hash'[c] \in {Missing, hash[c]}
    BY <1>4 DEF ClaimResult, Cleared
  <2> QED
    BY <2>1, <2>2 DEF ClaimsChecked
<1>5. ~PrepareStep
  BY PrepareFinds DEF SessionInv, PrepareStep, PrepareSkip, PrepareAdopt, PreparePart,
     PrepareFails, sendVars
<1>6. CASE VerifyEnd
  BY <1>6 DEF VerifyEnd, ClaimsChecked, rxVars
<1>7. CASE ~GateOpen /\ ~ClaimResult /\ ~VerifyEnd /\ ~(\E f \in writing : AbsorbRecord(f))
           /\ ~(\E c \in Chunk, k \in BOOLEAN : VerifyClaim(c, k))
  <2>1. UNCHANGED <<await, hash, arrived, claim, sHave, unverified, gate>>
    BY <1>5, <1>7 DEF SessionStep, SourceStep, Sender, SourceWrite, Disconnect, AbsorbWrite, AbsorbFails,
     CommitFile, SenderFileError, Finalize, FinalizeFails,
     Schedule, SendChunk, SendFails, TaskDone, RetryChunk, FileResult, rxVars, sendVars
  <2> QED
    BY <2>1 DEF ClaimsChecked
<1> QED
  BY <1>1, <1>2, <1>3, <1>4, <1>6, <1>7

\* A source chunk is its own hash.
LEMMA ValContent ==
  /\ \A v \in Content : Val(v) = v /\ v # Missing
  /\ Val(Hole) = Zero /\ Hole # Missing
  BY DEF Val

\* What preparation puts in the sidecar stands for the bytes it found.
LEMMA PreparedMarks ==
  ASSUME TypeOK, PrepareAdopt \/ PreparePart
  PROVE  /\ open' /\ UNCHANGED <<writing, settled, arrived, history, entry>>
         /\ \A c \in Have(hash)' : Bytes'[c] = Val(hash'[c])
         /\ \/ await' \/ Have(hash)' = {}
            \/ /\ meta # NoFile /\ meta.mtime = entry
               /\ \A c \in Have(hash)' : c \in Have(meta.hash) /\ hash'[c] = meta.hash[c]
         /\ ~mayStale' => target' = "part" /\ part' = [c \in Chunk |-> Zero]
<1>1. CASE PrepareAdopt
  <2>1. /\ open' /\ UNCHANGED <<writing, settled, arrived, history, entry, final>>
        /\ target' = "final" /\ mayStale' /\ hash' = SelfHash(final.data)
        /\ await' = (Have(hash') # {}) /\ final # NoFile
    BY <1>1 DEF PrepareAdopt, diskVars, sessVars
  <2>2. final.data \in [Chunk -> Content]
    BY <2>1 DEF TypeOK, TypeDisk
  <2>3. \A c \in Have(hash)' : Bytes'[c] = Val(hash'[c])
    BY <2>1, <2>2, ValContent DEF Have, SelfHash, Bytes
  <2> QED
    BY <2>1, <2>3 DEF Have
<1>2. CASE PreparePart
  <2>1. /\ open' /\ UNCHANGED <<writing, settled, arrived, history, entry>>
        /\ target' = "part" /\ await' = adopted'
    BY <1>2 DEF PreparePart, sessVars
  <2>2. CASE part # NoFile /\ mode # "fresh" /\ ValidMeta
    <3>1. part' = part /\ mayStale' /\ hash' = ReHash(part, meta.hash)
          /\ meta # NoFile /\ meta.mtime = entry
      BY <1>2, <2>2 DEF PreparePart, ValidMeta
    <3>2. part \in [Chunk -> Content] /\ meta.hash \in [Chunk -> HashMark]
      BY <2>2, <3>1 DEF TypeOK, TypeDisk
    <3>3. \A c \in Have(hash)' : hash'[c] = meta.hash[c] /\ part[c] = Val(hash'[c]) /\ hash'[c] # Missing
      BY <3>1, <3>2, ValContent DEF Have, ReHash
    <3>4. \A c \in Have(hash)' : c \in Have(meta.hash)
      BY <3>3 DEF Have
    <3>5. \A c \in Have(hash)' : Bytes'[c] = Val(hash'[c])
      BY <2>1, <3>1, <3>3 DEF Bytes
    <3> QED
      BY <2>1, <3>1, <3>3, <3>4, <3>5
  <2>3. CASE part # NoFile /\ mode # "fresh" /\ ~ValidMeta
    <3>1. part' = part /\ mayStale' /\ hash' = SelfHash(part)
          /\ adopted' = (Have(hash') # {})
      BY <1>2, <2>3 DEF PreparePart
    <3>2. part \in [Chunk -> Content]
      BY <2>3 DEF TypeOK, TypeDisk
    <3>3. \A c \in Have(hash)' : Bytes'[c] = Val(hash'[c])
      BY <2>1, <3>1, <3>2, ValContent DEF Have, SelfHash, Bytes
    <3> QED
      BY <2>1, <3>1, <3>3 DEF Have
  <2>4. CASE ~(part # NoFile /\ mode # "fresh")
    <3>1. part' = [c \in Chunk |-> Zero] /\ hash' = NoHash
      BY <1>2, <2>4 DEF PreparePart
    <3>2. Have(hash)' = {}
      BY <3>1 DEF Have, NoHash
    <3> QED
      BY <2>1, <3>1, <3>2
  <2> QED
    BY <2>2, <2>3, <2>4
<1> QED
  BY <1>1, <1>2

\* While the source stays, the marks the receiver may act on stand for it.
LEMMA HashExactStep ==
  ASSUME TypeOK, SessionInv, LiveInv, SidecarSound, entry = now, SessionStep, src' = src
  PROVE  HashExact'
<1> SUFFICES ASSUME NEW c \in Have(hash)', ~await' \/ settled' \/ c \in arrived'
             PROVE  Val(hash'[c]) = src[c]
  BY DEF HashExact
<1>0. c \in Chunk /\ hash'[c] # Missing /\ src[c] \in Content
  BY SourceType DEF Have
<1>1. CASE PrepareStep
  <2>1. gate = "wait" /\ hash = NoHash /\ toR = <<EntryMsg>>
    BY <1>1, PrepareFinds DEF SessionInv
  <2>2. arrived = {} /\ ~settled
    BY <2>1 DEF SessionInv, GatePhase
  <2>3. CASE PrepareAdopt \/ PreparePart
    <3>1. ~settled' /\ c \notin arrived'
      BY <2>2, <2>3, PreparedMarks
    <3>2. /\ meta # NoFile /\ meta.mtime = entry
          /\ c \in Have(meta.hash) /\ hash'[c] = meta.hash[c]
      BY <2>3, <3>1, PreparedMarks
    <3> QED
      BY <3>2 DEF SidecarSound
  <2>4. CASE PrepareSkip \/ PrepareFails
    <3>1. hash' = NoHash
      BY <2>1, <2>4 DEF PrepareSkip, PrepareFails
    <3> QED
      BY <1>0, <3>1 DEF NoHash
  <2> QED
    BY <1>1, <2>3, <2>4 DEF PrepareStep
<1>2. ASSUME NEW f \in writing, AbsorbRecord(f) PROVE Val(hash'[c]) = src[c]
  <2>1. CASE c = f.chunk
    <3>1. f.data = src[c] /\ (f.zero => f.data = Zero)
      BY <2>1 DEF LiveInv, FramesExact
    <3>2. hash'[c] = IF f.zero THEN Hole ELSE f.data
      BY <1>0, <1>2, <2>1, Recorded
    <3> QED
      BY <1>0, <3>1, <3>2, ValContent
  <2>2. CASE c # f.chunk
    <3>1. hash'[c] = hash[c] /\ (c \in arrived' => c \in arrived) /\ UNCHANGED <<await, settled>>
      BY <1>0, <1>2, <2>2, Recorded
    <3>2. c \in Have(hash)
      BY <1>0, <3>1 DEF Have
    <3> QED
      BY <3>1, <3>2 DEF LiveInv, HashExact
  <2> QED
    BY <2>1, <2>2
\* a verdict is about claims the sender compared with its own data
<1>3. ASSUME NEW h, h = hash[c], await, gate = "ready", c \notin arrived, h # Missing, c \in sHave
      PROVE  Val(h) = src[c]
  <2>1. unverified = {}
    BY <1>3 DEF SessionInv, VerdictPhase
  <2>2. h = claim[c] /\ claim[c] = src[c]
    BY <1>0, <1>3, <2>1 DEF LiveInv, ClaimsChecked
  <2> QED
    BY <1>0, <2>2, ValContent
<1>4. CASE CommitFile
  <2>1. UNCHANGED <<hash, await, arrived>> /\ 1 \in DOMAIN toR /\ toR[1].type = "commit"
    BY <1>4, HeardFirst DEF CommitFile
  <2>2. await /\ sHave = Have(claim) /\ gate = "ready"
    BY <2>1, VerdictReady DEF SessionInv, VerdictPhase, Verdict
  <2>3. c \in Have(hash)
    BY <1>0, <2>1 DEF Have
  <2>4. CASE c \in arrived
    BY <2>1, <2>3, <2>4 DEF LiveInv, HashExact
  <2>5. CASE c \notin arrived
    <3>1. hash[c] = claim[c]
      BY <1>0, <2>1, <2>2, <2>5 DEF LiveInv, ClaimsChecked
    <3>2. c \in sHave
      BY <1>0, <2>1, <2>2, <3>1 DEF Have
    <3> QED
      BY <1>0, <1>3, <2>1, <2>2, <2>5, <3>2
  <2> QED
    BY <2>4, <2>5
<1>5. CASE ClaimResult
  <2>1. UNCHANGED <<await, arrived>> /\ 1 \in DOMAIN toR /\ toR[1].type = "claimResult"
        /\ toR[1] = Head(toR)
    BY <1>5, HeardFirst DEF ClaimResult
  <2>2. await /\ ~settled /\ Head(toR).verified = sHave /\ gate = "ready"
    BY <2>1, VerdictReady DEF SessionInv, VerdictPhase, Verdict
  <2>3. hash'[c] = hash[c] /\ (c \notin arrived => settled' /\ c \in sHave)
    <3>1. CASE rOut # "none" \/ ~adopted
      <4>1. UNCHANGED <<hash, settled>>
        BY <1>5, <3>1 DEF ClaimResult
      <4> QED
        BY <2>1, <2>2, <4>1
    <3>2. CASE ~(rOut # "none" \/ ~adopted)
      <4>1. hash' = Cleared(sHave) /\ settled'
        BY <1>5, <2>2, <3>2 DEF ClaimResult
      <4> QED
        BY <1>0, <4>1 DEF Cleared
    <3> QED
      BY <3>1, <3>2
  <2>4. c \in Have(hash)
    BY <1>0, <2>3 DEF Have
  <2>5. CASE c \in arrived
    BY <2>3, <2>4, <2>5 DEF LiveInv, HashExact
  <2>6. CASE c \notin arrived
    BY <1>0, <1>3, <2>2, <2>3, <2>6
  <2> QED
    BY <2>5, <2>6
<1>6. CASE ~PrepareStep /\ ~CommitFile /\ ~ClaimResult /\ ~(\E f \in writing : AbsorbRecord(f))
  <2>1. UNCHANGED <<hash, settled>>
    BY <1>6, HashBy, SettledBy
  <2>2. UNCHANGED <<await, arrived>>
    BY <1>6 DEF SessionStep, SourceStep, Sender, SourceWrite, Disconnect, AbsorbWrite, AbsorbFails,
     SenderFileError, Finalize, FinalizeFails, GateOpen, VerifyClaim, VerifyEnd,
     Schedule, SendChunk, SendFails, TaskDone, RetryChunk, FileResult, rxVars
  <2> QED
    BY <1>0, <2>1, <2>2 DEF LiveInv, HashExact, Have
<1> QED
  BY <1>1, <1>2, <1>4, <1>5, <1>6

\* While the source stays, the bytes behind the handle match the marks.
LEMMA BytesExactStep ==
  ASSUME TypeOK, SessionInv, LiveInv, SessionStep, src' = src
  PROVE  BytesExact'
<1> SUFFICES ASSUME open'
             PROVE  /\ \A c \in Have(hash)' : Bytes'[c] \in {Val(hash'[c]), src[c]}
                    /\ \A f \in writing' : Bytes'[f.chunk] = src[f.chunk]
                    /\ ~mayStale' => target' = "part" /\ \A c \in Chunk : part'[c] \in {Zero, src[c]}
  BY DEF BytesExact
<1>1. CASE PrepareStep
  <2>1. ~open /\ writing = {}
    BY <1>1, PrepareFinds DEF SessionInv, GatePhase
  <2>2. PrepareAdopt \/ PreparePart
    BY <1>1, <2>1 DEF PrepareStep, PrepareSkip, PrepareFails
  <2>3. writing' = {} /\ \A c \in Have(hash)' : Bytes'[c] = Val(hash'[c])
    BY <2>1, <2>2, PreparedMarks
  <2>4. ~mayStale' => target' = "part" /\ part' = [c \in Chunk |-> Zero]
    BY <2>2, PreparedMarks
  <2> QED
    BY <2>3, <2>4
<1>2. CASE ~PrepareStep
  <2>1. open /\ UNCHANGED <<target, mayStale>>
    BY <1>2 DEF SessionStep, SourceStep, Sender, SourceWrite, Disconnect, AbsorbWrite, AbsorbRecord,
     AbsorbFails, RxFail, CommitFile, ClaimResult,
     SenderFileError, Finalize, FinalizeFails, GateOpen, VerifyClaim, VerifyEnd,
     Schedule, SendChunk, SendFails, TaskDone, RetryChunk, FileResult, rxVars
  <2>2. /\ \A c \in Have(hash) : Bytes[c] \in {Val(hash[c]), src[c]}
        /\ \A f \in writing : Bytes[f.chunk] = src[f.chunk]
        /\ ~mayStale => target = "part" /\ \A c \in Chunk : part[c] \in {Zero, src[c]}
    BY <2>1 DEF LiveInv, BytesExact
  \* the frame's chunk is the source's, whether written or left as a hole
  <2>3. ASSUME NEW f \in frames, AbsorbWrite(f)
        PROVE  /\ \A c \in Have(hash)' : Bytes'[c] \in {Val(hash'[c]), src[c]}
               /\ \A g \in writing' : Bytes'[g.chunk] = src[g.chunk]
               /\ ~mayStale' => target' = "part" /\ \A c \in Chunk : part'[c] \in {Zero, src[c]}
    <3>1. /\ f \in Frame /\ f.chunk \in Chunk /\ f.data = src[f.chunk] /\ (f.zero => f.data = Zero)
          /\ UNCHANGED hash /\ Have(hash)' = Have(hash)
      <4>1. f \in Frame
        BY <2>3, AbsorbCases
      <4>2. UNCHANGED hash
        BY <2>3 DEF AbsorbWrite
      <4> QED
        BY <4>1, <4>2 DEF Frame, LiveInv, FramesExact, Have
    <3>2. /\ \A c \in Chunk : Bytes'[c] = Bytes[c] \/ (c = f.chunk /\ Bytes'[c] = src[c])
          /\ ~mayStale => \A c \in Chunk : part'[c] = part[c] \/ part'[c] = src[c]
      <4>1. CASE UNCHANGED <<part, final>>
        BY <2>1, <4>1 DEF Bytes
      <4>2. CASE /\ target = "part" /\ part \in [Chunk -> Content]
                 /\ part' = [part EXCEPT ![f.chunk] = f.data]
        BY <2>1, <3>1, <4>2 DEF Bytes
      <4>3. CASE /\ target = "final" /\ final \in [data : [Chunk -> Content], mtime : Nat]
                 /\ final' = [data |-> [final.data EXCEPT ![f.chunk] = f.data], mtime |-> 0]
                 /\ UNCHANGED part
        BY <2>1, <3>1, <4>3 DEF Bytes
      <4> QED
        BY <2>3, <4>1, <4>2, <4>3, AbsorbCases
    <3>3. f \in writing' => Bytes'[f.chunk] = src[f.chunk]
      <4>1. CASE f \in writing
        BY <2>2, <3>1, <3>2, <4>1
      <4>2. CASE Droppable(f) /\ f \notin writing
        BY <2>3, <4>2 DEF AbsorbWrite
      <4>3. CASE ~Droppable(f) /\ f.zero /\ ~mayStale
        <5>1. Bytes' = Bytes /\ Bytes = part
          BY <2>1, <2>2, <2>3, <4>3 DEF AbsorbWrite, Bytes
        <5> QED
          BY <2>2, <3>1, <4>3, <5>1
      <4>4. CASE ~Droppable(f) /\ ~(f.zero /\ ~mayStale)
        <5>1. target \in {"part", "final"}
          BY <2>1 DEF TypeOK, HandleOK
        <5>2. CASE target = "part"
          <6>1. part \in [Chunk -> Content]
            BY <2>1, <5>2 DEF TypeOK, HandleOK, TypeDisk
          <6>2. part' = [part EXCEPT ![f.chunk] = f.data] /\ Bytes' = part'
            BY <2>1, <2>3, <4>4, <5>2 DEF AbsorbWrite, Bytes
          <6> QED
            BY <3>1, <6>1, <6>2
        <5>3. CASE target = "final"
          <6>1. final.data \in [Chunk -> Content]
            BY <2>1, <5>3 DEF TypeOK, HandleOK, TypeDisk
          <6>2. final' = [data |-> [final.data EXCEPT ![f.chunk] = f.data], mtime |-> 0]
            BY <2>3, <4>4, <5>3 DEF AbsorbWrite
          <6>3. Bytes' = final'.data
            BY <2>1, <5>3 DEF Bytes
          <6> QED
            BY <3>1, <6>1, <6>2, <6>3
        <5> QED
          BY <5>1, <5>2, <5>3
      <4> QED
        BY <4>1, <4>2, <4>3, <4>4
    <3>4. writing' \subseteq writing \cup {f} /\ \A g \in writing : g.chunk \in Chunk
      BY <2>3 DEF AbsorbWrite, TypeOK, TypeReceiver, Frame
    <3>5. \A c \in Have(hash)' : Bytes'[c] \in {Val(hash'[c]), src[c]}
      BY <2>2, <3>1, <3>2 DEF Have
    <3>6. \A g \in writing' : Bytes'[g.chunk] = src[g.chunk]
      BY <2>2, <3>2, <3>3, <3>4
    <3>7. ~mayStale' => target' = "part" /\ \A c \in Chunk : part'[c] \in {Zero, src[c]}
      BY <2>1, <2>2, <3>2
    <3> QED
      BY <3>5, <3>6, <3>7
  <2>4. ASSUME NEW f \in writing, AbsorbRecord(f)
        PROVE  /\ \A c \in Have(hash)' : Bytes'[c] \in {Val(hash'[c]), src[c]}
               /\ \A g \in writing' : Bytes'[g.chunk] = src[g.chunk]
               /\ ~mayStale' => target' = "part" /\ \A c \in Chunk : part'[c] \in {Zero, src[c]}
    <3>1. UNCHANGED <<part, final, target, mayStale>> /\ writing' = writing \ {f} /\ Bytes' = Bytes
      BY <2>4, Recorded DEF Bytes
    <3>2. ASSUME NEW c \in Have(hash)' PROVE Bytes'[c] \in {Val(hash'[c]), src[c]}
      <4>1. CASE c = f.chunk
        BY <2>2, <3>1, <4>1
      <4>2. CASE c # f.chunk
        <5>1. hash'[c] = hash[c] /\ c \in Have(hash)
          BY <2>4, <3>2, <4>2, Recorded DEF Have
        <5> QED
          BY <2>2, <3>1, <5>1
      <4> QED
        BY <4>1, <4>2
    <3> QED
      BY <2>2, <3>1, <3>2
  <2>5. CASE ClaimResult
    <3>1. UNCHANGED <<part, final, target, mayStale, writing>> /\ Bytes' = Bytes
      BY <2>5 DEF ClaimResult, Bytes, diskVars
    <3>2. \A c \in Have(hash)' : hash'[c] = hash[c] /\ c \in Have(hash)
      BY <2>5 DEF ClaimResult, Cleared, Have
    <3> QED
      BY <2>2, <3>1, <3>2
  <2>6. CASE ~ClaimResult /\ ~(\E f \in frames : AbsorbWrite(f)) /\ ~(\E f \in writing : AbsorbRecord(f))
    <3>1. UNCHANGED hash
      BY <1>2, <2>6, HashBy
    <3>2. UNCHANGED <<part, final, writing>>
      BY <1>2, <2>6 DEF SessionStep, SourceStep, Sender, SourceWrite, Disconnect,
       AbsorbFails, CommitFile, SenderFileError, Finalize, FinalizeFails, GateOpen, VerifyClaim,
       VerifyEnd, Schedule, SendChunk, SendFails, TaskDone, RetryChunk, FileResult, rxVars, diskVars
    <3>3. Bytes' = Bytes /\ Have(hash)' = Have(hash)
      BY <2>1, <3>1, <3>2 DEF Bytes, Have
    <3> QED
      BY <2>1, <2>2, <3>1, <3>2, <3>3
  <2> QED
    BY <2>3, <2>4, <2>5, <2>6
<1> QED
  BY <1>1, <1>2

\* The four together, for a step of a session on the current source.
LEMMA LiveInvStep ==
  ASSUME TypeOK, SessionInv, LiveInv, SidecarSound, entry = now, SessionStep, src' = src
  PROVE  LiveInv'
<1>1. ClaimsChecked'
  BY ClaimsCheckedStep DEF LiveInv
<1>2. FramesExact'
  BY FramesExactStep DEF LiveInv
<1>3. HashExact'
  BY HashExactStep
<1>4. BytesExact'
  BY BytesExactStep
<1> QED
  BY <1>1, <1>2, <1>3, <1>4 DEF LiveInv

\* The four hold when a session opens.
LEMMA LiveInvOpen ==
  ASSUME NEW m \in Modes, Connect(m) PROVE LiveInv'
<1>1. ClaimsChecked' /\ FramesExact'
  BY DEF Connect, ClaimsChecked, FramesExact
<1>2. hash' = NoHash
  BY DEF Connect
<1>3. HashExact'
  BY <1>2 DEF HashExact, Have, NoHash
<1>4. BytesExact'
  BY DEF Connect, BytesExact
<1> QED
  BY <1>1, <1>3, <1>4 DEF LiveInv

-----------------------------------------------------------------------------
(* The receiver's disk *)

\* The file that finalize renames into place, when its mtime is the source's.
LEMMA FinalizeExact ==
  ASSUME TypeOK, SessionInv, LiveInv, finalQ > 0, open, Bytes \in [Chunk -> Content]
  PROVE  Bytes = src
<1>1. Complete(hash) /\ (~await \/ settled)
  BY DEF SessionInv, QueueComplete
<1>2. ASSUME NEW c \in Chunk PROVE Bytes[c] = src[c]
  <2>1. c \in Have(hash)
    BY <1>1 DEF Complete
  <2>2. Val(hash[c]) = src[c] /\ Bytes[c] \in {Val(hash[c]), src[c]}
    BY <1>1, <2>1 DEF LiveInv, HashExact, BytesExact
  <2> QED
    BY <2>2
<1>3. src \in [Chunk -> Content]
  BY SourceType
<1> QED
  BY <1>2, <1>3

\* A rewrite of the source leaves every mtime behind.
LEMMA SourceMoves ==
  ASSUME TypeOK, MtimeBound, SourceStep
  PROVE  /\ MtimeBound' /\ entry' # now' /\ UNCHANGED conn
         /\ final' # NoFile => final'.mtime # now'
         /\ meta' # NoFile => meta'.mtime # now'
<1> PICK c \in Chunk, v \in Content : SourceWrite(c, v)
  BY DEF SourceStep
<1>1. now' = now + 1
  <2>1. [src EXCEPT ![c] = v] \in [Chunk -> Content]
    BY SourceType
  <2>2. Len(history') = Len(history) + 1
    BY <2>1, AppendProperties DEF SourceWrite, TypeOK, TypeDisk
  <2> QED
    BY <2>2 DEF now
<1>2. UNCHANGED <<final, meta, entry, conn>>
  BY DEF SourceWrite, diskVars, sessVars
<1>3. /\ final # NoFile => final.mtime \in Nat
      /\ meta # NoFile => meta.mtime \in Nat
      /\ entry \in Nat /\ now \in Nat
  BY SourceType DEF TypeOK, TypeDisk, TypeSession
<1> QED
  BY <1>1, <1>2, <1>3 DEF MtimeBound

\* Inside a session only a frame over an adopted final and finalize touch the
\* final; sidecars are only removed.
LEMMA DiskBy ==
  ASSUME TypeOK, SessionStep, ~SourceStep
  PROVE  /\ UNCHANGED <<history, entry>>
         /\ meta' = meta \/ meta' = NoFile
         /\ \/ final' = final
            \/ final' # NoFile /\ final'.mtime = 0
            \/ /\ Finalize /\ open /\ Bytes \in [Chunk -> Content]
               /\ final' = [data |-> Bytes, mtime |-> entry]
<1>1. ASSUME NEW f \in frames, AbsorbWrite(f)
      PROVE  final' = final \/ (final' # NoFile /\ final'.mtime = 0)
  <2>1. CASE /\ final \in [data : [Chunk -> Content], mtime : Nat]
             /\ final' = [data |-> [final.data EXCEPT ![f.chunk] = f.data], mtime |-> 0]
    <3>1. f.data \in Content
      BY <1>1, AbsorbCases DEF Frame
    <3>2. [final.data EXCEPT ![f.chunk] = f.data] \in [Chunk -> Content]
      BY <2>1, <3>1
    <3>3. final' \in [data : [Chunk -> Content], mtime : Nat]
      BY <2>1, <3>2
    <3> QED
      BY <2>1, <3>3
  <2> QED
    BY <1>1, <2>1, AbsorbCases
<1>2. UNCHANGED <<history, entry>>
  BY DEF SessionStep, PrepareStep, Sender, Disconnect, PrepareSkip, PrepareAdopt, PreparePart,
     PrepareFails, AbsorbWrite, AbsorbRecord, AbsorbFails, CommitFile, ClaimResult,
     SenderFileError, Finalize, FinalizeFails, GateOpen, VerifyClaim, VerifyEnd, Schedule,
     SendChunk, SendFails, TaskDone, RetryChunk, FileResult, sessVars
<1>3. meta' = meta \/ meta' = NoFile
  BY DEF SessionStep, PrepareStep, Sender, Disconnect, PrepareSkip, PrepareAdopt, PreparePart,
     PrepareFails, AbsorbWrite, AbsorbRecord, AbsorbFails, CommitFile, ClaimResult,
     SenderFileError, Finalize, FinalizeFails, GateOpen, VerifyClaim, VerifyEnd, Schedule,
     SendChunk, SendFails, TaskDone, RetryChunk, FileResult, diskVars
<1>4. UNCHANGED final \/ Finalize \/ \E f \in frames : AbsorbWrite(f)
  BY DEF SessionStep, PrepareStep, Sender, Disconnect, PrepareSkip, PrepareAdopt, PreparePart,
     PrepareFails, AbsorbRecord, AbsorbFails, CommitFile, ClaimResult,
     SenderFileError, FinalizeFails, GateOpen, VerifyClaim, VerifyEnd, Schedule,
     SendChunk, SendFails, TaskDone, RetryChunk, FileResult, diskVars
<1>5. CASE Finalize
  BY <1>2, <1>3, <1>5, FinalizeCases
<1> QED
  BY <1>1, <1>2, <1>3, <1>4, <1>5

\* What a session leaves on disk: finals and sidecars stay sound.
LEMMA DiskStep ==
  ASSUME TypeOK, IInv, SessionStep, ~SourceStep
  PROVE  MtimeBound' /\ FinalExact' /\ SidecarSound'
<1>1. now' = now /\ src' = src /\ entry' = entry /\ now \in Nat /\ now # 0
  BY DiskBy, SourceType DEF now, src
<1>2. MtimeBound /\ FinalExact /\ SidecarSound
  BY DEF IInv
<1>3. SidecarSound' /\ (meta' # NoFile => meta'.mtime <= now')
  BY <1>1, <1>2, DiskBy DEF SidecarSound, MtimeBound, Have
<1>4. FinalExact' /\ (final' # NoFile => final'.mtime <= now')
  <2>1. CASE final' = final
    BY <1>1, <1>2, <2>1 DEF FinalExact, MtimeBound
  <2>2. CASE final'.mtime = 0
    BY <1>1, <2>2 DEF FinalExact
  <2>3. CASE /\ Finalize /\ open /\ Bytes \in [Chunk -> Content]
             /\ final' = [data |-> Bytes, mtime |-> entry]
    <3>1. final'.mtime = entry /\ final'.data = Bytes
      BY <2>3
    <3>2. entry = now => Bytes = src
      <4>1. conn # "idle" /\ finalQ > 0
        BY <2>3 DEF Finalize
      <4>2. SessionInv /\ (entry = now => LiveInv)
        BY <4>1 DEF IInv, SessionInv, Live, LiveInv
      <4> QED
        BY <2>3, <4>1, <4>2, FinalizeExact
    <3> QED
      BY <1>1, <1>2, <3>1, <3>2 DEF FinalExact, MtimeBound
  <2> QED
    BY <2>1, <2>2, <2>3, DiskBy
<1> QED
  BY <1>1, <1>2, <1>3, <1>4 DEF MtimeBound

\* What flushAllSidecars keeps of a live session is the source's.
LEMMA FlushSound ==
  ASSUME TypeOK, IInv, ReceiverEnd PROVE MtimeBound' /\ FinalExact' /\ SidecarSound'
<1>1. UNCHANGED <<history, final, entry>> /\ conn = "down"
  BY DEF ReceiverEnd
<1>2. now' = now /\ src' = src
  BY <1>1 DEF now, src
<1>3. meta' = meta \/ meta' = [hash |-> Flushed, mtime |-> entry]
  BY DEF ReceiverEnd
<1>4. MtimeBound' /\ FinalExact'
  BY <1>1, <1>2, <1>3 DEF IInv, MtimeBound, FinalExact
<1>5. SidecarSound'
  <2>1. CASE meta' = meta
    BY <1>2, <2>1 DEF IInv, SidecarSound, Have
  <2>2. CASE meta' = [hash |-> Flushed, mtime |-> entry] /\ entry = now
    <3>1. HashExact /\ AwaitAdopted
      BY <1>1, <2>2 DEF IInv, Live
    <3>2. ASSUME NEW c \in Have(Flushed) PROVE Val(Flushed[c]) = src[c]
      <4>1. c \in Chunk /\ Flushed[c] # Missing
        BY DEF Have
      <4>2. Flushed[c] = hash[c] /\ ~(adopted /\ ~settled /\ c \notin arrived)
        BY <4>1 DEF Flushed
      <4>3. c \in Have(hash)
        BY <4>1, <4>2 DEF Have
      <4> QED
        BY <3>1, <4>2, <4>3 DEF HashExact, AwaitAdopted
    <3>3. meta'.hash = Flushed
      BY <2>2
    <3> QED
      BY <1>2, <3>2, <3>3 DEF SidecarSound, Have
  <2>3. CASE meta' = [hash |-> Flushed, mtime |-> entry] /\ entry # now
    BY <1>2, <2>3 DEF SidecarSound
  <2> QED
    BY <1>3, <2>1, <2>2, <2>3
<1> QED
  BY <1>4, <1>5

-----------------------------------------------------------------------------
(* The theorems *)

\* The invariant holds at first.
LEMMA InvInit == ASSUME Init PROVE IInv
<1>1. PICK s \in Sources : history = <<s>>
  BY DEF Init
<1>2. now = 1
  BY <1>1 DEF now
<1>3. entry = 0 /\ meta = NoFile /\ conn = "idle" /\ (final # NoFile => final.mtime = 0)
  BY DEF Init
<1> QED
  BY <1>2, <1>3 DEF IInv, MtimeBound, FinalExact, SidecarSound, Live

\* Every step keeps the invariant.
LEMMA InvStep == ASSUME TypeOK, IInv, Next PROVE IInv'
<1>1. MtimeBound /\ FinalExact /\ SidecarSound
  BY DEF IInv
<1>2. ASSUME NEW m \in Modes, Connect(m) PROVE IInv'
  <2>1. UNCHANGED <<history, final, meta>> /\ entry' = now
    BY <1>2 DEF Connect, diskVars
  <2>2. now' = now /\ src' = src /\ now \in Nat
    BY <2>1, SourceType DEF now, src
  <2>3. MtimeBound' /\ FinalExact' /\ SidecarSound'
    BY <1>1, <2>1, <2>2 DEF MtimeBound, FinalExact, SidecarSound, Have
  <2> QED
    BY <1>2, <2>3, SessionInvOpen, LiveInvOpen DEF IInv, SessionInv, LiveInv
<1>3. ASSUME NEW lost \in SUBSET Chunk, Kill(lost) PROVE IInv'
  <2>1. UNCHANGED <<history, final, meta, entry>> /\ conn' = "idle"
    BY <1>3 DEF Kill
  <2>2. now' = now /\ src' = src
    BY <2>1 DEF now, src
  <2> QED
    BY <1>1, <2>1, <2>2 DEF IInv, MtimeBound, FinalExact, SidecarSound, Have, Live
<1>4. CASE ReceiverEnd
  <2>1. conn' = "idle"
    BY <1>4 DEF ReceiverEnd
  <2> QED
    BY <1>4, <2>1, FlushSound DEF IInv, Live
<1>5. CASE SessionStep /\ SourceStep
  <2>1. /\ MtimeBound' /\ entry' # now' /\ UNCHANGED conn
        /\ final' # NoFile => final'.mtime # now'
        /\ meta' # NoFile => meta'.mtime # now'
    BY <1>1, <1>5, SourceMoves
  <2>2. conn # "idle" => SessionInv'
    BY <1>5, SessionInvStep DEF IInv, SessionInv
  <2> QED
    BY <2>1, <2>2 DEF IInv, FinalExact, SidecarSound, Live, SessionInv
<1>6. CASE SessionStep /\ ~SourceStep
  <2>1. MtimeBound' /\ FinalExact' /\ SidecarSound'
    BY <1>6, DiskStep
  <2>2. conn' # "idle" => conn # "idle"
    BY <1>6 DEF SessionStep, PrepareStep, Sender, Disconnect, PrepareSkip, PrepareAdopt, PreparePart,
     PrepareFails, AbsorbWrite, AbsorbRecord, AbsorbFails, CommitFile, ClaimResult,
     SenderFileError, Finalize, FinalizeFails, GateOpen, VerifyClaim, VerifyEnd, Schedule,
     SendChunk, SendFails, TaskDone, RetryChunk, FileResult, sessVars
  <2>3. conn # "idle" => SessionInv'
    BY <1>6, SessionInvStep DEF IInv, SessionInv
  <2>4. entry' = entry /\ now' = now /\ src' = src
    BY <1>6, DiskBy DEF now, src
  <2>5. conn # "idle" /\ entry = now => LiveInv'
    BY <1>1, <1>6, <2>4, LiveInvStep DEF IInv, SessionInv, LiveInv, Live
  <2> QED
    BY <2>1, <2>2, <2>3, <2>4, <2>5 DEF IInv, Live, SessionInv, LiveInv
<1> QED
  BY <1>2, <1>3, <1>4, <1>5, <1>6, StepKinds

\* The inductive invariant: the bookkeeping of claims, verdicts, corrections
\* and retries of a session always describes the bytes on disk.
THEOREM Bookkeeping == Spec => []IInv
<1>1. TypeOK /\ IInv /\ [Next]_vars => IInv'
  <2>1. ASSUME TypeOK, IInv, UNCHANGED vars PROVE IInv'
    <3>1. UNCHANGED <<history, final, part, meta, conn, entry, gate, sHave, claim, unverified,
                     queued, inflight, toR, toS, frames, target, open, hash, adopted,
                     await, settled, arrived, mayStale, writing, finalQ>>
      BY <2>1 DEF vars, diskVars, sessVars, sendVars, rxVars
    <3>2. MtimeBound' /\ FinalExact' /\ SidecarSound'
      BY <2>1, <3>1 DEF IInv, MtimeBound, FinalExact, SidecarSound, now, src, Have
    <3>3. SessionInv => SessionInv'
      BY <3>1 DEF SessionInv, EntryPhase, AwaitAdopted, GatePhase, HaveInFlight, VerdictPhase,
         QueueComplete, Complete, Have
    <3>4. LiveInv => LiveInv'
      BY <3>1 DEF LiveInv, ClaimsChecked, FramesExact, HashExact, BytesExact, Bytes, src, Have
    <3> QED
      BY <2>1, <3>1, <3>2, <3>3, <3>4 DEF IInv, SessionInv, LiveInv, Live, now
  <2> QED
    BY <2>1, InvStep
<1>2. Init => IInv
  BY InvInit
<1> QED
  BY <1>1, <1>2, TypeCorrect, PTL DEF Spec

\* A final file with the mtime of the current source holds the source's bytes:
\* the report of success and the size+mtime shortcut are sound.
THEOREM FinalIsExact == Spec => []FinalExact
<1>1. IInv => FinalExact
  BY DEF IInv
<1> QED
  BY <1>1, Bookkeeping, PTL

\* A sidecar a later session accepts vouches only for bytes of the source.
THEOREM SidecarIsSound == Spec => []SidecarSound
<1>1. IInv => SidecarSound
  BY DEF IInv
<1> QED
  BY <1>1, Bookkeeping, PTL

-----------------------------------------------------------------------------
(***************************************************************************)
(* One carrier per chunk.                                                  *)
(*                                                                         *)
(* A chunk changes hands: task, frame, write in progress or retry request. *)
(* Each hand-over takes it from one and gives it to the next, so what is   *)
(* to be known is that the scheduler, which has no hand to take it from,   *)
(* only starts chunks nothing carries yet: all that is carried is behind   *)
(* `next` (Behind).                                                        *)
(***************************************************************************)
AskedIn(q, c) == \E i \in DOMAIN q : q[i].type = "retry" /\ q[i].chunk = c

OnceIn(q) ==
  \A i, j \in DOMAIN q :
    q[i].type = "retry" /\ q[j].type = "retry" /\ q[i].chunk = q[j].chunk => i = j

Air == frames \cup writing

AirOnce == frames \cap writing = {} /\ \A f, g \in Air : f.chunk = g.chunk => f = g

\* No chunk has carriers of two kinds.
Apart ==
  /\ \A f \in Air : f.chunk \notin queued /\ ~AskedIn(toS, f.chunk)
  /\ \A c \in queued : ~AskedIn(toS, c)

Behind ==
  \A c \in Chunk : c \in queued \/ AskedIn(toS, c) \/ (\E f \in Air : f.chunk = c) => c < next

CarrierInv == AirOnce /\ Apart /\ OnceIn(toS) /\ Behind

\* A queue asks for what it asked before, and for what is appended.
LEMMA AskAppended ==
  ASSUME NEW q \in Seq(ToSMsg), NEW m \in ToSMsg, NEW r, r = Append(q, m), OnceIn(q),
         m.type = "retry" => ~AskedIn(q, m.chunk)
  PROVE  /\ OnceIn(r)
         /\ \A c : AskedIn(r, c) => AskedIn(q, c) \/ (m.type = "retry" /\ c = m.chunk)
<1>1. /\ Len(q) \in Nat /\ DOMAIN q = 1 .. Len(q) /\ DOMAIN r = 1 .. Len(q) + 1
      /\ r[Len(q) + 1] = m
      /\ \A i \in 1 .. Len(q) : r[i] = q[i]
  BY Appended
<1>2. \A i \in DOMAIN r : (i \in DOMAIN q /\ r[i] = q[i]) \/ (i = Len(q) + 1 /\ r[i] = m)
  BY <1>1
<1>3. OnceIn(r)
  <2> SUFFICES ASSUME NEW i \in DOMAIN r, NEW j \in DOMAIN r, r[i].type = "retry",
                      r[j].type = "retry", r[i].chunk = r[j].chunk
               PROVE  i = j
    BY DEF OnceIn
  <2>1. CASE i \in DOMAIN q /\ r[i] = q[i] /\ j \in DOMAIN q /\ r[j] = q[j]
    BY <2>1 DEF OnceIn
  <2>2. CASE i \in DOMAIN q /\ r[i] = q[i] /\ r[j] = m
    BY <2>2 DEF AskedIn
  <2>3. CASE r[i] = m /\ j \in DOMAIN q /\ r[j] = q[j]
    BY <2>3 DEF AskedIn
  <2> QED
    BY <1>2, <2>1, <2>2, <2>3
<1>4. \A c : AskedIn(r, c) => AskedIn(q, c) \/ (m.type = "retry" /\ c = m.chunk)
  BY <1>2 DEF AskedIn
<1> QED
  BY <1>3, <1>4

\* Once its first message is taken, a queue no longer asks for it.
LEMMA AskPopped ==
  ASSUME NEW q \in Seq(ToSMsg), q # <<>>, NEW r, r = Tail(q), OnceIn(q)
  PROVE  /\ OnceIn(r)
         /\ \A c : AskedIn(r, c) => AskedIn(q, c) /\ ~(Head(q).type = "retry" /\ Head(q).chunk = c)
         /\ Head(q).type = "retry" => AskedIn(q, Head(q).chunk)
<1>1. /\ 1 \in DOMAIN q /\ q[1] = Head(q)
      /\ \A i \in DOMAIN r : i \in Nat \ {0} /\ i + 1 \in DOMAIN q /\ r[i] = q[i + 1]
  BY Popped
<1>2. OnceIn(r)
  <2> SUFFICES ASSUME NEW i \in DOMAIN r, NEW j \in DOMAIN r, r[i].type = "retry",
                      r[j].type = "retry", r[i].chunk = r[j].chunk
               PROVE  i = j
    BY DEF OnceIn
  <2>1. i + 1 = j + 1
    BY <1>1 DEF OnceIn
  <2> QED
    BY <1>1, <2>1
<1>3. ASSUME NEW c, AskedIn(r, c)
      PROVE  AskedIn(q, c) /\ ~(Head(q).type = "retry" /\ Head(q).chunk = c)
  <2>1. PICK i \in DOMAIN r : r[i].type = "retry" /\ r[i].chunk = c
    BY <1>3 DEF AskedIn
  <2>2. i + 1 \in DOMAIN q /\ q[i + 1].type = "retry" /\ q[i + 1].chunk = c /\ i + 1 # 1
    BY <1>1, <2>1
  <2> QED
    BY <1>1, <2>2 DEF AskedIn, OnceIn
<1>4. Head(q).type = "retry" => AskedIn(q, Head(q).chunk)
  BY <1>1 DEF AskedIn
<1> QED
  BY <1>2, <1>3, <1>4

\* An empty queue asks for nothing.
LEMMA AskNone == OnceIn(<<>>) /\ \A c : ~AskedIn(<<>>, c)
BY DEF OnceIn, AskedIn

\* A step that gives no chunk a new carrier keeps the invariant.
LEMMA NoneNew ==
  ASSUME TypeOK, CarrierInv, frames' \subseteq frames, queued' \subseteq queued,
         writing' \subseteq Air, frames' \cap writing' = {}, next' \in Nat, next <= next',
         OnceIn(toS)', \A c : AskedIn(toS, c)' => AskedIn(toS, c)
  PROVE  CarrierInv'
<1>1. Air' \subseteq Air
  BY DEF Air
<1>2. AirOnce'
  BY <1>1 DEF CarrierInv, AirOnce
<1>3. Apart'
  BY <1>1 DEF CarrierInv, Apart
<1>4. Behind'
  <2> SUFFICES ASSUME NEW c \in Chunk,
                      c \in queued' \/ AskedIn(toS, c)' \/ (\E f \in Air' : f.chunk = c)
               PROVE  c < next'
    BY DEF Behind
  <2>1. c < next
    BY <1>1 DEF CarrierInv, Behind
  <2>2. c \in Nat /\ next \in Nat
    BY CountAssumption DEF Chunk, TypeOK, TypeSender
  <2> QED
    BY <2>1, <2>2
<1> QED
  BY <1>2, <1>3, <1>4 DEF CarrierInv

\* A session opens with nothing under way.
LEMMA NothingCarried ==
  ASSUME frames = {}, writing = {}, queued = {}, toS = <<>> PROVE CarrierInv
BY AskNone DEF CarrierInv, AirOnce, Apart, Behind, Air

\* What preparation answers asks for no chunk.
LEMMA PreparedAsksNone ==
  ASSUME TypeOK, CarrierInv, PrepareStep
  PROVE  OnceIn(toS)' /\ \A c : AskedIn(toS, c)' => AskedIn(toS, c)
<1>1. toS \in Seq(ToSMsg) /\ OnceIn(toS)
  BY DEF TypeOK, TypeWire, CarrierInv
<1>2. CASE PrepareSkip
  <2> DEFINE h == HaveMsg("skip", {}, NoHash)
             q == Append(toS, h)
  <2>1. h \in ToSMsg /\ h.type = "have" /\ ResultMsg(TRUE) \in ToSMsg /\ ResultMsg(TRUE).type = "result"
    BY MessageTypes, HashTypes DEF HaveMsg, ResultMsg
  <2>2. q \in Seq(ToSMsg) /\ toS' = Append(q, ResultMsg(TRUE))
    BY <1>1, <1>2, <2>1 DEF PrepareSkip
  <2> HIDE DEF h
  <2>3. OnceIn(q) /\ \A c : AskedIn(q, c) => AskedIn(toS, c)
    BY <1>1, <2>1, AskAppended
  <2> HIDE DEF q
  <2>4. OnceIn(toS') /\ \A c : AskedIn(toS', c) => AskedIn(q, c)
    BY <2>1, <2>2, <2>3, AskAppended
  <2> QED
    BY <2>3, <2>4
<1>3. CASE ~PrepareSkip
  <2>1. PICK m \in ToSMsg : m.type # "retry" /\ toS' = Append(toS, m)
    <3>1. CASE PrepareFails
      <4>1. ResultMsg(FALSE) \in ToSMsg /\ ResultMsg(FALSE).type = "result"
        BY MessageTypes DEF ResultMsg
      <4> QED
        BY <3>1, <4>1 DEF PrepareFails
    <3>2. CASE PrepareAdopt \/ PreparePart
      <4>1. hash' \in [Chunk -> HashMark]
        BY <3>2, TypeReceiverStep DEF Receiver, TypeOK, TypeReceiver
      <4>2. ASSUME NEW st \in {"claims", "partial"} PROVE HaveMsg(st, Have(hash'), hash') \in ToSMsg
        BY <4>1, HashTypes, MessageTypes
      <4>3. PICK st \in {"claims", "partial"} : toS' = Append(toS, HaveMsg(st, Have(hash'), hash'))
        BY <3>2 DEF PrepareAdopt, PreparePart
      <4>4. HaveMsg(st, Have(hash'), hash').type = "have"
        BY DEF HaveMsg
      <4> QED
        BY <4>2, <4>3, <4>4
    <3> QED
      BY <1>3, <3>1, <3>2 DEF PrepareStep
  <2> QED
    BY <1>1, <2>1, AskAppended
<1> QED
  BY <1>2, <1>3


\* A session step that neither sends, fails nor repeats a chunk gives none a carrier.
LEMMA QuietStep ==
  ASSUME TypeOK, CarrierInv, SessionStep, ~Schedule, ~RetryChunk,
         ~\E c \in queued : SendChunk(c), ~\E f \in frames : AbsorbFails(f)
  PROVE  CarrierInv'
<1> USE DEF Air
<1>1. /\ toS \in Seq(ToSMsg) /\ OnceIn(toS) /\ next \in Nat /\ frames \cap writing = {}
      /\ next \in 1 .. ChunkCount + 1
  BY CountAssumption DEF TypeOK, TypeWire, TypeSender, CarrierInv, AirOnce
<1>2. OnceIn(toS)' /\ \A c : AskedIn(toS, c)' => AskedIn(toS, c)
  <2>1. CASE PrepareStep
    BY <2>1, PreparedAsksNone
  <2>2. CASE ~PrepareStep
    <3>1. CASE toS' = toS
      BY <3>1, <1>1
    <3>2. CASE toS' = <<>>
      BY <3>2, AskNone
    <3>3. CASE toS # <<>> /\ toS' = Tail(toS)
      BY <3>3, <1>1, AskPopped
    <3>4. ASSUME NEW k \in BOOLEAN, toS' = Append(toS, ResultMsg(k))
          PROVE  OnceIn(toS)' /\ \A c : AskedIn(toS, c)' => AskedIn(toS, c)
      <4>1. ResultMsg(k) \in ToSMsg /\ ResultMsg(k).type = "result"
        BY MessageTypes DEF ResultMsg
      <4> QED
        BY <3>4, <4>1, <1>1, AskAppended
    <3>5. \/ toS' = toS \/ toS' = <<>> \/ (toS # <<>> /\ toS' = Tail(toS))
          \/ \E k \in BOOLEAN : toS' = Append(toS, ResultMsg(k))
      <4>1. CASE Finalize \/ FinalizeFails
        BY <4>1 DEF Finalize, FinalizeFails, RxFail, Send
      <4>2. CASE GateOpen \/ FileResult
        BY <4>2 DEF GateOpen, FileResult, Reads, Heard
      <4> QED
        BY <2>2, <4>1, <4>2 DEF SessionStep, SourceStep, Sender, SourceWrite, Disconnect, AbsorbWrite,
           AbsorbRecord, CommitFile, ClaimResult, SenderFileError, VerifyClaim, VerifyEnd, SendFails,
           TaskDone
    <3> QED
      BY <3>1, <3>2, <3>3, <3>4, <3>5
  <2> QED
    BY <2>1, <2>2
<1>3. \/ UNCHANGED <<frames, writing, queued, next>>
      \/ Disconnect \/ \E f \in frames : AbsorbWrite(f)
      \/ \E f \in writing : AbsorbRecord(f)
      \/ \E c \in queued : SendFails(c)
  BY DEF SessionStep, SourceStep, PrepareStep, Sender, SourceWrite, PrepareSkip, PrepareAdopt,
     PreparePart, PrepareFails, CommitFile, ClaimResult, SenderFileError, Finalize, FinalizeFails,
     GateOpen, VerifyClaim, VerifyEnd, TaskDone, FileResult, sendVars, rxVars
<1> DEFINE Fewer == /\ frames' \subseteq frames /\ queued' \subseteq queued
                    /\ writing' \subseteq frames \cup writing
                    /\ frames' \cap writing' = {} /\ next' = next
<1>4. Fewer
  <2>1. CASE UNCHANGED <<frames, writing, queued, next>>
    BY <2>1, <1>1
  <2>2. CASE Disconnect
    BY <2>2 DEF Disconnect, rxVars
  <2>3. ASSUME NEW f \in frames, AbsorbWrite(f) PROVE Fewer
    <3>1. frames' = frames \ {f} /\ writing' \in {writing, writing \cup {f}} /\ UNCHANGED <<queued, next>>
      BY <2>3 DEF AbsorbWrite, sendVars
    <3> QED
      BY <3>1, <1>1
  <2>4. ASSUME NEW f \in writing, AbsorbRecord(f) PROVE Fewer
    <3>1. writing' = writing \ {f} /\ UNCHANGED <<frames, queued, next>>
      BY <2>4 DEF AbsorbRecord, sendVars
    <3> QED
      BY <3>1, <1>1
  <2>5. ASSUME NEW c \in queued, SendFails(c) PROVE Fewer
    <3>1. queued' = queued \ {c} /\ UNCHANGED <<frames, writing, next>>
      BY <2>5 DEF SendFails, rxVars
    <3> QED
      BY <3>1, <1>1
  <2> QED
    BY <1>3, <2>1, <2>2, <2>3, <2>4, <2>5
<1> QED
  BY <1>1, <1>2, <1>4, NoneNew

\* The scheduler starts a chunk that nothing has carried yet.
LEMMA ScheduleApart == ASSUME TypeOK, CarrierInv, Schedule PROVE CarrierInv'
<1>1. /\ next \in Chunk /\ next' = next + 1 /\ UNCHANGED <<toS, frames, writing>>
      /\ queued' \in {queued, queued \cup {next}}
  BY DEF Schedule, NextTask, rxVars
<1>2. \A c \in Chunk : c \in Nat
  BY CountAssumption DEF Chunk
<1>3. Air' = Air /\ \A c : AskedIn(toS, c)' <=> AskedIn(toS, c)
  BY <1>1 DEF Air
<1>4. next \notin queued /\ ~AskedIn(toS, next) /\ \A f \in Air : f.chunk # next
  BY <1>1, <1>2 DEF CarrierInv, Behind
<1>5. AirOnce'
  BY <1>1, <1>3 DEF CarrierInv, AirOnce
<1>6. Apart'
  BY <1>1, <1>3, <1>4 DEF CarrierInv, Apart
<1>7. Behind'
  <2> SUFFICES ASSUME NEW c \in Chunk, c \in queued' \/ AskedIn(toS, c)' \/ \E f \in Air' : f.chunk = c
               PROVE  c < next + 1
    BY <1>1 DEF Behind
  <2>1. c = next \/ c < next
    BY <1>1, <1>3 DEF CarrierInv, Behind
  <2> QED
    BY <2>1, <1>1, <1>2
<1>8. OnceIn(toS)'
  BY <1>1 DEF CarrierInv
<1> QED
  BY <1>5, <1>6, <1>7, <1>8 DEF CarrierInv

\* A worker takes the task and puts the frame in its place, or drops it.
LEMMA SendApart == ASSUME TypeOK, CarrierInv, NEW c \in queued, SendChunk(c) PROVE CarrierInv'
<1> DEFINE f == [chunk |-> c, data |-> src[c], zero |-> Sparse /\ src[c] = Zero]
<1>1. /\ queued' = queued \ {c} /\ UNCHANGED <<toS, writing, next>>
      /\ frames' \in {frames, frames \cup {f}} /\ f.chunk = c
  BY DEF SendChunk, rxVars
<1> HIDE DEF f
<1>2. c \in Chunk
  BY DEF TypeOK, TypeSender
<1>3. Air' \in {Air, Air \cup {f}} /\ \A d : AskedIn(toS, d)' <=> AskedIn(toS, d)
  BY <1>1 DEF Air
<1>4. ~AskedIn(toS, c) /\ c < next /\ \A g \in Air : g.chunk # c
  BY <1>2 DEF CarrierInv, Apart, Behind
<1>5. AirOnce'
  BY <1>1, <1>3, <1>4 DEF CarrierInv, AirOnce, Air
<1>6. Apart'
  BY <1>1, <1>3, <1>4 DEF CarrierInv, Apart
<1>7. Behind'
  BY <1>1, <1>3, <1>4 DEF CarrierInv, Behind
<1>8. OnceIn(toS)'
  BY <1>1 DEF CarrierInv
<1> QED
  BY <1>5, <1>6, <1>7, <1>8 DEF CarrierInv

\* A frame that fails is gone, and its chunk is asked for once.
LEMMA FailApart == ASSUME TypeOK, CarrierInv, NEW f \in frames, AbsorbFails(f) PROVE CarrierInv'
<1>1. frames' = frames \ {f} /\ UNCHANGED <<queued, writing, next>>
  BY DEF AbsorbFails, sendVars
<1>2. toS \in Seq(ToSMsg) /\ OnceIn(toS) /\ f.chunk \in Chunk /\ RetryMsg(f.chunk) \in ToSMsg
  BY MessageTypes DEF TypeOK, TypeWire, Frame, CarrierInv
<1>3. f \in Air /\ f \notin writing /\ Air' = Air \ {f}
  BY <1>1 DEF Air, CarrierInv, AirOnce
<1>4. f.chunk \notin queued /\ ~AskedIn(toS, f.chunk) /\ f.chunk < next
      /\ \A g \in Air \ {f} : g.chunk # f.chunk
  BY <1>2, <1>3 DEF CarrierInv, Apart, Behind, AirOnce
<1>5. OnceIn(toS)' /\ \A c : AskedIn(toS, c)' => AskedIn(toS, c) \/ c = f.chunk
  <2>1. \/ toS' = toS \/ toS' = Append(toS, RetryMsg(f.chunk))
        \/ toS' = Append(toS, ResultMsg(FALSE))
    BY DEF AbsorbFails, RxFail, Send
  <2>2. RetryMsg(f.chunk).type = "retry" /\ RetryMsg(f.chunk).chunk = f.chunk
    BY DEF RetryMsg
  <2>3. ResultMsg(FALSE) \in ToSMsg /\ ResultMsg(FALSE).type = "result"
    BY MessageTypes DEF ResultMsg
  <2>4. CASE toS' = toS
    BY <2>4, <1>2
  <2>5. CASE toS' = Append(toS, RetryMsg(f.chunk))
    <3>1. PICK m \in ToSMsg : m = RetryMsg(f.chunk)
      BY <1>2
    <3>2. m.type = "retry" /\ m.chunk = f.chunk /\ toS' = Append(toS, m)
      BY <2>2, <2>5, <3>1
    <3>3. OnceIn(toS') /\ \A c : AskedIn(toS', c) => AskedIn(toS, c) \/ c = f.chunk
      BY <3>2, <1>2, <1>4, AskAppended
    <3> QED
      BY <3>3
  <2>6. CASE toS' = Append(toS, ResultMsg(FALSE))
    BY <2>6, <2>3, <1>2, AskAppended
  <2> QED
    BY <2>1, <2>4, <2>5, <2>6
<1>6. AirOnce'
  BY <1>1, <1>3 DEF CarrierInv, AirOnce
<1>7. Apart'
  BY <1>1, <1>3, <1>4, <1>5 DEF CarrierInv, Apart
<1>8. Behind'
  BY <1>1, <1>3, <1>4, <1>5 DEF CarrierInv, Behind
<1> QED
  BY <1>5, <1>6, <1>7, <1>8 DEF CarrierInv

\* A retry request that is taken becomes a task, or nothing.
LEMMA RetryApart == ASSUME TypeOK, CarrierInv, RetryChunk PROVE CarrierInv'
<1> DEFINE c == Head(toS).chunk
<1>1. /\ toS # <<>> /\ Head(toS).type = "retry" /\ toS' = Tail(toS) /\ UNCHANGED <<frames, writing, next>>
      /\ queued' \in {queued, queued \cup {c}}
  BY DEF RetryChunk, Reads, Heard, rxVars
<1>2. toS \in Seq(ToSMsg) /\ OnceIn(toS) /\ Head(toS) \in ToSMsg
  BY <1>1, HeadTailProperties DEF TypeOK, TypeWire, CarrierInv
<1>3. c \in Chunk
  BY <1>1, <1>2 DEF ToSMsg
<1>4. /\ OnceIn(toS') /\ AskedIn(toS, c)
      /\ \A d : AskedIn(toS', d) => AskedIn(toS, d) /\ d # c
  BY <1>1, <1>2, AskPopped
<1>5. PICK k \in Chunk : k = c
  BY <1>3
<1> HIDE DEF c
<1>6. k \notin queued /\ k < next /\ \A g \in Air : g.chunk # k
  BY <1>4, <1>5 DEF CarrierInv, Apart, Behind
<1>7. Air' = Air /\ \A d : AskedIn(toS, d)' => AskedIn(toS, d) /\ d # k
  BY <1>1, <1>4, <1>5 DEF Air
<1>8. AirOnce'
  BY <1>1, <1>7 DEF CarrierInv, AirOnce
<1>9. Apart'
  BY <1>1, <1>5, <1>6, <1>7 DEF CarrierInv, Apart
<1>10. Behind'
  BY <1>1, <1>5, <1>6, <1>7 DEF CarrierInv, Behind
<1> QED
  BY <1>4, <1>8, <1>9, <1>10 DEF CarrierInv

\* The carriers of a chunk, for every grid, retry limit, loss and kill.
THEOREM CarrierInvariant == Spec => []CarrierInv
<1>1. Init => CarrierInv
  BY NothingCarried DEF Init
<1>2. TypeOK /\ CarrierInv /\ [Next]_vars => CarrierInv'
  <2> SUFFICES ASSUME TypeOK, CarrierInv, [Next]_vars PROVE CarrierInv'
    OBVIOUS
  <2>1. CASE \E m \in Modes : Connect(m)
    <3>1. frames' = {} /\ writing' = {} /\ queued' = {} /\ toS' = <<>>
      BY <2>1 DEF Connect
    <3> QED
      BY <3>1, AskNone DEF CarrierInv, AirOnce, Apart, Behind, Air
  <2>2. CASE \E lost \in SUBSET Chunk : Kill(lost)
    <3>1. frames' = {} /\ writing' = {} /\ queued' = {} /\ toS' = <<>>
      BY <2>2 DEF Kill
    <3> QED
      BY <3>1, AskNone DEF CarrierInv, AirOnce, Apart, Behind, Air
  <2>3. CASE ReceiverEnd \/ UNCHANGED vars
    <3>1. UNCHANGED <<frames, writing, queued, toS, next>>
      BY <2>3 DEF ReceiverEnd, vars, sendVars, rxVars
    <3> QED
      BY <3>1 DEF CarrierInv, AirOnce, Apart, Behind, Air
  <2>4. CASE SessionStep
    BY <2>4, QuietStep, ScheduleApart, SendApart, FailApart, RetryApart
  <2> QED
    BY <2>1, <2>2, <2>3, <2>4, StepKinds
<1> QED
  BY <1>1, <1>2, TypeCorrect, PTL DEF Spec

\* A set with no two elements has at most one.
LEMMA AtMostOne ==
  ASSUME NEW S, \A x, y \in S : x = y
  PROVE  (S = {} /\ Cardinality(S) = 0) \/ (S # {} /\ Cardinality(S) = 1)
<1>1. CASE S = {}
  BY <1>1, FS_EmptySet
<1>2. CASE S # {}
  <2>1. PICK x \in S : TRUE
    BY <1>2
  <2>2. S = {x}
    BY <2>1
  <2> QED
    BY <2>2, FS_Singleton
<1> QED
  BY <1>1, <1>2

\* A chunk is on its way at most once (absorbChunk's WriteAt outside the lock,
\* and the retry counters, rely on it).
THEOREM CarriedOnce == Spec => []OneCarrier
<1>1. CarrierInv => OneCarrier
  <2> SUFFICES ASSUME CarrierInv, NEW c \in Chunk
               PROVE  Cardinality({f \in frames \cup writing : f.chunk = c})
                        + (IF c \in queued THEN 1 ELSE 0)
                        + Cardinality({i \in DOMAIN toS : toS[i].type = "retry" /\ toS[i].chunk = c}) <= 1
    BY DEF OneCarrier
  <2> DEFINE A == {f \in frames \cup writing : f.chunk = c}
             B == {i \in DOMAIN toS : toS[i].type = "retry" /\ toS[i].chunk = c}
  <2>1. \A f, g \in A : f = g
    BY DEF CarrierInv, AirOnce, Air
  <2>2. \A i, j \in B : i = j
    BY DEF CarrierInv, OnceIn
  <2>3. A # {} => c \notin queued /\ B = {}
    BY DEF CarrierInv, Apart, Air, AskedIn
  <2>4. c \in queued => A = {} /\ B = {}
    BY DEF CarrierInv, Apart, Air, AskedIn
  <2> HIDE DEF A, B
  <2>5. (A = {} /\ Cardinality(A) = 0) \/ (A # {} /\ Cardinality(A) = 1)
    BY <2>1, AtMostOne
  <2>6. (B = {} /\ Cardinality(B) = 0) \/ (B # {} /\ Cardinality(B) = 1)
    BY <2>2, AtMostOne
  <2>7. Cardinality(A) + (IF c \in queued THEN 1 ELSE 0) + Cardinality(B) <= 1
    BY <2>3, <2>4, <2>5, <2>6
  <2> QED
    BY <2>7 DEF A, B
<1> QED
  BY <1>1, CarrierInvariant, PTL


\* What came over the wire stays in the sidecar until the session ends: a verdict
\* that comes late takes back no correction (claimResult), and nothing else takes
\* back any (absorbChunk, flushAllSidecars).
THEOREM CorrectionsStay == Spec => ArrivedStays
<1> DEFINE Stays == \A c \in Chunk :
             c \in arrived /\ c \in arrived' /\ hash[c] # Missing => hash'[c] # Missing
<1>1. TypeOK /\ IInv /\ [Next]_vars => Stays
  <2> SUFFICES ASSUME TypeOK, IInv, [Next]_vars, NEW c \in Chunk, c \in arrived, c \in arrived',
                      hash[c] # Missing
               PROVE  hash'[c] # Missing
    OBVIOUS
  <2>1. CASE UNCHANGED hash
    BY <2>1
  <2>2. CASE \E m \in Modes : Connect(m)
    BY <2>2 DEF Connect
  <2>3. CASE ReceiverEnd
    BY <2>3 DEF ReceiverEnd, Flushed
  <2>4. CASE PrepareAdopt \/ PreparePart
    <3>1. conn = "up" /\ PrepareStep
      BY <2>4 DEF PrepareAdopt, PreparePart, PrepareStep
    <3>2. EntryPhase /\ GatePhase
      BY <3>1 DEF IInv
    <3>3. gate = "wait"
      BY <3>1, <3>2, PrepareFinds
    <3> QED
      BY <3>2, <3>3 DEF GatePhase
  <2>5. ASSUME NEW f \in writing, AbsorbRecord(f) PROVE hash'[c] # Missing
    <3>1. f.data \in Content /\ f.data # Missing /\ Hole # Missing
      BY ContentAssumption DEF TypeOK, TypeReceiver, Frame
    <3>2. hash' = [hash EXCEPT ![f.chunk] = IF f.zero THEN Hole ELSE f.data]
      BY <2>5 DEF AbsorbRecord
    <3> QED
      BY <3>1, <3>2 DEF TypeOK, TypeReceiver
  <2>6. CASE ClaimResult
    BY <2>6 DEF ClaimResult, Cleared
  <2>7. CASE Next /\ ~(\E m \in Modes : Connect(m)) /\ ~ReceiverEnd /\ ~PrepareAdopt /\ ~PreparePart
             /\ ~(\E f \in writing : AbsorbRecord(f)) /\ ~ClaimResult
    <3>1. UNCHANGED hash
      BY <2>7 DEF Next, Environment, Receiver, Sender, SourceWrite, Disconnect, Kill, PrepareSkip,
         PrepareFails, AbsorbWrite, AbsorbFails, CommitFile, SenderFileError, Finalize, FinalizeFails,
         GateOpen, VerifyClaim, VerifyEnd, Schedule, SendChunk, SendFails, TaskDone, RetryChunk,
         FileResult, rxVars
    <3> QED
      BY <3>1
  <2>8. UNCHANGED vars => UNCHANGED hash
    BY DEF vars, rxVars
  <2> QED
    BY <2>1, <2>2, <2>3, <2>4, <2>5, <2>6, <2>7, <2>8
<1>2. TypeOK /\ IInv /\ [Next]_vars => [Stays]_vars
  BY <1>1
<1> QED
  BY <1>2, TypeCorrect, Bookkeeping, PTL DEF Spec, ArrivedStays

=============================================================================
