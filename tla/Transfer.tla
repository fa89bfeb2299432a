------------------------------ MODULE Transfer ------------------------------
(***************************************************************************)
(* One regular file carried from a sender to a receiver, over any number   *)
(* of sessions: internal/engine/sender.go against internal/engine/         *)
(* receiver.go.  The sender walks the source, the receiver answers with    *)
(* what it already holds (a trusted bitmap from a sidecar, or an untrusted *)
(* claim with hashes over a part without a sidecar or over the final file  *)
(* itself), missing chunks travel on data streams that are not ordered     *)
(* with the control stream, and the part is renamed into place.  Sessions  *)
(* may break, the receiver may be killed, and the source may be rewritten  *)
(* at any moment.                                                          *)
(*                                                                         *)
(* A content is a model value; a hash is the content it was computed from  *)
(* (SHA-256 is taken as injective).  Mtimes are the number of the source   *)
(* version; 0 is any mtime that is not one of the source's.                *)
(***************************************************************************)
EXTENDS Integers, Sequences, FiniteSets

CONSTANTS
  ChunkCount,   \* chunks in the file's grid (chunking.Grid.Count)
  Content,      \* what a chunk can hold
  Zero,         \* the all-zero chunk, also what a hole reads as
  Hole,         \* sidecar mark "Z": a chunk received as a zero flag
  Missing,      \* sidecar mark "": the have-bit is clear
  NoFile,       \* no such file on the receiver's disk
  Sources,      \* first versions of the source
  Olds,         \* what a final or a part left by earlier runs may contain
  Modes,        \* resume modes in use, of "strict" and "fresh"
  Sparse,       \* PreserveSparse negotiated: zero chunks travel as a flag
  RetryLimit,   \* attempts on one chunk before its file fails (3 in the code)
  MaxWrites,    \* bound: rewrites of the source
  MaxSessions   \* bound: sessions

Chunk == 1 .. ChunkCount

ASSUME CountAssumption   == ChunkCount \in Nat \ {0}
ASSUME ContentAssumption == Zero \in Content /\ Hole \notin Content
                            /\ Missing \notin Content /\ Hole # Missing
ASSUME FileAssumption    == /\ Sources \subseteq [Chunk -> Content]
                            /\ Olds \subseteq [Chunk -> Content]
\* a file that is not there is no file
ASSUME NoFileAssumption  ==
  /\ NoFile \notin [Chunk -> Content]
  /\ NoFile \notin [data : [Chunk -> Content], mtime : Nat]
  /\ NoFile \notin [hash : [Chunk -> Content \cup {Hole, Missing}], mtime : Nat]
ASSUME OptionAssumption  == Sparse \in BOOLEAN /\ Modes \subseteq {"strict", "fresh"}
ASSUME BoundAssumption   == RetryLimit \in Nat /\ MaxWrites \in Nat /\ MaxSessions \in Nat

VARIABLES
  \* the source: every version it had, the last one is on disk
  history,
  \* the receiver's disk: what survives a session
  final,      \* the file at its final path
  part,       \* bytes of <name>.fs-part-<nonce>
  meta,       \* the part's sidecar
  \* the session
  conn,       \* "idle", "up", or "down" (connection lost, receiver unwinding)
  sessions,   \* how many were opened
  mode,       \* resume mode of this session
  entry,      \* source mtime in this session's manifest entry
  \* the sender's txFile
  gate,       \* "wait", "verify", "ready" (have-bits installed) or "skip"
  sHave,      \* have-bits
  claim,      \* claimed hashes under verification
  unverified, \* claims not re-hashed yet
  next,       \* nextTask
  queued,     \* chunks in taskCh
  inflight,   \* queued and processing tasks
  sRetries,
  sOut,       \* "none", "ok" (resolved) or "error" (errored)
  \* the wire
  toR, toS,   \* control stream, each direction
  frames,     \* chunk frames on the data streams
  \* the receiver's rxFile
  target,     \* "none", "part" or "final": the file behind the part handle
  open,       \* f.part is not nil
  hash,       \* f.sc: the in-memory sidecar
  adopted, await, settled, arrived,   \* claim bookkeeping
  mayStale, dirty,
  writing,    \* frames between WriteAt and SetHave
  finalQ,     \* entries of this file in finalizeCh
  finalQueued,
  rRetries,
  rOut        \* "none", "ok" or "error"

diskVars == <<final, part, meta>>
sessVars == <<conn, sessions, mode, entry>>
sendVars == <<gate, sHave, claim, unverified, next, queued, inflight, sRetries, sOut>>
rxVars   == <<target, open, hash, adopted, await, settled, arrived, mayStale, dirty,
              writing, finalQ, finalQueued, rRetries, rOut>>
vars == <<history, diskVars, sessVars, sendVars, toR, toS, frames, rxVars>>

-----------------------------------------------------------------------------
(* Vocabulary *)

src == history[Len(history)]
now == Len(history)

HashMark == Content \cup {Hole, Missing}
NoHash   == [c \in Chunk |-> Missing]
\* the bytes a sidecar mark stands for
Val(h)   == IF h = Hole THEN Zero ELSE h
Have(h)  == {c \in Chunk : h[c] # Missing}
Complete(h) == Have(h) = Chunk
\* re-hash of a file's own bytes: zero chunks prove nothing and are dropped
SelfHash(data) == [c \in Chunk |-> IF data[c] = Zero THEN Missing ELSE data[c]]
\* re-hash against a valid sidecar: a mark survives when the bytes still match it
ReHash(data, h) ==
  [c \in Chunk |-> IF \/ (data[c] = Zero /\ h[c] = Hole)
                      \/ (data[c] # Zero /\ h[c] = data[c])
                   THEN h[c] ELSE Missing]

Frame == [chunk : Chunk, data : Content, zero : BOOLEAN]

HaveMsg(st, hv, cl) == [type |-> "have", status |-> st, have |-> hv, claim |-> cl]
\* mutant: the index is off by one between the two sides
RetryMsgOff(c) == [type |-> "retry", chunk |-> c - 1]
RetryMsg(c)    == [type |-> "retry", chunk |-> c]
ResultMsg(ok)  == [type |-> "result", ok |-> ok]
EntryMsg       == [type |-> "entry"]
CommitMsg      == [type |-> "commit"]
ClaimMsg(v)    == [type |-> "claimResult", verified |-> v]
FileErrorMsg   == [type |-> "fileError"]

ToSMsg == [type : {"have"}, status : {"skip", "partial", "claims"},
           have : SUBSET Chunk, claim : [Chunk -> HashMark]]
          \cup [type : {"retry"}, chunk : Chunk]
          \cup [type : {"result"}, ok : BOOLEAN]
ToRMsg == [type : {"entry", "commit", "fileError"}]
          \cup [type : {"claimResult"}, verified : SUBSET Chunk]

\* a control frame is lost when the connection is gone
Send(q, m)  == IF conn = "up" THEN Append(q, m) ELSE q
Heard(q, t) == q # <<>> /\ Head(q).type = t

-----------------------------------------------------------------------------
(* The source and the sessions *)

\* Somebody rewrites a chunk of the source in place; its mtime moves.
SourceWrite(c, v) ==
  /\ Len(history) <= MaxWrites
  /\ src[c] # v
  /\ history' = Append(history, [src EXCEPT ![c] = v])
  /\ UNCHANGED <<diskVars, sessVars, sendVars, toR, toS, frames, rxVars>>

\* A session opens: the walker stats the source and hands its entry over.
Connect(m) ==
  /\ conn = "idle" /\ sessions < MaxSessions
  /\ conn' = "up" /\ sessions' = sessions + 1 /\ mode' = m /\ entry' = now
  /\ gate' = "wait" /\ sHave' = {} /\ claim' = NoHash /\ unverified' = {}
  /\ next' = 1 /\ queued' = {} /\ inflight' = 0
  /\ sRetries' = [c \in Chunk |-> 0] /\ sOut' = "none"
  /\ toR' = <<EntryMsg>> /\ toS' = <<>> /\ frames' = {}
  /\ target' = "none" /\ open' = FALSE /\ hash' = NoHash
  /\ adopted' = FALSE /\ await' = FALSE /\ settled' = FALSE /\ arrived' = {}
  /\ mayStale' = FALSE /\ dirty' = FALSE /\ writing' = {}
  /\ finalQ' = 0 /\ finalQueued' = FALSE
  /\ rRetries' = [c \in Chunk |-> 0] /\ rOut' = "none"
  /\ UNCHANGED <<history, diskVars>>

\* The connection ends, by completion, cancellation or loss: what is in
\* flight is gone and the sender's goroutines stop.
Disconnect ==
  /\ conn = "up"
  /\ conn' = "down"
  /\ toR' = <<>> /\ toS' = <<>> /\ frames' = {}
  /\ queued' = {} /\ inflight' = 0
  /\ UNCHANGED <<history, diskVars, sessions, mode, entry, rxVars,
                 gate, sHave, claim, unverified, next, sRetries, sOut>>

\* mutant: unresolved claims are persisted with the rest
FlushedAll == hash
\* What flushAllSidecars keeps: unresolved claims are self-derived and dropped.
Flushed ==
  [c \in Chunk |-> IF adopted /\ ~settled /\ c \notin arrived THEN Missing ELSE hash[c]]

\* Receiver.Run unwinds: streams drained, queued finalizes run, then dirty
\* sidecars are saved and the part handles closed.  The sidecar of an adopted
\* final goes to a path no later session loads.
ReceiverEnd ==
  /\ conn = "down" /\ writing = {} /\ finalQ = 0
  /\ meta' = IF dirty /\ open /\ target = "part"
             THEN [hash |-> Flushed, mtime |-> entry] ELSE meta
  /\ hash' = IF dirty /\ open THEN Flushed ELSE hash
  /\ open' = FALSE /\ dirty' = FALSE /\ conn' = "idle"
  /\ UNCHANGED <<history, final, part, sessions, mode, entry, sendVars, toR, toS, frames,
                 target, adopted, await, settled, arrived, mayStale, writing,
                 finalQ, finalQueued, rRetries, rOut>>

\* The receiver's process is killed; bytes of the part may read back as holes.
\* A rename that was done stays done, with the bytes: the power does not fail
\* just after a rename without --fsync (receiver.go:1140).
Kill(lost) ==
  /\ conn \in {"up", "down"}
  /\ lost # {} => part # NoFile
  /\ conn' = "idle" /\ open' = FALSE /\ writing' = {} /\ finalQ' = 0
  /\ part' = IF part = NoFile THEN NoFile
             ELSE [c \in Chunk |-> IF c \in lost THEN Zero ELSE part[c]]
  /\ toR' = <<>> /\ toS' = <<>> /\ frames' = {} /\ queued' = {} /\ inflight' = 0
  /\ UNCHANGED <<history, final, meta, sessions, mode, entry,
                 gate, sHave, claim, unverified, next, sRetries, sOut,
                 target, hash, adopted, await, settled, arrived, mayStale, dirty,
                 finalQueued, rRetries, rOut>>

-----------------------------------------------------------------------------
(* Receiver: prepareRegular *)

CompleteFinal == final # NoFile /\ mode # "fresh" /\ final.mtime = entry

\* A final of the same size and mtime: nothing to send, leftover parts pruned.
PrepareSkip ==
  /\ conn = "up" /\ Heard(toR, "entry") /\ CompleteFinal
  /\ toR' = Tail(toR)
  /\ toS' = Append(Append(toS, HaveMsg("skip", {}, NoHash)), ResultMsg(TRUE))
  /\ rOut' = "ok"
  /\ part' = NoFile /\ meta' = NoFile
  /\ UNCHANGED <<history, final, sessVars, sendVars, frames,
                 target, open, hash, adopted, await, settled, arrived, mayStale, dirty,
                 writing, finalQ, finalQueued, rRetries>>

\* adoptFinalAsPart: a same-size final with another mtime becomes the part.
PrepareAdopt ==
  /\ conn = "up" /\ Heard(toR, "entry") /\ ~CompleteFinal
  /\ final # NoFile /\ mode # "fresh"
  /\ toR' = Tail(toR)
  /\ target' = "final" /\ open' = TRUE
  /\ hash' = SelfHash(final.data)
  /\ adopted' = TRUE /\ await' = (Have(hash') # {}) /\ mayStale' = TRUE
  /\ toS' = Append(toS, HaveMsg(IF await' THEN "claims" ELSE "partial", Have(hash'), hash'))
  /\ UNCHANGED <<history, diskVars, sessVars, sendVars, frames, settled, arrived, dirty,
                 writing, finalQ, finalQueued, rRetries, rOut>>

\* What the receiver makes of an existing part: the sidecar's marks that
\* re-hash, or, without a valid sidecar, a claim over the part's own bytes.
ValidMeta == meta # NoFile /\ meta.mtime = entry

\* The part path: no adoptable final (or it could not be opened or locked).
PreparePart ==
  /\ conn = "up" /\ Heard(toR, "entry") /\ ~CompleteFinal
  /\ toR' = Tail(toR)
  /\ LET old     == part # NoFile /\ mode # "fresh"
         trusted == old /\ ValidMeta
         rebuilt == old /\ ~ValidMeta
     IN /\ part' = IF old THEN part ELSE [c \in Chunk |-> Zero]
        /\ meta' = IF old THEN meta ELSE NoFile
        /\ hash' = IF trusted THEN ReHash(part, meta.hash)
                   ELSE IF rebuilt THEN SelfHash(part) ELSE NoHash
        /\ adopted' = (rebuilt /\ Have(hash') # {})
        /\ mayStale' = old
        /\ dirty' = (rebuilt \/ (trusted /\ Have(meta.hash) # {}))
  /\ await' = adopted'
  /\ target' = "part" /\ open' = TRUE
  /\ toS' = Append(toS, HaveMsg(IF adopted' THEN "claims" ELSE "partial", Have(hash'), hash'))
  /\ finalQ' = IF Complete(hash') /\ ~await' THEN 1 ELSE 0
  /\ UNCHANGED <<history, final, sessVars, sendVars, frames, settled, arrived,
                 writing, finalQueued, rRetries, rOut>>

\* No space, or the part cannot be opened.
PrepareFails ==
  /\ conn = "up" /\ Heard(toR, "entry") /\ ~CompleteFinal
  /\ toR' = Tail(toR) /\ toS' = Append(toS, ResultMsg(FALSE))
  /\ rOut' = "error"
  /\ UNCHANGED <<history, diskVars, sessVars, sendVars, frames,
                 target, open, hash, adopted, await, settled, arrived, mayStale, dirty,
                 writing, finalQ, finalQueued, rRetries>>

-----------------------------------------------------------------------------
(* Sender: control reader, claim verification, scheduler, workers *)

\* the control reader takes the next frame (it is busy while it verifies)
Reads(t) == conn = "up" /\ gate # "verify" /\ Heard(toS, t)

\* failFile, when the file is still open: resolve in place, tell the receiver.
FailFile == sOut' = "error" /\ toR' = Append(toR, FileErrorMsg)

\* gateOpen: install the have-bits; untrusted claims are verified first.
GateOpen ==
  /\ Reads("have") /\ gate = "wait"
  /\ toS' = Tail(toS)
  /\ sHave' = Head(toS).have
  /\ gate' = CASE Head(toS).status = "skip"    -> "skip"
               [] Head(toS).status = "partial" -> "ready"
               [] Head(toS).status = "claims"  -> "verify"
  /\ claim' = Head(toS).claim
  /\ unverified' = IF gate' = "verify" THEN sHave' ELSE {}
  /\ UNCHANGED <<history, diskVars, sessVars, toR, frames, rxVars,
                 next, queued, inflight, sRetries, sOut>>

\* verifyClaims re-hashes one claimed chunk of the source; a chunk it cannot
\* read (or a source it cannot open) loses its claim.
VerifyClaim(c, readable) ==
  /\ conn = "up" /\ gate = "verify" /\ c \in unverified
  /\ \A d \in unverified : c <= d
  /\ unverified' = unverified \ {c}
  /\ sHave' = IF readable /\ src[c] = claim[c] THEN sHave ELSE sHave \ {c}
  /\ UNCHANGED <<history, diskVars, sessVars, toR, toS, frames, rxVars,
                 gate, claim, next, queued, inflight, sRetries, sOut>>

\* Every claim looked at: Commit, or the verified bitmap; then readyQ.
VerifyEnd ==
  /\ conn = "up" /\ gate = "verify" /\ unverified = {}
  /\ gate' = "ready"
  /\ toR' = Append(toR, IF sHave = Have(claim) THEN CommitMsg ELSE ClaimMsg(sHave))
  /\ UNCHANGED <<history, diskVars, sessVars, toS, frames, rxVars,
                 sHave, claim, unverified, next, queued, inflight, sRetries, sOut>>

\* mutant: the scheduler does not move on
NextTaskStuck == next
\* f.nextTask++
NextTask == next + 1

\* runScheduler: the next chunk is already there, or becomes a task.
Schedule ==
  /\ conn = "up" /\ gate = "ready" /\ sOut = "none" /\ next \in Chunk
  /\ next' = NextTask
  /\ IF next \in sHave THEN UNCHANGED <<queued, inflight>>
     ELSE queued' = queued \cup {next} /\ inflight' = inflight + 1
  /\ UNCHANGED <<history, diskVars, sessVars, toR, toS, frames, rxVars,
                 gate, sHave, claim, unverified, sRetries, sOut>>

\* sendChunk: a worker reads the chunk and writes its frame; a task of a
\* resolved file is dropped.
SendChunk(c) ==
  /\ conn = "up" /\ c \in queued
  /\ queued' = queued \ {c}
  /\ frames' = IF sOut # "none" THEN frames
               ELSE frames \cup {[chunk |-> c, data |-> src[c], zero |-> Sparse /\ src[c] = Zero]}
  /\ UNCHANGED <<history, diskVars, sessVars, toR, toS, rxVars,
                 gate, sHave, claim, unverified, next, inflight, sRetries, sOut>>

\* sendChunk fails: the source cannot be opened or reads short.
SendFails(c) ==
  /\ conn = "up" /\ c \in queued /\ sOut = "none"
  /\ queued' = queued \ {c}
  /\ FailFile
  /\ UNCHANGED <<history, diskVars, sessVars, toS, frames, rxVars,
                 gate, sHave, claim, unverified, next, inflight, sRetries>>

\* taskDone: after the last outstanding task of an unresolved file the
\* source is stat'ed again, and a moved mtime fails the file.
TaskDone ==
  /\ conn = "up" /\ inflight > Cardinality(queued)
  /\ inflight' = inflight - 1
  /\ IF inflight' = 0 /\ sOut = "none" /\ next > ChunkCount /\ now # entry
     THEN FailFile ELSE UNCHANGED <<sOut, toR>>
  /\ UNCHANGED <<history, diskVars, sessVars, toS, frames, rxVars,
                 gate, sHave, claim, unverified, next, queued, sRetries>>

\* retryChunk: queue the chunk again, or give the file up.
RetryChunk ==
  /\ Reads("retry")
  /\ toS' = Tail(toS)
  /\ LET c    == Head(toS).chunk
         over == sRetries[c] + 1 > RetryLimit
     IN /\ sRetries' = IF sOut # "none" THEN sRetries
                       ELSE [sRetries EXCEPT ![c] = @ + 1]
        /\ IF sOut = "none" /\ ~over
           THEN queued' = queued \cup {c} /\ inflight' = inflight + 1
           ELSE UNCHANGED <<queued, inflight>>
        /\ IF sOut = "none" /\ over THEN FailFile ELSE UNCHANGED <<sOut, toR>>
  /\ UNCHANGED <<history, diskVars, sessVars, frames, rxVars,
                 gate, sHave, claim, unverified, next>>

\* fileResult: the receiver's outcome, unless the file is resolved already.
FileResult ==
  /\ Reads("result")
  /\ toS' = Tail(toS)
  /\ sOut' = IF sOut # "none" THEN sOut ELSE IF Head(toS).ok THEN "ok" ELSE "error"
  /\ UNCHANGED <<history, diskVars, sessVars, toR, frames, rxVars,
                 gate, sHave, claim, unverified, next, queued, inflight, sRetries>>

-----------------------------------------------------------------------------
(* Receiver: chunk frames, verdicts, finalizer *)

\* mutant: the optimistic claims count as complete
MaybeCompleteEager(h, s) ==
  LET queue == Complete(h) /\ ~finalQueued
  IN /\ finalQueued' = (finalQueued \/ queue)
     /\ finalQ' = IF queue THEN finalQ + 1 ELSE finalQ
\* maybeComplete: queue finalize once, when the last missing chunk is there
\* and the claims (if any were made) were answered.
MaybeComplete(h, s) ==
  LET queue == Complete(h) /\ (~await \/ s) /\ ~finalQueued
  IN /\ finalQueued' = (finalQueued \/ queue)
     /\ finalQ' = IF queue THEN finalQ + 1 ELSE finalQ

\* mutant: a correction to a claimed chunk counts as a duplicate
DroppableClaimed(f) == rOut # "none" \/ ~open \/ hash[f.chunk] # Missing
\* absorbChunk drops a frame of a resolved or finalizing file, or a duplicate.
Droppable(f) == rOut # "none" \/ ~open \/ (hash[f.chunk] # Missing /\ ~adopted)

\* absorbChunk, up to WriteAt: the fd is snapshotted and the bytes written.
\* A zero flag is not written over a part that was created by this session.
AbsorbWrite(f) ==
  /\ conn = "up" /\ f \in frames
  /\ frames' = frames \ {f}
  /\ IF Droppable(f) THEN UNCHANGED <<part, final, writing>>
     ELSE /\ writing' = writing \cup {f}
          /\ CASE f.zero /\ ~mayStale -> UNCHANGED <<part, final>>
               [] ~(f.zero /\ ~mayStale) /\ target = "part" ->
                     part' = [part EXCEPT ![f.chunk] = f.data] /\ UNCHANGED final
               [] ~(f.zero /\ ~mayStale) /\ target = "final" ->
                     /\ final' = [data |-> [final.data EXCEPT ![f.chunk] = f.data], mtime |-> 0]
                     /\ UNCHANGED part
  /\ UNCHANGED <<history, meta, sessVars, sendVars, toR, toS,
                 target, open, hash, adopted, await, settled, arrived, mayStale, dirty,
                 finalQ, finalQueued, rRetries, rOut>>

\* absorbChunk, after WriteAt: record the chunk under the file's lock.
AbsorbRecord(f) ==
  /\ f \in writing
  /\ writing' = writing \ {f}
  /\ hash' = [hash EXCEPT ![f.chunk] = IF f.zero THEN Hole ELSE f.data]
  /\ arrived' = IF adopted THEN arrived \cup {f.chunk} ELSE arrived
  /\ dirty' = TRUE
  /\ MaybeComplete(hash', settled)
  /\ UNCHANGED <<history, diskVars, sessVars, sendVars, toR, toS, frames,
                 target, open, adopted, await, settled, mayStale, rRetries, rOut>>

\* failFile: record the error, close the part, tell the sender.
RxFail ==
  /\ rOut' = "error" /\ open' = FALSE
  /\ toS' = Send(toS, ResultMsg(FALSE))

\* A frame fails its checksum or its write: ask again, at most RetryLimit times.
AbsorbFails(f) ==
  /\ conn = "up" /\ f \in frames /\ ~Droppable(f)
  /\ frames' = frames \ {f}
  /\ rRetries' = [rRetries EXCEPT ![f.chunk] = @ + 1]
  /\ IF rRetries'[f.chunk] > RetryLimit THEN RxFail
     ELSE toS' = Send(toS, RetryMsg(f.chunk)) /\ UNCHANGED <<rOut, open>>
  /\ UNCHANGED <<history, diskVars, sessVars, sendVars, toR,
                 target, hash, adopted, await, settled, arrived, mayStale, dirty,
                 writing, finalQ, finalQueued>>

\* commitFile: every claim verified; chunks may still be coming.
CommitFile ==
  /\ conn = "up" /\ Heard(toR, "commit")
  /\ toR' = Tail(toR)
  /\ IF rOut # "none" THEN UNCHANGED <<settled, finalQ>>
     ELSE settled' = TRUE /\ finalQ' = IF Complete(hash) THEN finalQ + 1 ELSE finalQ
  /\ UNCHANGED <<history, diskVars, sessVars, sendVars, toS, frames,
                 target, open, hash, adopted, await, arrived, mayStale, dirty,
                 writing, finalQueued, rRetries, rOut>>

\* mutant: the verdict also takes back corrections that overtook it
ClearedLate(verified) == [c \in Chunk |-> IF c \notin verified THEN Missing ELSE hash[c]]
\* Rejected claims are cleared unless their correction has arrived already.
Cleared(verified) ==
  [c \in Chunk |-> IF c \notin verified /\ c \notin arrived THEN Missing ELSE hash[c]]

\* claimResult: apply the verdict, then look whether the file is complete.
ClaimResult ==
  /\ conn = "up" /\ Heard(toR, "claimResult")
  /\ toR' = Tail(toR)
  /\ IF rOut # "none" \/ ~adopted THEN UNCHANGED <<hash, dirty, settled, finalQ, finalQueued>>
     ELSE /\ hash' = Cleared(Head(toR).verified)
          /\ dirty' = (dirty \/ hash' # hash)
          /\ settled' = TRUE
          /\ MaybeComplete(hash', TRUE)
  /\ UNCHANGED <<history, diskVars, sessVars, sendVars, toS, frames,
                 target, open, adopted, await, arrived, mayStale, writing, rRetries, rOut>>

\* senderFileError: the sender gave the file up; the partial is kept.
SenderFileError ==
  /\ conn = "up" /\ Heard(toR, "fileError")
  /\ toR' = Tail(toR)
  /\ IF rOut # "none" THEN UNCHANGED <<rOut, open>>
     ELSE rOut' = "error" /\ open' = FALSE
  /\ UNCHANGED <<history, diskVars, sessVars, sendVars, toS, frames,
                 target, hash, adopted, await, settled, arrived, mayStale, dirty,
                 writing, finalQ, finalQueued, rRetries>>

\* finalize: close, rename into place, prune the leftovers, report; a stale
\* queue entry does nothing.
Finalize ==
  /\ conn # "idle" /\ finalQ > 0
  /\ finalQ' = finalQ - 1
  /\ IF rOut # "none" \/ ~open THEN UNCHANGED <<final, part, meta, open, dirty, rOut, toS>>
     ELSE /\ open' = FALSE /\ dirty' = FALSE
          /\ final' = [data |-> IF target = "part" THEN part ELSE final.data, mtime |-> entry]
          /\ part' = NoFile /\ meta' = NoFile
          /\ rOut' = "ok" /\ toS' = Send(toS, ResultMsg(TRUE))
  /\ UNCHANGED <<history, sessVars, sendVars, toR, frames,
                 target, hash, adopted, await, settled, arrived, mayStale,
                 writing, finalQueued, rRetries>>

\* finalize fails to sync, close or rename: the part stays.
FinalizeFails ==
  /\ conn # "idle" /\ finalQ > 0 /\ rOut = "none" /\ open
  /\ finalQ' = finalQ - 1
  /\ RxFail
  /\ UNCHANGED <<history, diskVars, sessVars, sendVars, toR, frames,
                 target, hash, adopted, await, settled, arrived, mayStale, dirty,
                 writing, finalQueued, rRetries>>

-----------------------------------------------------------------------------
(* Specification *)

Init ==
  /\ history \in {<<s>> : s \in Sources}
  /\ final \in {NoFile} \cup [data : Olds, mtime : {0}]
  /\ part \in {NoFile} \cup Olds
  /\ meta = NoFile
  /\ conn = "idle" /\ sessions = 0 /\ mode = "strict" /\ entry = 0
  /\ gate = "wait" /\ sHave = {} /\ claim = NoHash /\ unverified = {}
  /\ next = 1 /\ queued = {} /\ inflight = 0
  /\ sRetries = [c \in Chunk |-> 0] /\ sOut = "none"
  /\ toR = <<>> /\ toS = <<>> /\ frames = {}
  /\ target = "none" /\ open = FALSE /\ hash = NoHash
  /\ adopted = FALSE /\ await = FALSE /\ settled = FALSE /\ arrived = {}
  /\ mayStale = FALSE /\ dirty = FALSE /\ writing = {}
  /\ finalQ = 0 /\ finalQueued = FALSE
  /\ rRetries = [c \in Chunk |-> 0] /\ rOut = "none"

Environment ==
  \/ \E c \in Chunk, v \in Content : SourceWrite(c, v)
  \/ \E m \in Modes : Connect(m)
  \/ Disconnect
  \/ \E lost \in SUBSET Chunk : Kill(lost)

Receiver ==
  \/ PrepareSkip
  \/ PrepareAdopt
  \/ PreparePart
  \/ PrepareFails
  \/ \E f \in frames : AbsorbWrite(f)
  \/ \E f \in writing : AbsorbRecord(f)
  \/ \E f \in frames : AbsorbFails(f)
  \/ CommitFile
  \/ ClaimResult
  \/ SenderFileError
  \/ Finalize
  \/ FinalizeFails
  \/ ReceiverEnd

Sender ==
  \/ GateOpen
  \/ \E c \in Chunk, readable \in BOOLEAN : VerifyClaim(c, readable)
  \/ VerifyEnd
  \/ Schedule
  \/ \E c \in queued : SendChunk(c)
  \/ \E c \in queued : SendFails(c)
  \/ TaskDone
  \/ RetryChunk
  \/ FileResult

Next == Environment \/ Receiver \/ Sender

Spec == Init /\ [][Next]_vars

\* The control loops, the scheduler, the workers, the stream handlers and the
\* finalizer are goroutines that keep running while the session is up.
Fairness ==
  /\ WF_vars(PrepareSkip) /\ WF_vars(PrepareAdopt \/ PreparePart)
  /\ WF_vars(\E f \in frames : AbsorbWrite(f))
  /\ WF_vars(\E f \in writing : AbsorbRecord(f))
  /\ WF_vars(CommitFile \/ ClaimResult \/ SenderFileError)
  /\ WF_vars(Finalize) /\ WF_vars(ReceiverEnd)
  /\ WF_vars(GateOpen \/ RetryChunk \/ FileResult)
  /\ WF_vars(\E c \in Chunk : VerifyClaim(c, TRUE)) /\ WF_vars(VerifyEnd)
  /\ WF_vars(Schedule)
  /\ WF_vars(\E c \in queued : SendChunk(c)) /\ WF_vars(TaskDone)

FairSpec == Spec /\ Fairness

-----------------------------------------------------------------------------
(* Properties *)

TypeDisk ==
  /\ history \in Seq([Chunk -> Content]) /\ history # <<>>
  /\ final \in {NoFile} \cup [data : [Chunk -> Content], mtime : Nat]
  /\ part \in {NoFile} \cup [Chunk -> Content]
  /\ meta \in {NoFile} \cup [hash : [Chunk -> HashMark], mtime : Nat]

TypeSession ==
  /\ conn \in {"idle", "up", "down"} /\ sessions \in Nat
  /\ mode \in {"strict", "fresh"} /\ entry \in Nat

TypeSender ==
  /\ gate \in {"wait", "verify", "ready", "skip"}
  /\ sHave \in SUBSET Chunk /\ claim \in [Chunk -> HashMark] /\ unverified \in SUBSET Chunk
  /\ next \in 1 .. ChunkCount + 1 /\ queued \in SUBSET Chunk /\ inflight \in Nat
  /\ sRetries \in [Chunk -> Nat] /\ sOut \in {"none", "ok", "error"}

TypeWire == toR \in Seq(ToRMsg) /\ toS \in Seq(ToSMsg) /\ frames \in SUBSET Frame

TypeReceiver ==
  /\ target \in {"none", "part", "final"} /\ open \in BOOLEAN
  /\ hash \in [Chunk -> HashMark]
  /\ adopted \in BOOLEAN /\ await \in BOOLEAN /\ settled \in BOOLEAN
  /\ arrived \in SUBSET Chunk /\ mayStale \in BOOLEAN /\ dirty \in BOOLEAN
  /\ writing \in SUBSET Frame
  /\ finalQ \in Nat /\ finalQueued \in BOOLEAN
  /\ rRetries \in [Chunk -> Nat] /\ rOut \in {"none", "ok", "error"}

\* The part handle, when open, is on a file that exists.
HandleOK ==
  open => /\ target \in {"part", "final"}
          /\ target = "part" => part # NoFile
          /\ target = "final" => final # NoFile

\* The session's one entry is the first frame the receiver hears.
EntryOnce == \A i \in DOMAIN toR : toR[i].type = "entry" => i = 1 /\ ~open

TypeOK ==
  /\ TypeDisk /\ TypeSession /\ TypeSender /\ TypeWire /\ TypeReceiver
  /\ HandleOK /\ EntryOnce

\* A final file that carries the mtime of the current source holds exactly the
\* source's bytes: whatever mixture of resumed parts, untrusted claims,
\* corrections overtaking the verdict, retries, rewrites of the source and
\* killed sessions led there.  It is what makes the size+mtime shortcut of
\* prepareRegular, and the report of success, sound.
FinalExact == final # NoFile /\ final.mtime = now => final.data = src

\* A sidecar on disk that a later session would accept never vouches for a
\* chunk the current source does not have: flushAllSidecars must not persist
\* self-derived claims.
SidecarSound ==
  meta # NoFile /\ meta.mtime = now =>
    \A c \in Have(meta.hash) : Val(meta.hash[c]) = src[c]

\* A chunk is on its way at most once: as a task, a frame, a write in progress
\* or a retry request.  absorbChunk's lock-free WriteAt relies on it, and so
\* does the credit of the retry counters.
OneCarrier ==
  \A c \in Chunk :
    Cardinality({f \in frames \cup writing : f.chunk = c})
      + (IF c \in queued THEN 1 ELSE 0)
      + Cardinality({i \in DOMAIN toS : toS[i].type = "retry" /\ toS[i].chunk = c}) <= 1

\* A chunk that came over the wire stays present until the session ends: no
\* late verdict takes it back (nothing would send it again).
ArrivedStays ==
  [][\A c \in Chunk :
        c \in arrived /\ c \in arrived' /\ hash[c] # Missing => hash'[c] # Missing]_vars

\* A session that stays up brings the file to an outcome on both sides.
SessionSettles == conn = "up" ~> (conn # "up" \/ (sOut # "none" /\ rOut # "none"))

\* taskDone promises to flag a file rewritten during the transfer "instead of
\* reporting success" (sender.go:1020-1024): a file the sender counts as done is
\* one version of the source, not a mixture.
MixtureFlagged ==
  sOut = "ok" /\ rOut = "ok" /\ final # NoFile =>
    \E i \in DOMAIN history : final.data = history[i]

-----------------------------------------------------------------------------
(* The inductive invariant behind FinalExact and SidecarSound.  Its parts   *)
(* speak of a session in progress whose manifest entry still names the      *)
(* current version of the source; when the source moves on, only the mtimes *)
(* matter.                                                                  *)

Live  == conn # "idle" /\ entry = now
\* what the part handle points at
Bytes == IF target = "part" THEN part ELSE final.data
Verdict(m) == m.type \in {"commit", "claimResult"}

\* mtimes on disk and in the manifest come from versions that exist
MtimeBound ==
  /\ entry <= now
  /\ final # NoFile => final.mtime <= now
  /\ meta # NoFile => meta.mtime <= now

\* before prepareRegular ran, nothing else of the session has happened
EntryPhase ==
  \A i \in DOMAIN toR : toR[i].type = "entry" =>
    /\ toR = <<EntryMsg>> /\ toS = <<>> /\ gate = "wait"
    /\ ~open /\ finalQ = 0 /\ hash = NoHash /\ ~await /\ target = "none"

\* only what prepareRegular makes adopted awaits a verdict
AwaitAdopted == await => adopted

\* no data, no retry and no verdict before the gate is open
GatePhase ==
  gate # "ready" =>
    /\ frames = {} /\ writing = {} /\ queued = {} /\ inflight = 0
    /\ arrived = {} /\ ~settled
    /\ \A i \in DOMAIN toR : toR[i].type = "entry"
    /\ \A i \in DOMAIN toS : toS[i].type # "retry"

\* the bitmap in flight describes the receiver's sidecar
HaveInFlight ==
  \A i \in DOMAIN toS : toS[i].type = "have" =>
    /\ i = 1 /\ gate = "wait" /\ toR = <<>>
    /\ toS[i].status = "claims" <=> await
    /\ await => toS[i].claim = hash /\ toS[i].have = Have(hash)

\* one verdict per session, on claims that were made and not yet settled
VerdictPhase ==
  /\ gate = "verify" => await /\ claim = hash
  /\ gate = "ready" => unverified = {}
  /\ \A i \in DOMAIN toR : Verdict(toR[i]) =>
        /\ await /\ ~settled
        /\ toR[i].type = "commit" => sHave = Have(claim)
        /\ toR[i].type = "claimResult" => toR[i].verified = sHave
        /\ \A j \in DOMAIN toR : Verdict(toR[j]) => i = j

\* what the sender verified is its own data, and what the receiver still
\* claims is what the sender looked at
ClaimsChecked ==
  await /\ gate \in {"verify", "ready"} =>
    /\ \A c \in Chunk \ arrived : hash[c] \in {Missing, claim[c]}
    /\ \A c \in sHave \ unverified : claim[c] = src[c]

\* frames carry the source
FramesExact == \A f \in frames \cup writing : f.data = src[f.chunk] /\ (f.zero => f.data = Zero)

\* every mark the receiver may act on stands for the source's bytes
HashExact ==
  \A c \in Have(hash) : (~await \/ settled \/ c \in arrived) => Val(hash[c]) = src[c]

\* the bytes behind the handle are the ones the marks stand for
BytesExact ==
  open =>
    /\ \A c \in Have(hash) : Bytes[c] \in {Val(hash[c]), src[c]}
    /\ \A f \in writing : Bytes[f.chunk] = src[f.chunk]
    /\ ~mayStale => target = "part" /\ \A c \in Chunk : part[c] \in {Zero, src[c]}

\* a file in finalizeCh is complete and its claims are settled
QueueComplete == finalQ > 0 /\ open => Complete(hash) /\ (~await \/ settled)

IInv ==
  /\ MtimeBound /\ FinalExact /\ SidecarSound
  /\ conn # "idle" =>
       /\ EntryPhase /\ AwaitAdopted /\ GatePhase /\ HaveInFlight /\ VerdictPhase
       /\ QueueComplete
  /\ Live => ClaimsChecked /\ FramesExact /\ HashExact /\ BytesExact
=============================================================================
