----------------------------- MODULE Completion -----------------------------
(***************************************************************************)
(* One session over a whole manifest: internal/engine/sender.go against    *)
(* internal/engine/receiver.go, with what happens inside one file reduced  *)
(* to the steps that matter to the others (Transfer has the rest).         *)
(*                                                                         *)
(* The walker hands out entries in batches and is held back by a credit;   *)
(* the receiver's control reader and its preparation workers answer each   *)
(* entry; both sides count outcomes; when the data entries are resolved    *)
(* the receiver makes the hardlinks (post-pass) and says Done; either side *)
(* may then go away, and the connection may be lost at any moment.         *)
(***************************************************************************)
EXTENDS Integers, Sequences, FiniteSets

CONSTANTS
  Manifests,    \* what the walker may find, as sequences of entries
  Credit,       \* senderPendingCredit (2048 in the code)
  BatchMax,     \* entries in a batch (256 in the code)
  SourceFails   \* the source may become unreadable or be rewritten

\* "file" has chunks, "dir" stands for every kind resolved on sight (dirs,
\* symlinks, nodes), "link" is a hardlink to the earlier entry ref.
Kind == {"file", "empty", "dir", "link"}
Data == {"file", "empty"}

ASSUME ManifestAssumption ==
  \A m \in Manifests :
    /\ m \in Seq([kind : Kind, ref : Nat]) /\ m # <<>>
    /\ \A e \in DOMAIN m : m[e].kind = "link" =>
         m[e].ref \in 1 .. e - 1 /\ m[m[e].ref].kind \in Data
ASSUME CreditAssumption ==
  BatchMax \in Nat \ {0} /\ Credit \in Nat /\ BatchMax < Credit
ASSUME FailAssumption == SourceFails \in BOOLEAN

VARIABLES
  manifest,     \* what this walk finds
  disk,         \* files already complete at the destination
  \* the sender
  walked,       \* emitted
  batch,        \* entries not flushed yet
  gates,        \* gatesOpen
  have,         \* per entry: "none", "skip", "all" (no chunk missing) or "part"
  sent, checked,\* files whose chunks are out; whose last taskDone has run
  resolvedIDs,
  okS, errS,    \* entries in report.Files and report.Errors
  sRun,         \* "walk", "wait" (for outcomes) or "ended"
  \* the wire
  conn,         \* "up" or "closed"
  toR, toS,
  frames,       \* files whose chunks are on the data streams
  \* the receiver
  phase,        \* Run: "run", "cancelled", "closed" (rehashCh), "flushed", "panic"
  held,         \* entry the control reader is about to queue, 0 for none
  preparing,    \* entries in rehashCh or with a worker
  rx,           \* files[]: "none", "open", "stub", "ok" or "error"
  links,        \* hardlink jobs collected
  manifestDone,
  rResolved,    \* resolved
  finalQ,       \* files in finalizeCh
  watch,        \* watchCompletion: "wait", "post", "last", "posted", "done", "gone"
  jobs,         \* links the post-pass has not made yet
  outcome       \* what became of an entry: "none", "ok", "error", or "sender"

sendVars == <<walked, batch, gates, have, sent, checked, resolvedIDs, okS, errS, sRun>>
rxVars   == <<phase, held, preparing, rx, links, manifestDone, rResolved, finalQ, watch,
              jobs, outcome>>
vars == <<manifest, disk, sendVars, conn, toR, toS, frames, rxVars>>

-----------------------------------------------------------------------------
(* Vocabulary *)

Entry  == DOMAIN manifest
KindOf(e)  == manifest[e].kind
Regular(e) == KindOf(e) \in Data
Total  == Len(manifest)

EntryMsg(e)      == [type |-> "entry", id |-> e]
EndMsg           == [type |-> "end", id |-> 0]
FileErrorMsg(e)  == [type |-> "fileError", id |-> e]
HaveMsg(e, h)    == [type |-> "have", id |-> e, what |-> h]
ResultMsg(e, o)  == [type |-> "result", id |-> e, what |-> o]
DoneMsg          == [type |-> "done", id |-> 0, what |-> "ok"]

Msgs(es)    == [i \in 1 .. Len(es) |-> EntryMsg(es[i])]
Heard(q, t) == q # <<>> /\ Head(q).type = t
\* a control frame is lost when the connection is gone
Send(q, ms) == IF conn = "up" THEN q \o ms ELSE q

-----------------------------------------------------------------------------
(* Sender *)

\* walk and appendBatch: an entry takes a credit if it carries data, and
\* joins the batch; a full batch is flushed first.
Walk ==
  /\ sRun = "walk" /\ conn = "up" /\ walked < Total
  /\ LET e == walked + 1
     IN /\ Regular(e) => gates < Credit
        /\ gates' = IF Regular(e) THEN gates + 1 ELSE gates
        /\ walked' = e
        /\ IF Len(batch) >= BatchMax
           THEN batch' = <<e>> /\ toR' = toR \o Msgs(batch)
           ELSE batch' = Append(batch, e) /\ UNCHANGED toR
  /\ UNCHANGED <<manifest, disk, have, sent, checked, resolvedIDs, okS, errS, sRun,
                 conn, toS, frames, rxVars>>

\* The walk is over: the last batch and ManifestEnd go out.
WalkEnd ==
  /\ sRun = "walk" /\ conn = "up" /\ walked = Total
  /\ sRun' = "wait" /\ batch' = <<>>
  /\ toR' = toR \o Msgs(batch) \o <<EndMsg>>
  /\ UNCHANGED <<manifest, disk, walked, gates, have, sent, checked, resolvedIDs, okS, errS,
                 conn, toS, frames, rxVars>>

\* gateOpen: the first bitmap of a file installs its have-bits and releases a credit.
GateOpen ==
  /\ Heard(toS, "have") /\ toS' = Tail(toS)
  /\ LET e == Head(toS).id
     IN IF have[e] # "none" THEN UNCHANGED <<have, gates>>
        ELSE have' = [have EXCEPT ![e] = Head(toS).what] /\ gates' = gates - 1
  /\ UNCHANGED <<manifest, disk, walked, batch, sent, checked, resolvedIDs, okS, errS, sRun,
                 conn, toR, frames, rxVars>>

\* mutant: an outcome without a bitmap keeps the credit
ReleasedNever(e) == gates
\* an outcome that comes before the bitmap releases the credit, not below zero
Released(e) ==
  IF Regular(e) /\ have[e] = "none" THEN IF gates > 0 THEN gates - 1 ELSE 0 ELSE gates

\* mutant: whatever the receiver says counts as a file done
CountedAll(e, o) == okS' = okS \cup {e} /\ UNCHANGED errS
\* the report: a failed entry that is no file is counted nowhere
Counted(e, o) ==
  /\ okS'  = IF o = "ok" THEN okS \cup {e} ELSE okS
  /\ errS' = IF o # "ok" /\ Regular(e) THEN errS \cup {e} ELSE errS

\* fileResult: the receiver's outcome of an entry that is still open.
FileResult ==
  /\ Heard(toS, "result") /\ toS' = Tail(toS)
  /\ LET e == Head(toS).id
     IN IF e \in resolvedIDs THEN UNCHANGED <<gates, resolvedIDs, okS, errS>>
        ELSE /\ gates' = Released(e)
             /\ resolvedIDs' = resolvedIDs \cup {e}
             /\ Counted(e, Head(toS).what)
  /\ UNCHANGED <<manifest, disk, walked, batch, have, sent, checked, sRun,
                 conn, toR, frames, rxVars>>

\* the files the scheduler hands out chunks of
NextFile(e) == have[e] = "part" /\ e \notin resolvedIDs /\ e \notin sent

\* Scheduler and workers: the missing chunks of an open file go out.
SendData(e) ==
  /\ sRun # "ended" /\ conn = "up" /\ NextFile(e)
  /\ sent' = sent \cup {e} /\ frames' = frames \cup {e}
  /\ UNCHANGED <<manifest, disk, walked, batch, gates, have, checked, resolvedIDs, okS, errS,
                 sRun, conn, toR, toS, rxVars>>

\* mutant: the failure is reported but the entry stays open
FailFileOpen(e) ==
  /\ errS' = errS \cup {e} /\ UNCHANGED resolvedIDs
  /\ toR' = Send(toR, <<FileErrorMsg(e)>>)
\* failFile: resolve in place and tell the receiver.
FailFile(e) ==
  /\ resolvedIDs' = resolvedIDs \cup {e}
  /\ errS' = errS \cup {e}
  /\ toR' = Send(toR, <<FileErrorMsg(e)>>)

\* A worker cannot read the source.
SendFails(e) ==
  /\ SourceFails /\ sRun # "ended" /\ conn = "up" /\ NextFile(e)
  /\ FailFile(e)
  /\ UNCHANGED <<manifest, disk, walked, batch, gates, have, sent, checked, okS,
                 sRun, conn, toS, frames, rxVars>>

\* taskDone after the last chunk: a source that changed fails the file, unless
\* the receiver's outcome came first.
TaskDone(e, changed) ==
  /\ sRun # "ended" /\ e \in sent \ checked
  /\ changed => SourceFails
  /\ checked' = checked \cup {e}
  /\ IF changed /\ e \notin resolvedIDs THEN FailFile(e)
     ELSE UNCHANGED <<resolvedIDs, errS, toR>>
  /\ UNCHANGED <<manifest, disk, walked, batch, gates, have, sent, okS,
                 sRun, conn, toS, frames, rxVars>>

AllResolved == Cardinality(resolvedIDs) >= walked

\* Run ends: every entry has an outcome, the receiver said Done, or the
\* connection is gone.
SenderEnd ==
  /\ sRun = "wait" /\ AllResolved
  /\ sRun' = "ended"
  /\ UNCHANGED <<manifest, disk, walked, batch, gates, have, sent, checked, resolvedIDs,
                 okS, errS, conn, toR, toS, frames, rxVars>>
SenderStops ==
  /\ sRun # "ended" /\ (conn = "closed" \/ Heard(toS, "done"))
  /\ sRun' = "ended"
  /\ UNCHANGED <<manifest, disk, walked, batch, gates, have, sent, checked, resolvedIDs,
                 okS, errS, conn, toR, toS, frames, rxVars>>
\* The wait for outcomes is cut short when nothing has moved for two minutes.
SenderStalls ==
  /\ sRun = "wait" /\ sRun' = "ended"
  /\ UNCHANGED <<manifest, disk, walked, batch, gates, have, sent, checked, resolvedIDs,
                 okS, errS, conn, toR, toS, frames, rxVars>>

CloseConn == conn' = "closed" /\ toR' = <<>> /\ toS' = <<>> /\ frames' = {}

\* The client of a push closes the session when its engine is done, ...
Hangup ==
  /\ conn = "up" /\ sRun = "ended"
  /\ CloseConn
  /\ UNCHANGED <<manifest, disk, sendVars, rxVars>>

\* ... and the connection may be lost at any time.
Lose ==
  /\ conn = "up"
  /\ CloseConn
  /\ UNCHANGED <<manifest, disk, sendVars, rxVars>>

-----------------------------------------------------------------------------
(* Receiver: control reader and preparation *)

Alive == phase # "panic"

\* okEntry, failEntry, okEntryLocked, failFile: count the outcome and echo it.
Resolve(e, o, before, after) ==
  /\ outcome' = [outcome EXCEPT ![e] = o]
  /\ rResolved' = rResolved + 1
  /\ toS' = Send(toS, before \o <<ResultMsg(e, o)>> \o after)

\* processEntry: a hardlink waits for the post-pass, a file for a worker, any
\* other entry is made on the spot; each may be refused.
HearEntry(refused) ==
  /\ Alive /\ held = 0 /\ Heard(toR, "entry")
  /\ toR' = Tail(toR)
  /\ LET e == Head(toR).id
     IN IF phase # "run" THEN UNCHANGED <<held, links, outcome, rResolved, toS>>
        ELSE IF refused \/ KindOf(e) = "dir"
        THEN /\ Resolve(e, IF refused THEN "error" ELSE "ok", <<>>, <<>>)
             /\ UNCHANGED <<held, links>>
        ELSE /\ links' = IF Regular(e) THEN links ELSE links \cup {e}
             /\ held'  = IF Regular(e) THEN e ELSE 0
             /\ UNCHANGED <<outcome, rResolved, toS>>
  /\ UNCHANGED <<manifest, disk, sendVars, conn, frames, phase, preparing, rx, manifestDone,
                 finalQ, watch, jobs>>

\* The select between rehashCh and ctx.Done.  When Run has closed rehashCh
\* both cases are ready, and picking the send panics.
Enqueue ==
  /\ Alive /\ held # 0 /\ held' = 0
  /\ \/ phase \in {"run", "cancelled"} /\ preparing' = preparing \cup {held}
        /\ UNCHANGED <<phase, conn, toR, toS, frames>>
     \/ phase # "run" /\ UNCHANGED <<preparing, phase, conn, toR, toS, frames>>
     \/ phase \in {"closed", "flushed"} /\ phase' = "panic" /\ CloseConn /\ UNCHANGED preparing
  /\ UNCHANGED <<manifest, disk, sendVars, rx, links, manifestDone, rResolved,
                 finalQ, watch, jobs, outcome>>

\* ManifestEnd: from now on the totals are known.
HearEnd ==
  /\ Alive /\ held = 0 /\ Heard(toR, "end") /\ toR' = Tail(toR)
  /\ manifestDone' = TRUE
  /\ UNCHANGED <<manifest, disk, sendVars, conn, toS, frames, phase, held, preparing, rx,
                 links, rResolved, finalQ, watch, jobs, outcome>>

\* senderFileError: the file is closed if it is still open; it counts as
\* resolved in any case.
HearFileError ==
  /\ Alive /\ held = 0 /\ Heard(toR, "fileError") /\ toR' = Tail(toR)
  /\ rResolved' = rResolved + 1
  /\ LET e == Head(toR).id
     IN IF rx[e] # "open" THEN UNCHANGED <<rx, outcome>>
        ELSE /\ rx' = [rx EXCEPT ![e] = "error"]
             /\ outcome' = [outcome EXCEPT ![e] = "sender"]
  /\ UNCHANGED <<manifest, disk, sendVars, conn, toS, frames, phase, held, preparing,
                 links, manifestDone, finalQ, watch, jobs>>

Prepares(e) == Alive /\ e \in preparing /\ preparing' = preparing \ {e}

\* prepareRegular, a complete final: skipped, and not registered in files.
PrepareSkip(e) ==
  /\ Prepares(e) /\ e \in disk
  /\ Resolve(e, "ok", <<HaveMsg(e, "skip")>>, <<>>)
  /\ UNCHANGED <<manifest, disk, sendVars, conn, toR, frames, phase, held, rx, links,
                 manifestDone, finalQ, watch, jobs>>

\* prepareRegular, an empty file: made on the spot and registered as a stub;
\* its outcome goes out before its bitmap.
PrepareEmpty(e) ==
  /\ Prepares(e) /\ e \notin disk /\ KindOf(e) = "empty"
  /\ rx' = [rx EXCEPT ![e] = "stub"]
  /\ Resolve(e, "ok", <<>>, <<HaveMsg(e, "all")>>)
  /\ UNCHANGED <<manifest, disk, sendVars, conn, toR, frames, phase, held, links,
                 manifestDone, finalQ, watch, jobs>>

\* prepareRegular, a part: registered, then announced; a part that is complete
\* already is queued for finalize.
PreparePart(e, complete) ==
  /\ Prepares(e) /\ e \notin disk /\ KindOf(e) = "file"
  /\ rx' = [rx EXCEPT ![e] = "open"]
  /\ toS' = Send(toS, <<HaveMsg(e, IF complete THEN "all" ELSE "part")>>)
  /\ finalQ' = IF complete THEN finalQ \cup {e} ELSE finalQ
  /\ UNCHANGED <<manifest, disk, sendVars, conn, toR, frames, phase, held, links,
                 manifestDone, rResolved, watch, jobs, outcome>>

\* prepareRegular gives the entry up: no bitmap, but for an empty file.
PrepareFails(e) ==
  /\ Prepares(e) /\ e \notin disk
  /\ Resolve(e, "error", <<>>, IF KindOf(e) = "empty" THEN <<HaveMsg(e, "all")>> ELSE <<>>)
  /\ UNCHANGED <<manifest, disk, sendVars, conn, toR, frames, phase, held, rx, links,
                 manifestDone, finalQ, watch, jobs>>

-----------------------------------------------------------------------------
(* Receiver: chunks, finalizer, post-pass, Done, end of Run *)

\* The last chunk of a file is absorbed; frames of a resolved file are dropped.
Arrive(e) ==
  /\ Alive /\ e \in frames /\ frames' = frames \ {e}
  /\ finalQ' = IF rx[e] = "open" THEN finalQ \cup {e} ELSE finalQ
  /\ UNCHANGED <<manifest, disk, sendVars, conn, toR, toS, phase, held, preparing, rx, links,
                 manifestDone, rResolved, watch, jobs, outcome>>

\* mutant: a file that failed in the meantime is finalized all the same
FinalizableAny(e) == rx[e] # "none"
\* finalize does nothing for a file that is resolved or errored
Finalizable(e) == rx[e] = "open"

Finalize(e) ==
  /\ Alive /\ phase # "flushed" /\ e \in finalQ /\ finalQ' = finalQ \ {e}
  /\ IF ~Finalizable(e) THEN UNCHANGED <<rx, outcome, rResolved, toS>>
     ELSE rx' = [rx EXCEPT ![e] = "ok"] /\ Resolve(e, "ok", <<>>, <<>>)
  /\ UNCHANGED <<manifest, disk, sendVars, conn, toR, frames, phase, held, preparing, links,
                 manifestDone, watch, jobs>>

\* failFile: retries exhausted, or finalize could not sync, close or rename.
RxFails(e) ==
  /\ Alive /\ phase # "flushed" /\ rx[e] = "open" /\ (e \in frames \/ e \in finalQ)
  /\ rx' = [rx EXCEPT ![e] = "error"]
  /\ frames' = frames \ {e} /\ finalQ' = finalQ \ {e}
  /\ Resolve(e, "error", <<>>, <<>>)
  /\ UNCHANGED <<manifest, disk, sendVars, conn, toR, phase, held, preparing, links,
                 manifestDone, watch, jobs>>

\* mutant: hardlink jobs are forgotten in the count, as if they were resolved
PostDueEarly == manifestDone /\ rResolved + 2 * Cardinality(links) >= Total
\* everything but the hardlinks is resolved
PostDue == manifestDone /\ rResolved + Cardinality(links) >= Total

\* watchCompletion starts the post-pass ...
PostPass ==
  /\ Alive /\ watch = "wait" /\ PostDue
  /\ watch' = "post" /\ jobs' = links
  /\ UNCHANGED <<manifest, disk, sendVars, conn, toR, toS, frames, phase, held, preparing, rx,
                 links, manifestDone, rResolved, finalQ, outcome>>

\* ... also when the control stream has ended, whatever is resolved by then;
\* it may see the cancelled context first, and give up.
PostLost ==
  /\ Alive /\ conn = "closed" /\ held = 0 /\ watch = "wait"
  /\ watch' = "last" /\ jobs' = links
  /\ UNCHANGED <<manifest, disk, sendVars, conn, toR, toS, frames, phase, held, preparing, rx,
                 links, manifestDone, rResolved, finalQ, outcome>>
WatchGone ==
  /\ Alive /\ watch' = "gone"
  /\ \/ phase # "run" /\ watch \in {"wait", "posted"}
     \/ conn = "closed" /\ watch = "posted"
  /\ UNCHANGED <<manifest, disk, sendVars, conn, toR, toS, frames, phase, held, preparing, rx,
                 links, manifestDone, rResolved, finalQ, jobs, outcome>>

\* maybePostPass makes one hardlink; its source must be in files and sound.
PostLink(e, fails) ==
  /\ Alive /\ watch \in {"post", "last"} /\ e \in jobs /\ jobs' = jobs \ {e}
  /\ rx[manifest[e].ref] \in {"none", "error"} => fails
  /\ Resolve(e, IF fails THEN "error" ELSE "ok", <<>>, <<>>)
  /\ UNCHANGED <<manifest, disk, sendVars, conn, toR, frames, phase, held, preparing, rx,
                 links, manifestDone, finalQ, watch>>

\* Directory attributes, and the post-pass is over.
PostEnd ==
  /\ Alive /\ watch \in {"post", "last"} /\ jobs = {}
  /\ watch' = IF watch = "post" THEN "posted" ELSE "gone"
  /\ UNCHANGED <<manifest, disk, sendVars, conn, toR, toS, frames, phase, held, preparing, rx,
                 links, manifestDone, rResolved, finalQ, jobs, outcome>>

\* Everything is resolved: Done, Goodbye, cancel.
Done ==
  /\ Alive /\ watch = "posted" /\ manifestDone /\ rResolved >= Total
  /\ watch' = "done"
  /\ toS' = Send(toS, <<DoneMsg>>)
  /\ phase' = IF phase = "run" THEN "cancelled" ELSE phase
  /\ UNCHANGED <<manifest, disk, sendVars, conn, toR, frames, held, preparing, rx, links,
                 manifestDone, rResolved, finalQ, jobs, outcome>>

\* Run: the accept loop returns when the session is gone, or, after Done, when
\* the sender's workers have closed their streams, ...
Cancel ==
  /\ phase = "run" /\ conn = "closed"
  /\ phase' = "cancelled"
  /\ UNCHANGED <<manifest, disk, sendVars, conn, toR, toS, frames, held, preparing, rx, links,
                 manifestDone, rResolved, finalQ, watch, jobs, outcome>>
\* ... rehashCh is closed, without waiting for the control reader, ...
CloseRehash ==
  /\ phase = "cancelled" /\ frames = {} /\ (conn = "closed" \/ sRun = "ended")
  /\ phase' = "closed"
  /\ UNCHANGED <<manifest, disk, sendVars, conn, toR, toS, frames, held, preparing, rx, links,
                 manifestDone, rResolved, finalQ, watch, jobs, outcome>>
\* ... the workers and the finalizer's queue run dry, and sidecars are flushed.
Flush ==
  /\ phase = "closed" /\ preparing = {} /\ finalQ = {}
  /\ phase' = "flushed"
  /\ UNCHANGED <<manifest, disk, sendVars, conn, toR, toS, frames, held, preparing, rx, links,
                 manifestDone, rResolved, finalQ, watch, jobs, outcome>>

-----------------------------------------------------------------------------
(* Specification *)

Init ==
  /\ manifest \in Manifests
  /\ disk \in SUBSET {e \in Entry : Regular(e)}
  /\ walked = 0 /\ batch = <<>> /\ gates = 0
  /\ have = [e \in Entry |-> "none"]
  /\ sent = {} /\ checked = {} /\ resolvedIDs = {} /\ okS = {} /\ errS = {}
  /\ sRun = "walk"
  /\ conn = "up" /\ toR = <<>> /\ toS = <<>> /\ frames = {}
  /\ phase = "run" /\ held = 0 /\ preparing = {}
  /\ rx = [e \in Entry |-> "none"]
  /\ links = {} /\ manifestDone = FALSE /\ rResolved = 0 /\ finalQ = {}
  /\ watch = "wait" /\ jobs = {}
  /\ outcome = [e \in Entry |-> "none"]

Sender ==
  \/ Walk
  \/ WalkEnd
  \/ GateOpen
  \/ FileResult
  \/ \E e \in Entry : SendData(e)
  \/ \E e \in Entry : SendFails(e)
  \/ \E e \in sent, changed \in BOOLEAN : TaskDone(e, changed)
  \/ SenderEnd
  \/ SenderStops
  \/ SenderStalls
  \/ Hangup

Receiver ==
  \/ \E refused \in BOOLEAN : HearEntry(refused)
  \/ Enqueue
  \/ HearEnd
  \/ HearFileError
  \/ \E e \in preparing : PrepareSkip(e)
  \/ \E e \in preparing : PrepareEmpty(e)
  \/ \E e \in preparing, complete \in BOOLEAN : PreparePart(e, complete)
  \/ \E e \in preparing : PrepareFails(e)
  \/ \E e \in frames : Arrive(e)
  \/ \E e \in finalQ : Finalize(e)
  \/ \E e \in frames \cup finalQ : RxFails(e)
  \/ PostPass
  \/ PostLost
  \/ WatchGone
  \/ \E e \in jobs, fails \in BOOLEAN : PostLink(e, fails)
  \/ PostEnd
  \/ Done
  \/ Cancel
  \/ CloseRehash
  \/ Flush

Next == Sender \/ Receiver \/ Lose

Spec == Init /\ [][Next]_vars

\* The goroutines of both engines keep running, and a push closes its session
\* when the sender is done; nothing obliges the connection to break, a source
\* or a preparation to fail, or the sender to lose patience.
Fairness ==
  /\ WF_vars(Walk \/ WalkEnd) /\ WF_vars(GateOpen \/ FileResult)
  /\ WF_vars(\E e \in Entry : SendData(e))
  /\ WF_vars(\E e \in sent, changed \in BOOLEAN : TaskDone(e, changed))
  /\ WF_vars(SenderEnd \/ SenderStops) /\ WF_vars(Hangup)
  /\ WF_vars(\E refused \in BOOLEAN : HearEntry(refused))
  /\ WF_vars(Enqueue) /\ WF_vars(HearEnd \/ HearFileError)
  /\ WF_vars(\E e \in preparing :
                \/ PrepareSkip(e) \/ PrepareEmpty(e)
                \/ \E complete \in BOOLEAN : PreparePart(e, complete))
  /\ WF_vars(\E e \in frames : Arrive(e)) /\ WF_vars(\E e \in finalQ : Finalize(e))
  /\ WF_vars(PostPass \/ PostLost) /\ WF_vars(PostEnd \/ Done)
  /\ WF_vars(\E e \in jobs, fails \in BOOLEAN : PostLink(e, fails))
  /\ WF_vars(Cancel) /\ WF_vars(CloseRehash) /\ WF_vars(Flush)

FairSpec == Spec /\ Fairness

-----------------------------------------------------------------------------
(* Properties *)

TypeSender ==
  /\ walked \in 0 .. Total /\ batch \in Seq(Entry) /\ gates \in Int
  /\ have \in [Entry -> {"none", "skip", "all", "part"}]
  /\ sent \in SUBSET Entry /\ checked \in SUBSET sent /\ resolvedIDs \in SUBSET Entry
  /\ okS \in SUBSET resolvedIDs /\ errS \in SUBSET resolvedIDs
  /\ sRun \in {"walk", "wait", "ended"}

TypeReceiver ==
  /\ phase \in {"run", "cancelled", "closed", "flushed", "panic"}
  /\ held \in 0 .. Total /\ preparing \in SUBSET Entry
  /\ rx \in [Entry -> {"none", "open", "stub", "ok", "error"}]
  /\ links \in SUBSET Entry /\ manifestDone \in BOOLEAN /\ rResolved \in Nat
  /\ finalQ \in SUBSET Entry /\ jobs \in SUBSET links
  /\ watch \in {"wait", "post", "last", "posted", "done", "gone"}
  /\ outcome \in [Entry -> {"none", "ok", "error", "sender"}]

\* Types; an entry is on its way to the receiver at most once, and in one place.
TypeOK ==
  /\ manifest \in Manifests /\ disk \in SUBSET Entry
  /\ TypeSender /\ TypeReceiver
  /\ conn \in {"up", "closed"} /\ frames \in SUBSET Entry
  /\ held \notin preparing

\* No credit is lost: the walker is never held back by more files than are
\* really waiting for their have-information (sender.go:331-342, 661-669).
Waiting == {e \in 1 .. walked : Regular(e) /\ have[e] = "none" /\ e \notin resolvedIDs}
CreditHeld == gates <= Cardinality(Waiting)

\* An entry the sender reports as transferred has landed at the receiver.
ReportSound == \A e \in okS : outcome[e] = "ok"

\* An entry has one outcome at the receiver: what a late failure, a late
\* finalize or a frame of a resolved file does never changes it.
OutcomeFinal == [][\A e \in Entry : outcome[e] # "none" => outcome'[e] = outcome[e]]_vars

\* What the receiver has an outcome of.
Settled == {e \in Entry : outcome[e] # "none"}

\* The sender failed a file the receiver had already settled by itself, or has
\* heard that it had.
Crossed == \E e \in errS : outcome[e] = "ok" \/ (outcome[e] = "error" /\ e \in sent)

\* The receiver's count is the number of entries it has settled, unless failures
\* crossed; and where the count is right the post-pass of a session in progress
\* starts when every other entry is settled, so that no hardlink is made to a
\* file still in transfer, and Done is said when everything is
\* (receiver.go:1255-1281; a count that is not right: DoneComplete).
PassOrder ==
  /\ ~Crossed => rResolved = Cardinality(Settled)
  /\ rResolved = Cardinality(Settled) =>
       /\ watch \in {"post", "posted", "done"} => Entry \ Settled \subseteq links
       /\ watch = "done" => Settled = Entry

\* Run "drives the receiver until the transfer completes or the connection
\* dies" (receiver.go:235): Done means that every entry was settled.
DoneComplete == watch = "done" => \A e \in Entry : outcome[e] # "none"

\* Post-pass hardlinks can "resolve the destination path" of every entry that
\* landed, with or without a part file (receiver.go:901-902).
Registered == \A e \in Entry : Regular(e) /\ outcome[e] = "ok" => rx[e] # "none"

\* "The receiver flushes its sidecars on disconnect" (session.go:555): its
\* unwinding does not take the process down.
NoPanic == phase # "panic"

\* Whatever fails on the way, and even if the connection breaks, both engines
\* stop: no walker waits for a credit, and no watcher for an outcome, that
\* does not come.
SessionEnds == <>(sRun = "ended" /\ phase \in {"flushed", "panic"})
=============================================================================
