------------------------------- MODULE Swarm --------------------------------
(***************************************************************************)
(* One joiner of a swarm: internal/relay/swarm_join.go with its picker     *)
(* (swarm_picker.go) and the serving of what it holds (swarm_peer.go).     *)
(* Workers pick chunks, fetch each from a peer or the HTTP source, check   *)
(* it against the catalog and write it into a part; when all are done,     *)
(* each file is checked as a whole and renamed.  The joiner serves chunks  *)
(* to others all the while, may be interrupted or killed at any moment,    *)
(* and is run again over what it left.                                     *)
(*                                                                         *)
(* The other members are the environment: what a peer answers is chosen    *)
(* at the moment it is asked.  Rarity is whatever they announce, so any    *)
(* pending chunk may be the rarest.  Contents: "good" is what the spec's   *)
(* hashes stand for, "bad" anything else, "hole" never written.            *)
(***************************************************************************)
EXTENDS Integers, Sequences, FiniteSets

CONSTANTS
  Files,      \* Spec.Files, in their order
  Chunks,     \* [file -> number of chunks]
  Workers,    \* j.Parallel
  Conns,      \* serving connections (maxServeConns in the code)
  Peers,      \* the other members
  Liars,      \* those that may serve wrong bytes
  Seeds,      \* those that may be reliable: always answer, with the right bytes
  UseHTTP,    \* HTTPBase is set
  Catalogs,   \* {TRUE} for v2 specs, {FALSE} for v1, or both
  Finals,     \* what may be at the destinations before
  Leftovers,  \* sets of files that may have a part before
  Interrupts, \* Ctrl-C may come
  Stays,      \* {TRUE} with --seed, {FALSE} without, or both
  MaxFails,   \* a chunk's failures before the join gives up (6 in the code)
  DiskFails,  \* disk calls may fail
  MaxRuns     \* bound: runs of the joiner

FileSet == {Files[i] : i \in DOMAIN Files}
Tasks == UNION {{f} \X (1 .. Chunks[f]) : f \in FileSet}
Of(f) == {t \in Tasks : t[1] = f}
HTTP == "http"

ASSUME SpecAssumption ==
  /\ Files \in Seq(FileSet) /\ Chunks \in [FileSet -> Nat]
  /\ \A i, j \in DOMAIN Files : Files[i] = Files[j] => i = j
ASSUME PeerAssumption == Liars \subseteq Peers /\ Seeds \subseteq Peers \ Liars /\ HTTP \notin Peers
ASSUME OptionAssumption ==
  /\ UseHTTP \in BOOLEAN /\ Stays \subseteq BOOLEAN /\ DiskFails \in BOOLEAN
  /\ Leftovers \subseteq SUBSET FileSet /\ Interrupts \in BOOLEAN
  /\ Workers # {} /\ IsFiniteSet(Workers) /\ Catalogs \subseteq BOOLEAN /\ Finals \subseteq [FileSet -> {"none", "old", "good"}]
ASSUME BoundAssumption == MaxFails \in Nat \ {0} /\ MaxRuns \in Nat

VARIABLES
  \* the disk
  part,       \* [task -> content], of the fixed <file>.fs-part
  hasPart,    \* files that have a part
  final,      \* [file -> "none", "old" or "good"]
  \* the spec
  catalog,    \* it carries chunk hashes (v2)
  reliable,   \* the seeds are up for good, and the tracker's answers come whole
  \* the joiner
  phase,      \* "off", "announce", "fetch", "finalize", "stay", "done", "failed"
  cancelled,  \* the context of Run
  fatal,      \* fatal # nil, which cancels the workers' context
  tasks, pending, inflight, done, fails,      \* picker
  work,       \* [worker -> what it is doing]
  parts,      \* files whose part is open: j.parts
  avail, verified, banned, curPeers,
  which, step,   \* the file being finalized, and how far
  srv,        \* [connection -> a request being answered]
  runs

disk == <<part, hasPart, final>>
setting == <<catalog, reliable>>
picker == <<tasks, pending, inflight, done, fails>>
ctx == <<cancelled, fatal>>
joiner == <<avail, verified, parts>>
known == <<banned, curPeers>>
finalizing == <<which, step>>
vars == <<disk, setting, phase, ctx, picker, work, joiner, known, finalizing, srv, runs>>

Idle == [pc |-> "idle"]
Free == [pc |-> "free"]
Stopped == cancelled \/ fatal

-----------------------------------------------------------------------------
(* Starting: the scan of what is there, and the first announce *)

\* localChunks: a whole final, else the chunks of the part that match the
\* catalog; without a catalog, those that are not all zero.
Found(t) ==
  \/ final[t[1]] = "good"
  \/ /\ t[1] \in hasPart
     /\ (part[t] = "good" \/ (~catalog /\ part[t] = "bad"))

Start ==
  /\ phase = "off" /\ runs < MaxRuns
  /\ runs' = runs + 1
  /\ verified' = {f \in FileSet : final[f] = "good"}
  /\ avail' = {t \in Tasks : Found(t)}
  /\ tasks' = Tasks \ avail' /\ pending' = tasks'
  /\ inflight' = [t \in Tasks |-> 0] /\ fails' = [t \in Tasks |-> 0] /\ done' = {}
  /\ phase' = "announce"
  /\ UNCHANGED <<disk, setting, ctx, work, parts, known, finalizing, srv>>

\* The first announce, tried six times: peers are known, or the run fails.
Announce(answer) ==
  /\ phase = "announce"
  /\ phase' = IF answer = {} \/ cancelled THEN "failed" ELSE "fetch"
  /\ curPeers' = answer
  /\ UNCHANGED <<disk, setting, ctx, picker, work, joiner, banned, finalizing, srv, runs>>

\* reannounceLoop: an empty answer is ignored.
Reannounce(answer) ==
  /\ phase \in {"fetch", "finalize", "stay"} /\ ~cancelled
  /\ answer # {} /\ curPeers' = answer
  /\ UNCHANGED <<disk, setting, phase, ctx, picker, work, joiner, banned, finalizing, srv, runs>>

-----------------------------------------------------------------------------
(* The picker *)

AllDone == done = tasks

\* A pending chunk; with none left, one that somebody else is fetching.
PickFrom == IF AllDone THEN {} ELSE
            IF pending # {} THEN pending ELSE {t \in tasks : inflight[t] > 0}

Release(t) == inflight' = [inflight EXCEPT ![t] = IF @ > 0 THEN @ - 1 ELSE 0]

CompleteTask(t) ==
  /\ Release(t)
  /\ done' = done \cup {t} /\ pending' = pending \ {t}
  /\ fails' = IF t \in done THEN fails ELSE [fails EXCEPT ![t] = 0]
  /\ UNCHANGED tasks

\* mutant: a failed chunk is not wanted again
FailTaskQuiet(t) ==
  /\ Release(t)
  /\ fails' = IF t \in done THEN fails ELSE [fails EXCEPT ![t] = @ + 1]
  /\ UNCHANGED <<tasks, done, pending>>

FailTask(t) ==
  /\ Release(t)
  /\ IF t \in done THEN UNCHANGED <<fails, pending>>
     ELSE /\ fails' = [fails EXCEPT ![t] = @ + 1]
          /\ pending' = IF fails[t] + 1 >= MaxFails THEN pending ELSE pending \cup {t}
  /\ UNCHANGED <<tasks, done>>

-----------------------------------------------------------------------------
(* A worker *)

Worker(w, pc) == phase = "fetch" /\ work[w].pc = pc

\* Those fetchWithRetry asks, over and over: a banned peer is passed by.
Sources(ps) == (ps \ banned) \cup (IF UseHTTP THEN {HTTP} ELSE {})

\* peersSnapshot, then pick.
Pick(w, t) ==
  /\ Worker(w, "idle") /\ ~Stopped /\ t \in PickFrom
  /\ pending' = pending \ {t} /\ inflight' = [inflight EXCEPT ![t] = @ + 1]
  /\ work' = [work EXCEPT ![w] = [pc |-> "fetch", task |-> t, peers |-> curPeers, hung |-> FALSE]]
  /\ UNCHANGED <<disk, setting, phase, ctx, tasks, done, fails, joiner, known, finalizing, srv, runs>>

WorkerReturns(w) ==
  /\ Worker(w, "idle") /\ (Stopped \/ AllDone)
  /\ work' = [work EXCEPT ![w] = [pc |-> "returned"]]
  /\ UNCHANGED <<disk, setting, phase, ctx, picker, joiner, known, finalizing, srv, runs>>

\* PeerFetch and httpFetchChunk: the chunk, or a refusal, a miss or a break;
\* a liar or a static host may send other bytes of the right length.
Answers(s) ==
  IF reliable /\ s \in Seeds THEN {"good"}
  ELSE IF s \in Liars \cup {HTTP} THEN {"good", "bad", "none"} ELSE {"good", "none"}

\* mutant: the catalog is consulted for peers only at finalize
ChunkOKLate(data) == data # "none"
ChunkOK(data) == data = "good" \/ (data = "bad" /\ ~catalog)

\* What comes back from a source comes while the fetch is not hung.
Fetching(w) == Worker(w, "fetch") /\ ~work[w].hung

\* The static host takes the request and sends no more: it is asked without a
\* timeout, after every peer has failed, and only the context ends the wait.
\* (A peer has 60 seconds; a host that is merely slow is one that answers.)
Hangs(w) ==
  /\ Fetching(w) /\ ~Stopped /\ UseHTTP
  /\ \A p \in work[w].peers \ banned : Answers(p) # {"good"}
  /\ work' = [work EXCEPT ![w].hung = TRUE]
  /\ UNCHANGED <<disk, setting, phase, ctx, picker, joiner, known, finalizing, srv, runs>>

\* A source answers with bytes that pass.
Fetched(w, data) ==
  /\ Fetching(w) /\ ~Stopped
  /\ ChunkOK(data) /\ \E s \in Sources(work[w].peers) : data \in Answers(s)
  /\ work' = [work EXCEPT ![w] = [pc |-> "got", task |-> work[w].task, data |-> data]]
  /\ UNCHANGED <<disk, setting, phase, ctx, picker, joiner, known, finalizing, srv, runs>>

\* A peer sends bytes that do not: it is banned, and the others are asked.
Lied(w, p) ==
  /\ Fetching(w) /\ ~Stopped
  /\ p \in work[w].peers \ banned /\ "bad" \in Answers(p) /\ ~ChunkOK("bad")
  /\ banned' = banned \cup {p}
  /\ UNCHANGED <<disk, setting, phase, ctx, picker, work, joiner, curPeers, finalizing, srv, runs>>

\* mutant: a peer that lies ends the fetch
AllFailFast(ps) == \E s \in Sources(ps) : Answers(s) # {"good"}
AllFail(ps) == \A s \in Sources(ps) : Answers(s) # {"good"}

\* Every source failed in every round, or the context ended; too many failures
\* of one chunk end the join.
FetchFails(w) ==
  /\ Worker(w, "fetch")
  /\ Stopped \/ (~work[w].hung /\ AllFail(work[w].peers))
  /\ LET t == work[w].task
     IN /\ FailTask(t)
        /\ fatal' = (fatal \/ (t \notin done /\ fails[t] + 1 >= MaxFails))
  /\ work' = [work EXCEPT ![w] = Idle]
  /\ UNCHANGED <<disk, setting, phase, cancelled, joiner, known, finalizing, srv, runs>>

\* The first to complete a chunk writes it; a duplicate drops its bytes.
Complete(w) ==
  /\ Worker(w, "got")
  /\ CompleteTask(work[w].task)
  /\ work' = [work EXCEPT ![w] = IF work[w].task \in done THEN Idle ELSE [@ EXCEPT !.pc = "write"]]
  /\ UNCHANGED <<disk, setting, phase, ctx, joiner, known, finalizing, srv, runs>>

\* writeChunk: the part is opened, the chunk written and then advertised.
Write(w) ==
  /\ Worker(w, "write")
  /\ LET t == work[w].task IN
     /\ part' = [part EXCEPT ![t] = work[w].data]
     /\ hasPart' = hasPart \cup {t[1]} /\ parts' = parts \cup {t[1]}
     /\ avail' = avail \cup {t}
  /\ work' = [work EXCEPT ![w] = Idle]
  /\ UNCHANGED <<final, setting, phase, ctx, picker, verified, known, finalizing, srv, runs>>

\* What a write of a chunk that breaks off leaves of it.
Torn(t, data) == {part[t]} \cup (IF part[t] = data THEN {} ELSE {"bad"})

\* The part cannot be opened, or it is open and the chunk only partly written.
WriteFails(w) ==
  /\ DiskFails /\ Worker(w, "write")
  /\ LET t == work[w].task IN
     \/ UNCHANGED <<part, hasPart, parts>>
     \/ /\ \E x \in Torn(t, work[w].data) : part' = [part EXCEPT ![t] = x]
        /\ hasPart' = hasPart \cup {t[1]} /\ parts' = parts \cup {t[1]}
  /\ fatal' = TRUE
  /\ work' = [work EXCEPT ![w] = Idle]
  /\ UNCHANGED <<final, setting, phase, cancelled, picker, avail, verified, known, finalizing, srv, runs>>

\* mutant: the workers are not waited for
WorkersLeft == phase = "fetch" /\ \E w \in Workers : work[w].pc = "returned"
WorkersDone == phase = "fetch" /\ \A w \in Workers : work[w].pc = "returned"

\* wg.Wait returns; only an error of a worker keeps the files from finalize.
FetchEnds ==
  /\ WorkersDone
  /\ phase' = IF fatal THEN "failed" ELSE "finalize"
  /\ which' = 1 /\ step' = "close"
  /\ UNCHANGED <<disk, setting, ctx, picker, work, joiner, known, srv, runs>>

-----------------------------------------------------------------------------
(* finalize, file by file *)

Current == Files[which]
At(s) == phase = "finalize" /\ which <= Len(Files) /\ step = s

FinalClose ==
  /\ At("close")
  /\ parts' = parts \ {Current} /\ step' = "check"
  /\ UNCHANGED <<disk, setting, phase, ctx, picker, work, avail, verified, known, which, srv, runs>>

Whole(f) == f \in hasPart /\ \A t \in Of(f) : part[t] = "good"

\* mutant: only the length of the part is checked
FinalCheckLen ==
  /\ At("check")
  /\ IF Current \in hasPart THEN step' = "rename" /\ UNCHANGED phase
     ELSE phase' = "failed" /\ UNCHANGED step
  /\ UNCHANGED <<disk, setting, ctx, picker, work, joiner, known, which, srv, runs>>

\* The part is hashed: one that is missing fails the run, a wrong one is removed.
FinalCheck ==
  /\ At("check")
  /\ IF Whole(Current)
     THEN step' = "rename" /\ UNCHANGED <<part, hasPart, phase>>
     ELSE /\ phase' = "failed" /\ UNCHANGED step
          /\ hasPart' = hasPart \ {Current}
          /\ part' = [t \in Tasks |-> IF t[1] = Current THEN "hole" ELSE part[t]]
  /\ UNCHANGED <<final, setting, ctx, picker, work, joiner, known, which, srv, runs>>

FinalRename ==
  /\ At("rename")
  /\ final' = [final EXCEPT ![Current] = IF Whole(Current) THEN "good" ELSE "bad"]
  /\ hasPart' = hasPart \ {Current}
  /\ part' = [t \in Tasks |-> IF t[1] = Current THEN "hole" ELSE part[t]]
  /\ step' = "mark"
  /\ UNCHANGED <<setting, phase, ctx, picker, work, joiner, known, which, srv, runs>>

FinalRenameFails ==
  /\ DiskFails /\ At("rename")
  /\ phase' = "failed"
  /\ UNCHANGED <<disk, setting, ctx, picker, work, joiner, known, finalizing, srv, runs>>

FinalMark ==
  /\ At("mark")
  /\ verified' = verified \cup {Current}
  /\ which' = which + 1 /\ step' = "close"
  /\ UNCHANGED <<disk, setting, phase, ctx, picker, work, avail, parts, known, srv, runs>>

RunEnds ==
  /\ \/ /\ phase = "finalize" /\ which > Len(Files)
        /\ \E s \in Stays : phase' = IF s THEN "stay" ELSE "done"
     \/ phase = "stay" /\ cancelled /\ phase' = "done"
  /\ UNCHANGED <<disk, setting, ctx, picker, work, joiner, known, finalizing, srv, runs>>

-----------------------------------------------------------------------------
(* Serving: servePeerConn and ReadPiece *)

Running == phase # "off"

Offered(t) == t[1] \in verified \/ t \in avail

\* What ReadPiece looks up under the lock.  A piece that is not held is a miss,
\* and so is one refused because every connection is taken.
ServeAsk(c, t) ==
  /\ Running /\ srv[c].pc = "free" /\ Offered(t)
  /\ srv' = [srv EXCEPT ![c] = [pc |-> "read", task |-> t,
                                final |-> t[1] \in verified, open |-> t[1] \in parts]]
  /\ UNCHANGED <<disk, setting, phase, ctx, picker, work, joiner, known, finalizing, runs>>

\* Then it reads: the part if it is still open, the final path otherwise.
Piece(q) ==
  IF ~q.final /\ q.open /\ q.task[1] \in parts THEN part[q.task] ELSE final[q.task[1]]

ServeRead(c) ==
  /\ Running /\ srv[c].pc = "read"
  /\ srv' = [srv EXCEPT ![c] = IF Piece(srv[c]) = "none" THEN Free
               ELSE [pc |-> "sent", data |-> Piece(srv[c])]]
  /\ UNCHANGED <<disk, setting, phase, ctx, picker, work, joiner, known, finalizing, runs>>

ServeDone(c) ==
  /\ srv[c].pc = "sent"
  /\ srv' = [srv EXCEPT ![c] = Free]
  /\ UNCHANGED <<disk, setting, phase, ctx, picker, work, joiner, known, finalizing, runs>>

-----------------------------------------------------------------------------
(* Interruption and death *)

\* Ctrl-C: the context of Run ends; Run itself goes on to its return.
Cancel ==
  /\ Interrupts /\ ~cancelled /\ phase \in {"announce", "fetch", "finalize", "stay"}
  /\ cancelled' = TRUE
  /\ UNCHANGED <<disk, setting, phase, fatal, picker, work, joiner, known, finalizing, srv, runs>>

\* What is in memory is gone.
Forget ==
  /\ phase' = "off" /\ cancelled' = FALSE /\ fatal' = FALSE
  /\ tasks' = {} /\ pending' = {} /\ done' = {}
  /\ inflight' = [t \in Tasks |-> 0] /\ fails' = [t \in Tasks |-> 0]
  /\ work' = [w \in Workers |-> Idle] /\ srv' = [c \in Conns |-> Free]
  /\ parts' = {} /\ avail' = {} /\ verified' = {} /\ banned' = {} /\ curPeers' = {}
  /\ which' = 1 /\ step' = "close"
  /\ UNCHANGED <<setting, runs>>

Exit == phase \in {"done", "failed"} /\ Forget /\ UNCHANGED disk

\* A crash: of a part that was not synced, any chunks may be lost.
Crash(lost) ==
  /\ phase \notin {"off", "done", "failed"}
  /\ lost \subseteq {t \in Tasks : t[1] \in parts /\ part[t] # "hole"}
  /\ part' = [t \in Tasks |-> IF t \in lost THEN "hole" ELSE part[t]]
  /\ Forget /\ UNCHANGED <<hasPart, final>>

-----------------------------------------------------------------------------

\* Parts may be left of earlier runs that were killed, with any of the chunks
\* written; some of them wrong, if an earlier run had no catalog.
Init ==
  /\ hasPart \in Leftovers
  /\ part \in [Tasks -> {"good", "bad", "hole"}]
  /\ \A t \in Tasks : t[1] \notin hasPart => part[t] = "hole"
  /\ final \in Finals /\ catalog \in Catalogs /\ reliable \in BOOLEAN
  /\ phase = "off" /\ cancelled = FALSE /\ fatal = FALSE
  /\ tasks = {} /\ pending = {} /\ done = {}
  /\ inflight = [t \in Tasks |-> 0] /\ fails = [t \in Tasks |-> 0]
  /\ work = [w \in Workers |-> Idle] /\ srv = [c \in Conns |-> Free]
  /\ parts = {} /\ avail = {} /\ verified = {} /\ banned = {} /\ curPeers = {}
  /\ which = 1 /\ step = "close" /\ runs = 0

\* What announceTo makes of an answer: nobody when the tracker cannot be
\* reached, the members read so far when the answer breaks off, else some
\* members, always the seeds.
TrackerAnswers == {a \in SUBSET Peers : reliable /\ a # {} => Seeds \subseteq a}

WorkerStep(w) ==
  \/ \E t \in Tasks : Pick(w, t)
  \/ WorkerReturns(w)
  \/ \E data \in {"good", "bad"} : Fetched(w, data)
  \/ \E p \in Peers : Lied(w, p)
  \/ FetchFails(w)
  \/ Complete(w)
  \/ Write(w)

FinalizeStep == FinalClose \/ FinalCheck \/ FinalRename \/ FinalMark \/ RunEnds

ServeStep(c) == (\E t \in Tasks : ServeAsk(c, t)) \/ ServeRead(c) \/ ServeDone(c)

Next ==
  \/ Start
  \/ \E a \in TrackerAnswers : Announce(a) \/ Reannounce(a)
  \/ \E w \in Workers : WorkerStep(w) \/ WriteFails(w) \/ Hangs(w)
  \/ FetchEnds
  \/ FinalizeStep
  \/ FinalRenameFails
  \/ \E c \in Conns : ServeStep(c)
  \/ Cancel
  \/ Exit
  \/ \E lost \in SUBSET Tasks : Crash(lost)

Spec == Init /\ [][Next]_vars

\* The announce has an answer, workers are scheduled, finalize goes on.  A
\* fetch returns unless it hangs, and nothing makes one hang.
Fairness ==
  /\ WF_vars(\E a \in TrackerAnswers : Announce(a))
  /\ \A w \in Workers : WF_vars(WorkerStep(w))
  /\ WF_vars(FetchEnds) /\ WF_vars(FinalizeStep)

FairSpec == Spec /\ Fairness
-----------------------------------------------------------------------------
(* Properties *)

Content == {"good", "bad", "hole"}
WorkStates ==
  {Idle, [pc |-> "returned"]}
  \cup [pc : {"fetch"}, task : Tasks, peers : SUBSET Peers, hung : BOOLEAN]
  \cup [pc : {"got", "write"}, task : Tasks, data : {"good", "bad"}]
SrvStates ==
  {Free} \cup [pc : {"read"}, task : Tasks, final : BOOLEAN, open : BOOLEAN]
  \cup [pc : {"sent"}, data : Content \cup {"old"}]

\* The types, and what names a position in finalize.
TypeOK ==
  /\ part \in [Tasks -> Content] /\ hasPart \subseteq FileSet
  /\ final \in [FileSet -> {"none", "old", "good", "bad"}] /\ catalog \in BOOLEAN /\ reliable \in BOOLEAN
  /\ phase \in {"off", "announce", "fetch", "finalize", "stay", "done", "failed"}
  /\ cancelled \in BOOLEAN /\ fatal \in BOOLEAN
  /\ tasks \subseteq Tasks /\ pending \subseteq tasks /\ done \subseteq tasks
  /\ inflight \in [Tasks -> 0 .. Cardinality(Workers)] /\ fails \in [Tasks -> Nat]
  /\ \A w \in Workers : work[w] \in WorkStates
  /\ \A c \in Conns : srv[c] \in SrvStates
  /\ parts \subseteq FileSet /\ avail \subseteq Tasks /\ verified \subseteq FileSet
  /\ banned \subseteq Peers /\ curPeers \subseteq Peers
  /\ which \in 1 .. Len(Files) + 1 /\ step \in {"close", "check", "rename", "mark"}
  /\ runs \in 0 .. MaxRuns

Busy(t, pcs) == {w \in Workers : work[w].pc \in pcs /\ work[w].task = t}
Landed(t) == t[1] \in hasPart /\ ChunkOK(part[t])

\* No chunk is forgotten by the picker, whatever the duplicates of the endgame,
\* the failures and the late answers: the count of a chunk's fetchers is the
\* number of workers at it, a chunk not done is pending or being fetched, and
\* one that is done is in the part or about to be, by one worker
\* (swarm_picker.go:41-110).
Wanted ==
  phase = "fetch" =>
    \A t \in tasks :
      /\ inflight[t] = Cardinality(Busy(t, {"fetch", "got"}))
      /\ fatal \/ t \in done \cup pending \/ inflight[t] > 0
      /\ Cardinality(Busy(t, {"write"})) <= IF t \in done /\ ~Landed(t) THEN 1 ELSE 0
      /\ t \in done => fatal \/ Landed(t) \/ Busy(t, {"write"}) # {}

\* The files are checked only when every chunk that was missing is in its part:
\* no write of the endgame comes after (swarm_join.go:367-377).
CompleteAtFinalize ==
  phase = "finalize" /\ ~cancelled =>
    /\ \A w \in Workers : work[w].pc = "returned"
    /\ \A t \in tasks : Landed(t) \/ final[t[1]] = "good"

\* A file is put in place, and counts as verified, only with the right bytes,
\* whatever was there, was resumed or came from peers (swarm_join.go:597-617).
FinalSound ==
  /\ \A f \in FileSet : final[f] # "bad"
  /\ \A f \in verified : final[f] = "good"

\* With a catalog, a chunk the joiner announces is on its disk with the right
\* bytes, in the part or in place (swarm_join.go:545-576, 695-721).
AvailSound ==
  catalog /\ phase # "failed" =>
    \A t \in avail : final[t[1]] = "good" \/ (t[1] \in hasPart /\ part[t] = "good")

\* README.md:30: other joiners are served "verified data only".
ServesVerified ==
  catalog => \A c \in Conns : srv[c].pc = "sent" => srv[c].data = "good"

\* While a member that has everything is known, no chunk counts a failure
\* because of the others, liars or not (swarm_join.go:396-448).
OneGoodPeer == reliable /\ Seeds # {} => \A t \in Tasks : fails[t] > 0 => Stopped

\* swarm_join.go:31-32: "Progress is resumable: existing part content is
\* re-hashed and kept when it matches".  A right chunk on disk stays there or
\* becomes part of the final; only a crash may lose what was not synced.
ProgressKept ==
  [][catalog /\ phase' # "off" => \A t \in Tasks :
       part[t] = "good" => part'[t] = "good" \/ final'[t[1]] = "good"]_vars

\* What is left of a run whose static host has stopped answering.
Stalled ==
  /\ phase = "fetch" /\ ~Stopped
  /\ \E w \in Workers : work[w].pc = "fetch" /\ work[w].hung
  /\ \A w \in Workers : work[w].pc = "returned" \/ (work[w].pc = "fetch" /\ work[w].hung)

\* Every run comes to an end or to seeding: no worker is left waiting for a
\* chunk nobody fetches, and Ctrl-C ends a run whatever its workers wait for
\* (swarm_join.go:313-390).  Excepted is a run all of whose workers are back or
\* waiting for a static host that never answers.
Settles ==
  phase \in {"announce", "fetch"} ~> phase \in {"stay", "done", "failed", "off"} \/ Stalled

\* swarm_picker.go:10-11: the last pieces are fetched twice "so one slow peer
\* cannot stall completion at 99%": once every chunk has come, the run goes on.
EndgameEnds == phase = "fetch" /\ AllDone ~> phase # "fetch"
=============================================================================
