---------------------------- MODULE Swarm_proofs ----------------------------
(* What a joiner puts in place, finalizes and announces is right, and its   *)
(* picker forgets nothing, for every number of files, chunks, workers and   *)
(* peers, over interruptions, crashes and any number of runs; and a tracker *)
(* that is full returns its seeds.                                          *)
EXTENDS Swarm, Tracker, SequenceTheorems, FiniteSetTheorems, TLAPS

(***************************************************************************)
(* FinalSound alone is not inductive: a rename makes a part final, so the  *)
(* part that passed the check must still be whole (Renaming).  Nor is      *)
(* CompleteAtFinalize: that a worker returns only when all is done must    *)
(* reach over the writes that are still to come (DoneLands, Returns).      *)
(***************************************************************************)
SwarmTypes ==
  /\ part \in [Tasks -> Content] /\ hasPart \subseteq FileSet
  /\ final \in [FileSet -> {"none", "old", "good"}]
  /\ catalog \in BOOLEAN /\ cancelled \in BOOLEAN /\ fatal \in BOOLEAN
  /\ work \in [Workers -> WorkStates]
  /\ tasks \subseteq Tasks /\ done \subseteq tasks /\ pending \subseteq tasks
  /\ avail \subseteq Tasks /\ curPeers \subseteq Peers
  /\ which \in Nat \ {0}

\* Before the fetch nobody works and nothing is done.
AtRest ==
  /\ phase \in {"off", "announce"} => done = {} /\ ~fatal /\ \A w \in Workers : work[w].pc = "idle"
  /\ phase = "off" => avail = {} /\ verified = {} /\ tasks = {}

\* What a worker holds has passed the check.
Checked ==
  \A w \in Workers :
    /\ work[w].pc \in {"fetch", "got", "write"} => work[w].task \in tasks
    /\ work[w].pc \in {"got", "write"} => ChunkOK(work[w].data)

\* A chunk that is done is in its part or about to be.
DoneLands ==
  phase = "fetch" /\ ~fatal => \A t \in done : Landed(t) \/ Busy(t, {"write"}) # {}

\* A worker returns when it is told to, or when all is done.
Returns ==
  phase = "fetch" => \A w \in Workers : work[w].pc = "returned" => Stopped \/ AllDone

Renaming ==
  phase = "finalize" /\ which <= Len(Files) =>
    /\ step = "rename" => Whole(Current)
    /\ step = "mark" => final[Current] = "good"

VerifiedSound == \A f \in verified : f \in FileSet /\ final[f] = "good"

SwarmInv ==
  /\ SwarmTypes /\ AtRest /\ Checked /\ DoneLands /\ Returns
  /\ Renaming /\ VerifiedSound /\ CompleteAtFinalize /\ AvailSound

(***************************************************************************)
(* Wanted counts workers.  That one write at most is to come for a chunk   *)
(* rests on a chunk that is not done not being in its part: so a worker    *)
(* that completes it is the first (Missing), and a file without a part has *)
(* no chunks that a new part would bring back (Blank).                     *)
(***************************************************************************)
Counters == inflight \in [Tasks -> Nat] /\ fails \in [Tasks -> Nat]

Blank == \A t \in Tasks : t[1] \notin hasPart => part[t] = "hole"

Missing == phase \in {"announce", "fetch"} => \A t \in tasks \ done : ~Landed(t)

\* Before the fetch every missing chunk is to be picked.
Ready == phase = "announce" => pending = tasks /\ \A t \in Tasks : inflight[t] = 0

PickerInv == Counters /\ Blank /\ Missing /\ Ready /\ Wanted

\* Liars alone are banned, and every fetch knows the seeds that are reliable.
SeedsKnown ==
  /\ banned \subseteq Liars
  /\ reliable /\ phase = "fetch" => /\ Seeds \subseteq curPeers
                        /\ \A w \in Workers : work[w].pc = "fetch" => Seeds \subseteq work[w].peers

SeedInv == Counters /\ SeedsKnown /\ OneGoodPeer

-----------------------------------------------------------------------------
(* What the definitions say *)

\* A chunk is a chunk of a file of the spec.
LEMMA TaskFile == ASSUME NEW t \in Tasks PROVE t[1] \in FileSet
BY DEF Tasks

\* The file being finalized is one of the spec's.
LEMMA CurrentFile ==
  ASSUME which \in Nat \ {0}, which <= Len(Files) PROVE Current \in FileSet
<1>1. which \in 1 .. Len(Files) /\ DOMAIN Files = 1 .. Len(Files)
  BY SpecAssumption, LenProperties
<1> QED
  BY <1>1 DEF Current, FileSet

\* What a worker's state holds.
LEMMA WorkShape ==
  ASSUME SwarmTypes, NEW w \in Workers
  PROVE  /\ work[w].pc \in {"idle", "returned", "fetch", "got", "write"}
         /\ work[w].pc = "fetch" =>
              work[w] \in [pc : {"fetch"}, task : Tasks, peers : SUBSET Peers, hung : BOOLEAN]
         /\ work[w].pc \in {"got", "write"} =>
              work[w] \in [pc : {"got", "write"}, task : Tasks, data : {"good", "bad"}]
<1>1. work[w] \in WorkStates
  BY DEF SwarmTypes
<1> QED
  BY <1>1 DEF WorkStates, Idle

-----------------------------------------------------------------------------
(* The invariant holds at first *)

\* It holds before the first run, whatever is on the disk.
LEMMA SwarmInvInit == ASSUME Init PROVE SwarmInv
<1>1. SwarmTypes
  <2>1. Idle \in WorkStates
    BY DEF WorkStates
  <2>2. work \in [Workers -> WorkStates]
    BY <2>1 DEF Init
  <2>3. part \in [Tasks -> Content]
    BY DEF Init, Content
  <2>4. hasPart \subseteq FileSet /\ catalog \in BOOLEAN
    <3>1. hasPart \in Leftovers /\ catalog \in Catalogs
      BY DEF Init
    <3>2. Leftovers \subseteq SUBSET FileSet /\ Catalogs \subseteq BOOLEAN
      BY OptionAssumption
    <3>3. hasPart \subseteq FileSet
      BY <3>1, <3>2, hasPart \in SUBSET FileSet
    <3> QED
      BY <3>1, <3>2, <3>3
  <2>5. final \in [FileSet -> {"none", "old", "good"}]
    BY OptionAssumption DEF Init
  <2>6. cancelled \in BOOLEAN /\ fatal \in BOOLEAN
    BY DEF Init
  <2>7. tasks \subseteq Tasks /\ done \subseteq tasks /\ pending \subseteq tasks
      /\ avail \subseteq Tasks /\ curPeers \subseteq Peers
    BY DEF Init
  <2>8. which \in Nat \ {0}
    BY DEF Init
  <2> QED
    BY <2>2, <2>3, <2>4, <2>5, <2>6, <2>7, <2>8, Zenon DEF SwarmTypes
<1>2. AtRest /\ Checked /\ DoneLands
  BY DEF Init, AtRest, Checked, DoneLands, Idle
<1>3. Returns /\ Renaming /\ VerifiedSound
  BY DEF Init, Returns, Renaming, VerifiedSound, Idle
<1>4. CompleteAtFinalize /\ AvailSound
  BY DEF Init, CompleteAtFinalize, AvailSound
<1> QED
  BY <1>1, <1>2, <1>3, <1>4 DEF SwarmInv

-----------------------------------------------------------------------------
(* A run starts *)

\* What a step that leaves all this alone does: nothing to the invariant.
invVars ==
  <<part, hasPart, final, catalog, phase, cancelled, fatal, tasks, pending, done, work, avail,
    verified, curPeers, which, step>>

LEMMA Untouched == ASSUME SwarmInv, UNCHANGED invVars PROVE SwarmInv'
<1>1. SwarmTypes' /\ AtRest' /\ Checked'
  BY DEF SwarmInv, SwarmTypes, AtRest, Checked, ChunkOK, invVars
<1>2. DoneLands' /\ Returns'
  BY DEF SwarmInv, DoneLands, Returns, Landed, ChunkOK, Busy, Stopped, AllDone, invVars
<1>3. Renaming' /\ VerifiedSound'
  BY DEF SwarmInv, Renaming, VerifiedSound, Whole, Current, invVars
<1>4. CompleteAtFinalize' /\ AvailSound'
  BY DEF SwarmInv, CompleteAtFinalize, AvailSound, Landed, ChunkOK, invVars
<1> QED
  BY <1>1, <1>2, <1>3, <1>4 DEF SwarmInv

\* Start: what is found is there, and nobody works yet.
LEMMA StartInv == ASSUME SwarmInv, Start PROVE SwarmInv'
<1> USE DEF Start, disk, setting, ctx, known, finalizing
<1>1. SwarmTypes'
  <2>1. tasks' \subseteq Tasks /\ done' \subseteq tasks' /\ pending' \subseteq tasks'
    OBVIOUS
  <2> QED
    BY <2>1 DEF SwarmInv, SwarmTypes
<1>2. AtRest' /\ Checked' /\ DoneLands'
  BY DEF SwarmInv, AtRest, Checked, DoneLands
<1>3. Returns' /\ Renaming' /\ VerifiedSound'
  BY DEF SwarmInv, Returns, Renaming, VerifiedSound
<1>4. CompleteAtFinalize' /\ AvailSound'
  <2>1. catalog => \A t \in avail' : final[t[1]] = "good" \/ (t[1] \in hasPart /\ part[t] = "good")
    BY DEF Found
  <2> QED
    BY <2>1 DEF CompleteAtFinalize, AvailSound
<1> QED
  BY <1>1, <1>2, <1>3, <1>4 DEF SwarmInv

\* Announce: the run goes on with the peers it is told of, or fails.
LEMMA AnnounceInv == ASSUME SwarmInv, NEW a \in TrackerAnswers, Announce(a) PROVE SwarmInv'
<1> USE DEF Announce, disk, setting, ctx, picker, joiner, finalizing
<1>0. a \subseteq Peers
  BY DEF TrackerAnswers
<1>1. SwarmTypes'
  BY <1>0 DEF SwarmInv, SwarmTypes
<1>2. AtRest' /\ Checked'
  BY DEF SwarmInv, AtRest, Checked, ChunkOK
<1>3. DoneLands' /\ Returns'
  BY DEF SwarmInv, AtRest, DoneLands, Returns
<1>4. Renaming' /\ VerifiedSound' /\ CompleteAtFinalize' /\ AvailSound'
  BY DEF SwarmInv, Renaming, VerifiedSound, CompleteAtFinalize, AvailSound
<1> QED
  BY <1>1, <1>2, <1>3, <1>4 DEF SwarmInv

\* Reannounce: only the peers change.
LEMMA ReannounceInv == ASSUME SwarmInv, NEW a \in TrackerAnswers, Reannounce(a) PROVE SwarmInv'
<1> USE DEF Reannounce, disk, setting, ctx, picker, joiner, finalizing
<1>0. a \subseteq Peers
  BY DEF TrackerAnswers
<1>1. SwarmTypes'
  BY <1>0 DEF SwarmInv, SwarmTypes
<1>2. AtRest' /\ Checked' /\ DoneLands' /\ Returns'
  BY DEF SwarmInv, AtRest, Checked, DoneLands, Returns, Landed, ChunkOK, Busy, Stopped, AllDone
<1>3. Renaming' /\ VerifiedSound' /\ CompleteAtFinalize' /\ AvailSound'
  BY DEF SwarmInv, Renaming, VerifiedSound, CompleteAtFinalize, AvailSound, Whole, Current, Landed, ChunkOK
<1> QED
  BY <1>1, <1>2, <1>3 DEF SwarmInv

-----------------------------------------------------------------------------
(* The workers *)

\* A step of one worker in the fetch that leaves the disk and what is
\* announced alone keeps what is said of the files and of finalize.
LEMMA FilesKept ==
  ASSUME SwarmInv, phase = "fetch", phase' = phase,
         UNCHANGED <<part, hasPart, final, catalog, avail, verified>>
  PROVE  Renaming' /\ VerifiedSound' /\ CompleteAtFinalize' /\ AvailSound'
BY DEF SwarmInv, Renaming, VerifiedSound, CompleteAtFinalize, AvailSound

\* Pick: the worker holds nothing yet.
LEMMA PickInv ==
  ASSUME SwarmInv, NEW w \in Workers, NEW t \in Tasks, Pick(w, t) PROVE SwarmInv'
<1> USE DEF Pick, Worker, disk, setting, ctx, joiner, known, finalizing
<1>0. t \in tasks
  BY DEF PickFrom, SwarmInv, SwarmTypes
<1>1. SwarmTypes'
  <2>1. [pc |-> "fetch", task |-> t, peers |-> curPeers, hung |-> FALSE] \in WorkStates
    BY DEF WorkStates, SwarmInv, SwarmTypes
  <2> QED
    BY <2>1 DEF SwarmInv, SwarmTypes
<1>2. AtRest' /\ Checked'
  BY <1>0 DEF SwarmInv, SwarmTypes, AtRest, Checked, ChunkOK
<1>3. DoneLands'
  BY DEF SwarmInv, SwarmTypes, DoneLands, Landed, ChunkOK, Busy
<1>4. Returns'
  BY DEF SwarmInv, SwarmTypes, Returns, Stopped, AllDone
<1>5. Renaming' /\ VerifiedSound' /\ CompleteAtFinalize' /\ AvailSound'
  BY FilesKept
<1> QED
  BY <1>1, <1>2, <1>3, <1>4, <1>5 DEF SwarmInv

\* A worker returns only when the context ended or all is done.
LEMMA WorkerReturnsInv ==
  ASSUME SwarmInv, NEW w \in Workers, WorkerReturns(w) PROVE SwarmInv'
<1> USE DEF WorkerReturns, Worker, disk, setting, ctx, picker, joiner, known, finalizing
<1>1. SwarmTypes'
  <2>1. [pc |-> "returned"] \in WorkStates
    BY DEF WorkStates
  <2> QED
    BY <2>1 DEF SwarmInv, SwarmTypes
<1>2. AtRest' /\ Checked'
  BY DEF SwarmInv, SwarmTypes, AtRest, Checked, ChunkOK
<1>3. DoneLands'
  BY DEF SwarmInv, SwarmTypes, DoneLands, Landed, ChunkOK, Busy
<1>4. Returns'
  BY DEF SwarmInv, SwarmTypes, Returns, Stopped, AllDone
<1>5. Renaming' /\ VerifiedSound' /\ CompleteAtFinalize' /\ AvailSound'
  BY FilesKept
<1> QED
  BY <1>1, <1>2, <1>3, <1>4, <1>5 DEF SwarmInv

\* What a worker fetched has passed the check.
LEMMA FetchedInv ==
  ASSUME SwarmInv, NEW w \in Workers, NEW d \in {"good", "bad"}, Fetched(w, d) PROVE SwarmInv'
<1> USE DEF Fetched, Fetching, Worker, disk, setting, ctx, picker, joiner, known, finalizing
<1>0. work[w].task \in tasks /\ work[w].task \in Tasks
  BY DEF SwarmInv, SwarmTypes, Checked
<1>1. SwarmTypes'
  <2>1. [pc |-> "got", task |-> work[w].task, data |-> d] \in WorkStates
    BY <1>0 DEF WorkStates
  <2> QED
    BY <2>1 DEF SwarmInv, SwarmTypes
<1>2. AtRest' /\ Checked'
  BY <1>0 DEF SwarmInv, SwarmTypes, AtRest, Checked, ChunkOK
<1>3. DoneLands'
  BY DEF SwarmInv, SwarmTypes, DoneLands, Landed, ChunkOK, Busy
<1>4. Returns'
  BY DEF SwarmInv, SwarmTypes, Returns, Stopped, AllDone
<1>5. Renaming' /\ VerifiedSound' /\ CompleteAtFinalize' /\ AvailSound'
  BY FilesKept
<1> QED
  BY <1>1, <1>2, <1>3, <1>4, <1>5 DEF SwarmInv

\* A fetch that failed leaves the chunk as it was, done or not.
LEMMA FetchFailsInv ==
  ASSUME SwarmInv, NEW w \in Workers, FetchFails(w) PROVE SwarmInv'
<1> USE DEF FetchFails, FailTask, Worker, disk, setting, joiner, known, finalizing
<1>0. work[w].task \in tasks /\ work' = [work EXCEPT ![w] = Idle] /\ phase = "fetch" /\ phase' = phase
      /\ UNCHANGED <<part, hasPart, final, catalog, cancelled, avail, verified, tasks, done, curPeers, which>>
  BY DEF SwarmInv, Checked
<1>1. SwarmTypes'
  <2>1. Idle \in WorkStates
    BY DEF WorkStates
  <2>2. work' \in [Workers -> WorkStates]
    BY <1>0, <2>1 DEF SwarmInv, SwarmTypes
  <2>3. pending' \subseteq tasks'
    BY <1>0 DEF SwarmInv, SwarmTypes
  <2>4. fatal' \in BOOLEAN
    OBVIOUS
  <2> QED
    BY <1>0, <2>2, <2>3, <2>4 DEF SwarmInv, SwarmTypes
<1>2. AtRest' /\ Checked'
  BY <1>0 DEF SwarmInv, SwarmTypes, AtRest, Checked, ChunkOK, Idle
<1>3. DoneLands'
  BY <1>0 DEF SwarmInv, SwarmTypes, DoneLands, Landed, ChunkOK, Busy, Idle
<1>4. Returns'
  BY <1>0 DEF SwarmInv, SwarmTypes, Returns, Stopped, AllDone, Idle
<1>5. Renaming' /\ VerifiedSound' /\ CompleteAtFinalize' /\ AvailSound'
  BY <1>0, FilesKept
<1> QED
  BY <1>1, <1>2, <1>3, <1>4, <1>5 DEF SwarmInv

\* Complete: the chunk is done, and this worker or an earlier one lands it.
LEMMA CompleteInv ==
  ASSUME SwarmInv, NEW w \in Workers, Complete(w) PROVE SwarmInv'
<1> USE DEF Complete, CompleteTask, Worker, disk, setting, ctx, joiner, known, finalizing
<1> DEFINE t == work[w].task
<1>0. /\ t \in tasks /\ t \in Tasks /\ phase = "fetch" /\ phase' = phase
      /\ work[w] \in [pc : {"got", "write"}, task : Tasks, data : {"good", "bad"}]
  BY WorkShape DEF SwarmInv, SwarmTypes, Checked
<1>1. SwarmTypes'
  <2>1. Idle \in WorkStates /\ [work[w] EXCEPT !.pc = "write"] \in WorkStates
    BY <1>0 DEF WorkStates
  <2>2. work' \in [Workers -> WorkStates]
    BY <2>1 DEF SwarmInv, SwarmTypes
  <2>3. done' \subseteq tasks' /\ pending' \subseteq tasks'
    BY <1>0 DEF SwarmInv, SwarmTypes
  <2> QED
    BY <2>2, <2>3 DEF SwarmInv, SwarmTypes
<1>2. AtRest' /\ Checked'
  BY <1>0 DEF SwarmInv, SwarmTypes, AtRest, Checked, ChunkOK, Idle
<1>3. DoneLands'
  <2> SUFFICES ASSUME ~fatal, NEW u \in done' PROVE Landed(u)' \/ (Busy(u, {"write"}) # {})'
    BY <1>0 DEF DoneLands
  <2>1. CASE u \in done
    BY <1>0, <2>1 DEF SwarmInv, SwarmTypes, DoneLands, Landed, ChunkOK, Busy
  <2>2. CASE u \notin done
    <3>1. u = t /\ work'[w].pc = "write" /\ work'[w].task = u
      BY <1>0, <2>2 DEF SwarmInv, SwarmTypes
    <3> QED
      BY <3>1 DEF Busy
  <2> QED
    BY <2>1, <2>2
<1>4. Returns'
  BY <1>0 DEF SwarmInv, SwarmTypes, Returns, Stopped, AllDone, Idle
<1>5. Renaming' /\ VerifiedSound' /\ CompleteAtFinalize' /\ AvailSound'
  BY <1>0, FilesKept
<1> QED
  BY <1>1, <1>2, <1>3, <1>4, <1>5 DEF SwarmInv

\* Write: the chunk is in its part, and only then announced.
LEMMA WriteInv ==
  ASSUME SwarmInv, NEW w \in Workers, Write(w) PROVE SwarmInv'
<1> USE DEF Write, Worker, setting, ctx, picker, known, finalizing
<1> DEFINE t == work[w].task
<1>0. /\ t \in tasks /\ t \in Tasks /\ t[1] \in FileSet /\ phase = "fetch" /\ phase' = phase
      /\ work[w].data \in {"good", "bad"} /\ ChunkOK(work[w].data)
  BY WorkShape, TaskFile DEF SwarmInv, Checked, SwarmTypes
<1>1. SwarmTypes'
  <2>1. Idle \in WorkStates
    BY DEF WorkStates
  <2>2. work' \in [Workers -> WorkStates]
    BY <2>1 DEF SwarmInv, SwarmTypes
  <2>3. part' \in [Tasks -> Content] /\ hasPart' \subseteq FileSet
    BY <1>0 DEF SwarmInv, SwarmTypes, Content
  <2> QED
    BY <2>2, <2>3 DEF SwarmInv, SwarmTypes
<1>2. AtRest' /\ Checked'
  BY <1>0 DEF SwarmInv, SwarmTypes, AtRest, Checked, ChunkOK, Idle
<1>3. DoneLands'
  <2> SUFFICES ASSUME ~fatal, NEW u \in done PROVE Landed(u)' \/ (Busy(u, {"write"}) # {})'
    BY <1>0 DEF DoneLands
  <2>0. u \in Tasks
    BY DEF SwarmInv, SwarmTypes
  <2>1. CASE u = t
    BY <1>0, <2>0, <2>1 DEF SwarmInv, SwarmTypes, Landed, ChunkOK
  <2>2. CASE u # t
    <3>1. Landed(u) => Landed(u)'
      BY <1>0, <2>0, <2>2 DEF SwarmInv, SwarmTypes, Landed, ChunkOK
    <3>2. Busy(u, {"write"}) # {} => (Busy(u, {"write"}) # {})'
      BY <1>0, <2>2 DEF SwarmInv, SwarmTypes, Busy
    <3> QED
      BY <1>0, <3>1, <3>2 DEF SwarmInv, DoneLands
  <2> QED
    BY <2>1, <2>2
<1>4. Returns'
  BY <1>0 DEF SwarmInv, SwarmTypes, Returns, Stopped, AllDone, Idle
<1>5. Renaming' /\ VerifiedSound' /\ CompleteAtFinalize'
  BY <1>0 DEF SwarmInv, Renaming, VerifiedSound, CompleteAtFinalize
<1>6. AvailSound'
  <2> SUFFICES ASSUME catalog, NEW u \in avail'
               PROVE  final[u[1]] = "good" \/ (u[1] \in hasPart' /\ part'[u] = "good")
    BY DEF AvailSound
  <2>1. work[w].data = "good"
    BY <1>0 DEF ChunkOK
  <2>2. CASE u = t
    BY <1>0, <2>1, <2>2 DEF SwarmInv, SwarmTypes
  <2>3. CASE u # t
    <3>1. final[u[1]] = "good" \/ (u[1] \in hasPart /\ part[u] = "good")
      BY <1>0, <2>3 DEF SwarmInv, AvailSound
    <3>2. part[u] = "good" => part'[u] = "good"
      BY <1>0, <2>1, <2>3 DEF SwarmInv, SwarmTypes
    <3> QED
      BY <3>1, <3>2
  <2> QED
    BY <2>2, <2>3
<1> QED
  BY <1>1, <1>2, <1>3, <1>4, <1>5, <1>6 DEF SwarmInv

\* Hangs: the worker is still at its chunk, and holds nothing.
LEMMA HangsInv ==
  ASSUME SwarmInv, NEW w \in Workers, Hangs(w) PROVE SwarmInv'
<1> USE DEF Hangs, Fetching, Worker, disk, setting, ctx, picker, joiner, known, finalizing
<1> DEFINE x == [work[w] EXCEPT !.hung = TRUE]
<1>0. /\ work[w] \in [pc : {"fetch"}, task : Tasks, peers : SUBSET Peers, hung : BOOLEAN]
      /\ work[w].task \in tasks
  BY WorkShape DEF SwarmInv, Checked
<1>1. /\ x \in [pc : {"fetch"}, task : Tasks, peers : SUBSET Peers, hung : BOOLEAN]
      /\ x.task = work[w].task /\ x.pc = "fetch" /\ work' = [work EXCEPT ![w] = x]
  BY <1>0
<1>2. x \in WorkStates
  BY <1>1 DEF WorkStates
<1> HIDE DEF x
<1>3. SwarmTypes'
  BY <1>1, <1>2 DEF SwarmInv, SwarmTypes
<1>4. AtRest' /\ Checked'
  BY <1>0, <1>1 DEF SwarmInv, SwarmTypes, AtRest, Checked, ChunkOK
<1>5. DoneLands'
  BY <1>0, <1>1 DEF SwarmInv, SwarmTypes, DoneLands, Landed, ChunkOK, Busy
<1>6. Returns'
  BY <1>1 DEF SwarmInv, SwarmTypes, Returns, Stopped, AllDone
<1>7. Renaming' /\ VerifiedSound' /\ CompleteAtFinalize' /\ AvailSound'
  BY FilesKept
<1> QED
  BY <1>3, <1>4, <1>5, <1>6, <1>7 DEF SwarmInv

\* What a broken write may leave is no worse than what was there, or than what
\* was written.
LEMMA TornShape ==
  ASSUME SwarmTypes, NEW t \in Tasks, NEW d \in {"good", "bad"}, NEW x \in Torn(t, d)
  PROVE  x \in Content /\ (part[t] = "good" /\ d = "good" => x = "good")
BY DEF Torn, SwarmTypes, Content

\* WriteFails: the join is over, and what was announced is where it was.
LEMMA WriteFailsInv ==
  ASSUME SwarmInv, NEW w \in Workers, WriteFails(w) PROVE SwarmInv'
<1> DEFINE t == work[w].task
<1>0. /\ t \in Tasks /\ t[1] \in FileSet /\ phase = "fetch" /\ phase' = phase
      /\ work[w].data \in {"good", "bad"} /\ ChunkOK(work[w].data)
      /\ work[w].pc = "write" /\ work' = [work EXCEPT ![w] = Idle] /\ fatal' = TRUE
      /\ UNCHANGED <<final, catalog, cancelled, tasks, done, pending, avail, verified, curPeers, which, step>>
  BY WorkShape, TaskFile DEF WriteFails, Worker, setting, picker, known, finalizing, SwarmInv, Checked, SwarmTypes
<1>1. /\ part' \in [Tasks -> Content] /\ hasPart \subseteq hasPart' /\ hasPart' \subseteq FileSet
      /\ \A u \in Tasks \ {t} : part'[u] = part[u]
      /\ part[t] = "good" /\ work[w].data = "good" => part'[t] = "good"
  <2>1. CASE UNCHANGED <<part, hasPart>>
    BY <1>0, <2>1 DEF SwarmInv, SwarmTypes
  <2>2. ASSUME NEW x \in Torn(t, work[w].data), part' = [part EXCEPT ![t] = x], hasPart' = hasPart \cup {t[1]}
        PROVE  <1>1!1 /\ <1>1!2 /\ <1>1!3
    <3>1. x \in Content /\ (part[t] = "good" /\ work[w].data = "good" => x = "good")
      BY <1>0, <2>2, TornShape DEF SwarmInv
    <3> QED
      BY <1>0, <2>2, <3>1 DEF SwarmInv, SwarmTypes
  <2> QED
    BY <2>1, <2>2 DEF WriteFails
<1> HIDE DEF t
<1>2. SwarmTypes'
  <2>1. Idle \in WorkStates
    BY DEF WorkStates
  <2>2. work' \in [Workers -> WorkStates]
    BY <1>0, <2>1 DEF SwarmInv, SwarmTypes
  <2> QED
    BY <1>0, <1>1, <2>2 DEF SwarmInv, SwarmTypes
<1>3. AtRest' /\ Checked' /\ DoneLands' /\ Returns'
  BY <1>0 DEF SwarmInv, SwarmTypes, AtRest, Checked, DoneLands, Returns, ChunkOK, Stopped, Idle
<1>4. Renaming' /\ VerifiedSound' /\ CompleteAtFinalize'
  BY <1>0 DEF SwarmInv, Renaming, VerifiedSound, CompleteAtFinalize
<1>5. AvailSound'
  <2> SUFFICES ASSUME catalog, NEW u \in avail
               PROVE  final[u[1]] = "good" \/ (u[1] \in hasPart' /\ part'[u] = "good")
    BY <1>0 DEF AvailSound
  <2>1. work[w].data = "good" /\ u \in Tasks
    BY <1>0 DEF ChunkOK, SwarmInv, SwarmTypes
  <2>2. final[u[1]] = "good" \/ (u[1] \in hasPart /\ part[u] = "good")
    BY <1>0 DEF SwarmInv, AvailSound
  <2> QED
    BY <1>1, <2>1, <2>2
<1> QED
  BY <1>2, <1>3, <1>4, <1>5 DEF SwarmInv

-----------------------------------------------------------------------------
(* From the fetch to the end of the run *)

\* FetchEnds: with every worker back and no error, all that is done has landed.
LEMMA FetchEndsInv == ASSUME SwarmInv, FetchEnds PROVE SwarmInv'
<1> USE DEF FetchEnds, WorkersDone, disk, setting, ctx, picker, joiner, known
<1>1. SwarmTypes' /\ AtRest' /\ Checked'
  BY DEF SwarmInv, SwarmTypes, AtRest, Checked, ChunkOK
<1>2. DoneLands' /\ Returns' /\ Renaming' /\ VerifiedSound'
  BY DEF SwarmInv, DoneLands, Returns, Renaming, VerifiedSound
<1>3. CompleteAtFinalize'
  <2> SUFFICES ASSUME ~fatal, ~cancelled
               PROVE  \A t \in tasks : Landed(t)'
    BY DEF CompleteAtFinalize
  <2>1. done = tasks
    <3>1. PICK w \in Workers : TRUE
      BY OptionAssumption
    <3> QED
      BY <3>1 DEF SwarmInv, Returns, Stopped, AllDone
  <2>2. \A t \in tasks : Busy(t, {"write"}) = {}
    BY DEF Busy
  <2>3. \A t \in tasks : Landed(t)
    BY <2>1, <2>2 DEF SwarmInv, DoneLands
  <2> QED
    BY <2>3 DEF Landed, ChunkOK
<1>4. AvailSound'
  BY DEF SwarmInv, AvailSound
<1> QED
  BY <1>1, <1>2, <1>3, <1>4 DEF SwarmInv

\* After the fetch, a step that leaves the disk alone and either stays in
\* finalize or goes on keeps what is said of workers and chunks.
LEMMA WorkKept ==
  ASSUME SwarmInv, phase \in {"finalize", "stay", "done", "failed"},
         phase' \in {"finalize", "stay", "done", "failed"},
         phase' = "finalize" => phase = "finalize",
         UNCHANGED <<catalog, cancelled, work, tasks, done>>
  PROVE  AtRest' /\ Checked' /\ DoneLands' /\ Returns'
BY DEF SwarmInv, AtRest, Checked, DoneLands, Returns, ChunkOK

\* FinalClose: only the step changes.
LEMMA FinalCloseInv == ASSUME SwarmInv, FinalClose PROVE SwarmInv'
<1> USE DEF FinalClose, At, disk, setting, ctx, picker, known
<1>1. SwarmTypes'
  BY DEF SwarmInv, SwarmTypes
<1>2. AtRest' /\ Checked' /\ DoneLands' /\ Returns'
  BY WorkKept
<1>3. Renaming' /\ VerifiedSound'
  BY DEF SwarmInv, Renaming, VerifiedSound
<1>4. CompleteAtFinalize' /\ AvailSound'
  BY DEF SwarmInv, CompleteAtFinalize, AvailSound, Landed, ChunkOK
<1> QED
  BY <1>1, <1>2, <1>3, <1>4 DEF SwarmInv

\* FinalCheck: a part that is whole goes on, any other is removed and the run fails.
LEMMA FinalCheckInv == ASSUME SwarmInv, FinalCheck PROVE SwarmInv'
<1> USE DEF FinalCheck, At, setting, ctx, picker, joiner, known
<1>1. SwarmTypes'
  <2>1. part' \in [Tasks -> Content] /\ hasPart' \subseteq FileSet
    BY DEF SwarmInv, SwarmTypes, Content
  <2> QED
    BY <2>1 DEF SwarmInv, SwarmTypes
<1>2. AtRest' /\ Checked' /\ DoneLands' /\ Returns'
  BY WorkKept
<1>3. Renaming' /\ VerifiedSound'
  BY DEF SwarmInv, Renaming, VerifiedSound, Whole, Current
<1>4. CompleteAtFinalize' /\ AvailSound'
  BY DEF SwarmInv, CompleteAtFinalize, AvailSound, Landed, ChunkOK
<1> QED
  BY <1>1, <1>2, <1>3, <1>4 DEF SwarmInv

\* FinalRename: the part that passed the check is still whole, so the final is
\* right, and the chunks of the file are now there.
LEMMA FinalRenameInv == ASSUME SwarmInv, FinalRename PROVE SwarmInv'
<1> USE DEF FinalRename, At, setting, ctx, picker, joiner, known
<1>0. Current \in FileSet /\ Whole(Current) /\ Current' = Current
  BY CurrentFile DEF SwarmInv, SwarmTypes, Renaming, Current
<1>1. final' = [final EXCEPT ![Current] = "good"]
  BY <1>0
<1>2. SwarmTypes'
  <2>1. part' \in [Tasks -> Content] /\ hasPart' \subseteq FileSet
    BY DEF SwarmInv, SwarmTypes, Content
  <2>2. final' \in [FileSet -> {"none", "old", "good"}]
    BY <1>1 DEF SwarmInv, SwarmTypes
  <2> QED
    BY <2>1, <2>2 DEF SwarmInv, SwarmTypes
<1>3. AtRest' /\ Checked' /\ DoneLands' /\ Returns'
  BY WorkKept
<1>4. Renaming' /\ VerifiedSound'
  BY <1>0, <1>1 DEF SwarmInv, SwarmTypes, Renaming, VerifiedSound
<1>5. \A t \in Tasks : t[1] = Current => final'[t[1]] = "good"
  BY <1>0, <1>1 DEF SwarmInv, SwarmTypes
<1>6. \A t \in Tasks : t[1] # Current =>
        /\ final'[t[1]] = final[t[1]] /\ part'[t] = part[t]
        /\ t[1] \in hasPart' <=> t[1] \in hasPart
  BY <1>0, <1>1, TaskFile DEF SwarmInv, SwarmTypes
<1>7. CompleteAtFinalize' /\ AvailSound'
  <2>1. tasks \subseteq Tasks /\ avail \subseteq Tasks
    BY DEF SwarmInv, SwarmTypes
  <2> QED
    BY <1>5, <1>6, <2>1 DEF SwarmInv, CompleteAtFinalize, AvailSound, Landed, ChunkOK
<1> QED
  BY <1>2, <1>3, <1>4, <1>7 DEF SwarmInv

\* FinalRenameFails: the run fails, and nothing moved.
LEMMA FinalRenameFailsInv == ASSUME SwarmInv, FinalRenameFails PROVE SwarmInv'
<1> USE DEF FinalRenameFails, At, disk, setting, ctx, picker, joiner, known, finalizing
<1>1. SwarmTypes'
  BY DEF SwarmInv, SwarmTypes
<1>2. AtRest' /\ Checked' /\ DoneLands' /\ Returns'
  BY WorkKept
<1>3. Renaming' /\ VerifiedSound' /\ CompleteAtFinalize' /\ AvailSound'
  BY DEF SwarmInv, Renaming, VerifiedSound, CompleteAtFinalize, AvailSound
<1> QED
  BY <1>1, <1>2, <1>3 DEF SwarmInv

\* FinalMark: a file counts as verified once it is in place.
LEMMA FinalMarkInv == ASSUME SwarmInv, FinalMark PROVE SwarmInv'
<1> USE DEF FinalMark, At, disk, setting, ctx, picker, known
<1>0. Current \in FileSet /\ final[Current] = "good"
  BY CurrentFile DEF SwarmInv, SwarmTypes, Renaming
<1>1. SwarmTypes'
  BY DEF SwarmInv, SwarmTypes
<1>2. AtRest' /\ Checked' /\ DoneLands' /\ Returns'
  BY WorkKept
<1>3. Renaming' /\ VerifiedSound'
  BY <1>0 DEF SwarmInv, Renaming, VerifiedSound
<1>4. CompleteAtFinalize' /\ AvailSound'
  BY DEF SwarmInv, CompleteAtFinalize, AvailSound, Landed, ChunkOK
<1> QED
  BY <1>1, <1>2, <1>3, <1>4 DEF SwarmInv

\* RunEnds: the run stays to seed, or is over.
LEMMA RunEndsInv == ASSUME SwarmInv, RunEnds PROVE SwarmInv'
<1> USE DEF RunEnds, disk, setting, ctx, picker, joiner, known, finalizing
<1>0. phase \in {"finalize", "stay"} /\ phase' \in {"stay", "done"}
  OBVIOUS
<1>1. SwarmTypes'
  BY DEF SwarmInv, SwarmTypes
<1>2. AtRest' /\ Checked' /\ DoneLands' /\ Returns'
  BY <1>0, WorkKept
<1>3. Renaming' /\ VerifiedSound' /\ CompleteAtFinalize' /\ AvailSound'
  BY <1>0 DEF SwarmInv, Renaming, VerifiedSound, CompleteAtFinalize, AvailSound
<1> QED
  BY <1>1, <1>2, <1>3 DEF SwarmInv

-----------------------------------------------------------------------------
(* Interruption and death *)

\* Cancel: workers may return now without all being done.
LEMMA CancelInv == ASSUME SwarmInv, Cancel PROVE SwarmInv'
<1> USE DEF Cancel, disk, setting, picker, joiner, known, finalizing
<1>1. SwarmTypes'
  BY DEF SwarmInv, SwarmTypes
<1>2. AtRest' /\ Checked' /\ DoneLands' /\ Returns'
  BY DEF SwarmInv, AtRest, Checked, DoneLands, Returns, ChunkOK, Landed, Busy, Stopped
<1>3. Renaming' /\ VerifiedSound' /\ CompleteAtFinalize' /\ AvailSound'
  BY DEF SwarmInv, Renaming, VerifiedSound, CompleteAtFinalize, AvailSound, Whole, Current
<1> QED
  BY <1>1, <1>2, <1>3 DEF SwarmInv

\* Of a run that is gone only the disk is left, whatever became of the parts.
LEMMA ForgetInv ==
  ASSUME SwarmInv, Forget, UNCHANGED <<hasPart, final>>, part' \in [Tasks -> Content]
  PROVE  SwarmInv'
<1> USE DEF Forget, setting
<1>1. SwarmTypes'
  <2>1. Idle \in WorkStates
    BY DEF WorkStates
  <2>2. work' \in [Workers -> WorkStates]
    BY <2>1
  <2>3. final' \in [FileSet -> {"none", "old", "good"}] /\ hasPart' \subseteq FileSet
    BY DEF SwarmInv, SwarmTypes
  <2>4. catalog' \in BOOLEAN /\ cancelled' \in BOOLEAN /\ fatal' \in BOOLEAN
    BY DEF SwarmInv, SwarmTypes
  <2>5. /\ tasks' \subseteq Tasks /\ done' \subseteq tasks' /\ pending' \subseteq tasks'
        /\ avail' \subseteq Tasks /\ curPeers' \subseteq Peers /\ which' \in Nat \ {0}
    OBVIOUS
  <2> QED
    BY <2>2, <2>3, <2>4, <2>5, Zenon DEF SwarmTypes
<1>2. AtRest' /\ Checked' /\ DoneLands' /\ Returns'
  BY DEF AtRest, Checked, DoneLands, Returns, Idle
<1>3. Renaming' /\ VerifiedSound' /\ CompleteAtFinalize' /\ AvailSound'
  BY DEF Renaming, VerifiedSound, CompleteAtFinalize, AvailSound
<1> QED
  BY <1>1, <1>2, <1>3 DEF SwarmInv

-----------------------------------------------------------------------------
(* The theorems *)

\* Every step keeps the invariant.
LEMMA SwarmInvNext == ASSUME SwarmInv, [Next]_vars PROVE SwarmInv'
<1>1. CASE UNCHANGED vars
  BY <1>1, Untouched DEF vars, disk, setting, ctx, picker, joiner, known, finalizing, invVars
<1>2. CASE Start
  BY <1>2, StartInv
<1>3. ASSUME NEW a \in TrackerAnswers, Announce(a) \/ Reannounce(a) PROVE SwarmInv'
  BY <1>3, AnnounceInv, ReannounceInv
<1>4. ASSUME NEW w \in Workers, WorkerStep(w) \/ WriteFails(w) \/ Hangs(w) PROVE SwarmInv'
  <2>1. CASE \E p \in Peers : Lied(w, p)
    BY <2>1, Untouched DEF Lied, disk, setting, ctx, picker, joiner, finalizing, invVars
  <2> QED
    BY <1>4, <2>1, PickInv, WorkerReturnsInv, FetchedInv, FetchFailsInv, CompleteInv, WriteInv,
       WriteFailsInv, HangsInv DEF WorkerStep
<1>5. CASE FetchEnds
  BY <1>5, FetchEndsInv
<1>6. CASE FinalizeStep \/ FinalRenameFails
  BY <1>6, FinalCloseInv, FinalCheckInv, FinalRenameInv, FinalRenameFailsInv, FinalMarkInv,
     RunEndsInv DEF FinalizeStep
<1>7. ASSUME NEW c \in Conns, ServeStep(c) PROVE SwarmInv'
  BY <1>7, Untouched
     DEF ServeStep, ServeAsk, ServeRead, ServeDone, disk, setting, ctx, picker, joiner, known,
         finalizing, invVars
<1>8. CASE Cancel
  BY <1>8, CancelInv
<1>9. CASE Exit
  <2>1. UNCHANGED <<hasPart, final>> /\ part' \in [Tasks -> Content]
    BY <1>9 DEF Exit, disk, SwarmInv, SwarmTypes
  <2> QED
    BY <1>9, <2>1, ForgetInv DEF Exit
<1>10. ASSUME NEW lost \in SUBSET Tasks, Crash(lost) PROVE SwarmInv'
  <2>1. part' \in [Tasks -> Content]
    BY <1>10 DEF Crash, SwarmInv, SwarmTypes, Content
  <2> QED
    BY <1>10, <2>1, ForgetInv DEF Crash
<1> QED
  BY <1>1, <1>2, <1>3, <1>4, <1>5, <1>6, <1>7, <1>8, <1>9, <1>10 DEF Next

\* The invariant holds throughout.
THEOREM SwarmInvariant == Spec => []SwarmInv
<1>1. Init => SwarmInv
  BY SwarmInvInit
<1>2. SwarmInv /\ [Next]_vars => SwarmInv'
  BY SwarmInvNext
<1> QED
  BY <1>1, <1>2, PTL DEF Spec

\* A file is put in place, and counts as verified, only with the right bytes:
\* whatever was resumed, whatever peers and the HTTP source sent, and however
\* often the joiner was interrupted or killed (swarm_join.go:597-617).
THEOREM FinalIsRight == Spec => []FinalSound
<1>1. SwarmInv => FinalSound
  BY DEF SwarmInv, SwarmTypes, VerifiedSound, FinalSound
<1> QED
  BY <1>1, SwarmInvariant, PTL

\* The files are checked only when every missing chunk has landed and no worker
\* can write any more (swarm_join.go:367-377).
THEOREM AllLandedFirst == Spec => []CompleteAtFinalize
<1>1. SwarmInv => CompleteAtFinalize
  BY DEF SwarmInv
<1> QED
  BY <1>1, SwarmInvariant, PTL

\* With a catalog, what the joiner announces it has (swarm_join.go:545-576).
THEOREM AnnouncedIsThere == Spec => []AvailSound
<1>1. SwarmInv => AvailSound
  BY DEF SwarmInv
<1> QED
  BY <1>1, SwarmInvariant, PTL

-----------------------------------------------------------------------------
(* Who is at a chunk *)

Turns(w, x) == work' = [work EXCEPT ![w] = x]

\* One worker goes from one state to another: the others are where they were.
LEMMA BusyOthers ==
  ASSUME SwarmTypes, NEW w \in Workers, NEW x, Turns(w, x), NEW t, NEW pcs
  PROVE  /\ w \in Busy(t, pcs) <=> work[w].pc \in pcs /\ work[w].task = t
         /\ w \in Busy(t, pcs)' <=> x.pc \in pcs /\ x.task = t
         /\ Busy(t, pcs) \ {w} = Busy(t, pcs)' \ {w}
         /\ IsFiniteSet(Busy(t, pcs)) /\ IsFiniteSet(Busy(t, pcs)')
         /\ Cardinality(Busy(t, pcs)) \in Nat /\ Cardinality(Busy(t, pcs)') \in Nat
<1>1. \A v \in Workers : work'[v] = IF v = w THEN x ELSE work[v]
  BY DEF SwarmTypes, Turns
<1>2. Busy(t, pcs) \subseteq Workers /\ Busy(t, pcs)' \subseteq Workers
  BY DEF Busy
<1>3. IsFiniteSet(Busy(t, pcs)) /\ IsFiniteSet(Busy(t, pcs)')
  BY <1>2, OptionAssumption, FS_Subset
<1>4. w \in Busy(t, pcs) <=> work[w].pc \in pcs /\ work[w].task = t
  BY DEF Busy
<1>5. w \in Busy(t, pcs)' <=> x.pc \in pcs /\ x.task = t
  BY <1>1 DEF Busy
<1>6. \A v \in Workers \ {w} : v \in Busy(t, pcs)' <=> v \in Busy(t, pcs)
  BY <1>1 DEF Busy
<1>7. Busy(t, pcs) \ {w} = Busy(t, pcs)' \ {w}
  BY <1>2, <1>6
<1> QED
  BY <1>3, <1>4, <1>5, <1>7, FS_CardinalityType

\* A worker that is at the chunk before and after, or neither, changes nothing.
LEMMA BusySame ==
  ASSUME SwarmTypes, NEW w \in Workers, NEW x, Turns(w, x), NEW t, NEW pcs,
         (work[w].pc \in pcs /\ work[w].task = t) <=> (x.pc \in pcs /\ x.task = t)
  PROVE  Busy(t, pcs)' = Busy(t, pcs)
<1>1. /\ w \in Busy(t, pcs) <=> w \in Busy(t, pcs)'
      /\ Busy(t, pcs) \ {w} = Busy(t, pcs)' \ {w}
  BY BusyOthers
<1> QED
  BY <1>1

\* One that comes to the chunk counts one more.
LEMMA BusyJoins ==
  ASSUME SwarmTypes, NEW w \in Workers, NEW x, Turns(w, x), NEW t, NEW pcs,
         ~(work[w].pc \in pcs /\ work[w].task = t), x.pc \in pcs, x.task = t
  PROVE  /\ Cardinality(Busy(t, pcs)) \in Nat /\ w \in Busy(t, pcs)'
         /\ Cardinality(Busy(t, pcs)') = Cardinality(Busy(t, pcs)) + 1
<1>1. /\ w \notin Busy(t, pcs) /\ w \in Busy(t, pcs)'
      /\ Busy(t, pcs) \ {w} = Busy(t, pcs)' \ {w}
      /\ IsFiniteSet(Busy(t, pcs)) /\ Cardinality(Busy(t, pcs)) \in Nat
  BY BusyOthers
<1>2. Busy(t, pcs)' = Busy(t, pcs) \cup {w}
  BY <1>1
<1>3. Cardinality(Busy(t, pcs) \cup {w}) = Cardinality(Busy(t, pcs)) + 1
  BY <1>1, FS_AddElement
<1> QED
  BY <1>1, <1>2, <1>3

\* One that leaves it counts one less.
LEMMA BusyLeaves ==
  ASSUME SwarmTypes, NEW w \in Workers, NEW x, Turns(w, x), NEW t, NEW pcs,
         work[w].pc \in pcs, work[w].task = t, ~(x.pc \in pcs /\ x.task = t)
  PROVE  /\ Cardinality(Busy(t, pcs)) \in Nat /\ Cardinality(Busy(t, pcs)) >= 1
         /\ Cardinality(Busy(t, pcs)') = Cardinality(Busy(t, pcs)) - 1
         /\ Cardinality(Busy(t, pcs)') \in Nat
<1>0. /\ w \in Busy(t, pcs) <=> work[w].pc \in pcs /\ work[w].task = t
      /\ w \in Busy(t, pcs)' <=> x.pc \in pcs /\ x.task = t
      /\ Busy(t, pcs) \ {w} = Busy(t, pcs)' \ {w}
      /\ IsFiniteSet(Busy(t, pcs)) /\ Cardinality(Busy(t, pcs)) \in Nat
      /\ Cardinality(Busy(t, pcs)') \in Nat
  BY BusyOthers
<1>1. /\ w \in Busy(t, pcs) /\ w \notin Busy(t, pcs)'
      /\ Busy(t, pcs) \ {w} = Busy(t, pcs)' \ {w}
      /\ IsFiniteSet(Busy(t, pcs)) /\ Cardinality(Busy(t, pcs)) \in Nat
      /\ Cardinality(Busy(t, pcs)') \in Nat
  BY <1>0
<1>2. Busy(t, pcs)' = Busy(t, pcs) \ {w}
  BY <1>1
<1>3. Cardinality(Busy(t, pcs) \ {w}) = Cardinality(Busy(t, pcs)) - 1
  BY <1>1, FS_RemoveElement
<1> QED
  BY <1>1, <1>2, <1>3

\* A worker at a chunk counts.
LEMMA BusyOne ==
  ASSUME NEW w \in Workers, NEW t, NEW pcs, work[w].pc \in pcs, work[w].task = t
  PROVE  Cardinality(Busy(t, pcs)) \in Nat /\ Cardinality(Busy(t, pcs)) >= 1 /\ w \in Busy(t, pcs)
<1>1. w \in Busy(t, pcs) /\ Busy(t, pcs) \subseteq Workers
  BY DEF Busy
<1>2. IsFiniteSet(Busy(t, pcs)) /\ Cardinality(Busy(t, pcs)) \in Nat
  BY <1>1, OptionAssumption, FS_Subset, FS_CardinalityType
<1>3. Cardinality(Busy(t, pcs)) # 0
  BY <1>1, <1>2, FS_EmptySet
<1> QED
  BY <1>1, <1>2, <1>3

\* Nobody is at a chunk when all are idle.
LEMMA BusyNone ==
  ASSUME \A w \in Workers : work[w].pc = "idle", NEW t, NEW pcs, "idle" \notin pcs
  PROVE  Busy(t, pcs) = {} /\ Cardinality(Busy(t, pcs)) = 0
<1>1. Busy(t, pcs) = {}
  BY DEF Busy
<1> QED
  BY <1>1, FS_EmptySet

-----------------------------------------------------------------------------
(* The picker *)

\* What Wanted says of one chunk.
WantedAt(t) ==
  /\ inflight[t] = Cardinality(Busy(t, {"fetch", "got"}))
  /\ fatal \/ t \in done \cup pending \/ inflight[t] > 0
  /\ Cardinality(Busy(t, {"write"})) <= IF t \in done /\ ~Landed(t) THEN 1 ELSE 0
  /\ t \in done => fatal \/ Landed(t) \/ Busy(t, {"write"}) # {}

\* At first no chunk is missing, as far as anybody knows.
LEMMA PickerInit == ASSUME Init PROVE PickerInv
BY DEF Init, PickerInv, Counters, Blank, Missing, Ready, Wanted

\* What leaves picker, workers and parts alone.
LEMMA PickerUntouched ==
  ASSUME PickerInv, UNCHANGED <<part, hasPart, catalog, fatal, tasks, pending, inflight, done, fails, work>>,
         phase' = phase \/ phase' \notin {"announce", "fetch"}
  PROVE  PickerInv'
<1>1. Counters' /\ Blank' /\ Ready'
  BY DEF PickerInv, Counters, Blank, Ready
<1>2. Missing'
  BY DEF PickerInv, Missing, Landed, ChunkOK
<1>3. Wanted'
  <2> SUFFICES ASSUME phase' = "fetch", NEW t \in tasks PROVE WantedAt(t)'
    BY DEF Wanted, WantedAt
  <2>1. WantedAt(t)
    BY DEF PickerInv, Wanted, WantedAt
  <2>2. \A pcs : Busy(t, pcs)' = Busy(t, pcs)
    BY DEF Busy
  <2>3. Landed(t)' <=> Landed(t)
    BY DEF Landed, ChunkOK
  <2> QED
    BY <2>1, <2>2, <2>3 DEF WantedAt
<1> QED
  BY <1>1, <1>2, <1>3 DEF PickerInv

\* A run that is over, or has nothing to fetch, owes the picker nothing.
LEMMA PickerOver ==
  ASSUME Counters', Blank', phase' \notin {"announce", "fetch"} PROVE PickerInv'
BY DEF PickerInv, Missing, Ready, Wanted

\* Start: what is not found is missing, and all of it is to be picked.
LEMMA StartPicker == ASSUME SwarmInv, PickerInv, Start PROVE PickerInv'
<1> USE DEF Start, disk, setting, ctx, known, finalizing
<1>1. Counters' /\ Blank' /\ Ready' /\ Wanted'
  BY DEF PickerInv, Counters, Blank, Ready, Wanted
<1>2. \A t \in Tasks : Landed(t) => t \in avail'
  BY DEF Landed, ChunkOK, Found
<1>3. Missing'
  <2>1. \A t \in Tasks : Landed(t)' <=> Landed(t)
    BY DEF Landed, ChunkOK
  <2> QED
    BY <1>2, <2>1 DEF Missing
<1> QED
  BY <1>1, <1>3 DEF PickerInv

\* Announce: the fetch begins with nobody at work.
LEMMA AnnouncePicker == ASSUME SwarmInv, PickerInv, NEW a \in TrackerAnswers, Announce(a) PROVE PickerInv'
<1> USE DEF Announce, disk, setting, ctx, picker, joiner, finalizing
<1>1. Counters' /\ Blank' /\ Ready'
  BY DEF PickerInv, Counters, Blank, Ready
<1>2. Missing'
  BY DEF PickerInv, Missing, Landed, ChunkOK
<1>3. Wanted'
  <2> SUFFICES ASSUME NEW t \in tasks PROVE WantedAt(t)'
    BY DEF Wanted, WantedAt
  <2>1. (\A w \in Workers : work[w].pc = "idle") /\ done = {}
    BY DEF SwarmInv, AtRest
  <2>2. Busy(t, {"fetch", "got"})' = {} /\ Busy(t, {"write"})' = {}
    BY <2>1 DEF Busy
  <2>3. t \in pending /\ inflight[t] = 0
    BY DEF SwarmInv, SwarmTypes, PickerInv, Ready
  <2> QED
    BY <2>1, <2>2, <2>3, FS_EmptySet DEF WantedAt
<1> QED
  BY <1>1, <1>2, <1>3 DEF PickerInv

\* Pick: one more is at the chunk.
LEMMA PickPicker ==
  ASSUME SwarmInv, PickerInv, NEW w \in Workers, NEW t \in Tasks, Pick(w, t) PROVE PickerInv'
<1> USE DEF Pick, Worker, disk, setting, ctx, joiner, known, finalizing
<1> DEFINE x == [pc |-> "fetch", task |-> t, peers |-> curPeers, hung |-> FALSE]
<1>0. /\ SwarmTypes /\ Turns(w, x) /\ work[w].pc = "idle" /\ phase = "fetch" /\ phase' = "fetch"
      /\ x.pc = "fetch" /\ x.task = t
      /\ UNCHANGED <<part, hasPart, catalog, fatal, tasks, done, fails>>
      /\ pending' = pending \ {t} /\ inflight' = [inflight EXCEPT ![t] = @ + 1]
  BY DEF SwarmInv, Turns
<1> HIDE DEF x, Pick
<1>1. Counters' /\ Blank' /\ Ready'
  BY <1>0 DEF PickerInv, Counters, Blank, Ready
<1>2. Missing'
  BY <1>0 DEF PickerInv, Missing, Landed, ChunkOK
<1>3. Wanted'
  <2> SUFFICES ASSUME NEW u \in tasks PROVE WantedAt(u)'
    BY <1>0 DEF Wanted, WantedAt
  <2>1. WantedAt(u) /\ u \in Tasks
    BY <1>0 DEF PickerInv, Wanted, WantedAt, SwarmTypes
  <2>2. Landed(u)' <=> Landed(u)
    BY <1>0 DEF Landed, ChunkOK
  <2>3. Busy(u, {"write"})' = Busy(u, {"write"})
    BY <1>0, BusySame
  <2>4. CASE u = t
    <3>1. Cardinality(Busy(u, {"fetch", "got"})') = Cardinality(Busy(u, {"fetch", "got"})) + 1
      BY <1>0, <2>4, BusyJoins
    <3>2. inflight'[u] = inflight[u] + 1 /\ inflight[u] \in Nat
      BY <1>0, <2>1, <2>4 DEF PickerInv, Counters
    <3> QED
      BY <1>0, <2>1, <2>2, <2>3, <3>1, <3>2 DEF WantedAt
  <2>5. CASE u # t
    <3>1. Busy(u, {"fetch", "got"})' = Busy(u, {"fetch", "got"})
      BY <1>0, <2>5, BusySame
    <3>2. inflight'[u] = inflight[u]
      BY <1>0, <2>1, <2>5 DEF PickerInv, Counters
    <3> QED
      BY <1>0, <2>1, <2>2, <2>3, <2>5, <3>1, <3>2 DEF WantedAt
  <2> QED
    BY <2>4, <2>5
<1> QED
  BY <1>1, <1>2, <1>3 DEF PickerInv

\* What keeps WantedAt: those at the chunk are the same, and nothing is taken back.
LEMMA WantedKept ==
  ASSUME NEW u, WantedAt(u), inflight'[u] = inflight[u],
         u \in done' <=> u \in done, u \in pending => u \in pending', Landed(u)' <=> Landed(u), fatal => fatal',
         Busy(u, {"fetch", "got"})' = Busy(u, {"fetch", "got"}), Busy(u, {"write"})' = Busy(u, {"write"})
  PROVE  WantedAt(u)'
BY DEF WantedAt

\* A worker's step at one chunk does not touch another.
LEMMA OtherChunks ==
  ASSUME SwarmTypes, NEW w \in Workers, NEW x, Turns(w, x), NEW u, WantedAt(u),
         work[w].pc \in {"fetch", "got", "write"} => work[w].task # u,
         x.pc \in {"fetch", "got", "write"} => x.task # u,
         inflight'[u] = inflight[u], u \in done' <=> u \in done, u \in pending => u \in pending',
         Landed(u)' <=> Landed(u), fatal => fatal'
  PROVE  WantedAt(u)'
<1>1. Busy(u, {"fetch", "got"})' = Busy(u, {"fetch", "got"}) /\ Busy(u, {"write"})' = Busy(u, {"write"})
  BY BusySame
<1> QED
  BY <1>1, WantedKept

\* One that returns was at none.
LEMMA WorkerReturnsPicker ==
  ASSUME SwarmInv, PickerInv, NEW w \in Workers, WorkerReturns(w) PROVE PickerInv'
<1> USE DEF WorkerReturns, Worker, disk, setting, ctx, picker, joiner, known, finalizing
<1> DEFINE x == [pc |-> "returned"]
<1>0. /\ SwarmTypes /\ Turns(w, x) /\ work[w].pc = "idle" /\ x.pc = "returned" /\ phase = "fetch" /\ phase' = "fetch"
      /\ UNCHANGED <<part, hasPart, catalog, fatal, tasks, done, fails, pending, inflight>>
  BY DEF SwarmInv, Turns
<1> HIDE DEF x, WorkerReturns
<1>1. Counters' /\ Blank' /\ Ready' /\ Missing'
  BY <1>0 DEF PickerInv, Counters, Blank, Ready, Missing, Landed, ChunkOK
<1>2. Wanted'
  <2> SUFFICES ASSUME NEW u \in tasks PROVE WantedAt(u)'
    BY <1>0 DEF Wanted, WantedAt
  <2>1. WantedAt(u)
    BY <1>0 DEF PickerInv, Wanted, WantedAt
  <2>2. Landed(u)' <=> Landed(u)
    BY <1>0 DEF Landed, ChunkOK
  <2> QED
    BY <1>0, <2>1, <2>2, OtherChunks
<1> QED
  BY <1>1, <1>2 DEF PickerInv

\* One whose fetch succeeds is still at the chunk.
LEMMA FetchedPicker ==
  ASSUME SwarmInv, PickerInv, NEW w \in Workers, NEW d \in {"good", "bad"}, Fetched(w, d) PROVE PickerInv'
<1> USE DEF Fetched, Fetching, Worker, disk, setting, ctx, picker, joiner, known, finalizing
<1> DEFINE x == [pc |-> "got", task |-> work[w].task, data |-> d]
<1>0. /\ SwarmTypes /\ Turns(w, x) /\ work[w].pc = "fetch" /\ phase = "fetch" /\ phase' = "fetch"
      /\ x.pc = "got" /\ x.task = work[w].task
      /\ UNCHANGED <<part, hasPart, catalog, fatal, tasks, done, fails, pending, inflight>>
  BY DEF SwarmInv, Turns
<1> HIDE DEF x, Fetched
<1>1. Counters' /\ Blank' /\ Ready' /\ Missing'
  BY <1>0 DEF PickerInv, Counters, Blank, Ready, Missing, Landed, ChunkOK
<1>2. Wanted'
  <2> SUFFICES ASSUME NEW u \in tasks PROVE WantedAt(u)'
    BY <1>0 DEF Wanted, WantedAt
  <2>1. WantedAt(u)
    BY <1>0 DEF PickerInv, Wanted, WantedAt
  <2>2. Landed(u)' <=> Landed(u)
    BY <1>0 DEF Landed, ChunkOK
  <2>3. Busy(u, {"fetch", "got"})' = Busy(u, {"fetch", "got"}) /\ Busy(u, {"write"})' = Busy(u, {"write"})
    BY <1>0, BusySame
  <2> QED
    BY <1>0, <2>1, <2>2, <2>3, WantedKept
<1> QED
  BY <1>1, <1>2 DEF PickerInv

\* What Release leaves in the count of a chunk somebody is at.
LEMMA ReleaseCounts ==
  ASSUME Counters, NEW t \in Tasks, Release(t)
  PROVE  /\ inflight' \in [Tasks -> Nat]
         /\ inflight[t] > 0 => inflight'[t] = inflight[t] - 1
         /\ \A u \in Tasks \ {t} : inflight'[u] = inflight[u]
BY DEF Counters, Release

\* One whose fetch fails leaves a chunk that is wanted again, unless the join is over.
LEMMA FetchFailsPicker ==
  ASSUME SwarmInv, PickerInv, NEW w \in Workers, FetchFails(w) PROVE PickerInv'
<1> USE DEF FetchFails, FailTask, Worker, disk, setting, joiner, known, finalizing
<1> DEFINE t == work[w].task
<1>0. /\ SwarmTypes /\ Counters /\ t \in tasks /\ t \in Tasks /\ Turns(w, Idle) /\ work[w].pc = "fetch" /\ Idle.pc = "idle"
      /\ phase = "fetch" /\ phase' = "fetch"
      /\ UNCHANGED <<part, hasPart, catalog, tasks, done>> /\ Release(t)
      /\ pending \subseteq pending' /\ (fatal => fatal')
      /\ fails' = fails \/ fails' = [fails EXCEPT ![t] = @ + 1]
      /\ fatal' \/ t \in done \/ t \in pending'
  BY DEF SwarmInv, SwarmTypes, Checked, PickerInv, Turns, Idle
<1> HIDE DEF t, FetchFails
<1>1. fails' \in [Tasks -> Nat]
  BY <1>0 DEF Counters
<1>2. Counters' /\ Blank' /\ Ready' /\ Missing'
  BY <1>0, <1>1, ReleaseCounts DEF PickerInv, Counters, Blank, Ready, Missing, Landed, ChunkOK
<1>3. Wanted'
  <2> SUFFICES ASSUME NEW u \in tasks PROVE WantedAt(u)'
    BY <1>0 DEF Wanted, WantedAt
  <2>1. WantedAt(u) /\ u \in Tasks
    BY <1>0 DEF PickerInv, Wanted, WantedAt, SwarmTypes
  <2>2. Landed(u)' <=> Landed(u)
    BY <1>0 DEF Landed, ChunkOK
  <2>3. CASE u # t
    <3>1. inflight'[u] = inflight[u]
      BY <1>0, <2>1, <2>3, ReleaseCounts
    <3>2. work[w].task # u
      BY <2>3 DEF t
    <3> QED
      BY <1>0, <2>1, <2>2, <3>1, <3>2, OtherChunks
  <2>4. CASE u = t
    <3>0. work[w].task = u
      BY <2>4 DEF t
    <3>1. Busy(u, {"write"})' = Busy(u, {"write"})
      BY <1>0, BusySame
    <3>2. /\ Cardinality(Busy(u, {"fetch", "got"})) \in Nat /\ Cardinality(Busy(u, {"fetch", "got"})) >= 1
          /\ Cardinality(Busy(u, {"fetch", "got"})') = Cardinality(Busy(u, {"fetch", "got"})) - 1
      BY <1>0, <3>0, BusyLeaves
    <3>3. inflight'[u] = inflight[u] - 1
      BY <1>0, <2>1, <2>4, <3>2, ReleaseCounts DEF WantedAt
    <3> QED
      BY <1>0, <2>1, <2>2, <2>4, <3>1, <3>2, <3>3 DEF WantedAt
  <2> QED
    BY <2>3, <2>4
<1> QED
  BY <1>2, <1>3 DEF PickerInv

\* The first to complete a chunk is the one that writes it.
LEMMA CompletePicker ==
  ASSUME SwarmInv, PickerInv, NEW w \in Workers, Complete(w) PROVE PickerInv'
<1> USE DEF Complete, CompleteTask, Worker, disk, setting, ctx, joiner, known, finalizing
<1> DEFINE t == work[w].task
<1> DEFINE x == IF t \in done THEN Idle ELSE [work[w] EXCEPT !.pc = "write"]
<1>0. /\ SwarmTypes /\ Counters /\ t \in tasks /\ t \in Tasks /\ Turns(w, x) /\ work[w].pc = "got" /\ Idle.pc = "idle"
      /\ phase = "fetch" /\ phase' = "fetch"
      /\ UNCHANGED <<part, hasPart, catalog, tasks, fatal>> /\ Release(t)
      /\ done' = done \cup {t} /\ pending' = pending \ {t}
      /\ fails' = fails \/ fails' = [fails EXCEPT ![t] = 0]
  BY DEF SwarmInv, SwarmTypes, Checked, PickerInv, Turns, Idle
<1>a. work[w] \in [pc : {"got", "write"}, task : Tasks, data : {"good", "bad"}]
  BY <1>0, WorkShape
<1>b. (t \in done => x = Idle) /\ (t \notin done => x.pc = "write" /\ x.task = t)
  BY <1>a
<1>c. work[w].task = t
  OBVIOUS
<1> HIDE DEF t, x, Complete
<1>1. fails' \in [Tasks -> Nat]
  BY <1>0 DEF Counters
<1>2. Counters' /\ Blank' /\ Ready' /\ Missing'
  BY <1>0, <1>1, ReleaseCounts DEF PickerInv, Counters, Blank, Ready, Missing, Landed, ChunkOK
<1>3. Wanted'
  <2> SUFFICES ASSUME NEW u \in tasks PROVE WantedAt(u)'
    BY <1>0 DEF Wanted, WantedAt
  <2>1. WantedAt(u) /\ u \in Tasks
    BY <1>0 DEF PickerInv, Wanted, WantedAt, SwarmTypes
  <2>2. Landed(u)' <=> Landed(u)
    BY <1>0 DEF Landed, ChunkOK
  <2>3. CASE u # t
    <3>1. inflight'[u] = inflight[u]
      BY <1>0, <2>1, <2>3, ReleaseCounts
    <3>2. work[w].task # u /\ (x.pc \in {"fetch", "got", "write"} => x.task # u)
      BY <1>0, <1>b, <1>c, <2>3
    <3>3. (u \in done' <=> u \in done) /\ (u \in pending => u \in pending')
      BY <1>0, <2>3
    <3> QED
      BY <1>0, <2>1, <2>2, <3>1, <3>2, <3>3, OtherChunks
  <2>4. CASE u = t
    <3>1. ~(x.pc \in {"fetch", "got"} /\ x.task = u)
      BY <1>0, <1>b
    <3>2. /\ Cardinality(Busy(u, {"fetch", "got"})) \in Nat /\ Cardinality(Busy(u, {"fetch", "got"})) >= 1
          /\ Cardinality(Busy(u, {"fetch", "got"})') = Cardinality(Busy(u, {"fetch", "got"})) - 1
      BY <1>0, <1>c, <2>4, <3>1, BusyLeaves
    <3>3. inflight'[u] = inflight[u] - 1 /\ u \in done'
      BY <1>0, <2>1, <2>4, <3>2, ReleaseCounts DEF WantedAt
    <3>4. CASE t \in done
      <4>1. Busy(u, {"write"})' = Busy(u, {"write"})
        BY <1>0, <1>b, <3>4, BusySame
      <4> QED
        BY <1>0, <2>1, <2>2, <2>4, <3>2, <3>3, <3>4, <4>1 DEF WantedAt
    <3>5. CASE t \notin done
      <4>1. /\ Cardinality(Busy(u, {"write"})) \in Nat /\ w \in Busy(u, {"write"})'
            /\ Cardinality(Busy(u, {"write"})') = Cardinality(Busy(u, {"write"})) + 1
        BY <1>0, <1>b, <2>4, <3>5, BusyJoins
      <4>2. ~Landed(u)
        BY <1>0, <2>4, <3>5 DEF PickerInv, Missing
      <4>3. Cardinality(Busy(u, {"write"})) = 0
        BY <2>1, <2>4, <3>5, <4>1 DEF WantedAt
      <4>4. Cardinality(Busy(u, {"write"})') = 1 /\ Busy(u, {"write"})' # {}
        BY <4>1, <4>3
      <4> QED
        BY <1>0, <2>1, <2>2, <2>4, <3>2, <3>3, <4>2, <4>4 DEF WantedAt
    <3> QED
      BY <3>4, <3>5
  <2> QED
    BY <2>3, <2>4
<1> QED
  BY <1>2, <1>3 DEF PickerInv

\* Who writes a chunk is alone in it.
LEMMA Writer ==
  ASSUME SwarmInv, PickerInv, phase = "fetch", NEW w \in Workers, work[w].pc = "write"
  PROVE  /\ work[w].task \in tasks /\ work[w].task \in done /\ ~Landed(work[w].task)
         /\ ChunkOK(work[w].data)
<1>1. work[w].task \in tasks /\ ChunkOK(work[w].data)
  BY DEF SwarmInv, Checked
<1>2. WantedAt(work[w].task)
  BY <1>1 DEF PickerInv, Wanted, WantedAt
<1>3. Cardinality(Busy(work[w].task, {"write"})) \in Nat /\ Cardinality(Busy(work[w].task, {"write"})) >= 1
  BY BusyOne
<1> QED
  BY <1>1, <1>2, <1>3 DEF WantedAt

\* Write: the chunk lands, and no other does by that.
LEMMA WritePicker ==
  ASSUME SwarmInv, PickerInv, NEW w \in Workers, Write(w) PROVE PickerInv'
<1> USE DEF Write, Worker, setting, ctx, picker, known, finalizing
<1>e. work[w].task \in tasks /\ work[w].task \in Tasks
  BY Writer DEF SwarmInv, SwarmTypes
<1>f. PICK t \in Tasks : t = work[w].task
  BY <1>e
<1>0. /\ SwarmTypes /\ Turns(w, Idle) /\ work[w].pc = "write" /\ Idle.pc = "idle" /\ phase = "fetch" /\ phase' = "fetch"
      /\ UNCHANGED <<catalog, fatal, tasks, done, pending, fails, inflight>>
      /\ part' = [part EXCEPT ![t] = work[w].data] /\ hasPart' = hasPart \cup {t[1]}
  BY <1>f DEF SwarmInv, Turns, Idle
<1>a. t \in tasks /\ t \in Tasks /\ t \in done /\ ~Landed(t) /\ ChunkOK(work[w].data)
  BY <1>0, <1>f, Writer DEF SwarmTypes
<1>b. Landed(t)'
  BY <1>0, <1>a DEF Landed, ChunkOK, SwarmTypes
<1>c. Blank'
  BY <1>0, <1>a DEF PickerInv, Blank, SwarmTypes
<1>d. \A u \in Tasks \ {t} : Landed(u)' <=> Landed(u)
  <2> SUFFICES ASSUME NEW u \in Tasks \ {t} PROVE Landed(u)' <=> Landed(u)
    OBVIOUS
  <2>1. part'[u] = part[u]
    BY <1>0 DEF SwarmTypes
  <2>2. u[1] \notin hasPart => part[u] = "hole"
    BY DEF PickerInv, Blank
  <2> QED
    BY <1>0, <2>1, <2>2 DEF Landed, ChunkOK
<1> HIDE DEF Write
<1>1. Counters' /\ Ready'
  BY <1>0 DEF PickerInv, Counters, Ready
<1>2. Missing'
  BY <1>0, <1>a, <1>d DEF PickerInv, Missing, SwarmTypes
<1>3. Wanted'
  <2> SUFFICES ASSUME NEW u \in tasks PROVE WantedAt(u)'
    BY <1>0 DEF Wanted, WantedAt
  <2>1. WantedAt(u) /\ u \in Tasks
    BY <1>0 DEF PickerInv, Wanted, WantedAt, SwarmTypes
  <2>3. CASE u # t
    BY <1>0, <1>d, <1>f, <2>1, <2>3, OtherChunks
  <2>4. CASE u = t
    <3>1. Busy(u, {"fetch", "got"})' = Busy(u, {"fetch", "got"})
      BY <1>0, BusySame
    <3>2. /\ Cardinality(Busy(u, {"write"})) \in Nat /\ Cardinality(Busy(u, {"write"}))  >= 1
          /\ Cardinality(Busy(u, {"write"})') = Cardinality(Busy(u, {"write"})) - 1
      BY <1>0, <1>f, <2>4, BusyLeaves
    <3>3. Cardinality(Busy(u, {"write"})') = 0
      BY <1>a, <2>1, <2>4, <3>2 DEF WantedAt
    <3> QED
      BY <1>0, <1>a, <1>b, <2>1, <2>4, <3>1, <3>3 DEF WantedAt
  <2> QED
    BY <2>3, <2>4
<1> QED
  BY <1>1, <1>2, <1>3, <1>c DEF PickerInv

\* A fetch that hangs is still a fetch.
LEMMA HangsPicker ==
  ASSUME SwarmInv, PickerInv, NEW w \in Workers, Hangs(w) PROVE PickerInv'
<1> USE DEF Hangs, Fetching, Worker, disk, setting, ctx, picker, joiner, known, finalizing
<1> DEFINE x == [work[w] EXCEPT !.hung = TRUE]
<1>a. work[w] \in [pc : {"fetch"}, task : Tasks, peers : SUBSET Peers, hung : BOOLEAN]
  BY WorkShape DEF SwarmInv
<1>0. /\ SwarmTypes /\ Turns(w, x) /\ work[w].pc = "fetch" /\ x.pc = "fetch" /\ x.task = work[w].task
      /\ phase = "fetch" /\ phase' = "fetch"
      /\ UNCHANGED <<part, hasPart, catalog, fatal, tasks, done, pending, fails, inflight>>
  BY <1>a DEF SwarmInv, Turns
<1> HIDE DEF x, Hangs
<1>1. Counters' /\ Blank' /\ Ready' /\ Missing'
  BY <1>0 DEF PickerInv, Counters, Blank, Ready, Missing, Landed, ChunkOK
<1>2. Wanted'
  <2> SUFFICES ASSUME NEW u \in tasks PROVE WantedAt(u)'
    BY <1>0 DEF Wanted, WantedAt
  <2>1. WantedAt(u)
    BY <1>0 DEF PickerInv, Wanted, WantedAt
  <2>2. Landed(u)' <=> Landed(u)
    BY <1>0 DEF Landed, ChunkOK
  <2>3. Busy(u, {"fetch", "got"})' = Busy(u, {"fetch", "got"}) /\ Busy(u, {"write"})' = Busy(u, {"write"})
    BY <1>0, BusySame
  <2> QED
    BY <1>0, <2>1, <2>2, <2>3, WantedKept
<1> QED
  BY <1>1, <1>2 DEF PickerInv

\* A write that fails ends the join, whatever it leaves of its chunk; no other
\* chunk lands or is lost by it.
LEMMA WriteFailsPicker ==
  ASSUME SwarmInv, PickerInv, NEW w \in Workers, WriteFails(w) PROVE PickerInv'
<1> USE DEF Worker, setting, known, finalizing
<1>e. work[w].pc = "write" /\ phase = "fetch"
  BY DEF WriteFails
<1>f. PICK t \in Tasks : t = work[w].task
  BY <1>e, Writer DEF SwarmInv, SwarmTypes
<1>0. /\ SwarmTypes /\ Turns(w, Idle) /\ Idle.pc = "idle" /\ phase' = "fetch"
      /\ UNCHANGED <<catalog, tasks, done, pending, fails, inflight>> /\ fatal'
  BY <1>e DEF WriteFails, picker, SwarmInv, Turns, Idle
<1>a. t \in tasks /\ t \in done /\ ~Landed(t)
  BY <1>e, <1>f, Writer
<1>b. /\ UNCHANGED <<part, hasPart>> \/ hasPart' = hasPart \cup {t[1]}
      /\ \A u \in Tasks \ {t} : part'[u] = part[u]
      /\ part' = part \/ \E x \in Torn(t, work[w].data) : part' = [part EXCEPT ![t] = x]
  BY <1>f DEF WriteFails, SwarmInv, SwarmTypes
<1>c. Blank'
  <2> SUFFICES ASSUME NEW u \in Tasks, u[1] \notin hasPart' PROVE part'[u] = "hole"
    BY DEF Blank
  <2>1. u[1] \notin hasPart /\ part[u] = "hole"
    BY <1>b DEF PickerInv, Blank
  <2>2. CASE u = t
    BY <1>b, <1>f, <2>1, <2>2 DEF WriteFails
  <2>3. CASE u # t
    BY <1>b, <2>1, <2>3
  <2> QED
    BY <2>2, <2>3
<1>d. \A u \in Tasks \ {t} : Landed(u)' <=> Landed(u)
  <2> SUFFICES ASSUME NEW u \in Tasks \ {t} PROVE Landed(u)' <=> Landed(u)
    OBVIOUS
  <2>1. part'[u] = part[u] /\ (u[1] \notin hasPart => part[u] = "hole")
    BY <1>b DEF PickerInv, Blank
  <2> QED
    BY <1>0, <1>b, <2>1 DEF Landed, ChunkOK
<1>1. Counters' /\ Ready'
  BY <1>0 DEF PickerInv, Counters, Ready
<1>2. Missing'
  BY <1>0, <1>a, <1>d, <1>e DEF PickerInv, Missing, SwarmTypes
<1>3. Wanted'
  <2> SUFFICES ASSUME NEW u \in tasks PROVE WantedAt(u)'
    BY <1>0 DEF Wanted, WantedAt
  <2>1. WantedAt(u) /\ u \in Tasks
    BY <1>0, <1>e DEF PickerInv, Wanted, WantedAt, SwarmTypes
  <2>2. CASE u # t
    BY <1>0, <1>d, <1>e, <1>f, <2>1, <2>2, OtherChunks
  <2>3. CASE u = t
    <3>1. Busy(u, {"fetch", "got"})' = Busy(u, {"fetch", "got"})
      BY <1>0, <1>e, BusySame
    <3>2. /\ Cardinality(Busy(u, {"write"})) \in Nat
          /\ Cardinality(Busy(u, {"write"})') = Cardinality(Busy(u, {"write"})) - 1
          /\ Cardinality(Busy(u, {"write"})') \in Nat
      BY <1>0, <1>e, <1>f, <2>3, BusyLeaves
    <3>3. Cardinality(Busy(u, {"write"})') = 0
      BY <1>a, <2>1, <2>3, <3>2 DEF WantedAt
    <3> QED
      BY <1>0, <1>a, <2>1, <2>3, <3>1, <3>3 DEF WantedAt
  <2> QED
    BY <2>2, <2>3
<1> QED
  BY <1>1, <1>2, <1>3, <1>c DEF PickerInv

\* A part that is taken away takes its chunks with it.
LEMMA FinalPicker ==
  ASSUME SwarmInv, PickerInv, FinalCheck \/ FinalRename PROVE PickerInv'
<1> USE DEF FinalCheck, FinalRename, At, setting, ctx, picker, joiner, known
<1>1. Counters' /\ phase' \notin {"announce", "fetch"}
  BY DEF PickerInv, Counters
<1>2. Blank'
  BY DEF PickerInv, Blank
<1> QED
  BY <1>1, <1>2, PickerOver

\* Every step keeps the picker's books.
LEMMA PickerNext == ASSUME SwarmInv, PickerInv, [Next]_vars PROVE PickerInv'
<1>1. CASE UNCHANGED vars
  BY <1>1, PickerUntouched DEF vars, disk, setting, ctx, picker
<1>2. CASE Start
  BY <1>2, StartPicker
<1>3. ASSUME NEW a \in TrackerAnswers, Announce(a) \/ Reannounce(a) PROVE PickerInv'
  <2>1. CASE Reannounce(a)
    BY <2>1, PickerUntouched DEF Reannounce, disk, setting, ctx, picker
  <2> QED
    BY <1>3, <2>1, AnnouncePicker
<1>4. ASSUME NEW w \in Workers, WorkerStep(w) \/ WriteFails(w) \/ Hangs(w) PROVE PickerInv'
  <2>1. CASE \E p \in Peers : Lied(w, p)
    BY <2>1, PickerUntouched DEF Lied, disk, setting, ctx, picker
  <2> QED
    BY <1>4, <2>1, PickPicker, WorkerReturnsPicker, FetchedPicker, FetchFailsPicker, CompletePicker,
       WritePicker, WriteFailsPicker, HangsPicker DEF WorkerStep
<1>5. CASE FetchEnds
  <2>1. phase' \notin {"announce", "fetch"}
    BY <1>5 DEF FetchEnds
  <2> QED
    BY <1>5, <2>1, PickerUntouched DEF FetchEnds, disk, setting, ctx, picker
<1>6. CASE FinalizeStep \/ FinalRenameFails
  <2>1. CASE FinalClose \/ FinalMark
    BY <2>1, PickerUntouched DEF FinalClose, FinalMark, disk, setting, ctx, picker
  <2>2. CASE FinalCheck \/ FinalRename
    BY <2>2, FinalPicker
  <2>3. CASE FinalRenameFails
    BY <2>3, PickerUntouched DEF FinalRenameFails, disk, setting, ctx, picker
  <2>4. CASE RunEnds
    BY <2>4, PickerUntouched DEF RunEnds, disk, setting, ctx, picker
  <2> QED
    BY <1>6, <2>1, <2>2, <2>3, <2>4 DEF FinalizeStep
<1>7. ASSUME NEW c \in Conns, ServeStep(c) PROVE PickerInv'
  BY <1>7, PickerUntouched DEF ServeStep, ServeAsk, ServeRead, ServeDone, disk, setting, ctx, picker
<1>8. CASE Cancel
  BY <1>8, PickerUntouched DEF Cancel, disk, setting, picker
<1>9. CASE Exit
  <2>1. Counters' /\ Blank' /\ phase' \notin {"announce", "fetch"}
    BY <1>9 DEF Exit, Forget, disk, PickerInv, Counters, Blank
  <2> QED
    BY <2>1, PickerOver
<1>10. ASSUME NEW lost \in SUBSET Tasks, Crash(lost) PROVE PickerInv'
  <2>1. Counters' /\ Blank' /\ phase' \notin {"announce", "fetch"}
    BY <1>10 DEF Crash, Forget, PickerInv, Counters, Blank
  <2> QED
    BY <2>1, PickerOver
<1> QED
  BY <1>1, <1>2, <1>3, <1>4, <1>5, <1>6, <1>7, <1>8, <1>9, <1>10 DEF Next

\* The picker's invariant holds throughout.
THEOREM PickerInvariant == Spec => []PickerInv
<1>1. Init => SwarmInv /\ PickerInv
  BY SwarmInvInit, PickerInit
<1>2. SwarmInv /\ PickerInv /\ [Next]_vars => SwarmInv' /\ PickerInv'
  BY SwarmInvNext, PickerNext
<1> QED
  BY <1>1, <1>2, PTL DEF Spec

\* No chunk is forgotten or written twice, for every number of workers, with any
\* interleaving of the endgame's duplicates, failures and late answers
\* (swarm_picker.go:41-110).
THEOREM NoChunkForgotten == Spec => []Wanted
<1>1. PickerInv => Wanted
  BY DEF PickerInv
<1> QED
  BY <1>1, PickerInvariant, PTL

-----------------------------------------------------------------------------
(* One good peer *)

\* What leaves the failures and the peers alone, and takes back no end.
LEMMA SeedUntouched ==
  ASSUME SeedInv, Stopped => Stopped', UNCHANGED <<reliable, inflight, fails, banned, curPeers, work>>,
         phase' = phase \/ phase' # "fetch"
  PROVE  SeedInv'
<1>1. Counters' /\ SeedsKnown'
  BY DEF SeedInv, Counters, SeedsKnown
<1>2. OneGoodPeer'
  BY DEF SeedInv, OneGoodPeer
<1> QED
  BY <1>1, <1>2 DEF SeedInv

\* Announce: an answer that is not empty has the seeds.
LEMMA AnnounceSeeds ==
  ASSUME SwarmInv, SeedInv, NEW a \in TrackerAnswers, Announce(a) \/ Reannounce(a) PROVE SeedInv'
<1> USE DEF Announce, Reannounce, disk, setting, ctx, picker, joiner, finalizing
<1>1. reliable /\ a # {} => Seeds \subseteq a
  BY DEF TrackerAnswers
<1>2. Announce(a) => \A w \in Workers : work[w].pc = "idle"
  BY DEF SwarmInv, AtRest
<1>3. Counters' /\ SeedsKnown'
  BY <1>1, <1>2 DEF SeedInv, Counters, SeedsKnown
<1>4. OneGoodPeer'
  <2>1. UNCHANGED <<reliable, fails, cancelled, fatal>>
    OBVIOUS
  <2> QED
    BY <2>1 DEF SeedInv, OneGoodPeer, Stopped
<1> QED
  BY <1>3, <1>4 DEF SeedInv

\* A worker's step that counts no failure.
LEMMA WorkSeeds ==
  ASSUME SwarmInv, SeedInv, NEW w \in Workers, NEW x, Turns(w, x),
         reliable /\ x.pc = "fetch" => Seeds \subseteq x.peers,
         phase' = phase, UNCHANGED <<reliable, cancelled, banned, curPeers>>, fatal => fatal', Counters',
         \A t \in Tasks : fails'[t] > 0 => fails[t] > 0
  PROVE  SeedInv'
<1>1. \A v \in Workers : work'[v] = IF v = w THEN x ELSE work[v]
  BY DEF SwarmInv, SwarmTypes, Turns
<1>2. SeedsKnown'
  BY <1>1 DEF SeedInv, SeedsKnown
<1>3. OneGoodPeer'
  BY DEF SeedInv, OneGoodPeer, Stopped
<1> QED
  BY <1>2, <1>3 DEF SeedInv

\* Pick, Hangs, WorkerReturns, Fetched, Complete, Write and WriteFails count none.
LEMMA WorkerSeeds ==
  ASSUME SwarmInv, SeedInv, NEW w \in Workers,
         \/ \E t \in Tasks : Pick(w, t)
         \/ WorkerReturns(w)
         \/ \E d \in {"good", "bad"} : Fetched(w, d)
         \/ Complete(w)
         \/ Write(w)
         \/ WriteFails(w)
         \/ Hangs(w)
  PROVE  SeedInv'
<1> USE DEF Worker, disk, setting, ctx, picker, joiner, known, finalizing, Turns
<1>0. Counters /\ inflight \in [Tasks -> Nat] /\ fails \in [Tasks -> Nat]
  BY DEF SeedInv, Counters
<1>1. ASSUME NEW t \in Tasks, Pick(w, t) PROVE SeedInv'
  <2> DEFINE x == [pc |-> "fetch", task |-> t, peers |-> curPeers, hung |-> FALSE]
  <2>1. Turns(w, x) /\ (reliable /\ x.pc = "fetch" => Seeds \subseteq x.peers) /\ phase' = phase
        /\ UNCHANGED <<reliable, cancelled, fatal, banned, curPeers, fails>>
    BY <1>1 DEF Pick, SeedInv, SeedsKnown
  <2>2. Counters'
    BY <1>0, <1>1 DEF Pick, Counters
  <2> HIDE DEF x
  <2> QED
    BY <2>1, <2>2, WorkSeeds
<1>2. CASE WorkerReturns(w)
  <2> DEFINE x == [pc |-> "returned"]
  <2>1. Turns(w, x) /\ x.pc # "fetch" /\ phase' = phase
        /\ UNCHANGED <<reliable, cancelled, fatal, banned, curPeers, fails, inflight>>
    BY <1>2 DEF WorkerReturns
  <2> HIDE DEF x
  <2> QED
    BY <1>0, <2>1, WorkSeeds DEF Counters
<1>3. ASSUME NEW d \in {"good", "bad"}, Fetched(w, d) PROVE SeedInv'
  <2> DEFINE x == [pc |-> "got", task |-> work[w].task, data |-> d]
  <2>1. Turns(w, x) /\ x.pc # "fetch" /\ phase' = phase
        /\ UNCHANGED <<reliable, cancelled, fatal, banned, curPeers, fails, inflight>>
    BY <1>3 DEF Fetched
  <2> HIDE DEF x
  <2> QED
    BY <1>0, <2>1, WorkSeeds DEF Counters
<1>4. CASE Complete(w)
  <2> DEFINE x == IF work[w].task \in done THEN Idle ELSE [work[w] EXCEPT !.pc = "write"]
  <2>0. work[w] \in [pc : {"got", "write"}, task : Tasks, data : {"good", "bad"}]
    BY <1>4, WorkShape DEF Complete, SwarmInv
  <2>1. Turns(w, x) /\ phase' = phase /\ UNCHANGED <<reliable, cancelled, fatal, banned, curPeers>>
    BY <1>4 DEF Complete, CompleteTask
  <2>2. x.pc # "fetch"
    BY <2>0 DEF Idle
  <2>3. inflight' \in [Tasks -> Nat]
    BY <1>0, <1>4, <2>0, ReleaseCounts DEF Complete, CompleteTask
  <2>4. fails' = fails \/ fails' = [fails EXCEPT ![work[w].task] = 0]
    BY <1>4 DEF Complete, CompleteTask
  <2>5. Counters' /\ \A t \in Tasks : fails'[t] > 0 => fails[t] > 0
    BY <1>0, <2>3, <2>4 DEF Counters
  <2> HIDE DEF x
  <2> QED
    BY <2>1, <2>2, <2>5, WorkSeeds
<1>5. CASE Write(w) \/ WriteFails(w)
  <2>1. Turns(w, Idle) /\ Idle.pc # "fetch" /\ phase' = phase
        /\ UNCHANGED <<reliable, cancelled, banned, curPeers, fails, inflight>> /\ (fatal => fatal')
    BY <1>5 DEF Write, WriteFails, Idle
  <2> QED
    BY <1>0, <2>1, WorkSeeds DEF Counters
<1>6. CASE Hangs(w)
  <2> DEFINE x == [work[w] EXCEPT !.hung = TRUE]
  <2>0. work[w] \in [pc : {"fetch"}, task : Tasks, peers : SUBSET Peers, hung : BOOLEAN] /\ phase = "fetch"
    BY <1>6, WorkShape DEF Hangs, Fetching, SwarmInv
  <2>1. /\ Turns(w, x) /\ x.peers = work[w].peers /\ phase' = phase
        /\ UNCHANGED <<reliable, cancelled, fatal, banned, curPeers, fails, inflight>>
    BY <1>6, <2>0 DEF Hangs
  <2>2. reliable => Seeds \subseteq x.peers
    BY <2>0, <2>1 DEF SeedInv, SeedsKnown
  <2> HIDE DEF x
  <2> QED
    BY <1>0, <2>1, <2>2, WorkSeeds DEF Counters
<1> QED
  BY <1>1, <1>2, <1>3, <1>4, <1>5, <1>6

\* While a seed answers, a fetch fails only because the join is over.
LEMMA FetchFailsSeeds ==
  ASSUME SwarmInv, SeedInv, NEW w \in Workers, FetchFails(w) PROVE SeedInv'
<1> USE DEF FetchFails, Worker, disk, setting, joiner, known, finalizing
<1>1. reliable /\ Seeds # {} => Stopped
  <2> SUFFICES ASSUME reliable, NEW s \in Seeds, AllFail(work[w].peers) PROVE FALSE
    OBVIOUS
  <2>1. s \in work[w].peers /\ s \notin banned
    BY PeerAssumption DEF SeedInv, SeedsKnown
  <2>2. s \in Sources(work[w].peers)
    BY <2>1 DEF Sources
  <2>3. Answers(s) = {"good"}
    BY DEF Answers
  <2> QED
    BY <2>2, <2>3 DEF AllFail
<1>2. work' = [work EXCEPT ![w] = Idle] /\ Idle.pc = "idle"
  BY DEF Idle
<1>3. \A v \in Workers : work'[v] = IF v = w THEN Idle ELSE work[v]
  BY <1>2 DEF SwarmInv, SwarmTypes
<1>4. SeedsKnown'
  BY <1>2, <1>3 DEF SeedInv, SeedsKnown
<1>5. Counters'
  <2>1. work[w].task \in Tasks
    BY WorkShape DEF SwarmInv
  <2>2. inflight' \in [Tasks -> Nat]
    BY <2>1, ReleaseCounts DEF FailTask, SeedInv
  <2>3. fails' = fails \/ fails' = [fails EXCEPT ![work[w].task] = @ + 1]
    BY DEF FailTask
  <2> QED
    BY <2>2, <2>3 DEF SeedInv, Counters
<1>6. OneGoodPeer'
  BY <1>1 DEF OneGoodPeer, Stopped
<1> QED
  BY <1>4, <1>5, <1>6 DEF SeedInv

\* A peer that is banned is a liar.
LEMMA LiedSeeds ==
  ASSUME SwarmInv, SeedInv, NEW w \in Workers, NEW p \in Peers, Lied(w, p) PROVE SeedInv'
<1> USE DEF Lied, Worker, disk, setting, ctx, picker, joiner, finalizing
<1>1. p \in Liars
  BY PeerAssumption DEF Answers
<1>2. Counters' /\ SeedsKnown'
  BY <1>1 DEF SeedInv, Counters, SeedsKnown
<1>3. OneGoodPeer'
  BY DEF SeedInv, OneGoodPeer, Stopped
<1> QED
  BY <1>2, <1>3 DEF SeedInv

\* A new run counts from nothing, and so does one that is gone.
LEMMA ForgetSeeds ==
  ASSUME fails' = [t \in Tasks |-> 0], inflight' = [t \in Tasks |-> 0], banned' \subseteq Liars, phase' # "fetch"
  PROVE  SeedInv'
BY DEF SeedInv, Counters, SeedsKnown, OneGoodPeer

\* Every step keeps it.
LEMMA SeedNext == ASSUME SwarmInv, SeedInv, [Next]_vars PROVE SeedInv'
<1>1. CASE UNCHANGED vars
  BY <1>1, SeedUntouched DEF vars, setting, ctx, picker, known, Stopped
<1>2. CASE Start
  BY <1>2, ForgetSeeds DEF Start, known, SeedInv, SeedsKnown
<1>3. ASSUME NEW a \in TrackerAnswers, Announce(a) \/ Reannounce(a) PROVE SeedInv'
  BY <1>3, AnnounceSeeds
<1>4. ASSUME NEW w \in Workers, WorkerStep(w) \/ WriteFails(w) \/ Hangs(w) PROVE SeedInv'
  BY <1>4, WorkerSeeds, FetchFailsSeeds, LiedSeeds DEF WorkerStep
<1>5. CASE FetchEnds
  BY <1>5, SeedUntouched DEF FetchEnds, setting, ctx, picker, known, Stopped
<1>6. CASE FinalizeStep \/ FinalRenameFails
  <2>1. UNCHANGED <<setting, ctx, picker, known, work>> /\ (phase' = phase \/ phase' # "fetch")
    BY <1>6 DEF FinalizeStep, FinalClose, FinalCheck, FinalRename, FinalMark, RunEnds, FinalRenameFails, At
  <2> QED
    BY <2>1, SeedUntouched DEF setting, ctx, picker, known, Stopped
<1>7. ASSUME NEW c \in Conns, ServeStep(c) PROVE SeedInv'
  BY <1>7, SeedUntouched DEF ServeStep, ServeAsk, ServeRead, ServeDone, setting, ctx, picker, known, Stopped
<1>8. CASE Cancel
  BY <1>8, SeedUntouched DEF Cancel, setting, picker, known, Stopped
<1>9. CASE Exit \/ \E lost \in SUBSET Tasks : Crash(lost)
  BY <1>9, ForgetSeeds DEF Exit, Crash, Forget
<1> QED
  BY <1>1, <1>2, <1>3, <1>4, <1>5, <1>6, <1>7, <1>8, <1>9 DEF Next

\* While a member that has everything is known, whatever the liars answer and
\* whoever is banned for it, no chunk counts a failure unless the run is over
\* (swarm_join.go:396-448).
THEOREM SeedSuffices == Spec => []OneGoodPeer
<1>1. Init => SwarmInv /\ SeedInv
  <2>1. Init => SeedInv
    BY DEF Init, SeedInv, Counters, SeedsKnown, OneGoodPeer
  <2> QED
    BY <2>1, SwarmInvInit
<1>2. SwarmInv /\ SeedInv /\ [Next]_vars => SwarmInv' /\ SeedInv'
  BY SwarmInvNext, SeedNext
<1>3. SeedInv => OneGoodPeer
  BY DEF SeedInv
<1> QED
  BY <1>1, <1>2, <1>3, PTL DEF Spec

-----------------------------------------------------------------------------
(* The tracker *)

TrackerTypes ==
  /\ DOMAIN rooms \subseteq RoomIDs
  /\ \A q \in DOMAIN rooms : rooms[q] \subseteq [addr : Addrs, seen : Nat]
  /\ now \in Nat
  /\ heard \in [RoomIDs \X Addrs -> Int]
  /\ \A x \in RoomIDs \X Addrs : heard[x] <= now
  /\ reply.ok => reply.room \in RoomIDs

IsFresh(r, a) == heard[<<r, a>>] >= 0 /\ now - heard[<<r, a>>] <= TTL

(***************************************************************************)
(* SeedsReturned speaks of the last answer; that the next one is right too *)
(* rests on every room, asked for or not, having the record of the last    *)
(* announce of each seed that was heard of in time.                        *)
(***************************************************************************)
SeedsKept ==
  \A r \in RoomIDs, a \in SeedAddrs :
    IsFresh(r, a) => r \in DOMAIN rooms /\ [addr |-> a, seen |-> heard[<<r, a>>]] \in rooms[r]

TrackerInv == TrackerTypes /\ SeedsKept /\ SeedsReturned

\* A seed's record lives at least as long as a joiner's.
LEMMA LongLeash == Leash * TTL \in Nat /\ TTL \in Nat /\ Leash * TTL >= TTL
<1>1. \A l \in Nat \ {0}, n \in Nat : l * n \in Nat /\ l * n >= n
  OBVIOUS
<1> QED
  BY <1>1, TrackerAssumption

\* At first no room is there.
LEMMA TrackerInvInit == ASSUME TrackerInit PROVE TrackerInv
<1>1. DOMAIN rooms = {} /\ now = 0 /\ ~reply.ok
  BY DEF TrackerInit
<1>2. heard = [x \in RoomIDs \X Addrs |-> -1]
  BY DEF TrackerInit
<1>3. heard \in [RoomIDs \X Addrs -> Int] /\ \A x \in RoomIDs \X Addrs : heard[x] < 0
  BY <1>2
<1>4. TrackerTypes
  BY <1>1, <1>3 DEF TrackerTypes
<1>5. SeedsKept
  BY <1>3, TrackerAssumption DEF SeedsKept, IsFresh
<1> QED
  BY <1>1, <1>4, <1>5 DEF TrackerInv, SeedsReturned

\* As time passes, fewer are heard of in time.
LEMMA TickInv == ASSUME TrackerInv, Tick PROVE TrackerInv'
<1>1. TrackerTypes'
  BY DEF Tick, TrackerInv, TrackerTypes
<1>2. \A r \in RoomIDs, a \in Addrs : IsFresh(r, a)' => IsFresh(r, a)
  BY TrackerAssumption DEF Tick, TrackerInv, TrackerTypes, IsFresh
<1>3. SeedsKept'
  BY <1>2, TrackerAssumption DEF Tick, TrackerInv, SeedsKept
<1>4. SeedsReturned'
  BY <1>2, TrackerAssumption DEF Tick, TrackerInv, TrackerTypes, SeedsReturned, IsFresh
<1> QED
  BY <1>1, <1>3, <1>4 DEF TrackerInv

\* The sweep of a tracker that is full leaves the rooms a seed was seen in.
LEMMA SweepKeeps ==
  ASSUME TrackerInv, NEW r \in RoomIDs
  PROVE  /\ DOMAIN RoomsFor(r) \subseteq DOMAIN rooms
         /\ \A q \in DOMAIN RoomsFor(r) : RoomsFor(r)[q] \subseteq [addr : Addrs, seen : Nat]
         /\ \A q \in RoomIDs, a \in SeedAddrs : IsFresh(q, a) =>
              q \in DOMAIN RoomsFor(r) /\ [addr |-> a, seen |-> heard[<<q, a>>]] \in RoomsFor(r)[q]
<1>1. CASE RoomsFor(r) = rooms
  BY <1>1 DEF TrackerInv, TrackerTypes, SeedsKept
<1>2. CASE RoomsFor(r) = Swept
  <2>1. \A q \in DOMAIN Swept : q \in DOMAIN rooms /\ Swept[q] = rooms[q]
    BY DEF Swept
  <2>2. \A q \in DOMAIN rooms : (\E m \in rooms[q] : Fresh(m)) => q \in DOMAIN Swept
    BY DEF Swept
  <2>3. ASSUME NEW q \in RoomIDs, NEW a \in SeedAddrs, IsFresh(q, a)
        PROVE  q \in DOMAIN Swept /\ [addr |-> a, seen |-> heard[<<q, a>>]] \in Swept[q]
    <3>1. q \in DOMAIN rooms /\ [addr |-> a, seen |-> heard[<<q, a>>]] \in rooms[q]
      BY <2>3 DEF TrackerInv, SeedsKept
    <3>2. Fresh([addr |-> a, seen |-> heard[<<q, a>>]])
      BY <2>3 DEF Fresh, IsFresh
    <3> QED
      BY <2>1, <2>2, <3>1, <3>2
  <2> QED
    BY <1>2, <2>1, <2>3 DEF TrackerInv, TrackerTypes
<1> QED
  BY <1>1, <1>2 DEF RoomsFor

\* A refusal, of a tracker that is full of rooms in use, drops none of these.
LEMMA RefusedInv ==
  ASSUME TrackerInv, NEW r \in RoomIDs, NEW a \in Addrs, Refused(r, a) PROVE TrackerInv'
<1>1. rooms' = RoomsFor(r) /\ ~reply'.ok /\ UNCHANGED <<now, heard>>
  BY DEF Refused
<1>2. TrackerTypes'
  BY <1>1, SweepKeeps DEF TrackerInv, TrackerTypes
<1>3. SeedsKept'
  BY <1>1, SweepKeeps DEF SeedsKept, IsFresh
<1>4. SeedsReturned'
  BY <1>1 DEF SeedsReturned
<1> QED
  BY <1>2, <1>3, <1>4 DEF TrackerInv

\* Those told are told of every other seed of the room.
LEMMA SeedsTold ==
  ASSUME NEW a, NEW ms, NEW told \in Told(a, ms), NEW m \in ms, m.addr # a, m.addr \in SeedAddrs
  PROVE  m.addr \in told
BY DEF Told

\* An answer: nobody but a joiner makes place, and the seeds are told of.
LEMMA AnsweredInv ==
  ASSUME TrackerInv, NEW r \in RoomIDs, NEW a \in Addrs, Answered(r, a) PROVE TrackerInv'
<1> DEFINE rs == RoomsFor(r)
           old == IF r \in DOMAIN rs THEN {m \in rs[r] : Alive(m)} ELSE {}
           listed == \E m \in old : m.addr = a
           victims == IF listed \/ Cardinality(old) < MaxMembers THEN {} ELSE Victims(old)
           Left(gone) == {m \in old \ gone : m.addr # a} \cup {[addr |-> a, seen |-> now]}
<1>1. PICK gone \in IF victims = {} THEN {{}} ELSE {{v} : v \in victims} :
        /\ rooms' = [q \in DOMAIN rs \cup {r} |-> IF q = r THEN Left(gone) ELSE rs[q]]
        /\ \E told \in Told(a, Left(gone)) : reply' = [to |-> a, room |-> r, ok |-> TRUE, out |-> told]
  BY DEF Answered
<1>2. \A m \in gone : m.addr \notin SeedAddrs
  BY DEF Victims, Stalest
<1>3. PICK ms : ms = Left(gone)
  OBVIOUS
<1>4. /\ DOMAIN rooms' = DOMAIN rs \cup {r} /\ rooms'[r] = ms
      /\ \A q \in DOMAIN rs \ {r} : rooms'[q] = rs[q]
  BY <1>1, <1>3
<1>5. PICK told \in Told(a, ms) : reply' = [to |-> a, room |-> r, ok |-> TRUE, out |-> told]
  BY <1>1, <1>3
<1>6. heard' = [heard EXCEPT ![<<r, a>>] = now] /\ now' = now
  BY DEF Answered
<1>7. ms \subseteq [addr : Addrs, seen : Nat]
  <2>1. old \subseteq [addr : Addrs, seen : Nat]
    BY SweepKeeps
  <2> QED
    BY <1>3, <2>1 DEF TrackerInv, TrackerTypes
<1>8. ASSUME NEW b \in SeedAddrs \ {a}, IsFresh(r, b)
      PROVE  [addr |-> b, seen |-> heard[<<r, b>>]] \in ms
  <2> DEFINE rec == [addr |-> b, seen |-> heard[<<r, b>>]]
  <2>1. r \in DOMAIN rs /\ rec \in rs[r]
    BY <1>8, SweepKeeps
  <2>2. Alive(rec)
    <3>1. Lifetime(b) \in Nat /\ Lifetime(b) >= TTL /\ TTL \in Nat
      BY LongLeash DEF Lifetime
    <3>2. now - heard[<<r, b>>] <= TTL /\ now - heard[<<r, b>>] \in Int
      BY <1>8, TrackerAssumption DEF IsFresh, TrackerInv, TrackerTypes
    <3>3. now - heard[<<r, b>>] <= Lifetime(b)
      BY <3>1, <3>2
    <3> QED
      BY <3>3 DEF Alive
  <2>3. rec \in old /\ rec \notin gone /\ rec.addr # a
    BY <1>2, <2>1, <2>2
  <2> QED
    BY <1>3, <2>3
<1>9. [addr |-> a, seen |-> now] \in ms
  BY <1>3
<1> HIDE DEF rs, old, listed, victims, Left
<1>10. heard' \in [RoomIDs \X Addrs -> Int] /\ heard'[<<r, a>>] = now
       /\ \A q \in RoomIDs, b \in Addrs : <<q, b>> # <<r, a>> => heard'[<<q, b>>] = heard[<<q, b>>]
  BY <1>6 DEF TrackerInv, TrackerTypes
<1>11. TrackerTypes'
  <2>1. DOMAIN rooms' \subseteq RoomIDs
    BY <1>4, SweepKeeps DEF TrackerInv, TrackerTypes, rs
  <2>2. \A q \in DOMAIN rooms' : rooms'[q] \subseteq [addr : Addrs, seen : Nat]
    BY <1>4, <1>7, SweepKeeps DEF rs
  <2>3. \A x \in RoomIDs \X Addrs : heard'[x] <= now'
    BY <1>6 DEF TrackerInv, TrackerTypes
  <2>4. now' \in Nat /\ reply'.room \in RoomIDs
    BY <1>5, <1>6 DEF TrackerInv, TrackerTypes
  <2> QED
    BY <1>10, <2>1, <2>2, <2>3, <2>4 DEF TrackerTypes
<1>12. SeedsKept'
  <2> SUFFICES ASSUME NEW q \in RoomIDs, NEW b \in SeedAddrs, IsFresh(q, b)'
               PROVE  q \in DOMAIN rooms' /\ [addr |-> b, seen |-> heard'[<<q, b>>]] \in rooms'[q]
    BY DEF SeedsKept
  <2>0. b \in Addrs
    BY TrackerAssumption
  <2>1. CASE q = r /\ b = a
    BY <1>4, <1>9, <1>10, <2>1
  <2>2. CASE ~(q = r /\ b = a)
    <3>1. heard'[<<q, b>>] = heard[<<q, b>>] /\ IsFresh(q, b)
      BY <1>6, <1>10, <2>0, <2>2 DEF IsFresh
    <3>2. q \in DOMAIN rs /\ [addr |-> b, seen |-> heard[<<q, b>>]] \in rs[q]
      BY <3>1, SweepKeeps DEF rs
    <3> QED
      BY <1>4, <1>8, <2>2, <3>1, <3>2
  <2> QED
    BY <2>1, <2>2
<1>13. SeedsReturned'
  <2> SUFFICES ASSUME NEW b \in SeedAddrs \ {a}, IsFresh(r, b)'
               PROVE  \E m \in rooms'[r] : m.addr = b /\ b \in told
    BY <1>5, <1>6 DEF SeedsReturned, IsFresh
  <2>1. IsFresh(r, b)
    BY <1>6, <1>10, TrackerAssumption DEF IsFresh
  <2>2. [addr |-> b, seen |-> heard[<<r, b>>]] \in ms
    BY <1>8, <2>1
  <2>3. b \in told
    BY <2>2, SeedsTold
  <2> QED
    BY <1>4, <2>2, <2>3
<1> QED
  BY <1>11, <1>12, <1>13 DEF TrackerInv

\* A seed that was heard of in time is in every answer, in every room, however
\* many joiners crowd it and however often a full tracker sweeps its rooms
\* (swarm.go:57-58, 101-130).
THEOREM SeedsAreReturned == TrackerSpec => []SeedsReturned
<1>1. TrackerInit => TrackerInv
  BY TrackerInvInit
<1>2. TrackerInv /\ [TrackerNext]_trackerVars => TrackerInv'
  <2> SUFFICES ASSUME TrackerInv, [TrackerNext]_trackerVars PROVE TrackerInv'
    OBVIOUS
  <2>1. CASE UNCHANGED trackerVars
    BY <2>1 DEF trackerVars, TrackerInv, TrackerTypes, SeedsKept, SeedsReturned, IsFresh
  <2>2. CASE Tick
    BY <2>2, TickInv
  <2>3. ASSUME NEW r \in RoomIDs, NEW a \in Addrs, Announces(r, a) PROVE TrackerInv'
    BY <2>3, RefusedInv, AnsweredInv DEF Announces
  <2> QED
    BY <2>1, <2>2, <2>3 DEF TrackerNext
<1>3. TrackerInv => SeedsReturned
  BY DEF TrackerInv
<1> QED
  BY <1>1, <1>2, <1>3, PTL DEF TrackerSpec

=============================================================================
