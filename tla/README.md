# A TLA+ development of botjim

botjim copies file trees between two hosts: a client pushes to, or pulls from, a
server; the two may also meet at a relay, or many joiners may fetch one tree as a
swarm. This directory holds TLA+ modules translated from the Go source, TLC
configurations that check them, and TLAPS proofs.

`tlc -config X.cfg MCModule` runs a check; `tlapm M_proofs.tla` checks a proof module.
`PROJECT.json` maps every definition to the lines it models.

| module | what it is |
|---|---|
| `Transfer` | one regular file between the two engines, over many sessions, kills and rewrites |
| `MCTransfer`, `MCTransfer*.cfg` | its instances for TLC |
| `Transfer_proofs`, `TransferSafety_proofs` | type correctness; the inductive invariants, the two main theorems, carriers and corrections |
| `Completion` | one session over a whole manifest: credit, outcomes, post-pass, Done, unwinding |
| `MCCompletion`, `MCCompletion*.cfg` | its instances for TLC |
| `Completion_proofs` | all its safety properties, proved |
| `Stream` | what the relay promises in one direction: a bounded stream in order |
| `Spool`, `MCSpoolDisk.cfg` | the relay's spool and its two copy loops, a refinement of `Stream`; one finding |
| `Broker` | the relay's slots: offers, takers, the janitor, and the two programs at the ends |
| `Handshake` | how two ends make a session of a connection |
| `Session` | a caller's run with its retries, and the server's handler of each connection |
| `PartLock` | several sessions over the parts and locks of one path |
| `Mirror`, `MCMirror` | paths from the walk of the source to hardlinks and `--delete`; its trees and orders for TLC |
| `Journal` | the audit journal over crashes and short writes |
| `Mesh` | `config publish`, envelopes and the commit hook |
| `Watch` | `sync push --watch` |
| `MCServices` | `Spool`, `Handshake`, `Session`, `PartLock`, `Mirror`, `Journal`, `Mesh` and `Watch` in one run |
| `Relay_proofs` | the spool's invariant and refinement, the broker's safety properties, proved |
| `PartLock_proofs`, `Mirror_proofs` | their safety properties, proved |
| `Services_proofs` | those of `Mesh`, `Session` and `Journal`, proved |
| `Swarm` | a joiner: picker, workers, finalize, serving, interruption and another run |
| `Swarm_proofs` | the safety properties of joiner and tracker, proved |
| `Tracker` | the swarm's tracker |
| `MCRelay`, `MCRelay*.cfg` | joiner, tracker and broker in one run; one finding |

## The system

### Parts, their state and their operations

**Sender** (`internal/engine/sender.go`). Goroutines: the walker (in `Run`), the control
reader, one scheduler, N workers, a retry sender per re-sent chunk. State: `files[]`
(per file: have-bits, next task, tasks in flight, retry counts, errored/resolved), the
pending-entries credit (`gatesOpen`), the batch being filled, counters `emitted`
and `resolved`, the report. It answers bitmaps (`gateOpen`, `verifyClaims`), feeds missing
chunks (`runScheduler`), writes frames (`sendChunk`), checks the source after the last
task (`taskDone`), and takes outcomes (`fileResult`) and retries (`retryChunk`).

**Receiver** (`internal/engine/receiver.go`). Goroutines: the control reader, N preparation
workers on `rehashCh`, a handler per data stream, the finalizer on `finalizeCh`, the
completion watcher. State: `files[]` (per file: part handle, sidecar bits and hashes,
claim/verdict flags, retry counts, outcome), hardlink and directory jobs, `total`,
`resolved`, `manifestDone`; on disk the final files, parts and sidecars. It decides what
it has (`prepareRegular`: skip, adopt, resume or start), absorbs chunks
(`absorbChunk`), settles claims (`commitFile`, `claimResult`), renames (`finalize`), makes
links (`maybePostPass`) and ends (`watchCompletion`, `flushAllSidecars`).

The two talk over one ordered control stream per direction and several data streams,
which are not ordered with it or among themselves.

**Sidecars and part locks** (`internal/sidecar`, receiver.go). A part is
`<name>.fs-part-<nonce>`; its sidecar records a hash per chunk. A `flock` on the part
keeps two sessions off it; parts of dead sessions are adopted or pruned.

**Session** (`internal/session`). Server: accept loop, one goroutine per connection, a
loop of control messages (transfer, list, goodbye). Client: dial, negotiate, run one
engine, close; `RunWithRetries` dials again with backoff.

**Protocol, transport** (`internal/protocol`, `internal/transport`). Encoders and
decoders; handshake with feature bits and an optional token or pass, yamux over TCP.

**Relay** (`internal/relay`). `Broker`: slots by id, an offer waits for a taker, expiry by
a janitor, then `pipe` pumps bytes both ways through two `spoolBuf`s (memory, then an
unlinked file, up to a limit). `e2ee.go`: records with counters. `swarm*.go`: the
tracker keeps who has what; joiners pick chunks rarest first (with duplicates in the
endgame), verify, serve others, and finalize files; specs are signed.

**Audit journal** (`internal/audit`). An append-only hash chain, repaired when the last
line is torn. **Mesh, sync and watch** (`internal/cli`). Config with increasing versions, merged
per name; periodic pushes. **Self-update**. Download, verify, swap the binary.

**Pure parts**: chunk grid, path checks, attributes, compression, cloak framing,
manifest walk, signing. **Surface**: CLI, TUI, metrics, progress, discovery, web files.

### What is hard, and what makes each part correct

| part | hard behaviour | must hold |
|---|---|---|
| one file | data, verdicts and outcomes on streams not ordered with each other; kills between write and record; a source rewritten underneath; three kinds of resume | a final with the source's mtime is the source; a sidecar vouches for nothing it should not; one carrier per chunk; an outcome comes |
| manifest | credit against batching; outcomes of both sides crossing; three ways to end | every outcome counted once; report truthful; links after their sources; both sides stop, alive |
| part locks | open, lock, close, rename and unlink are separate calls; several sessions | one writer per part; a final is never replaced by a part another session writes |
| session | errors classed by wording; two readers of one stream on the server | a transport failure is retried, a refusal is not; no control frame is lost |
| spool | spill, drain, reset, limit and failure between two goroutines | FIFO; held bytes within the limit; no producer and consumer both asleep |
| broker | take, expiry, replacement and close race on a slot | a taker is served or told; one offer meets one taker |
| swarm | duplicates, failures and departures while picking; late writes at finalize | a wanted chunk stays wanted until verified; a finalized file is verified |
| journal | a torn line, then more appends | Verify accepts a chain iff nothing was changed |
| mesh | concurrent edits on several hosts | versions only grow; merges converge |

PROJECT.json `hazards` lists these at their lines, with the properties that guard each
or the reason none does.

### How the modules meet

`Transfer` is one file, `Completion` a session's whole manifest with files as single
steps, `Mirror` the same manifest with paths in place of counts, `Session` many attempts
with transfers as single steps, `PartLock` many sessions over one path. What one takes as
a step another takes apart: `Completion!Arrive` and `Mirror!Land` are a run of
`Transfer`, `Session!Lands` one of `Completion`, `Broker`'s pipe two `Spool`s,
`Session!Dial` a run of `Handshake`. `Spool` is shown to implement `Stream`. `MCServices` and
`MCRelay` put modules that share no state into one run: a behaviour is one of a single
`component`, the others stay in an initial state, so the states are the sum of
theirs and not the product.

## Transfer

State and its place in the code: `final`, `part`, `meta` are the disk; `hash`, `await`,
`adopted`, `settled`, `arrived`, `mayStale`, `dirty`, `finalQ`, `rOut` are fields of `rxFile`;
`gate`, `sHave`, `claim`, `next`, `queued`, `inflight`, `sOut` fields of `txFile`; `toR` and
`toS` are the control streams, `frames` the data streams, a set because any may arrive
next; `writing` holds the frames whose `WriteAt` is done and whose bookkeeping is not,
the lock-free window of `absorbChunk`. An action is one handler between two
synchronisation points, and is named after its function. `history` holds every version
of the source; a rewrite changes it under an open session, so that an old manifest
entry meets new bytes. A `Kill` ends the receiver without a flush and lets any subset of
the part's chunks be lost to holes. It is the end of the process, not of the machine: what was
renamed stays, so a loss of power just after a rename without `--fsync` (receiver.go:1140) is
not covered. `Disconnect`, then whatever drains, then `ReceiverEnd`
is a broken session, with `flushAllSidecars`.

Contents are model values, and a hash is what it was computed from (SHA-256 is
injective here). A mtime is the number of a source version, 0 is anybody else's. So two
files with the same mtime and different bytes exist only where the source was rewritten,
which is what the code itself assumes when it skips by size and mtime.

Runs:

* `MCTransfer.cfg` (2.1 million states): two chunks, one of them zero and sparse, every
  kind of old final and part, two sessions, one rewrite, kills. `FinalExact`, `SidecarSound`,
  `ArrivedStays`, and `IInv`, the inductive invariant. Two chunks are enough for a
  correction of one to overtake a verdict on the other; two sessions for one to
  inherit what another left; one rewrite for an entry to be out of date.
* `MCTransferLive.cfg` (208 thousand states): one session, retries (limit 1), strict and
  fresh resume. `TypeOK`, `OneCarrier`, and `SessionSettles` under `FairSpec`.
* `MCTransferRewrite.cfg`, a violation: the check for a rewritten source
  (sender.go:1044) is given up if the receiver's result comes first, so a file that is a
  mixture of two versions may be reported as done. (Its mtime is the old one, so
  `FinalExact` holds and the next run fixes it.)

Fairness: weak, on each goroutine that the Go scheduler keeps running: control loops,
scheduler, workers, stream handlers, finalizer. None on failures, kills, rewrites,
disconnects or new sessions. `SessionSettles` allows for the connection being lost.

### Proved

For every chunk count, contents, old files, resume modes, and bounds on rewrites,
sessions and retries:

* `Transfer_proofs!TypeCorrect`: `Spec => []TypeOK`.
* `TransferSafety_proofs!Bookkeeping`: `Spec => []IInv`.
* `TransferSafety_proofs!FinalIsExact` and `SidecarIsSound`.
* `TransferSafety_proofs!CarriedOnce` (`[]OneCarrier`) and `CorrectionsStay` (`ArrivedStays`).

`FinalExact` is not inductive: a rename makes a part final, so the part's bytes must be
known to be the source's, which rests on the marks in the sidecar, on what the
sender verified, and on the order of frames. `IInv` says so in named parts. Those of
the session order its phases: the entry is heard before anything else
(`EntryPhase`), nothing moves before the gate opens (`GatePhase`), the bitmap in
flight describes the sidecar (`HaveInFlight`), there is one verdict, on claims not yet
settled (`VerdictPhase`), and only a complete, settled file is queued
(`QueueComplete`). Those of a session whose entry still names the current source relate
bytes: frames are cut from the source (`FramesExact`), verified claims are the
source's (`ClaimsChecked`), marks that may be acted on stand for the source's bytes
(`HashExact`), and the bytes under the handle match the marks (`BytesExact`). When the
source is rewritten, only `MtimeBound` is left: nothing written afterwards carries the
new mtime.

The proof has a lemma per part, by action, over two kinds of step: inside a session,
or opening and ending one. Assumptions: those of the constants, all stated in `Transfer`
and evaluated by every run.

`OneCarrier` counts, and a count is no help to a step. `CarrierInv` says it by hands: a chunk has
one carrier of each kind (`AirOnce`, `OnceIn`), never two kinds (`Apart`), and all that is carried is
behind the scheduler's `next` (`Behind`), which alone starts a chunk without taking it from
another hand. `ArrivedStays` follows from `IInv` step by step.

Only model-checked: `SessionSettles`.

Left out of `Transfer`: size-only resume, peers without `FeatClaimAck`, several parts of
one name and their locks (see `PartLock`), attributes, compression, the 16 MiB grid ladder.

## Completion

A whole session of a push. `manifest` is what the walk finds (any of the instance's
manifests), `disk` what was complete before. What happens inside a file is one step
per stage: its chunks go out (`SendData`), the last one arrives (`Arrive`), it is
finalized or fails (`Finalize`, `RxFails`). What `Transfer` leaves out is here:

* the walker's credit (`gates`), taken per data entry and given back by a bitmap or an
  outcome, against batches that are sent only when full;
* the control reader parked between taking an entry off the stream and queueing it
  (`held`), the preparation workers (`preparing`);
* both counts: `resolvedIDs` and the report at the sender; `rResolved` at the receiver, which is
  a number, as in the code, and can disagree with `outcome`, which records per entry
  what really became of it;
* `watch`, the completion watcher: post-pass, Done, or giving up;
* `phase`, the unwinding of `Receiver.Run`: context cancelled, `rehashCh` closed, flushed.
  A send on the closed channel is the state "panic".

`Kind` "dir" stands for all entries resolved on sight. `Lose` breaks the connection at any
moment and takes undelivered messages with it; `Hangup` is the client closing.

Runs, all with credit 2, batches of 1, failures of source, preparation, finalize and
links:

* `MCCompletion.cfg` (566 thousand states): file, empty, empty (one more than the
  credit, so that the walker has to wait for an answer), two files, and dir, file, link; every
  subset of the files complete before.
  `CreditHeld`, `ReportSound`, `PassOrder`, `OutcomeFinal`, and `SessionEnds` under `FairSpec`.
* `MCCompletionDone.cfg`, a violation: `senderFileError` counts a file that is settled
  already a second time; Done is then said with another file in transfer.
  `PassOrder` states what holds otherwise: the count is wrong only if the sender failed a file the
  receiver had settled (`Crossed`), and where it is right, post-pass and Done come in order,
  whatever crossed.
* `MCCompletionLinks.cfg`, a violation: a complete final is skipped without being entered in
  `files`, so on a second run its hardlinks are errors.
* `MCCompletionPanic.cfg`, a violation: `Run` closes `rehashCh` while the control reader may
  still choose to send on it.

Fairness: as in `Transfer`, and the client's `defer sess.Close()`; not on failures, lost
connections or the sender's idle timeout. Without that timeout sessions end all the
same, which is what `SessionEnds` says. In a pull the server does not close the connection after the
sender's timeout; only pushes are modelled.

The credit is bounded only nearly: an empty file's outcome precedes its bitmap, so
its credit is given back twice, and more than `senderPendingCredit` files may be waiting. (One
that cannot be made answers twice as well: its failure, then a bitmap of nothing, receiver.go:555-558.)
`CreditHeld` is the direction that matters for progress.

### Proved

In `Completion_proofs`, for every manifest, credit, size of batch and kind of resume: `CompletionTypes`
(`[]TypeOK`), `OneOutcome` (`OutcomeFinal`), `NoCreditLost` (`[]CreditHeld`), `TrueReport`
(`[]ReportSound`) and `EndInOrder` (`[]PassOrder`). None of them is inductive; the invariants build
on each other:

* `PlaceInv`: an entry is in one place at a time on its way (batch, queue, `held`, `preparing`, `links`,
  `files`), so that whoever settles it finds it unsettled.
* `CreditInv`: the results in flight are the receiver's outcomes (`ResultsTrue`), and the sender has
  an answer only on what the receiver has come to (`Answered`): a credit given back was taken once.
* `PartInv`: the sender takes a file for one in parts only if the receiver does, and a file
  in parts settles only after its chunks were sent (`SettledBySent`), or by the one
  failure the sender tells of (`GivenUp`).
* `OrderInv`: the receiver's number is the number of outcomes (`Count`), as long as no failure has
  crossed a settlement, which `PartInv` is needed to recognise.

Only model-checked: `SessionEnds`.

Left out, and in `Mirror`: entries the receiver sees twice, dry runs, a walk that fails half way,
the mirror step of `--delete`. Left out: Cancel and Abort (no code sends them), directory attributes. The control streams are
unbounded queues here: that a full window of one holds up its writer, and what could come of both
ends being held up at once, is not covered, and `SessionEnds` is to be read so.

## Spool

One direction of a relayed session: the spool of `relay/spool.go`, the producer that copies a
source into it, the consumer that copies it to the destination (`Broker.pipe`). `mem`, `file`
with `rd`, `onFile`, `buffered`, `eof`, `err` are the fields of `spoolBuf`; `prod`, `cons`, `pend`
are where the loops are, and `pAsleep`, `cAsleep` who is in `cond.Wait`. An action is
what happens between taking the lock, or waking, and releasing it. A byte is its
position in the stream, so that order, loss and doubling show. Either connection may break, and with
`DiskFails` the calls whose errors the code looks at may fail, also half way through a spill. The error of one is dropped:
that of the `Truncate` which makes a file that was read to its end reusable (spool.go:218). With `TruncFails`
it may fail; the file then keeps old bytes past those written since (`rest`), and a read takes them in.

`Stream` is the promise: bytes are accepted, at most `Limit` of them undelivered, and given
out as a growing prefix; it may break at any time; it ends after a break, or closed and
with everything given out. `IsStream` is `Stream!Spec` with `closed` for `eof`, `broken` for `err` and
`ended` for a consumer that is done.

Checked in `MCServices.cfg` (15 thousand of its states), with limit 4, threshold 2, copies of up to 3 and 14
bytes, so that writes are cut to the room, the file fills, is drained and used again
and the limit blocks more than once: `IsStream`, `NoLostWakeup`, `SInv`, and
under fairness `WriteReturns` and `StreamEnds`. Truncations work there: what becomes of the stream when one does not
is among the refuted statements below. `MCSpoolDisk.cfg`, a violation: the file
is truncated only when it has been read to its end, and a consumer that stays a byte behind
lets it grow with the stream.

Fairness: weak, on both loops, and on the destination, which takes what it is given or
breaks; not on the source or the disk's failures. With it a write blocked at the limit
returns, whether by room or by failure.

Proved in `Relay_proofs`, for every limit, threshold, copy size, length of stream, with or
without disk and failures, as long as truncations work (`~TruncFails`): `TypeCorrect`, `Sound` (`[]SInv`), `NobodyOversleeps` and
`Implements` (`Spec => IsStream`). `IsStream` needs to know which bytes the spool holds: `SInv` says
that the file is older than memory and memory is empty while there is one (`FileFirst`),
that both hold the positions after the last given out (`Contents`), that nothing accepted is
missing until a failure and the count held is right (`Accounting`), and why a loop
has ended (`Endings`). `RoomBounds`, `FileGives` and `MemGives` say what one call moves.

A reader is told of `eof` before `err`: once the producer has failed and closed,
the consumer drains memory and ends as if the stream were complete. `Stream` allows that (`broken`
is set); it is for the record layer above to tell the difference.

## Broker

A slot per code (`slots`), a handler per connection (`at`), the buffered channel between
a taker's handler and an offerer's (`wake`), and the program at each end (`client`). A lock's
section is one action; a reply, a send on the channel, the deferred `remove`, and what the
janitor does after its lock are steps of their own. `gone` is an end that has closed, `shut`
one the broker has closed. The two rounds of the record layer's exchange are one here. A client may leave before it has its
reply, which then fails. In
`take`, the default branch of the `select` never fires: a channel is handed to once. `panicked` is what a
send on the channel the janitor has closed would be.

In `MCRelay.cfg`: two offerers, two takers, one code, one slot, three of them connect: an offer's place is
taken again by another, under the same code, while the first one's `remove` is to come.

* `BrokerLives`: claim and sweep exclude each other, nobody sends on a closed channel.
* `ParkedFindable`: neither a late `remove` nor a sweep loses somebody else's offer.
* `DroppedLate`: a taker that was told OK and dropped came too late, or its offerer had left.
* `OfferSettles`: no offer stays parked. Fairness per offerer: its goroutine, its timer, and
  the end of a pipe one end has left. Not that a session ends, nor that a client goes.

Proved in `Relay_proofs`: `BrokerSurvives` (`BrokerSpec => []BrokerLives`), for any number of
offerers, takers, codes and slots. A taker sends long after it claimed, so the invariant says who can
still reach a slot: an offerer is parked under its own code only (`OwnSlot`), so once it is claimed,
or dropped, it is in no slot (`TakenOut`, `ClosedOut`) and the other cannot come after. Likewise
`OffersAreFound` (`[]ParkedFindable`) and `TakersAreJoined` (`[]DroppedLate`): `PairInv` follows a
taker and its offerer from the claim to the pipe. A slot is taken once (`TakenOnce`), and from then on
the taker has what it was promised, or its offerer's time is over or its client gone (`Promised`).

## Handshake

Each side's position is `step`; `pipe` holds what is written and not read, and a write
returns when at most `room` of it is left, so `room` 0 is `net.Pipe`. The client
writes its preface before it reads, the server the other way round; the hello and the tag
are written by a goroutine of their own. A `Tag` is made of both secrets and both prefaces: two
tags are equal if all of these are.

Four settings for each side (no secret, a token, another token, token and passphrase; different features),
two sizes of buffer. `EndsMeet`: unless a deadline passes, both come up with the same features, or,
if their secrets differ, both fail and none is left waiting. Fairness: each side runs;
deadlines and losses are not fair. The module says nothing of what a third party
on the wire could do.

## Session

An attempt is `dial`, `ack`, `run` or one of its ends. Of the two engines there is what
decides how an attempt ends: at the sender `told`, the files with a result; at the receiver `settled`,
those with an outcome, and `count`, which is what the code goes by. `HearSourceFailed` counts a file the sender
has failed whatever the receiver knows of it, so `count` may be ahead of `settled` (`crossed`), and
Done is said when `count` is reached (`SayDone`). A push ends with its last result, whatever the
results, or at Done, or with a connection that is gone once every result is in; a pull ends with
the connection after its own Done. None of these looks at a file. `report` is what the caller's engine
tells of its last attempt: the files it names as failed, and whether it calls itself Cancelled.

The handler's loop and the control reader of a sender that has returned both read `inbox["server"]`:
`second` is that reader. `agree` and `allowed` are what refuses an attempt, and when. Errors are
the classes `retryableErr` can tell by their words: "no listener" (whose text has "connection refused") and "refused"
are final, a lost connection and a secret that does not match are not. With `given` the caller was handed
its connection: a retry finds the same one, which its first attempt has closed (session.go:542-543).

Two files, two retries, a drop, a restart, both directions (80 thousand states of `MCServices.cfg`).

* `OkMeansAll`: a run that ends without an error has each file at its place or names it in its
  report, whichever of its ends it came to. That is all success promises. One case is
  excepted, and it must show: a failure of the sender crossed an outcome of the receiver, and a push then says Cancelled.
  (It says so beside a nil error, and the command, which looks at Cancelled only with an
  error, cmd_send.go:270-287, exits as after a success. A pull cannot tell: its own count is the one
  that is wrong.)
* `SessionConverges`: a push survives as many losses as it has retries, except that a dial
  while the server restarts is final, and so is the loss of a connection that was given.
  Fairness: both ends run; none on drops and restarts.

Proved in `Services_proofs`: `OkIsAll` (`SessionSpec => []OkMeansAll`), for any number of files (at least one), retries,
losses and restarts. The ends speak of counts, results and frames, so the invariant (`RunInv`) leads from those to
files: results are true (`ResultsTrue`), and a failure the sender tells of is a result of its own
(`FailuresTold`); the count is that of the outcomes unless failures crossed (`Counted`), so that a pull
says Done with all settled (`SaidAll`); on a link that is up each outcome is with the sender or on its way to it, before Done (`InFlight`, `DoneFollows`), so
that a push that hears Done with a result missing is one whose count was wrong; what the
caller's engine knows as failed is in the report (`SettledNamed`, `ToldNamed`); and no attempt starts
with a success behind it (`OnlyOverIsOk`).

## PartLock

`dir` maps names to inodes, `held` inodes to lock owners: a lock stays with the inode
when it is renamed. Every step lies between two system calls of one session, in pruning too: to remove a
listed part a session opens it, takes its lock and unlinks the name, and in between the lock may turn
away a session that was about to fill that part. `jostled` records that. Three
sessions, two of the same version of the source, any one of which may be lost, with a part an interrupted run has left and perhaps
an older final. `FinalWhole`: if no session was lost, or jostled, the final file is one of the versions
as a whole, although a session may be writing into a file that another has just
renamed. With three sessions it holds of jostled ones too; with four it does not, see
below. The sessions' own checks of what they adopt are `Transfer`'s.

Proved in `PartLock_proofs`: `PartsExclusive` (`PartSpec => []OneWriter`), two sessions never fill
one file, for any number of them. Names come and go between two calls, so nothing is said by name:
the invariant is that a session that fills an inode has its lock.

`PlacedWhole` (`PartSpec => []FinalWhole`), for any number of sessions (at least one), pieces and
versions. A rename moves whatever has the name by then, perhaps a file another session has created and
not yet locked. So the invariant does not say that what is renamed is whole, but that it is covered: whole, or open
in a session that is still to fill it or to find it locked (`Cover`, `FinalCovered`, `PartsCovered`). A
session that is refused a lock leaves the file to the one that has it, and that one, unless it only
removes, will fill it (`Holders`).

## Mirror

The walk's stack is `agenda`, its output `entries`, whose index is the ID; `first` is
`Walker.seen`. The receiver takes entries in order (`taken`), and `tree2` is its file
system: names to kind, object (to see hardlinks) and content. A file lands in one step.
The ten orders of `MCMirror` have one root, two, roots that overlap in either order or lie at
different depths, one that is missing, one of a kind that is not sent (which the walk skips), an exclusion, links, `--delete` and a dry run; the source
has a directory that cannot be read, a socket, a hardlink over two directories, and may lose a file.
A worker opens the part of a file some time after its entry was taken: before or after the entries
that follow, whose directories it may need. Trees are trees: what has something in it is a directory.

* `Rebuilt`, in `MCServices`: a run that came to its end has brought all that was asked for
  and is still there, with its contents, its links and no others; `--delete` leaves nothing
  else but parts (those in a directory that goes, go with it: receiver.go:1715). Three things excuse a path: something of another kind is in its place
  (`Blocked`), it is a link and its file did not come (`Orphaned`), or its directory is no entry before
  it (`Early`). What is said of contents is of paths all of whose directories are entries (`Rooted`):
  the refuted statements below show what becomes of the others.
* `MCMirror.cfg`, a violation (`DeletesAfterCleanEnd`): a walk that stops early, because a root does not exist or by
  Ctrl-C, ends its manifest as if it were whole, and `--delete` goes by it.

Proved in `Mirror_proofs`: `SourceRebuilt` (`MirrorSpec => []Rebuilt`), for every tree at either end, list
of roots, exclusion, flag, interruption and file that vanishes. Its invariant follows a path from end to end:

* `WalkInv`: what is asked for and not yet an entry is still ahead of the walk: it, or a directory above
  it, is on the agenda (`Covering`). Neither the order of the roots nor a directory listed long
  after it was met takes a path out of it, but only what `Wanted` names.
* `ReceiverInv`: the first entry of a path owns it and every later one is a duplicate (`Owner`); without
  that a skipped entry could stand for one that failed.
* `TreeInv`: what is at a path came from its owner or was there before (`CameFrom`), only links
  and the mirror step remove (`Gone`), and what has come stays with its content and its object (`Stands`).
* `FailInv`: each failure has one of the excuses (`Excused`); a directory never fails to be made
  but for what was there before.
* `LeftInv`: what is left after the mirror step (`Remains`).

## Journal, Mesh and Watch

`Journal`: lines, a torn tail, what is durable, and a writer with its own head and offset. One
writer, four entries, short writes, syncs that fail, two crashes: the first may tear the line the second
`Open` repairs. `AckedIntact`: what was acknowledged stays in the chain. Two things are not spoken
of, both refuted below: several writers at once (the assumption says one when writes may fail), and
what a writer acknowledges after a write of its own has failed, until the journal is opened again (`spoiled`).
Proved in `Services_proofs`: `AckedStays` (`JournalSpec => []AckedIntact`), for a writer
that is alone (`Alone`, which the refuted case below shows to be needed; it may close, or crash, and open
again as another process would), any number of entries and crashes. The invariant adds that the writer's
head and offset are those of the last line (`WriterAt`), and that before the first failed write nothing is torn
under an open writer (`Unspoiled`). A line that is written and not synced is the last (`Pending`).

`Mesh`: two publishing processes share a config under its lock and may die at any step; its owner edits it
by hand and takes no lock; a
node is delivered envelopes in any order, and its hooks, at most two waiting, apply and
remove whatever is at the path by then. `OneEnvelope`: one version, one envelope, as long as the config could be read again under the
lock (`blind`: where that read fails, the code goes on with what it read before the lock; the run has `ReReads` TRUE).
`RevokedGone`: a node has nothing its version's envelope does not have, however many it missed,
its own endpoints apart. `NewestApplied`: with hooks that do not overlap, the
newest delivered version is the one it has. Proved in `Services_proofs`: `EnvelopesDiffer`
(`MeshSpec => []OneEnvelope`), for any number of processes; no other process records a version
between the read under the lock and the record (`LockHeld`), and a version that is
recorded is newer than every envelope (`RecordAhead`); `RevokedIsGone` (`[]RevokedGone`) and
`NewestIsApplied` (`[]NewestApplied`), for any number of nodes and names: a node's list is that of
one emitted envelope, its own names apart (`NodeHas`), and a hook that met no other is all that stands between
the node and the newest it was given (`HookHas`).

`Watch`: two files, three versions each, notices that may be lost, pushes that read one file after
the other. `WatchMirrors`: a tree that stays quiet is mirrored, or its last push failed. A failed
push is tried again only after another change, as its message says. Fairness: the sweep
timer and the push.

## Swarm

The picker's four maps (`pending`, `inflight`, `done`, `fails`) are variables; `work` is where each
worker is between its lock sections; `part` and `final` are the disk, a chunk being
"good", "bad" or a hole; `avail` and `verified` what the joiner announces; `srv` a request being
served, looked up under the lock and read after it. Any pending chunk may be the rarest.
A fetch asks its peers in any order, over and over, then the static host: it fails only if every one that is not banned
may fail. Peers are the environment; in a `reliable` behaviour the seeds always answer, and the tracker's answers
come whole, otherwise they may break off or leave seeds out (swarm_join.go:764-768). A peer has 60 seconds to
answer; the static host has no limit, and a request it takes and does not answer leaves the worker `hung` until
Ctrl-C or a fatal error. A chunk write that fails may have made the part and written something (`Torn`).

In `MCRelay.cfg` (237 thousand states with tracker and broker): one file of two chunks, two workers (enough for an endgame duplicate), a seed, a liar and a
static host, six failures cut to two, specs with and without a catalog, every old part and
final, Ctrl-C, crashes and disk failures.

* `Wanted`: no chunk is forgotten, whatever duplicates, failures and late answers do.
* `CompleteAtFinalize`: files are checked when nothing is to be written any more.
* `FinalSound`: what is put in place, or counts as verified, is right.
* `AvailSound`: with a catalog, what is announced is there and right.
* `OneGoodPeer`: with a reliable seed, liars and breaks cost no chunk a failure.
* `Settles`: every run ends or seeds, or stands with nothing but workers that hang on the static host
  (`Stalled`). Fairness: announces are answered or fail, workers that do not hang run, and so does finalize.
* `MCRelayStall.cfg`, a violation: `EndgameEnds`, that a fetch is over once every chunk has come, as
  the endgame is for. A worker that hangs holds up `wg.Wait` even though another has brought its chunk.

Proved in `Swarm_proofs`, for every spec, number of workers, peers, lies and runs: `FinalIsRight`
(`[]FinalSound`), `AllLandedFirst` (`[]CompleteAtFinalize`) and `AnnouncedIsThere` (`[]AvailSound`).
The assumptions are that there is a worker, and finitely many, and that a file at a destination is right,
another one or absent. The invariant adds what carries each over steps: what a worker holds
passed the check (`Checked`), a chunk that is done is in its part or about to be (`DoneLands`), a
worker returns only when told to or when all is done (`Returns`), and a part that passed its
check is whole until it is renamed (`Renaming`). `NoChunkForgotten` (`[]Wanted`) counts workers, and rests on a chunk
that is not done not being in its part (`Missing`), so that only the first to bring it writes it.
`SeedSuffices` (`[]OneGoodPeer`) rests on every fetch of a reliable behaviour knowing the seeds, and on bans of liars alone (`SeedsKnown`).

`Tracker` is `Announce` with its limits: rooms, members, answers, lifetimes, all small enough
here to be met (one room of two members, answers of one, three addresses). `SeedsReturned`: a seed that
keeps announcing is in every answer. Proved in `Swarm_proofs` as `SeedsAreReturned`, for all limits, rooms and
addresses: the record of a seed's last announce stays in its room while it is fresh, also when the
room is not the one asked for (`SeedsKept`).

## Statements the models refute

Seven runs and these formulas, which no run carries, disagree with something the repository says. Each
is stated in its module where it could be checked; add it to the module's cfg to see the trace.

| formula | what the code does | what it says |
|---|---|---|
| `PartLock!LivePartKept`, `PartNotFinal` | `prepareRegular` removes listed parts without looking at their locks (receiver.go:571-574); a session that opened a part before another renamed it locks what is the final file by then | "must not be adopted", "left alone" (receiver.go:596-598, 1199-1200) |
| `Session!PullReported` | the server's loop reads the Done its own sender left, answers "unexpected control message" and a pull with every file is reported as failed | "single reader" (protocol.go:212-213) |
| `Swarm!ServesVerified` | a chunk looked up in a part that finalize has closed by then is read from the old final (swarm_join.go:85-128) | "verified data only" (README.md:30) |
| `Swarm!ProgressKept` | Ctrl-C lets the workers go and `Run` finalizes: a part that is not whole is removed (swarm_join.go:369-377, 602) | "Progress is resumable" (swarm_join.go:31-32) |
| `Mesh!Converges` | two hooks of a node may meet: one removes the envelope the other's push has just put there, unread | "every node converges" (mesh.go:97-98) |
| `Journal!AckedIntact` with two `Writers` | each process writes at its own offset, over the other's lines (audit.go:62); transfers and browser may run side by side | "cannot lose a linked prefix" (audit.go:35-37) |
| the same without `spoiled` | a write cut short leaves half a line, the next Append continues it and is acknowledged (audit.go:106-111) | the same |
| `PartLock!FinalWhole` with four `Sessions` and without `jostled` | the lock a session takes to remove a part (receiver.go:1217-1231) turns away one that has just made it; all report success, and the final is a file nobody filled | "left alone" (receiver.go:1199-1200) |
| `Spool!IsStream` with `TruncFails` | after a failed truncation (spool.go:218, its error dropped) the next read of the file takes in bytes that were given out before | "keeps FIFO intact" (spool.go:214-215) |
| `Mesh!OneEnvelope` without `blind`, `ReReads` TRUE and FALSE | where the read under the lock fails the version is counted from the first read, which another process may have used (mesh.go:282-289) | "two different envelopes with the SAME version" must not be (mesh.go:330-333) |
| `Broker!OffererWaits` | the offering end waits 20 seconds for the other's hello, then fails, its slot still there for 10 minutes | "waits for the receiver" (dial.go:10-13) |
| `Mirror!DeletesMissing` | of roots at different depths the parents are no entries: `--delete` removes them with what has just arrived | "missing from the manifest" (README.md:31) |
| `Mirror!LaterParentsServe` | a file whose directory is a later entry (roots that overlap, the inner one first, or at different depths) fails when a worker opens its part before that entry is taken (receiver.go:596-613) | "will be created by a later manifest entry" (receiver.go:1557) |
| `Mirror!DryRunTouchesNothing` | directories are made, links and `--delete` done | "touch nothing" (receiver.go:512), "plan only" (cmd_send.go:35) |

## Plan

Done: everything of the first plan but a module for the grid's ladder, which is arithmetic
the repository's tests cover; and a proof of every safety property a run checks. What is left:
`Session` over several transfers of one connection, if a client ever makes them; windows of the
control streams in `Completion`.

## Beyond the prover

Liveness under fairness and `ENABLED`, induction over data, and RECURSIVE operators
stay with TLC. No module here uses RECURSIVE. So `SessionSettles`, `SessionEnds`, `WriteReturns`,
`StreamEnds`, `OfferSettles`, `SessionConverges`, `WatchMirrors`, `EndsMeet` and `Settles` are only
model-checked.

## Not modelled

Byte encodings, cryptography, system calls for attributes, globs, terminals, flags,
metrics, discovery, HTTP: pure functions, libraries or I/O without a state of their own
to explore. Self-update is a download, a check and a rename in a row. The TUI and the
browser call the engines this project models. PROJECT.json `components` has the reason
for each.
