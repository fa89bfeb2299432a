-------------------------------- MODULE Watch -------------------------------
(***************************************************************************)
(* `sync push --watch`: internal/cli/watch.go.  Files change at any time,  *)
(* while a push runs too; change notices may be lost; a push reads one     *)
(* file after the other and may fail.  A file's size and time stand for    *)
(* its version: a change that keeps both is not seen.                      *)
(***************************************************************************)
EXTENDS Naturals, FiniteSets

CONSTANTS
  WatchedFiles,
  MaxEdits       \* bound: changes of a file

VARIABLES
  source, mirror,   \* [file -> version]
  lastSnap,         \* the snapshot the last push is for
  quietArmed,       \* the quiet timer runs
  notices,          \* are there events in the watcher's channel
  toPush,           \* files the running push has not read
  push,             \* "none", "first" (before the watcher exists), "loop"
  pushFailed        \* the last push failed

watchVars == <<source, mirror, lastSnap, quietArmed, notices, toPush, push, pushFailed>>
tree == <<source, mirror>>

Change(f) ==
  /\ source[f] < MaxEdits /\ source' = [source EXCEPT ![f] = @ + 1]
  /\ \/ push # "first" /\ notices' = TRUE
     \/ UNCHANGED notices       \* no watcher yet, or its buffer overflowed
  /\ UNCHANGED <<mirror, lastSnap, quietArmed, toPush, push, pushFailed>>

\* Pushing happens in the loop's own goroutine: meanwhile nothing is taken.
Arm ==
  /\ push = "none" /\ notices /\ notices' = FALSE /\ quietArmed' = TRUE
  /\ UNCHANGED <<tree, lastSnap, toPush, push, pushFailed>>

\* The snapshot is taken before the push it is for.
Snapshot == source

StartPush ==
  IF source # lastSnap
  THEN /\ lastSnap' = Snapshot /\ push' = "loop" /\ toPush' = WatchedFiles /\ pushFailed' = FALSE
  ELSE UNCHANGED <<lastSnap, push, toPush, pushFailed>>

QuietFires ==
  /\ push = "none" /\ quietArmed /\ quietArmed' = FALSE
  /\ StartPush
  /\ UNCHANGED <<tree, notices>>

SweepFires ==
  /\ push = "none" /\ source # lastSnap
  /\ StartPush
  /\ UNCHANGED <<tree, quietArmed, notices>>

PushReads(f) ==
  /\ f \in toPush /\ toPush' = toPush \ {f}
  /\ mirror' = [mirror EXCEPT ![f] = source[f]]
  /\ UNCHANGED <<source, lastSnap, quietArmed, notices, push, pushFailed>>

\* mutant: a second snapshot, after the push
BaselineAfter == source

\* The baseline stays that of the push's start.
Baseline == lastSnap

PushOver ==
  /\ push # "none" /\ toPush = {} /\ push' = "none"
  /\ lastSnap' = Baseline
  /\ UNCHANGED <<tree, quietArmed, notices, toPush, pushFailed>>

PushFails ==
  /\ push # "none" /\ push' = "none" /\ toPush' = {} /\ pushFailed' = TRUE
  /\ UNCHANGED <<tree, lastSnap, quietArmed, notices>>

WatchInit ==
  /\ source = [f \in WatchedFiles |-> 1] /\ mirror = [f \in WatchedFiles |-> 0]
  /\ lastSnap = source /\ quietArmed = TRUE /\ notices = FALSE
  /\ toPush = WatchedFiles /\ push = "first" /\ pushFailed = FALSE

PushRuns == (\E f \in WatchedFiles : PushReads(f)) \/ PushOver \/ PushFails

WatchNext ==
  (\E f \in WatchedFiles : Change(f)) \/ Arm \/ QuietFires \/ SweepFires \/ PushRuns

WatchSpec == WatchInit /\ [][WatchNext]_watchVars

-----------------------------------------------------------------------------

\* A tree that stays quiet is mirrored, or the last attempt at it has failed:
\* no change is lost to the baseline, also one that lands during a push or
\* whose notice was lost (watch.go:20-29).
Mirrored == <>[](mirror = source \/ pushFailed)
=============================================================================
