------------------------------- MODULE Journal ------------------------------
(***************************************************************************)
(* The audit journal, internal/audit/audit.go: a file of chained lines.    *)
(* Every process that runs with --audit opens it, repairs a torn tail and  *)
(* then writes at its own offset.  A line's hash is its id; lines of       *)
(* several processes are taken to be of one length.                        *)
(***************************************************************************)
EXTENDS Naturals, Sequences, FiniteSets

CONSTANTS
  Writers,      \* processes
  AppendFails,  \* a write may fail after some of its bytes, and a sync
  MaxEntries,   \* bound: appends
  MaxCrashes    \* bound: crashes of the machine

ASSUME JournalAssumption ==
  AppendFails \in BOOLEAN /\ MaxEntries \in Nat /\ MaxCrashes \in Nat
  /\ (AppendFails => Cardinality(Writers) = 1)

VARIABLES
  log,       \* its complete lines: an entry [id, prev], or Junk
  torn,      \* bytes without a newline after them
  durable,   \* how many lines a crash cannot lose
  journal,   \* [writer -> head and offset in lines; whether it has written and not synced]
  acked,     \* entries whose Append has returned nil
  spoiled,   \* a write has failed since the journal was last opened
  used, crashed

journalVars == <<log, torn, durable, journal, acked, spoiled, used, crashed>>

Junk == [id |-> 0, prev |-> 0]   \* a complete line that does not parse
Shut == [open |-> FALSE, head |-> 0, off |-> 0, new |-> 0]

\* readAllValid: the lines before the first that does not parse.
Readable == {n \in DOMAIN log : \A k \in 1 .. n : log[k] # Junk}

HashOf(i) == IF i = 0 THEN 0 ELSE log[i].id

\* mutant: the tail stays
RepairedNot == torn

\* A torn tail is cut off; unreadable lines are evidence, and refused.
Repaired == FALSE

OpenJournal(w) ==
  /\ ~journal[w].open /\ Readable = DOMAIN log
  /\ torn' = Repaired
  /\ journal' = [journal EXCEPT ![w] =
       [open |-> TRUE, head |-> HashOf(Len(log)), off |-> Len(log), new |-> 0]]
  /\ spoiled' = (spoiled /\ \E v \in Writers : journal[v].open)
  /\ UNCHANGED <<log, durable, acked, used, crashed>>

\* The line lands at the writer's offset, onto whatever is there.
LineAt(k, e) ==
  IF k < Len(log) THEN [log EXCEPT ![k + 1] = e] ELSE Append(log, IF torn THEN Junk ELSE e)

Writable(w) == journal[w].open /\ journal[w].new = 0 /\ used < MaxEntries /\ used' = used + 1

AppendWrite(w) ==
  /\ Writable(w)
  /\ log' = LineAt(journal[w].off, [id |-> used + 1, prev |-> journal[w].head])
  /\ torn' = (torn /\ journal[w].off < Len(log))
  /\ journal' = [journal EXCEPT ![w].head = used + 1, ![w].off = @ + 1, ![w].new = used + 1]
  /\ UNCHANGED <<durable, acked, spoiled, crashed>>

\* The disk is full: what is there of the line stays, the head does not move.
AppendShort(w) ==
  /\ AppendFails /\ Writable(w) /\ spoiled' = TRUE
  /\ torn' \in {torn, TRUE}
  /\ UNCHANGED <<log, durable, journal, acked, crashed>>

AppendSync(w) ==
  /\ journal[w].new # 0
  /\ durable' = Len(log)
  /\ acked' = acked \cup (IF spoiled THEN {} ELSE {journal[w].new})
  /\ journal' = [journal EXCEPT ![w].new = 0]
  /\ UNCHANGED <<log, torn, spoiled, used, crashed>>

\* The line is written and the head has moved, and Append returns an error.
SyncFails(w) ==
  /\ AppendFails /\ journal[w].new # 0 /\ journal' = [journal EXCEPT ![w].new = 0]
  /\ UNCHANGED <<log, torn, durable, acked, spoiled, used, crashed>>

CloseJournal(w) ==
  /\ journal[w].open /\ journal[w].new = 0 /\ journal' = [journal EXCEPT ![w] = Shut]
  /\ UNCHANGED <<log, torn, durable, acked, spoiled, used, crashed>>

\* What was not synced is lost, from any byte on.
CrashJournal ==
  /\ crashed < MaxCrashes /\ crashed' = crashed + 1
  /\ \E n \in durable .. Len(log) :
       log' = SubSeq(log, 1, n) /\ torn' \in IF n < Len(log) THEN BOOLEAN ELSE {torn}
  /\ journal' = [w \in Writers |-> Shut]
  /\ UNCHANGED <<durable, acked, spoiled, used>>

JournalInit ==
  /\ log = <<>> /\ torn = FALSE /\ durable = 0
  /\ journal = [w \in Writers |-> Shut]
  /\ acked = {} /\ spoiled = FALSE /\ used = 0 /\ crashed = 0

JournalNext ==
  \/ \E w \in Writers :
       \/ OpenJournal(w) \/ AppendWrite(w) \/ AppendShort(w)
       \/ AppendSync(w) \/ SyncFails(w) \/ CloseJournal(w)
  \/ CrashJournal

JournalSpec == JournalInit /\ [][JournalNext]_journalVars

-----------------------------------------------------------------------------

\* Verify: the lines that link to the one before.
Intact == {n \in Readable : \A i \in 1 .. n : log[i].prev = HashOf(i - 1)}

\* What Append has acknowledged stays in the chain that `audit verify` counts,
\* and the chain has no break, over crashes and failed writes; "a crash cannot
\* lose a linked prefix" (audit.go:35-37, 48-51).  An entry acknowledged after
\* a failed write, by a writer that goes on without opening the journal anew, is
\* not spoken of: it may be part of an unreadable line.
AckedIntact ==
  /\ Intact = Readable
  /\ \A a \in acked : \E n \in Intact : log[n].id = a
=============================================================================
