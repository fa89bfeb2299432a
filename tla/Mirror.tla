------------------------------- MODULE Mirror -------------------------------
(***************************************************************************)
(* The manifest of a transfer from the walk of the source to the last pass *)
(* at the destination: internal/manifest/manifest.go (Walk, RelBase,       *)
(* walkDir, entryFor), the end of Sender.walk in sender.go, and of         *)
(* receiver.go what is about paths: processEntry, planFile, and the        *)
(* post-pass with its hardlinks and --delete.  The content of one file is  *)
(* module Transfer's and the counting of entries is Completion's: here a   *)
(* file lands in one step.                                                 *)
(*                                                                         *)
(* A name is a number, a path a sequence of names; <<>> is the directory   *)
(* all paths are relative to.  No file is created while the walk runs.     *)
(***************************************************************************)
EXTENDS Naturals, Sequences, FiniteSets

CONSTANTS
  SourceTree,   \* [path -> [kind, ino]], kinds "dir", "shut", "file", "socket"
  OldTree,      \* what is at the destination: [path -> [kind, obj, data]]
  Orders,       \* what may be asked for: [roots, skip, links, delete, dry]
  MaxVanish,    \* bound: source files that vanish
  Interrupted   \* Ctrl-C, or the loss of the connection, may come

Parent(p) == SubSeq(p, 1, Len(p) - 1)
Above(p) == {SubSeq(p, 1, n) : n \in 0 .. Len(p) - 1}

\* What has something in it is a directory.
IsTree(tree, dirs) ==
  /\ IsFiniteSet(DOMAIN tree) /\ DOMAIN tree \subseteq Seq(Nat) /\ <<>> \in DOMAIN tree
  /\ \A p \in DOMAIN tree : \A q \in Above(p) : q \in DOMAIN tree /\ tree[q].kind \in dirs
  /\ tree[<<>>].kind \in dirs

ASSUME MirrorAssumption ==
  /\ IsTree(SourceTree, {"dir", "shut"}) /\ IsTree(OldTree, {"dir"})
  /\ \A p \in DOMAIN SourceTree :
       SourceTree[p] \in [kind : {"dir", "shut", "file", "socket"}, ino : Nat \ {0}]
  /\ \A p \in DOMAIN OldTree :
       /\ OldTree[p] \in [kind : {"dir", "file", "part"}, obj : Nat, data : Nat]
       /\ OldTree[p].kind = "dir" => OldTree[p].data = 0
  /\ \A o \in Orders :
       /\ o.roots \in Seq(Seq(Nat)) /\ o.roots # <<>> /\ o.skip \subseteq Nat
       /\ {o.links, o.delete, o.dry} \subseteq BOOLEAN
  /\ MaxVanish \in Nat /\ Interrupted \in BOOLEAN

VARIABLES
  src,       \* the source by now
  order,      \* flags and paths of this run
  agenda,     \* what the walk has yet to do: [op, path]
  first,      \* Walker.seen: [inode -> the entry that carries its data]
  entries,    \* the manifest: [rel, kind, ref, from, ino], its ID the index
  stopped,    \* the walk was interrupted
  taken,      \* entries the receiver has processed, plus one for ManifestEnd
  mentioned,  \* caseSeen
  tree2,      \* the destination
  outcome,    \* [ID -> "open", "ok", "same", "skip", "fail", "planned"]
  stage,      \* "open", "post", "over"
  broken      \* the connection is gone

mirrorVars == <<src, order, agenda, first, entries, stopped, taken, mentioned, tree2,
                outcome, stage, broken>>
walkVars == <<agenda, first, entries, stopped>>
recvVars == <<taken, mentioned, tree2, outcome, stage>>

-----------------------------------------------------------------------------
(* The walk *)

\* RelBase: one root keeps its name, several lose what they have in common.
Shared(roots) ==
  {n \in 1 .. Len(roots[1]) :
     \A i \in DOMAIN roots : n <= Len(roots[i]) /\ SubSeq(roots[i], 1, n) = SubSeq(roots[1], 1, n)}

CommonAncestor(roots) ==
  IF Len(roots) = 1 THEN Parent(roots[1]) ELSE SubSeq(roots[1], 1, Cardinality(Shared(roots)))

Rel(p) == SubSeq(p, Len(CommonAncestor(order.roots)) + 1, Len(p))

\* A bare name of --exclude matches any component.
Excluded(p) == \E i \in DOMAIN Rel(p) : Rel(p)[i] \in order.skip

Next1 == Head(agenda)
Rest == Tail(agenda)
AtEntry == agenda # <<>> /\ Next1.op \in {"root", "child"}

Sendable(p) == p \in DOMAIN src /\ src[p].kind # "socket"

\* Excluded, vanished since the directory was read, or of a kind not sent.  A
\* root is never excluded, and one that is not there ends the walk.
SkipEntry ==
  /\ AtEntry
  /\ \/ Next1.op = "child" /\ (Excluded(Next1.path) \/ ~Sendable(Next1.path))
     \/ Next1.path \in DOMAIN src /\ ~Sendable(Next1.path)
  /\ agenda' = Rest
  /\ UNCHANGED <<src, order, first, entries, stopped, recvVars, broken>>

\* The entry that has this inode's data already, or 0.
Ref(p) == IF order.links /\ src[p].ino \in DOMAIN first THEN first[src[p].ino] ELSE 0

EntryFor(p) ==
  [rel |-> Rel(p), from |-> p, ino |-> src[p].ino,
   kind |-> IF src[p].kind # "file" THEN "dir" ELSE IF Ref(p) # 0 THEN "link" ELSE "file",
   ref |-> IF src[p].kind = "file" THEN Ref(p) ELSE 0]

Emit ==
  /\ AtEntry /\ Sendable(Next1.path)
  /\ Next1.op = "child" => ~Excluded(Next1.path)
  /\ LET p == Next1.path
         e == EntryFor(p)
     IN /\ entries' = Append(entries, e)
        /\ outcome' = Append(outcome, "open")
        /\ first' = IF e.kind # "file" THEN first
                    ELSE [i \in DOMAIN first \cup {e.ino} |->
                            IF i = e.ino THEN Len(entries) + 1 ELSE first[i]]
        /\ agenda' = IF e.kind = "dir" THEN <<[op |-> "list", path |-> p]>> \o Rest ELSE Rest
  /\ UNCHANGED <<src, order, stopped, taken, mentioned, tree2, stage, broken>>

NamesIn(p) == {q[Len(q)] : q \in {q \in DOMAIN src : q # <<>> /\ Parent(q) = p}}

Nth(names, i) == CHOOSE n \in names : Cardinality({m \in names : m <= n}) = i

\* In the order of their names.
Children(p) ==
  [i \in 1 .. Cardinality(NamesIn(p)) |-> [op |-> "child", path |-> Append(p, Nth(NamesIn(p), i))]]

\* os.ReadDir: one that cannot be read is skipped.
ListDir ==
  /\ agenda # <<>> /\ Next1.op = "list"
  /\ agenda' = (IF src[Next1.path].kind = "shut" THEN <<>> ELSE Children(Next1.path)) \o Rest
  /\ UNCHANGED <<src, order, first, entries, stopped, recvVars, broken>>

\* Ctrl-C, or a root that is not there: the walk returns an error, and the
\* manifest is ended all the same.
WalkStops ==
  /\ \/ Interrupted /\ agenda # <<>>
     \/ AtEntry /\ Next1.op = "root" /\ Next1.path \notin DOMAIN src
  /\ agenda' = <<>> /\ stopped' = TRUE
  /\ UNCHANGED <<src, order, first, entries, recvVars, broken>>

Vanish(p) ==
  /\ Cardinality(DOMAIN SourceTree) - Cardinality(DOMAIN src) < MaxVanish
  /\ src[p].kind = "file"
  /\ src' = [q \in DOMAIN src \ {p} |-> src[q]]
  /\ UNCHANGED <<order, walkVars, recvVars, broken>>

-----------------------------------------------------------------------------
(* The receiver *)

Now == entries[taken + 1]
Coming == stage = "open" /\ taken < Len(entries)
Resolves(id, how) == outcome' = [outcome EXCEPT ![id] = how]
With(p, o) == [q \in DOMAIN tree2 \cup {p} |-> IF q = p THEN o ELSE tree2[q]]

ADir == [kind |-> "dir", obj |-> 0, data |-> 0]

\* mutant: a path is taken once for each kind of entry
MentionedKind(rel) ==
  \E id \in 1 .. taken : entries[id].rel = rel /\ entries[id].kind = Now.kind
Mentioned(rel) == rel \in mentioned

\* Roots that overlap: the first entry of a path owns it.
TakeDuplicate ==
  /\ Coming /\ Mentioned(Now.rel)
  /\ Resolves(taken + 1, "skip") /\ taken' = taken + 1
  /\ UNCHANGED <<src, order, walkVars, mentioned, tree2, stage, broken>>

IsDir(p) == p \in DOMAIN tree2 /\ tree2[p].kind = "dir"

\* MkdirAll, in a dry run too; what is there must be a directory.
TakeDir ==
  /\ Coming /\ ~Mentioned(Now.rel) /\ Now.kind = "dir"
  /\ mentioned' = mentioned \cup {Now.rel} /\ taken' = taken + 1
  /\ IF \A q \in Above(Now.rel) \cup {Now.rel} : q \in DOMAIN tree2 => IsDir(q)
     THEN /\ Resolves(taken + 1, "ok")
          /\ tree2' = [q \in DOMAIN tree2 \cup Above(Now.rel) \cup {Now.rel} |->
                         IF q \in DOMAIN tree2 THEN tree2[q] ELSE ADir]
     ELSE Resolves(taken + 1, "fail") /\ UNCHANGED tree2
  /\ UNCHANGED <<src, order, walkVars, stage, broken>>

\* planFile, the shortcut for a file that is there already, or a transfer.
TakeFile ==
  /\ Coming /\ ~Mentioned(Now.rel) /\ Now.kind = "file"
  /\ mentioned' = mentioned \cup {Now.rel} /\ taken' = taken + 1
  /\ LET there == Now.rel \in DOMAIN tree2 /\ tree2[Now.rel].data = Now.ino
     IN Resolves(taken + 1, IF order.dry THEN "planned" ELSE IF there THEN "same" ELSE "open")
  /\ UNCHANGED <<src, order, walkVars, tree2, stage, broken>>

TakeLink ==
  /\ Coming /\ ~Mentioned(Now.rel) /\ Now.kind = "link"
  /\ mentioned' = mentioned \cup {Now.rel} /\ taken' = taken + 1
  /\ UNCHANGED <<src, order, walkVars, tree2, outcome, stage, broken>>

\* ManifestEnd comes after the last entry.
TakeEnd ==
  /\ stage = "open" /\ agenda = <<>> /\ taken = Len(entries)
  /\ taken' = taken + 1
  /\ UNCHANGED <<src, order, walkVars, mentioned, tree2, outcome, stage, broken>>

ManifestDone == agenda = <<>> /\ taken > Len(entries)

\* A file's transfer ends.  One that has vanished at the source fails, and so
\* does the rename onto a directory, and a part whose directory is not there
\* when a worker comes to open it, which may be when later entries are taken.
Land(id) ==
  /\ stage = "open" /\ ~broken /\ id <= taken /\ entries[id].kind = "file" /\ outcome[id] = "open"
  /\ LET e == entries[id]
     IN IF e.from \in DOMAIN src /\ ~IsDir(e.rel) /\ IsDir(Parent(e.rel))
        THEN Resolves(id, "ok") /\ tree2' = With(e.rel, [kind |-> "file", obj |-> id, data |-> e.ino])
        ELSE Resolves(id, "fail") /\ UNCHANGED tree2
  /\ UNCHANGED <<src, order, walkVars, taken, mentioned, stage, broken>>

\* The connection ends early: it is lost, or the sender was interrupted, or a
\* dry run has every file's answer.
Disconnects ==
  /\ ~broken /\ stage = "open" /\ broken' = TRUE
  /\ Interrupted \/ stopped \/ (order.dry /\ ManifestDone)
  /\ UNCHANGED <<src, order, walkVars, recvVars>>

Pending(id) == entries[id].kind = "link" /\ outcome[id] = "open"

\* watchCompletion: all is resolved but the links, or the control stream has
\* ended; it may also find its context done first.
PostPass ==
  /\ stage = "open"
  /\ \/ ManifestDone /\ \A id \in DOMAIN entries : outcome[id] \notin {"open", "planned"} \/ Pending(id)
     \/ broken
  /\ stage' = "post"
  /\ UNCHANGED <<src, order, walkVars, taken, mentioned, tree2, outcome, broken>>

Unwound ==
  /\ stage = "open" /\ broken /\ stage' = "over"
  /\ UNCHANGED <<src, order, walkVars, taken, mentioned, tree2, outcome, broken>>

\* os.Remove takes a file or an empty directory.
Removable(p) == \A q \in DOMAIN tree2 : p \notin Above(q)
Unlink(p) == [q \in DOMAIN tree2 \ {p} |-> tree2[q]]

\* Links are made in their order; what has the name is removed first.  A file
\* the shortcut or a dry run resolved is not known here, and one whose stat is
\* still to come may not be.
Link(id) ==
  /\ stage = "post" /\ id <= taken /\ Pending(id) /\ \A k \in 1 .. id - 1 : ~Pending(k)
  /\ LET e == entries[id]
         target == entries[e.ref].rel
     IN \/ /\ outcome[e.ref] \in {"open", "ok", "skip"}
           /\ IF target \in DOMAIN tree2 \ {e.rel} /\ IsDir(Parent(e.rel)) /\ Removable(e.rel)
              THEN Resolves(id, "ok") /\ tree2' = With(e.rel, tree2[target])
              ELSE /\ Resolves(id, "fail")
                   /\ tree2' = IF Removable(e.rel) THEN Unlink(e.rel) ELSE tree2
        \/ /\ outcome[e.ref] \notin {"ok", "skip"}
           /\ Resolves(id, "fail") /\ UNCHANGED tree2
  /\ UNCHANGED <<src, order, walkVars, taken, mentioned, stage, broken>>

\* deleteExtraLocked: part files are passed by, everything else that no entry
\* has the path of goes, with all that is below it.
Doomed == {p \in DOMAIN tree2 \ {<<>>} : p \notin mentioned /\ tree2[p].kind # "part"}

WithoutDoomed ==
  [p \in {q \in DOMAIN tree2 : Doomed \cap (Above(q) \cup {q}) = {}} |-> tree2[p]]

PassOver ==
  /\ stage = "post" /\ \A id \in 1 .. Len(entries) : id <= taken => ~Pending(id)
  /\ tree2' = IF order.delete /\ ManifestDone THEN WithoutDoomed ELSE tree2
  /\ stage' = "over"
  /\ UNCHANGED <<src, order, walkVars, taken, mentioned, outcome, broken>>

-----------------------------------------------------------------------------

MirrorInit ==
  /\ src = SourceTree /\ order \in Orders
  /\ agenda = [i \in DOMAIN order.roots |-> [op |-> "root", path |-> order.roots[i]]]
  /\ first = [i \in {} |-> 0] /\ entries = <<>> /\ stopped = FALSE
  /\ taken = 0 /\ mentioned = {} /\ tree2 = OldTree /\ outcome = <<>>
  /\ stage = "open" /\ broken = FALSE

Walking == SkipEntry \/ Emit \/ ListDir \/ WalkStops
Taking == TakeDuplicate \/ TakeDir \/ TakeFile \/ TakeLink \/ TakeEnd

MirrorNext ==
  \/ Walking \/ Taking \/ Disconnects \/ PostPass \/ Unwound \/ PassOver
  \/ \E p \in DOMAIN src : Vanish(p)
  \/ \E id \in DOMAIN entries : Land(id) \/ Link(id)

MirrorSpec == MirrorInit /\ [][MirrorNext]_mirrorVars

-----------------------------------------------------------------------------

Ids(hows) == {id \in DOMAIN entries : outcome[id] \in hows}
Clean == stage = "over" /\ ~broken /\ ~stopped /\ ~order.dry

\* What the walk is asked for, whatever the order of roots and directories.
Wanted(p) ==
  /\ \E i \in DOMAIN order.roots : order.roots[i] \in Above(p) \cup {p}
  /\ ~Excluded(p)
  /\ SourceTree[p].kind # "socket" /\ \A q \in Above(p) : SourceTree[q].kind # "shut"

\* Something of another kind is in its place, or in that of a directory above.
Blocked(p) ==
  \/ \E q \in Above(Rel(p)) \cap DOMAIN OldTree : OldTree[q].kind # "dir"
  \/ /\ Rel(p) \in DOMAIN OldTree
     /\ (OldTree[Rel(p)].kind = "dir") # (SourceTree[p].kind \in {"dir", "shut"})

\* A directory above it is no entry before it: that of a root given before it,
\* or of roots at different depths.
Early(id) ==
  \E q \in Above(entries[id].rel) \ DOMAIN OldTree : \A k \in 1 .. id - 1 : entries[k].rel # q

\* All directories above it are entries.
Rooted(id) == Above(entries[id].rel) \subseteq mentioned \cup {<<>>}

\* A link whose file did not come in this run.
Orphaned(id) == entries[id].kind = "link" /\ outcome[id] = "fail" /\ outcome[entries[id].ref] # "ok"

Data(id) == entries[id].kind # "dir"

Arrived(p) ==
  \E id \in DOMAIN entries :
    entries[id].rel = Rel(p) /\ (outcome[id] \in {"ok", "same"} \/ Orphaned(id) \/ Early(id))

InPlace(id) ==
  /\ entries[id].rel \in DOMAIN tree2
  /\ Data(id) => tree2[entries[id].rel].data = entries[id].ino

SameFile(i, j) == tree2[entries[i].rel].obj = tree2[entries[j].rel].obj

\* A run that came to its end has rebuilt the source, over roots that overlap,
\* exclusions and files that vanish: every path asked for that is still there
\* has arrived, but one that is blocked, a link whose file did not come and what
\* came before its directory; what has come is there with the content of its path;
\* two paths are one file there just when they are at the source; --delete
\* leaves nothing else but parts (manifest.go:237-345, receiver.go:415-437,
\* 1306-1345).
Rebuilt ==
  Clean =>
    /\ \A p \in DOMAIN src : Wanted(p) /\ ~Blocked(p) => Arrived(p)
    /\ \A id \in Ids({"ok", "same"}) : Rooted(id) => InPlace(id)
    /\ order.links => \A i, j \in {id \in Ids({"ok"}) : Data(id) /\ Rooted(id)} :
         (entries[i].ino = entries[j].ino) = SameFile(i, j)
    /\ order.delete =>
         \A p \in DOMAIN tree2 \ {<<>>} : p \in mentioned \/ tree2[p].kind = "part"

\* A parent that is not there "will be created by a later manifest entry"
\* (receiver.go:1557), and so its file arrives.
LaterParentsServe ==
  Clean => \A id \in Ids({"fail"}) :
    entries[id].kind = "file" /\ Rooted(id) => entries[id].from \notin DOMAIN src \/ Blocked(entries[id].from)

\* "only after a clean manifest end; never on a cancelled/postless unwind"
\* (receiver.go:1341-1342): a walk that was cut short removes no path that no
\* entry had.
DeletesAfterCleanEnd == stopped => DOMAIN OldTree \ mentioned \subseteq DOMAIN tree2

\* "destination entries missing from the manifest are removed" (README.md:31),
\* and so no others: what has arrived stays.
DeletesMissing ==
  stage = "over" => \A id \in Ids({"ok", "same"}) : entries[id].rel \in DOMAIN tree2

\* A dry run is "plan only" (cmd_send.go:35), "touch nothing" (receiver.go:512).
DryRunTouchesNothing == order.dry => tree2 = OldTree
=============================================================================
