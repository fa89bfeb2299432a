-------------------------------- MODULE Mesh --------------------------------
(***************************************************************************)
(* Mesh config propagation, internal/cli/mesh.go: `config publish` on the  *)
(* key owner's node, the envelope that ordinary pushes carry, and the      *)
(* commit hook of each receiving server.  All configs pin the one key and  *)
(* signatures verify; the age check of a first envelope is left out.       *)
(*                                                                         *)
(* Publishing processes share a config under its lock.  A server's hooks   *)
(* run in the sessions that delivered; apply and remove are two steps.     *)
(***************************************************************************)
EXTENDS Naturals, FiniteSets, FiniteSetsExt

CONSTANTS
  Publishers,   \* processes that run `config publish`
  Nodes,        \* receiving servers
  Names,        \* of endpoints
  OwnNames,     \* those a node's owner may define
  ReReads,      \* whether the read under the lock works: {TRUE}, {FALSE} or both
  MaxVersion,   \* bound: publishes
  MaxHooks      \* bound: hooks of a node that wait

VARIABLES
  config,     \* the owner's: [version, ends], ends being names -> value
  process,    \* [publisher -> [pc, seen, env]]
  locked,     \* the config's lock: a publisher or nobody
  emitted,    \* envelopes written to --out
  blind,      \* a read of the config under its lock has failed
  node,       \* [node -> [version, ends, managed]], its config
  jail,       \* [node -> the envelope at its jail's root, or NoEnv]
  hooks,      \* [node -> hooks yet to apply, and yet to remove]
  overlap,    \* nodes that were delivered to while a hook had not finished
  delivered   \* [node -> the newest version delivered]

meshVars == <<config, process, locked, emitted, blind, node, jail, hooks, overlap, delivered>>
publisher == <<config, process, locked, emitted, blind>>
receiver == <<node, jail, hooks, overlap, delivered>>

NoEnv == [version |-> 0, ends |-> [n \in {} |-> 0]]
Waiting == [pc |-> "idle", seen |-> NoEnv, env |-> NoEnv]
NoProcess == "nobody"

ASSUME MeshAssumption ==
  /\ NoProcess \notin Publishers /\ ReReads \subseteq BOOLEAN
  /\ MaxVersion \in Nat /\ MaxHooks \in Nat

\* An endpoint is worth the version it was edited for; a node's own are worth 0.
Local == 0

-----------------------------------------------------------------------------
(* The key owner *)

\* The owner edits the config by hand, which takes no lock: what a process that
\* holds it saves undoes the edit.
Edit(n) ==
  /\ config.version < MaxVersion
  /\ LET stays == DOMAIN config.ends \ {n}
     IN \/ config' = [config EXCEPT !.ends =
             [m \in stays \cup {n} |-> IF m = n THEN config.version + 1 ELSE config.ends[m]]]
        \/ stays # {} /\ config' = [config EXCEPT !.ends = [m \in stays |-> config.ends[m]]]
  /\ UNCHANGED <<process, locked, emitted, blind, receiver>>

\* The config is read, to see that there is something to publish ...
LoadConfig(p) ==
  /\ process[p].pc = "idle" /\ config.version < MaxVersion
  /\ process' = [process EXCEPT ![p] = [pc |-> "loaded", seen |-> config, env |-> NoEnv]]
  /\ UNCHANGED <<config, locked, emitted, blind, receiver>>

\* mutant: the first read is used
ReReadNot(p) == process[p].seen

\* ... and again under the lock.
ReRead(p) == config

Envelope(p, cfg) ==
  process' = [process EXCEPT ![p] =
    [pc |-> "locked", seen |-> NoEnv, env |-> [version |-> cfg.version + 1, ends |-> cfg.ends]]]

\* What cannot be read the second time is what it was the first time.
LockConfig(p) ==
  /\ process[p].pc = "loaded" /\ locked = NoProcess /\ locked' = p
  /\ \E works \in ReReads :
       /\ Envelope(p, IF works THEN ReRead(p) ELSE process[p].seen)
       /\ blind' = (blind \/ ~works)
  /\ UNCHANGED <<config, emitted, receiver>>

\* The version is recorded before the envelope exists: a process that dies
\* between the two wastes a version.
SaveVersion(p) ==
  /\ process[p].pc = "locked" /\ config' = process[p].env
  /\ process' = [process EXCEPT ![p].pc = "saved"]
  /\ UNCHANGED <<locked, emitted, blind, receiver>>

EmitEnvelope(p) ==
  /\ process[p].pc = "saved" /\ emitted' = emitted \cup {process[p].env}
  /\ process' = [process EXCEPT ![p] = [Waiting EXCEPT !.pc = "emitted"]]
  /\ UNCHANGED <<config, locked, blind, receiver>>

\* It returns, or dies at any step: the lock goes either way.
ProcessEnds(p) ==
  /\ process[p].pc # "idle"
  /\ process' = [process EXCEPT ![p] = Waiting]
  /\ locked' = IF locked = p THEN NoProcess ELSE locked
  /\ UNCHANGED <<config, emitted, blind, receiver>>

-----------------------------------------------------------------------------
(* A receiving server *)

\* A push, of today's envelope or of an older one, renames it into the jail and
\* calls the hook.
Deliver(n, env) ==
  /\ hooks[n].apply + hooks[n].remove < MaxHooks
  /\ jail' = [jail EXCEPT ![n] = env]
  /\ overlap' = IF hooks[n].apply + hooks[n].remove > 0 THEN overlap \cup {n} ELSE overlap
  /\ hooks' = [hooks EXCEPT ![n].apply = @ + 1]
  /\ delivered' = [delivered EXCEPT ![n] = Max({@, env.version})]
  /\ UNCHANGED <<publisher, node>>

\* mutant: the next version only
NewerNext(n, env) == env.version = node[n].version + 1

\* A strictly higher version: one that a crash wasted is passed over.
Newer(n, env) == env.version > node[n].version

\* mutant: revoked endpoints stay
DroppedNone(n, env) == {}

\* Names the mesh managed before and manages no more.
Dropped(n, env) == node[n].managed \ DOMAIN env.ends

Merged(n, env) ==
  LET kept == DOMAIN node[n].ends \ Dropped(n, env)
  IN [version |-> env.version, managed |-> DOMAIN env.ends,
      ends |-> [m \in kept \cup DOMAIN env.ends |->
                  IF m \in DOMAIN env.ends THEN env.ends[m] ELSE node[n].ends[m]]]

\* applyMeshEnvelope reads whatever is at the path by now.
ApplyHook(n) ==
  /\ hooks[n].apply > 0
  /\ hooks' = [hooks EXCEPT ![n] = [apply |-> @.apply - 1, remove |-> @.remove + 1]]
  /\ node' = IF jail[n] # NoEnv /\ Newer(n, jail[n])
             THEN [node EXCEPT ![n] = Merged(n, jail[n])] ELSE node
  /\ UNCHANGED <<publisher, jail, overlap, delivered>>

\* Then whatever is there is removed.
RemoveEnvelope(n) ==
  /\ hooks[n].remove > 0
  /\ hooks' = [hooks EXCEPT ![n].remove = @ - 1]
  /\ jail' = [jail EXCEPT ![n] = NoEnv]
  /\ UNCHANGED <<publisher, node, overlap, delivered>>

\* The node's owner adds an endpoint of its own.
EditNode(n, m) ==
  /\ node' = [node EXCEPT ![n].ends =
                [k \in DOMAIN node[n].ends \cup {m} |-> IF k = m THEN Local ELSE node[n].ends[k]]]
  /\ UNCHANGED <<publisher, jail, hooks, overlap, delivered>>

-----------------------------------------------------------------------------

MeshInit ==
  /\ config \in {[version |-> 0, ends |-> [m \in {n} |-> 1]] : n \in Names}
  /\ process = [p \in Publishers |-> Waiting] /\ locked = NoProcess /\ emitted = {}
  /\ blind = FALSE
  /\ node = [n \in Nodes |-> [version |-> 0, ends |-> NoEnv.ends, managed |-> {}]]
  /\ jail = [n \in Nodes |-> NoEnv] /\ hooks = [n \in Nodes |-> [apply |-> 0, remove |-> 0]]
  /\ overlap = {} /\ delivered = [n \in Nodes |-> 0]

Publishing(p) ==
  LoadConfig(p) \/ LockConfig(p) \/ SaveVersion(p) \/ EmitEnvelope(p) \/ ProcessEnds(p)

MeshNext ==
  \/ \E n \in Names : Edit(n)
  \/ \E p \in Publishers : Publishing(p)
  \/ \E n \in Nodes : (\E env \in emitted : Deliver(n, env)) \/ ApplyHook(n) \/ RemoveEnvelope(n)
  \/ \E n \in Nodes, m \in OwnNames : EditNode(n, m)

MeshSpec == MeshInit /\ [][MeshNext]_meshVars

-----------------------------------------------------------------------------

\* No two envelopes have one version, over processes that publish at once,
\* processes that die between the record and the envelope and edits by hand: a
\* node would reject the one it missed for ever (mesh.go:282-289, 330-341).
\* Excepted is a config that could not be read again under the lock.
OneEnvelope == ~blind => \A a, b \in emitted : a.version = b.version => a = b

\* What a node has of the mesh is what its version's envelope says: an endpoint
\* the publisher dropped is gone, in however many versions the node missed
\* (mesh.go:181-198).
RevokedGone ==
  \A n \in Nodes, m \in Names :
    m \in DOMAIN node[n].ends /\ node[n].ends[m] # Local =>
      \E env \in emitted : /\ env.version = node[n].version
                           /\ m \in DOMAIN env.ends /\ env.ends[m] = node[n].ends[m]

\* A node whose hooks are done and never met has the newest version that was
\* delivered to it, in whatever order (mesh.go:93-99, 165-170).
NewestApplied ==
  \A n \in Nodes :
    n \notin overlap /\ hooks[n].apply = 0 => node[n].version = delivered[n]

\* mesh.go:97-98: "edit the list on one node, every node converges".
Converges ==
  \A n \in Nodes :
    hooks[n].apply = 0 => node[n].version = delivered[n]
=============================================================================
