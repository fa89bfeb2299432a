--------------------------- MODULE Services_proofs --------------------------
(* Safety of the parts around a transfer, for every value of the constants *)
(* and any number of processes: what mesh publishers emit and what a node  *)
(* applies of it, what a run that says ok has brought, and what the audit  *)
(* journal keeps of what it has acknowledged.                              *)
EXTENDS Mesh, Session, Journal, SequenceTheorems, FiniteSetTheorems, TLAPS

(***************************************************************************)
(* Mesh, publishing.                                                       *)
(*                                                                         *)
(* A new version is that of the config and one, and the config cannot move *)
(* between the read under the lock and the record: whoever is past the     *)
(* lock has it.  Once recorded, the version is newer than all emitted.     *)
(* All but having the lock ends when a read under the lock fails (blind).  *)
(***************************************************************************)
Envelopes == [version : Nat, ends : UNION {[ns -> Nat] : ns \in SUBSET Names}]

PublishTypes ==
  /\ config \in Envelopes /\ emitted \subseteq Envelopes
  /\ process \in [Publishers -> [pc : {"idle", "loaded", "locked", "saved", "emitted"},
                                 seen : Envelopes, env : Envelopes]]

PastLock(p) == process[p].pc \in {"locked", "saved", "emitted"}

\* Who is past the lock has it, and the config's version is still what it read
\* or wrote.
LockHeld ==
  \A p \in Publishers :
    /\ PastLock(p) => locked = p
    /\ ~blind /\ process[p].pc = "locked" => process[p].env.version = config.version + 1
    /\ process[p].pc = "saved" => process[p].env.version = config.version

\* The record is ahead of the envelopes.
RecordAhead ==
  ~blind =>
    /\ \A e \in emitted : e.version <= config.version
    /\ \A p \in Publishers :
         process[p].pc = "saved" => \A e \in emitted : e.version < config.version

PublishInv == PublishTypes /\ LockHeld /\ RecordAhead /\ OneEnvelope

-----------------------------------------------------------------------------

\* Endpoints over names make an envelope.
LEMMA EndsType ==
  ASSUME NEW v \in Nat, NEW ns \in SUBSET Names, NEW f \in [ns -> Nat]
  PROVE  [version |-> v, ends |-> f] \in Envelopes
<1>1. f \in UNION {[m -> Nat] : m \in SUBSET Names}
  OBVIOUS
<1> QED
  BY <1>1 DEF Envelopes

\* What names an envelope has, and what it says of them.
LEMMA EndsShape ==
  ASSUME NEW e \in Envelopes
  PROVE  /\ e = [version |-> e.version, ends |-> e.ends] /\ e.version \in Nat
         /\ DOMAIN e.ends \subseteq Names /\ \A n \in DOMAIN e.ends : e.ends[n] \in Nat
<1>1. PICK ns \in SUBSET Names : e.ends \in [ns -> Nat]
  BY DEF Envelopes
<1> QED
  BY <1>1 DEF Envelopes

\* The empty envelope is one.
LEMMA NoEnvType == NoEnv \in Envelopes
<1>1. [n \in {} |-> 0] \in [{} -> Nat]
  OBVIOUS
<1> QED
  BY <1>1, EndsType DEF NoEnv

\* Nothing is emitted at first.
LEMMA PublishInit == ASSUME MeshInit PROVE PublishInv
<1> USE DEF MeshInit
<1>1. config \in Envelopes
  <2>1. PICK n \in Names : config = [version |-> 0, ends |-> [m \in {n} |-> 1]]
    OBVIOUS
  <2>2. [m \in {n} |-> 1] \in [{n} -> Nat] /\ {n} \in SUBSET Names
    OBVIOUS
  <2> QED
    BY <2>1, <2>2, EndsType
<1>2. Waiting \in [pc : {"idle", "loaded", "locked", "saved", "emitted"},
                   seen : Envelopes, env : Envelopes]
  BY NoEnvType DEF Waiting
<1>3. PublishTypes
  BY <1>1, <1>2 DEF PublishTypes
<1>4. \A p \in Publishers : process[p].pc = "idle"
  BY DEF Waiting
<1> QED
  BY <1>3, <1>4 DEF PublishInv, LockHeld, PastLock, RecordAhead, OneEnvelope

\* What the servers do is of no account.
LEMMA PublishUntouched == ASSUME PublishInv, UNCHANGED publisher PROVE PublishInv'
BY DEF PublishInv, PublishTypes, LockHeld, PastLock, RecordAhead, OneEnvelope, publisher

\* Edit: the version stays.
LEMMA EditInv == ASSUME PublishInv, NEW n \in Names, Edit(n) PROVE PublishInv'
<1>1. config'.version = config.version /\ config' \in Envelopes
  <2> DEFINE stays == DOMAIN config.ends \ {n}
             more == [m \in stays \cup {n} |-> IF m = n THEN config.version + 1 ELSE config.ends[m]]
             fewer == [m \in stays |-> config.ends[m]]
  <2>1. /\ config = [version |-> config.version, ends |-> config.ends] /\ config.version \in Nat
        /\ DOMAIN config.ends \subseteq Names /\ \A m \in DOMAIN config.ends : config.ends[m] \in Nat
    BY EndsShape DEF PublishInv, PublishTypes
  <2>2. more \in [stays \cup {n} -> Nat] /\ fewer \in [stays -> Nat]
    BY <2>1
  <2>3. /\ [version |-> config.version, ends |-> more] \in Envelopes
        /\ [version |-> config.version, ends |-> fewer] \in Envelopes
    BY <2>1, <2>2, EndsType, stays \cup {n} \in SUBSET Names, stays \in SUBSET Names
  <2>4. config' \in {[version |-> config.version, ends |-> more], [version |-> config.version, ends |-> fewer]}
    BY <2>1 DEF Edit
  <2> QED
    BY <2>3, <2>4
<1>2. PublishTypes' /\ LockHeld'
  BY <1>1, MeshAssumption DEF PublishInv, PublishTypes, LockHeld, PastLock, Edit
<1>3. RecordAhead' /\ OneEnvelope'
  BY <1>1 DEF PublishInv, RecordAhead, OneEnvelope, Edit
<1> QED
  BY <1>2, <1>3 DEF PublishInv

\* A publisher's steps: each moves itself along, and only under the lock touches
\* the config or emits.
LEMMA PublishingInv == ASSUME PublishInv, NEW p \in Publishers, Publishing(p) PROVE PublishInv'
<1> DEFINE States == [pc : {"idle", "loaded", "locked", "saved", "emitted"},
                      seen : Envelopes, env : Envelopes]
<1>0. /\ process \in [Publishers -> States] /\ config \in Envelopes /\ config.version \in Nat
      /\ emitted \subseteq Envelopes /\ \A e \in Envelopes : e.version \in Nat
      /\ Waiting \in States /\ Waiting.pc = "idle"
  BY EndsShape, NoEnvType DEF PublishInv, PublishTypes, Waiting
<1>1. CASE LoadConfig(p)
  <2>1. process' = [process EXCEPT ![p] = [pc |-> "loaded", seen |-> config, env |-> NoEnv]]
    BY <1>1 DEF LoadConfig
  <2>2. [pc |-> "loaded", seen |-> config, env |-> NoEnv] \in States
    BY <1>0, NoEnvType
  <2>3. PublishTypes'
    BY <1>0, <1>1, <2>1, <2>2 DEF PublishInv, PublishTypes, LoadConfig
  <2> QED
    BY <1>0, <1>1, <2>1, <2>3
       DEF PublishInv, LoadConfig, LockHeld, PastLock, RecordAhead, OneEnvelope
<1>2. CASE LockConfig(p)
  <2>1. PICK works \in ReReads :
          /\ Envelope(p, IF works THEN ReRead(p) ELSE process[p].seen)
          /\ blind' = (blind \/ ~works)
    BY <1>2 DEF LockConfig
  <2> DEFINE cfg == IF works THEN config ELSE process[p].seen
             env == [version |-> cfg.version + 1, ends |-> cfg.ends]
  <2>2. cfg \in Envelopes
    BY <1>0
  <2>3. env \in Envelopes
    BY <2>2, EndsShape DEF Envelopes
  <2>4. process' = [process EXCEPT ![p] = [pc |-> "locked", seen |-> NoEnv, env |-> env]]
    BY <2>1 DEF Envelope, ReRead
  <2>5. [pc |-> "locked", seen |-> NoEnv, env |-> env] \in States
    BY <2>3, NoEnvType
  <2>6. ~blind' => ~blind /\ env.version = config.version + 1
    BY <2>1, MeshAssumption
  <2> HIDE DEF env
  <2>7. PublishTypes'
    BY <1>0, <1>2, <2>4, <2>5 DEF PublishInv, PublishTypes, LockConfig
  <2>8. LockHeld'
    <3>1. \A q \in Publishers : q # p => process'[q] = process[q] /\ ~PastLock(q)
      BY <1>0, <1>2, <2>4, MeshAssumption DEF PublishInv, LockHeld, LockConfig
    <3>2. process'[p].pc = "locked" /\ process'[p].env = env /\ config' = config /\ locked' = p
      BY <1>0, <1>2, <2>4 DEF LockConfig
    <3> QED
      BY <3>1, <3>2, <2>6 DEF LockHeld, PastLock
  <2>9. RecordAhead' /\ OneEnvelope'
    BY <1>0, <1>2, <2>4, <2>6 DEF PublishInv, RecordAhead, OneEnvelope, LockConfig
  <2> QED
    BY <2>7, <2>8, <2>9 DEF PublishInv
<1>3. CASE SaveVersion(p)
  <2>1. process' = [process EXCEPT ![p] = [@ EXCEPT !.pc = "saved"]]
    BY <1>3 DEF SaveVersion
  <2>2. config'.version = process[p].env.version /\ locked = p
    BY <1>3 DEF SaveVersion, PublishInv, LockHeld, PastLock
  <2>3. PublishTypes'
    BY <1>0, <1>3, <2>1 DEF PublishInv, PublishTypes, SaveVersion
  <2>4. LockHeld'
    BY <1>0, <1>3, <2>1, <2>2 DEF PublishInv, LockHeld, PastLock, SaveVersion
  <2>5. RecordAhead' /\ OneEnvelope'
    BY <1>0, <1>3, <2>1, <2>2 DEF PublishInv, LockHeld, PastLock, RecordAhead, OneEnvelope, SaveVersion
  <2> QED
    BY <2>3, <2>4, <2>5 DEF PublishInv
<1>4. CASE EmitEnvelope(p)
  <2>1. process' = [process EXCEPT ![p] = [pc |-> "emitted", seen |-> NoEnv, env |-> NoEnv]]
    <3>1. [Waiting EXCEPT !.pc = "emitted"] = [pc |-> "emitted", seen |-> NoEnv, env |-> NoEnv]
      BY DEF Waiting
    <3> QED
      BY <1>4, <3>1 DEF EmitEnvelope
  <2>2. [pc |-> "emitted", seen |-> NoEnv, env |-> NoEnv] \in States
    BY NoEnvType
  <2>3. PublishTypes'
    BY <1>0, <1>4, <2>1, <2>2 DEF PublishInv, PublishTypes, EmitEnvelope
  <2>4. LockHeld'
    BY <1>0, <1>4, <2>1 DEF PublishInv, LockHeld, PastLock, EmitEnvelope
  <2>5. \A q \in Publishers : process'[q].pc # "saved"
    BY <1>0, <1>4, <2>1 DEF PublishInv, LockHeld, PastLock, EmitEnvelope
  <2>6. RecordAhead' /\ OneEnvelope'
    BY <1>0, <1>4, <2>5 DEF PublishInv, LockHeld, RecordAhead, OneEnvelope, EmitEnvelope
  <2> QED
    BY <2>3, <2>4, <2>6 DEF PublishInv
<1>5. CASE ProcessEnds(p)
  <2>1. PublishTypes'
    BY <1>0, <1>5 DEF PublishInv, PublishTypes, ProcessEnds
  <2>2. LockHeld'
    BY <1>0, <1>5 DEF PublishInv, LockHeld, PastLock, ProcessEnds
  <2>3. RecordAhead' /\ OneEnvelope'
    BY <1>0, <1>5 DEF PublishInv, RecordAhead, OneEnvelope, ProcessEnds
  <2> QED
    BY <2>1, <2>2, <2>3 DEF PublishInv
<1> QED
  BY <1>1, <1>2, <1>3, <1>4, <1>5 DEF Publishing

-----------------------------------------------------------------------------

\* The invariant holds throughout.
THEOREM PublishInvariant == MeshSpec => []PublishInv
<1>1. MeshInit => PublishInv
  BY PublishInit
<1>2. ASSUME PublishInv, [MeshNext]_meshVars PROVE PublishInv'
  <2>1. CASE UNCHANGED meshVars
    BY <1>2, <2>1, PublishUntouched DEF meshVars, publisher
  <2>2. CASE \E n \in Names : Edit(n)
    BY <1>2, <2>2, EditInv
  <2>3. CASE \E p \in Publishers : Publishing(p)
    BY <1>2, <2>3, PublishingInv
  <2>4. CASE \E n \in Nodes : (\E env \in emitted : Deliver(n, env)) \/ ApplyHook(n) \/ RemoveEnvelope(n)
    <3>1. UNCHANGED publisher
      BY <2>4 DEF Deliver, ApplyHook, RemoveEnvelope
    <3> QED
      BY <1>2, <3>1, PublishUntouched
  <2>5. CASE \E n \in Nodes, m \in OwnNames : EditNode(n, m)
    <3>1. UNCHANGED publisher
      BY <2>5 DEF EditNode
    <3> QED
      BY <1>2, <3>1, PublishUntouched
  <2> QED
    BY <1>2, <2>1, <2>2, <2>3, <2>4, <2>5 DEF MeshNext
<1> QED
  BY <1>1, <1>2, PTL DEF MeshSpec

\* No two envelopes have one version, over processes that publish at once, edits
\* between their reads, and processes that die between the record of a version
\* and its envelope, as long as the config can be read under its lock
\* (mesh.go:282-289, 330-341).
THEOREM EnvelopesDiffer == MeshSpec => []OneEnvelope
<1>1. PublishInv => OneEnvelope
  BY DEF PublishInv
<1> QED
  BY <1>1, PublishInvariant, PTL
-----------------------------------------------------------------------------
(* The receiving servers *)

(***************************************************************************)
(* What a node has of the mesh is one envelope's: the one of its version,  *)
(* less what its owner has made its own since; what it does not manage is  *)
(* its own (NodeHas).  A hook that met no other finds in the jail what it  *)
(* was called for, so that only it stands between the node and the newest  *)
(* it was given (HookHas).                                                 *)
(***************************************************************************)
Lists == UNION {[ns -> Nat] : ns \in SUBSET (Names \cup OwnNames)}

NodeTypes ==
  /\ node \in [Nodes -> [version : Nat, ends : Lists, managed : SUBSET Names]]
  /\ jail \in [Nodes -> emitted \cup {NoEnv}]
  /\ hooks \in [Nodes -> [apply : Nat, remove : Nat]]
  /\ delivered \in [Nodes -> Nat]

Has(n, env) ==
  /\ env.version = node[n].version /\ DOMAIN env.ends = node[n].managed
  /\ \A m \in DOMAIN node[n].ends :
       node[n].ends[m] = Local \/ (m \in DOMAIN env.ends /\ node[n].ends[m] = env.ends[m])

NodeHas ==
  \A n \in Nodes : (\E env \in emitted : Has(n, env)) \/ \A m \in DOMAIN node[n].ends : node[n].ends[m] = Local

HookHas ==
  \A n \in Nodes \ overlap :
    /\ hooks[n].apply + hooks[n].remove <= 1
    /\ hooks[n].apply = 0 => node[n].version = delivered[n]
    /\ hooks[n].apply = 1 =>
         delivered[n] = IF jail[n].version > node[n].version THEN jail[n].version ELSE node[n].version

ReceiveInv == NodeTypes /\ NodeHas /\ HookHas

\* The newest of two.
LEMMA MaxOfTwo == ASSUME NEW a \in Nat, NEW b \in Nat PROVE Max({a, b}) = IF b > a THEN b ELSE a
BY DEF Max

\* Endpoints over names make a node's list.
LEMMA ListType ==
  ASSUME NEW ns \in SUBSET (Names \cup OwnNames), NEW f \in [ns -> Nat] PROVE f \in Lists
BY DEF Lists

\* What a list is.
LEMMA ListShape ==
  ASSUME NEW f \in Lists
  PROVE  DOMAIN f \subseteq Names \cup OwnNames /\ \A m \in DOMAIN f : f[m] \in Nat
<1>1. PICK ns \in SUBSET (Names \cup OwnNames) : f \in [ns -> Nat]
  BY DEF Lists
<1> QED
  BY <1>1

\* At first a node has nothing of the mesh, and no hook.
LEMMA ReceiveInit == ASSUME MeshInit PROVE ReceiveInv
<1> USE DEF MeshInit
<1>0. [m \in {} |-> 0] \in Lists
  BY [m \in {} |-> 0] \in [{} -> Nat], {} \in SUBSET (Names \cup OwnNames), ListType
<1>1. node = [n \in Nodes |-> [version |-> 0, ends |-> [m \in {} |-> 0], managed |-> {}]]
  BY DEF NoEnv
<1>2. NodeTypes
  BY <1>0, <1>1 DEF NodeTypes
<1>3. NodeHas /\ HookHas
  BY <1>1 DEF NodeHas, HookHas
<1> QED
  BY <1>2, <1>3 DEF ReceiveInv

\* Publishers only add envelopes.
LEMMA ReceiveUntouched ==
  ASSUME ReceiveInv, UNCHANGED receiver, emitted \subseteq emitted' PROVE ReceiveInv'
<1> USE DEF receiver
<1>1. NodeTypes'
  BY DEF ReceiveInv, NodeTypes
<1>2. NodeHas' /\ HookHas'
  BY DEF ReceiveInv, NodeHas, HookHas, Has
<1> QED
  BY <1>1, <1>2 DEF ReceiveInv

\* Deliver: the hook that is called finds what was delivered, if it meets no other.
LEMMA DeliverInv ==
  ASSUME PublishInv, ReceiveInv, NEW n \in Nodes, NEW env \in emitted, Deliver(n, env) PROVE ReceiveInv'
<1>0. env \in Envelopes /\ env.version \in Nat
  BY EndsShape DEF PublishInv, PublishTypes
<1>1. /\ jail' = [jail EXCEPT ![n] = env] /\ UNCHANGED <<emitted, node>>
      /\ hooks' = [hooks EXCEPT ![n].apply = @ + 1]
      /\ overlap' = IF hooks[n].apply + hooks[n].remove > 0 THEN overlap \cup {n} ELSE overlap
      /\ delivered' = [delivered EXCEPT ![n] = Max({@, env.version})]
  BY DEF Deliver, publisher
<1>2. Max({delivered[n], env.version}) = IF env.version > delivered[n] THEN env.version ELSE delivered[n]
  BY <1>0, MaxOfTwo DEF ReceiveInv, NodeTypes
<1>3. NodeTypes'
  BY <1>0, <1>1, <1>2 DEF ReceiveInv, NodeTypes
<1>4. NodeHas'
  BY <1>1 DEF ReceiveInv, NodeHas, Has
<1>5. HookHas'
  <2> SUFFICES ASSUME NEW k \in Nodes \ overlap'
               PROVE  /\ hooks'[k].apply + hooks'[k].remove <= 1
                      /\ hooks'[k].apply = 0 => node'[k].version = delivered'[k]
                      /\ hooks'[k].apply = 1 =>
                           delivered'[k] = IF jail'[k].version > node'[k].version THEN jail'[k].version ELSE node'[k].version
    BY DEF HookHas
  <2>0. k \notin overlap
    BY <1>1
  <2>1. CASE k = n
    <3>0. hooks[n].apply \in Nat /\ hooks[n].remove \in Nat
      BY DEF ReceiveInv, NodeTypes
    <3>1. hooks[n].apply = 0 /\ hooks[n].remove = 0
      BY <1>1, <2>1, <3>0
    <3>2. node[n].version = delivered[n]
      BY <2>0, <2>1, <3>1 DEF ReceiveInv, HookHas
    <3>3. /\ hooks'[n].apply = 1 /\ hooks'[n].remove = 0 /\ jail'[n] = env
          /\ delivered'[n] = IF env.version > delivered[n] THEN env.version ELSE delivered[n]
      BY <1>1, <1>2, <3>1 DEF ReceiveInv, NodeTypes
    <3> QED
      BY <1>1, <2>1, <3>2, <3>3
  <2>2. CASE k # n
    <3>1. hooks'[k] = hooks[k] /\ jail'[k] = jail[k] /\ delivered'[k] = delivered[k]
      BY <1>1, <2>2 DEF ReceiveInv, NodeTypes
    <3> QED
      BY <1>1, <2>0, <3>1 DEF ReceiveInv, HookHas
  <2> QED
    BY <2>1, <2>2
<1> QED
  BY <1>3, <1>4, <1>5 DEF ReceiveInv

\* What a node makes of a newer envelope.
LEMMA MergedHas ==
  ASSUME PublishInv, ReceiveInv, NEW n \in Nodes, NEW env \in emitted
  PROVE  /\ Merged(n, env) \in [version : Nat, ends : Lists, managed : SUBSET Names]
         /\ Merged(n, env).version = env.version /\ Merged(n, env).managed = DOMAIN env.ends
         /\ \A m \in DOMAIN Merged(n, env).ends :
              \/ Merged(n, env).ends[m] = Local
              \/ m \in DOMAIN env.ends /\ Merged(n, env).ends[m] = env.ends[m]
<1> DEFINE kept == DOMAIN node[n].ends \ Dropped(n, env)
           f == [m \in kept \cup DOMAIN env.ends |-> IF m \in DOMAIN env.ends THEN env.ends[m] ELSE node[n].ends[m]]
<1>1. env.version \in Nat /\ DOMAIN env.ends \subseteq Names /\ \A m \in DOMAIN env.ends : env.ends[m] \in Nat
  BY EndsShape DEF PublishInv, PublishTypes
<1>2. DOMAIN node[n].ends \subseteq Names \cup OwnNames /\ \A m \in DOMAIN node[n].ends : node[n].ends[m] \in Nat
  BY ListShape DEF ReceiveInv, NodeTypes
<1>3. f \in [kept \cup DOMAIN env.ends -> Nat]
  BY <1>1, <1>2
<1>4. f \in Lists
  <2>1. kept \cup DOMAIN env.ends \in SUBSET (Names \cup OwnNames)
    BY <1>1, <1>2
  <2> QED
    BY <1>3, <2>1, ListType
<1>5. \A m \in kept : m \in DOMAIN env.ends \/ node[n].ends[m] = Local
  BY DEF Dropped, ReceiveInv, NodeHas, Has
<1>6. \A m \in DOMAIN f : f[m] = Local \/ (m \in DOMAIN env.ends /\ f[m] = env.ends[m])
  BY <1>5
<1>7. Merged(n, env) = [version |-> env.version, managed |-> DOMAIN env.ends, ends |-> f]
  BY DEF Merged
<1> HIDE DEF f
<1> QED
  BY <1>1, <1>4, <1>6, <1>7

\* ApplyHook: the node has the newer envelope, and nothing of the older one.
LEMMA ApplyHookInv == ASSUME PublishInv, ReceiveInv, NEW n \in Nodes, ApplyHook(n) PROVE ReceiveInv'
<1>1. /\ hooks' = [hooks EXCEPT ![n] = [apply |-> @.apply - 1, remove |-> @.remove + 1]]
      /\ hooks[n].apply > 0 /\ UNCHANGED <<emitted, jail, overlap, delivered>>
  BY DEF ApplyHook, publisher
<1>2. hooks[n].apply \in Nat /\ hooks[n].remove \in Nat /\ node[n].version \in Nat
  BY DEF ReceiveInv, NodeTypes
<1>3. /\ hooks' \in [Nodes -> [apply : Nat, remove : Nat]]
      /\ hooks'[n].apply = hooks[n].apply - 1 /\ hooks'[n].remove = hooks[n].remove + 1
      /\ \A k \in Nodes \ {n} : hooks'[k] = hooks[k]
  BY <1>1, <1>2 DEF ReceiveInv, NodeTypes
<1>4. n \notin overlap =>
        /\ hooks'[n].apply = 0 /\ hooks'[n].remove = 1
        /\ delivered[n] = IF jail[n].version > node[n].version THEN jail[n].version ELSE node[n].version
  BY <1>1, <1>2, <1>3 DEF ReceiveInv, HookHas
<1>5. CASE Newer(n, jail[n])
  <2>0. jail[n] \in emitted /\ jail[n] # NoEnv
    <3>1. NoEnv.version = 0
      BY DEF NoEnv
    <3>2. jail[n] # NoEnv
      BY <1>2, <1>5, <3>1 DEF Newer
    <3> QED
      BY <3>2 DEF ReceiveInv, NodeTypes
  <2>1. PICK e \in emitted : e = jail[n]
    BY <2>0
  <2>2. PICK r \in [version : Nat, ends : Lists, managed : SUBSET Names] : r = Merged(n, e)
    BY MergedHas
  <2>3. /\ r.version = e.version /\ r.managed = DOMAIN e.ends
        /\ \A m \in DOMAIN r.ends : r.ends[m] = Local \/ (m \in DOMAIN e.ends /\ r.ends[m] = e.ends[m])
    BY <2>2, MergedHas
  <2>4. node' = [node EXCEPT ![n] = r]
    BY <1>5, <2>0, <2>1, <2>2 DEF ApplyHook
  <2>5. node'[n] = r /\ \A k \in Nodes \ {n} : node'[k] = node[k]
    BY <2>4 DEF ReceiveInv, NodeTypes
  <2>6. NodeTypes'
    BY <1>1, <1>3, <2>4 DEF ReceiveInv, NodeTypes
  <2>7. NodeHas'
    BY <1>1, <2>3, <2>5 DEF ReceiveInv, NodeHas, Has
  <2>8. HookHas'
    BY <1>1, <1>2, <1>3, <1>4, <1>5, <2>1, <2>3, <2>5 DEF ReceiveInv, HookHas, Newer
  <2> QED
    BY <2>6, <2>7, <2>8 DEF ReceiveInv
<1>6. CASE ~Newer(n, jail[n])
  <2>1. node' = node
    BY <1>6 DEF ApplyHook
  <2>2. NodeTypes'
    BY <1>1, <1>3, <2>1 DEF ReceiveInv, NodeTypes
  <2>3. NodeHas'
    BY <1>1, <2>1 DEF ReceiveInv, NodeHas, Has
  <2>4. HookHas'
    BY <1>1, <1>2, <1>3, <1>4, <1>6, <2>1 DEF ReceiveInv, HookHas, Newer
  <2> QED
    BY <2>2, <2>3, <2>4 DEF ReceiveInv
<1> QED
  BY <1>5, <1>6

\* RemoveEnvelope: a hook that met no other removes what it has applied.
LEMMA RemoveEnvelopeInv == ASSUME ReceiveInv, NEW n \in Nodes, RemoveEnvelope(n) PROVE ReceiveInv'
<1>1. /\ hooks[n].remove > 0 /\ hooks' = [hooks EXCEPT ![n].remove = @ - 1]
      /\ jail' = [jail EXCEPT ![n] = NoEnv] /\ UNCHANGED <<emitted, node, overlap, delivered>>
  BY DEF RemoveEnvelope, publisher
<1>2. hooks[n].apply \in Nat /\ hooks[n].remove \in Nat
  BY DEF ReceiveInv, NodeTypes
<1>3. /\ hooks' \in [Nodes -> [apply : Nat, remove : Nat]] /\ jail' \in [Nodes -> emitted \cup {NoEnv}]
      /\ hooks'[n].apply = hooks[n].apply /\ hooks'[n].remove = hooks[n].remove - 1
      /\ \A k \in Nodes \ {n} : hooks'[k] = hooks[k] /\ jail'[k] = jail[k]
  BY <1>1, <1>2 DEF ReceiveInv, NodeTypes
<1>4. NodeTypes' /\ NodeHas'
  BY <1>1, <1>3 DEF ReceiveInv, NodeTypes, NodeHas, Has
<1>5. HookHas'
  <2>1. n \notin overlap => hooks[n].apply = 0
    BY <1>1, <1>2 DEF ReceiveInv, HookHas
  <2> QED
    BY <1>1, <1>2, <1>3, <2>1 DEF ReceiveInv, HookHas
<1> QED
  BY <1>4, <1>5 DEF ReceiveInv

\* EditNode: one more endpoint is the node's own.
LEMMA EditNodeInv == ASSUME ReceiveInv, NEW n \in Nodes, NEW m \in OwnNames, EditNode(n, m) PROVE ReceiveInv'
<1> DEFINE f == [k \in DOMAIN node[n].ends \cup {m} |-> IF k = m THEN Local ELSE node[n].ends[k]]
<1>1. node' = [node EXCEPT ![n].ends = f] /\ UNCHANGED <<emitted, jail, hooks, overlap, delivered>>
  BY DEF EditNode, publisher
<1>2. f \in Lists
  <2>1. DOMAIN node[n].ends \subseteq Names \cup OwnNames /\ \A k \in DOMAIN node[n].ends : node[n].ends[k] \in Nat
    BY ListShape DEF ReceiveInv, NodeTypes
  <2>2. f \in [DOMAIN node[n].ends \cup {m} -> Nat]
    BY <2>1 DEF Local
  <2>3. DOMAIN node[n].ends \cup {m} \in SUBSET (Names \cup OwnNames)
    BY <2>1
  <2> QED
    BY <2>2, <2>3, ListType
<1>3. \A k \in DOMAIN f : f[k] = Local \/ (k \in DOMAIN node[n].ends /\ f[k] = node[n].ends[k])
  OBVIOUS
<1>4. PICK g \in Lists : g = f
  BY <1>2
<1>5. \A k \in DOMAIN g : g[k] = Local \/ (k \in DOMAIN node[n].ends /\ g[k] = node[n].ends[k])
  BY <1>3, <1>4
<1>6. node' = [node EXCEPT ![n].ends = g]
  BY <1>1, <1>4
<1> HIDE DEF f
<1>7. /\ node' \in [Nodes -> [version : Nat, ends : Lists, managed : SUBSET Names]]
      /\ node'[n].ends = g /\ node'[n].version = node[n].version /\ node'[n].managed = node[n].managed
      /\ \A k \in Nodes \ {n} : node'[k] = node[k]
  BY <1>6 DEF ReceiveInv, NodeTypes
<1>8. NodeTypes'
  BY <1>1, <1>7 DEF ReceiveInv, NodeTypes
<1>9. NodeHas'
  BY <1>1, <1>5, <1>7 DEF ReceiveInv, NodeHas, Has
<1>10. HookHas'
  BY <1>1, <1>7 DEF ReceiveInv, HookHas
<1> QED
  BY <1>8, <1>9, <1>10 DEF ReceiveInv

\* What the nodes have holds throughout.
THEOREM ReceiveInvariant == MeshSpec => []ReceiveInv
<1>1. MeshInit => ReceiveInv
  BY ReceiveInit
<1>2. ASSUME PublishInv, ReceiveInv, [MeshNext]_meshVars PROVE ReceiveInv'
  <2>1. CASE UNCHANGED meshVars
    BY <1>2, <2>1, ReceiveUntouched DEF meshVars, receiver
  <2>2. CASE (\E n \in Names : Edit(n)) \/ \E p \in Publishers : Publishing(p)
    <3>1. UNCHANGED receiver /\ emitted \subseteq emitted'
      BY <2>2 DEF Edit, Publishing, LoadConfig, LockConfig, SaveVersion, EmitEnvelope, ProcessEnds
    <3> QED
      BY <1>2, <3>1, ReceiveUntouched
  <2>3. CASE \E n \in Nodes : (\E env \in emitted : Deliver(n, env)) \/ ApplyHook(n) \/ RemoveEnvelope(n)
    BY <1>2, <2>3, DeliverInv, ApplyHookInv, RemoveEnvelopeInv
  <2>4. CASE \E n \in Nodes, m \in OwnNames : EditNode(n, m)
    BY <1>2, <2>4, EditNodeInv
  <2> QED
    BY <1>2, <2>1, <2>2, <2>3, <2>4 DEF MeshNext
<1> QED
  BY <1>1, <1>2, PublishInvariant, PTL DEF MeshSpec

\* An endpoint the publisher dropped is gone from every node, in however many
\* versions it missed: all it has of the mesh is one envelope's
\* (mesh.go:181-198).
THEOREM RevokedIsGone == MeshSpec => []RevokedGone
<1>1. ReceiveInv => RevokedGone
  BY DEF ReceiveInv, NodeHas, Has, RevokedGone
<1> QED
  BY <1>1, ReceiveInvariant, PTL

\* A node whose hooks are done and never met has the newest version that was
\* delivered to it, in whatever order (mesh.go:93-99, 165-170).
THEOREM NewestIsApplied == MeshSpec => []NewestApplied
<1>1. ReceiveInv => NewestApplied
  BY DEF ReceiveInv, HookHas, NewestApplied
<1> QED
  BY <1>1, ReceiveInvariant, PTL

(***************************************************************************)
(* Session.                                                                *)
(*                                                                         *)
(* Success is what the last attempt says, and an attempt says it in three  *)
(* ways: a push by its results (ToldNamed: each is true) or by a Done that *)
(* has come, a pull by a stream that ends after it has said Done.  Whoever *)
(* says Done goes by a count; it is that of the files with an outcome as   *)
(* long as no error has crossed one (Counted).  Then all results of a push *)
(* are on their way before its Done (InFlight, DoneFollows).               *)
(***************************************************************************)
Kinds  == {"init", "ack", "nack", "landed", "failed", "done", "goodbye", "error"}
Frames == [kind : Kinds, file : 0 .. Files]

ResultOf(m, f) == m.kind \in {"landed", "failed"} /\ m.file = f
Flies(q, f) == \E i \in 1 .. Len(q) : ResultOf(q[i], f)

\* What a Done in queue q vouches for, with the results t told and the errors c crossed.
DoneLast(q, t, c) ==
  \A i \in 1 .. Len(q) : q[i].kind = "done" =>
    c # {} \/ \A f \in All : f \in t \/ \E j \in 1 .. i - 1 : ResultOf(q[j], f)

SessionTypes ==
  /\ landed \subseteq All /\ told \subseteq All /\ settled \subseteq All /\ crossed \subseteq All
  /\ count \in Nat /\ report \in [names : SUBSET All, cancelled : BOOLEAN]
  /\ inbox \in [{"caller", "server"} -> Seq(Frames)]
  /\ agree \in {"same", "layers", "secret"}

\* Files named or at their place.
SettledNamed == ~Push => settled \subseteq landed \cup report.names
ToldNamed    == Push => told \subseteq landed \cup report.names

\* Frames that are on their way.
ResultsTrue ==
  \A i \in 1 .. Len(inbox["caller"]) :
    inbox["caller"][i].kind = "landed" => inbox["caller"][i].file \in landed
FailuresTold ==
  Push => \A i \in 1 .. Len(inbox["server"]) :
            inbox["server"][i].kind = "failed" => inbox["server"][i].file \in told
InFlight == Push /\ link => \A f \in settled : f \in told \/ Flies(inbox["caller"], f)
DoneFollows == Push => DoneLast(inbox["caller"], told, crossed)
FramesInv == ResultsTrue /\ FailuresTold /\ InFlight /\ DoneFollows

\* The receiver's count.
Counted == crossed = {} => count = Cardinality(settled)
SaidAll == ~Push /\ said => crossed # {} \/ settled = All

OkKept ==
  result = "ok" =>
    All \subseteq landed \cup report.names \/ (crossed # {} /\ (Push => report.cancelled))
\* A caller that has more to do has not been successful.
OnlyOverIsOk == result = "ok" => caller = "over"

NamedInv == SettledNamed /\ ToldNamed
CountInv == Counted /\ SaidAll
OkInv    == OkKept /\ OnlyOverIsOk

RunInv == SessionTypes /\ NamedInv /\ FramesInv /\ CountInv /\ OkInv

\* Taking the first frame leaves a Done's promise, if a result taken is told.
LEMMA DoneTaken ==
  ASSUME NEW q \in Seq(Frames), NEW t, NEW u, NEW c, q # <<>>, DoneLast(q, t, c), t \subseteq u,
         \A f \in All : ResultOf(Head(q), f) => f \in u
  PROVE  DoneLast(Tail(q), u, c)
<1> SUFFICES ASSUME NEW i \in 1 .. Len(Tail(q)), Tail(q)[i].kind = "done", c = {}, NEW f \in All, f \notin u
             PROVE  \E j \in 1 .. i - 1 : ResultOf(Tail(q)[j], f)
  BY DEF DoneLast
<1>1. Len(q) \in Nat /\ Len(q) > 0 /\ Len(Tail(q)) = Len(q) - 1 /\ \A k \in 1 .. Len(q) - 1 : Tail(q)[k] = q[k + 1]
  OBVIOUS
<1>2. i + 1 \in 1 .. Len(q) /\ q[i + 1].kind = "done" /\ f \notin t
  BY <1>1
<1>3. PICK j \in 1 .. (i + 1) - 1 : ResultOf(q[j], f)
  BY <1>2 DEF DoneLast
<1>4. j # 1
  <2>1. Head(q) = q[1]
    BY <1>1
  <2> QED
    BY <2>1, <1>3
<1>5. j - 1 \in 1 .. i - 1 /\ Tail(q)[j - 1] = q[j]
  BY <1>1, <1>3, <1>4
<1> QED
  BY <1>3, <1>5

\* A Done that is sent after all results promises what it should.
LEMMA DoneSent ==
  ASSUME NEW q \in Seq(Frames), NEW ms \in Seq(Frames), NEW t, NEW c, DoneLast(q, t, c),
         \A i \in 1 .. Len(ms) : ms[i].kind = "done" => c # {} \/ \A f \in All : f \in t \/ Flies(q, f)
  PROVE  DoneLast(q \o ms, t, c)
<1> SUFFICES ASSUME NEW i \in 1 .. Len(q \o ms), (q \o ms)[i].kind = "done", c = {}, NEW f \in All, f \notin t
             PROVE  \E j \in 1 .. i - 1 : ResultOf((q \o ms)[j], f)
  BY DEF DoneLast
<1>1. /\ Len(q) \in Nat /\ Len(ms) \in Nat /\ Len(q \o ms) = Len(q) + Len(ms)
      /\ \A k \in 1 .. Len(q) : (q \o ms)[k] = q[k]
      /\ \A k \in 1 .. Len(ms) : (q \o ms)[Len(q) + k] = ms[k]
  OBVIOUS
<1>2. CASE i \in 1 .. Len(q)
  <2>1. PICK j \in 1 .. i - 1 : ResultOf(q[j], f)
    BY <1>1, <1>2 DEF DoneLast
  <2> QED
    BY <2>1, <1>1, <1>2
<1>3. CASE i \notin 1 .. Len(q)
  <2>1. i - Len(q) \in 1 .. Len(ms) /\ i = Len(q) + (i - Len(q))
    BY <1>1, <1>3
  <2>2. ms[i - Len(q)].kind = "done"
    BY <2>1, <1>1
  <2>3. Flies(q, f)
    BY <2>1, <2>2
  <2>4. PICK j \in 1 .. Len(q) : ResultOf(q[j], f)
    BY <2>3 DEF Flies
  <2>5. j \in 1 .. i - 1
    BY <1>1, <2>1
  <2> QED
    BY <2>4, <2>5, <1>1
<1> QED
  BY <1>2, <1>3

\* More told, and more crossed, is no less promised.
LEMMA DoneMore ==
  ASSUME NEW q, NEW t, NEW u, NEW c, NEW d, DoneLast(q, t, c), t \subseteq u, c \subseteq d
  PROVE  DoneLast(q, u, d)
BY DEF DoneLast

\* A result stays on its way when a frame is sent, and unless it is the frame taken.
LEMMA FlyOn ==
  ASSUME NEW q \in Seq(Frames), NEW ms \in Seq(Frames), NEW f, Flies(q, f)
  PROVE  Flies(q \o ms, f) /\ (q # <<>> => ResultOf(Head(q), f) \/ Flies(Tail(q), f))
<1>1. PICK i \in 1 .. Len(q) : ResultOf(q[i], f)
  BY DEF Flies
<1>2. i \in 1 .. Len(q \o ms) /\ (q \o ms)[i] = q[i]
  OBVIOUS
<1>3. ASSUME q # <<>> PROVE ResultOf(Head(q), f) \/ Flies(Tail(q), f)
  <2>1. Head(q) = q[1] /\ Len(Tail(q)) = Len(q) - 1 /\ Len(q) \in Nat
        /\ \A k \in 1 .. Len(q) - 1 : Tail(q)[k] = q[k + 1]
    BY <1>3
  <2>2. CASE i = 1
    BY <1>1, <2>1, <2>2
  <2>3. CASE i # 1
    <3>1. i - 1 \in 1 .. Len(Tail(q)) /\ Tail(q)[i - 1] = q[i]
      BY <2>1, <2>3
    <3> QED
      BY <1>1, <3>1 DEF Flies
  <2> QED
    BY <2>2, <2>3
<1> QED
  BY <1>1, <1>2, <1>3 DEF Flies

\* The result that is sent last is on its way.
LEMMA FlySent ==
  ASSUME NEW q \in Seq(Frames), NEW m \in Frames, NEW f, ResultOf(m, f)
  PROVE  Flies(q \o <<m>>, f)
<1>1. Len(q \o <<m>>) = Len(q) + 1 /\ Len(q) \in Nat /\ (q \o <<m>>)[Len(q) + 1] = m
  OBVIOUS
<1> QED
  BY <1>1 DEF Flies

\* A run starts with nothing told, said or landed.
LEMMA RunStarts == ASSUME SessionInit PROVE RunInv
<1> USE DEF SessionInit
<1>1. Cardinality({}) = 0
  BY FS_EmptySet
<1>2. inbox \in [{"caller", "server"} -> Seq(Frames)] /\ Len(inbox["caller"]) = 0 /\ Len(inbox["server"]) = 0
  OBVIOUS
<1>3. SessionTypes
  BY <1>2 DEF SessionTypes
<1>4. NamedInv /\ CountInv /\ OkInv
  BY <1>1 DEF NamedInv, SettledNamed, ToldNamed, CountInv, Counted, SaidAll, OkInv, OkKept, OnlyOverIsOk
<1>5. FramesInv
  BY <1>2 DEF FramesInv, ResultsTrue, FailuresTold, InFlight, DoneFollows, DoneLast
<1> QED
  BY <1>3, <1>4, <1>5 DEF RunInv

-----------------------------------------------------------------------------
\* What a step of another part of the session may do to the frames: none is told
\* that matters, none is made up, and those to the caller are taken only if they
\* are no results.
QuietFrames ==
  /\ inbox' \in [{"caller", "server"} -> Seq(Frames)]
  /\ \/ inbox'["caller"] = inbox["caller"]
     \/ inbox'["caller"] = <<>> /\ ~link'
     \/ /\ inbox["caller"] # <<>> /\ Head(inbox["caller"]).kind \notin {"landed", "failed"}
        /\ inbox'["caller"] = Tail(inbox["caller"])
     \/ \E k \in {"ack", "nack", "error"} : inbox'["caller"] = inbox["caller"] \o <<Frame(k)>>
  /\ \/ inbox'["server"] = inbox["server"] \/ inbox'["server"] = <<>>
     \/ inbox["server"] # <<>> /\ inbox'["server"] = Tail(inbox["server"])

\* Such a step keeps what is said of the frames.
LEMMA QuietKeeps ==
  ASSUME RunInv, QuietFrames, link' => link, UNCHANGED <<dirn, agree, landed, engines>>
  PROVE  FramesInv'
<1> DEFINE q == inbox["caller"]
           s == inbox["server"]
<1> USE DEF RunInv, engines
<1>1. q \in Seq(Frames) /\ s \in Seq(Frames) /\ Len(q) \in Nat /\ Len(s) \in Nat
  BY DEF SessionTypes
<1>2. \A i \in 1 .. Len(inbox'["server"]) : \E k \in 1 .. Len(s) : inbox'["server"][i] = s[k]
  <2>1. CASE inbox'["server"] = Tail(s) /\ s # <<>>
    <3>1. Len(Tail(s)) = Len(s) - 1 /\ \A k \in 1 .. Len(s) - 1 : Tail(s)[k] = s[k + 1]
      BY <2>1, <1>1
    <3> QED
      BY <2>1, <3>1, <1>1
  <2> QED
    BY <2>1, <1>1 DEF QuietFrames
<1>3. FailuresTold'
  <2> SUFFICES ASSUME Push, NEW i \in 1 .. Len(inbox'["server"]), inbox'["server"][i].kind = "failed"
               PROVE  inbox'["server"][i].file \in told
    BY DEF FailuresTold, Push
  <2>1. PICK k \in 1 .. Len(s) : inbox'["server"][i] = s[k]
    BY <1>2
  <2> QED
    BY <2>1 DEF FramesInv, FailuresTold
<1>4. CASE inbox'["caller"] = q
  BY <1>3, <1>4 DEF FramesInv, ResultsTrue, InFlight, DoneFollows, Push
<1>5. CASE inbox'["caller"] = <<>> /\ ~link'
  BY <1>3, <1>5 DEF FramesInv, ResultsTrue, InFlight, DoneFollows, DoneLast, Push
<1>6. CASE q # <<>> /\ Head(q).kind \notin {"landed", "failed"} /\ inbox'["caller"] = Tail(q)
  <2>1. Len(Tail(q)) = Len(q) - 1 /\ \A k \in 1 .. Len(q) - 1 : Tail(q)[k] = q[k + 1]
    BY <1>1, <1>6
  <2>2. ResultsTrue'
    <3> SUFFICES ASSUME NEW i \in 1 .. Len(q) - 1, Tail(q)[i].kind = "landed"
                 PROVE  Tail(q)[i].file \in landed
      BY <1>6, <2>1 DEF ResultsTrue
    <3>1. i + 1 \in 1 .. Len(q) /\ Tail(q)[i] = q[i + 1]
      BY <1>1, <2>1
    <3> QED
      BY <3>1 DEF FramesInv, ResultsTrue
  <2>3. \A f : ~ResultOf(Head(q), f)
    BY <1>6 DEF ResultOf
  <2>4. DoneFollows'
    BY <1>1, <1>6, <2>3, DoneTaken DEF FramesInv, DoneFollows, Push
  <2>5. InFlight'
    <3> SUFFICES ASSUME Push, link', NEW f \in settled, f \notin told PROVE Flies(Tail(q), f)
      BY <1>6 DEF InFlight, Push
    <3>1. Flies(q, f)
      BY DEF FramesInv, InFlight
    <3> QED
      BY <3>1, <1>1, <1>6, <2>3, FlyOn
  <2> QED
    BY <1>3, <2>2, <2>4, <2>5 DEF FramesInv
<1>7. ASSUME NEW k \in {"ack", "nack", "error"}, inbox'["caller"] = q \o <<Frame(k)>> PROVE FramesInv'
  <2>1. <<Frame(k)>> \in Seq(Frames) /\ Len(<<Frame(k)>>) = 1 /\ <<Frame(k)>>[1].kind = k
    BY SessionAssumption DEF SessionAssumption, Frame, Frames, Kinds
  <2>2. /\ Len(q \o <<Frame(k)>>) = Len(q) + 1 /\ (q \o <<Frame(k)>>)[Len(q) + 1].kind = k
        /\ \A i \in 1 .. Len(q) : (q \o <<Frame(k)>>)[i] = q[i]
    BY <1>1, <2>1
  <2>3. ResultsTrue'
    <3> SUFFICES ASSUME NEW i \in 1 .. Len(q) + 1, (q \o <<Frame(k)>>)[i].kind = "landed"
                 PROVE  (q \o <<Frame(k)>>)[i].file \in landed
      BY <1>7, <2>2 DEF ResultsTrue
    <3>1. i \in 1 .. Len(q)
      BY <1>1, <2>2
    <3> QED
      BY <3>1, <2>2 DEF FramesInv, ResultsTrue
  <2>4. DoneFollows'
    <3>1. \A i \in 1 .. Len(<<Frame(k)>>) : <<Frame(k)>>[i].kind # "done"
      BY <2>1
    <3> QED
      BY <3>1, <1>1, <1>7, <2>1, DoneSent DEF FramesInv, DoneFollows, Push
  <2>5. InFlight'
    BY <1>1, <1>7, <2>1, FlyOn DEF FramesInv, InFlight, Push
  <2> QED
    BY <1>3, <2>3, <2>4, <2>5 DEF FramesInv
<1> QED
  BY <1>4, <1>5, <1>6, <1>7 DEF QuietFrames

\* And it keeps the rest, when the caller's success is told right.
LEMMA OtherKeeps ==
  ASSUME RunInv, QuietFrames, link' => link, UNCHANGED <<fixed, landed, engines>>,
         report'.names = report.names, report' \in [names : SUBSET All, cancelled : BOOLEAN], OkInv'
  PROVE  RunInv'
<1>1. FramesInv'
  BY QuietKeeps DEF fixed
<1>2. SessionTypes' /\ NamedInv' /\ CountInv'
  BY DEF RunInv, fixed, engines, SessionTypes, QuietFrames, NamedInv, SettledNamed, ToldNamed, CountInv,
    Counted, SaidAll, Push
<1> QED
  BY <1>1, <1>2 DEF RunInv

\* The frames are frames, and the files a finite set.
LEMMA FramesAndFiles ==
  /\ \A k \in Kinds : Frame(k) \in Frames
  /\ \A f \in All : FileResult("landed", f) \in Frames /\ FileResult("failed", f) \in Frames
  /\ All \subseteq Nat /\ IsFiniteSet(All) /\ Cardinality(All) = Files
<1>1. All = 1 .. Files /\ Files \in Nat
  BY SessionAssumption DEF SessionAssumption, All
<1>2. IsFiniteSet(1 .. Files) /\ Cardinality(1 .. Files) = Files
  BY <1>1, FS_Interval
<1> QED
  BY <1>1, <1>2 DEF Frame, FileResult, Frames, Kinds

\* A receiver's own outcome of a file: it is named or at its place, and its result
\* is on its way.
LEMMA OutcomeKeeps ==
  ASSUME RunInv, NEW f \in All, NEW k \in {"landed", "failed"},
         Receiving, link, caller = "run", f \notin settled,
         settled' = settled \cup {f}, count' = count + 1,
         inbox' = [inbox EXCEPT ![Sender] = @ \o <<FileResult(k, f)>>],
         UNCHANGED <<atEnds, told, crossed, said>>,
         landed' = (IF k = "landed" THEN landed \cup {f} ELSE landed),
         report' = (IF k = "failed" /\ ~Push THEN [report EXCEPT !.names = @ \cup {f}] ELSE report)
  PROVE  RunInv'
<1> USE DEF RunInv, atEnds, fixed
<1> DEFINE m == FileResult(k, f)
<1>1. m \in Frames /\ m.kind = k /\ m.file = f /\ <<m>> \in Seq(Frames) /\ Len(<<m>>) = 1 /\ <<m>>[1] = m
  <2>1. FileResult(k, f) \in Frames
    BY FramesAndFiles
  <2>2. FileResult(k, f).kind = k /\ FileResult(k, f).file = f
    BY DEF FileResult
  <2> QED
    BY <2>1, <2>2
<1>2. Sender \in {"caller", "server"} /\ inbox[Sender] \in Seq(Frames)
  BY DEF Sender, SessionTypes
<1>3. report' \in [names : SUBSET All, cancelled : BOOLEAN] /\ report'.cancelled = report.cancelled
      /\ report'.names = (IF k = "failed" /\ ~Push THEN report.names \cup {f} ELSE report.names)
  BY DEF SessionTypes
<1>4. inbox' \in [{"caller", "server"} -> Seq(Frames)]
  BY <1>1, <1>2 DEF SessionTypes
<1>5. SessionTypes'
  BY <1>3, <1>4 DEF SessionTypes
<1>6. NamedInv'
  BY <1>3 DEF NamedInv, SettledNamed, ToldNamed, Push
<1>7. CountInv'
  <2>1. IsFiniteSet(settled)
    BY FramesAndFiles, FS_Subset DEF SessionTypes
  <2>2. Cardinality(settled \cup {f}) = Cardinality(settled) + 1
    BY <2>1, FS_AddElement
  <2>3. ~Push /\ said => crossed # {}
    BY DEF CountInv, SaidAll
  <2> QED
    BY <2>2, <2>3 DEF CountInv, Counted, SaidAll, Push
<1>8. OkInv'
  BY <1>3 DEF OkInv, OkKept, OnlyOverIsOk, Push
<1>9. CASE Push
  <2> DEFINE q == inbox["caller"]
  <2>1. Sender = "caller" /\ inbox'["caller"] = q \o <<m>> /\ inbox'["server"] = inbox["server"] /\ q \in Seq(Frames)
    BY <1>9, <1>2 DEF Sender, SessionTypes
  <2>2. /\ Len(q \o <<m>>) = Len(q) + 1 /\ (q \o <<m>>)[Len(q) + 1] = m /\ Len(q) \in Nat
        /\ \A i \in 1 .. Len(q) : (q \o <<m>>)[i] = q[i]
    BY <1>1, <2>1
  <2>3. ResultsTrue'
    <3> SUFFICES ASSUME NEW i \in 1 .. Len(q) + 1, (q \o <<m>>)[i].kind = "landed"
                 PROVE  (q \o <<m>>)[i].file \in landed'
      BY <2>1, <2>2 DEF ResultsTrue
    <3>1. CASE i = Len(q) + 1
      BY <3>1, <2>2, <1>1
    <3>2. CASE i # Len(q) + 1
      <4>1. i \in 1 .. Len(q)
        BY <3>2, <2>2
      <4> QED
        BY <4>1, <2>2 DEF FramesInv, ResultsTrue
    <3> QED
      BY <3>1, <3>2
  <2>4. FailuresTold'
    BY <2>1 DEF FramesInv, FailuresTold, Push
  <2>5. InFlight'
    <3>1. ResultOf(m, f)
      BY <1>1 DEF ResultOf
    <3>2. Flies(q \o <<m>>, f)
      BY <3>1, <1>1, <2>1, FlySent
    <3>3. \A g \in settled : g \in told \/ Flies(q, g)
      BY <1>9 DEF FramesInv, InFlight
    <3>4. \A g \in settled : g \in told \/ Flies(q \o <<m>>, g)
      BY <3>3, <2>1, <1>1, FlyOn
    <3> QED
      BY <3>2, <3>4, <2>1 DEF InFlight
  <2>6. DoneFollows'
    <3>1. DoneLast(q, told, crossed)
      BY <1>9 DEF FramesInv, DoneFollows
    <3>2. \A i \in 1 .. Len(<<m>>) : <<m>>[i].kind # "done"
      BY <1>1
    <3>3. DoneLast(q \o <<m>>, told, crossed)
      BY <3>1, <3>2, <2>1, <1>1, DoneSent
    <3> QED
      BY <3>3, <2>1 DEF DoneFollows
  <2> QED
    BY <1>5, <1>6, <1>7, <1>8, <2>3, <2>4, <2>5, <2>6 DEF FramesInv
<1>10. CASE ~Push
  <2>1. Sender = "server" /\ inbox'["caller"] = inbox["caller"]
    BY <1>10 DEF Sender, SessionTypes
  <2>2. FramesInv'
    BY <1>10, <2>1 DEF FramesInv, ResultsTrue, FailuresTold, InFlight, DoneFollows, Push
  <2> QED
    BY <1>5, <1>6, <1>7, <1>8, <2>2
<1> QED
  BY <1>9, <1>10

\* What a file's outcome does to the frames and to the report.
LEMMA ReceiverKeeps == ASSUME RunInv, NEW f \in All, Lands(f) \/ CannotLand(f) PROVE RunInv'
<1> USE DEF RunInv
<1>0. inbox \in [{"caller", "server"} -> Seq(Frames)] /\ Sender \in {"caller", "server"}
  BY DEF SessionTypes, Sender
<1>1. CASE Lands(f)
  <2>1. inbox' = [inbox EXCEPT ![Sender] = @ \o <<FileResult("landed", f)>>]
    BY <1>1 DEF Lands, Tell
  <2> QED
    BY <1>1, <2>1, OutcomeKeeps DEF Lands
<1>2. CASE CannotLand(f)
  <2>1. inbox' = [inbox EXCEPT ![Sender] = @ \o <<FileResult("failed", f)>>]
    BY <1>2 DEF CannotLand, Tell
  <2>2. report' = IF ~Push THEN [report EXCEPT !.names = @ \cup {f}] ELSE report
    BY <1>2 DEF CannotLand, Named, Receiver
  <2>3. UNCHANGED landed /\ ("failed" = "landed") = FALSE
    BY <1>2 DEF CannotLand
  <2> QED
    BY <1>2, <2>1, <2>2, <2>3, OutcomeKeeps DEF CannotLand
<1> QED
  BY <1>1, <1>2

\* Frames to the caller that stay say what they said ...
LEMMA SameResults ==
  ASSUME FramesInv, inbox'["caller"] = inbox["caller"], landed' = landed
  PROVE  ResultsTrue'
BY DEF FramesInv, ResultsTrue

\* ... and so do those to the server.
LEMMA SameFailures ==
  ASSUME FramesInv, Push => inbox'["server"] = inbox["server"], told \subseteq told', dirn' = dirn
  PROVE  FailuresTold'
BY DEF FramesInv, FailuresTold, Push

\* A failure of the source is told, and named, as it is sent.
LEMMA SourceFailsKeeps == ASSUME RunInv, NEW f \in All, SourceFails(f) PROVE RunInv'
<1> USE DEF RunInv, atEnds, fixed
<1> DEFINE m == FileResult("failed", f)
<1>1. m \in Frames /\ m.kind = "failed" /\ m.file = f
  <2>1. FileResult("failed", f).kind = "failed" /\ FileResult("failed", f).file = f
    BY DEF FileResult
  <2> QED
    BY <2>1, FramesAndFiles
<1>2. /\ UNCHANGED <<atEnds, landed, settled, count, crossed, said>> /\ told' = told \cup {f}
      /\ inbox' = [inbox EXCEPT ![Receiver] = IF link THEN @ \o <<m>> ELSE @]
      /\ report' = IF Push THEN [report EXCEPT !.names = @ \cup {f}] ELSE report
  BY DEF SourceFails, Tell, Named, Sender
<1>3. Receiver \in {"caller", "server"} /\ inbox[Receiver] \in Seq(Frames)
  BY DEF Receiver, SessionTypes
<1>4. /\ report' \in [names : SUBSET All, cancelled : BOOLEAN] /\ report'.cancelled = report.cancelled
      /\ report'.names = (IF Push THEN report.names \cup {f} ELSE report.names)
  BY <1>2 DEF SessionTypes
<1>5. inbox' \in [{"caller", "server"} -> Seq(Frames)]
  BY <1>1, <1>2, <1>3 DEF SessionTypes
<1>6. SessionTypes'
  BY <1>2, <1>4, <1>5 DEF SessionTypes
<1>7. NamedInv'
  BY <1>2, <1>4 DEF NamedInv, SettledNamed, ToldNamed, Push
<1>8. CountInv' /\ OkInv'
  BY <1>2, <1>4 DEF CountInv, Counted, SaidAll, OkInv, OkKept, OnlyOverIsOk, Push
<1>9. CASE Push
  <2> DEFINE q == inbox["server"]
  <2>1. inbox'["caller"] = inbox["caller"] /\ inbox'["server"] = IF link THEN q \o <<m>> ELSE q
    BY <1>2, <1>9 DEF Receiver, SessionTypes
  <2>2. ResultsTrue' /\ InFlight'
    <3>1. ResultsTrue'
      <4>1. inbox'["caller"] = inbox["caller"] /\ landed' = landed
        BY <1>2, <2>1
      <4> QED
        BY <4>1, SameResults
    <3>2. InFlight'
      <4>1. link => \A g \in settled : g \in told \/ Flies(inbox["caller"], g)
        BY <1>9 DEF FramesInv, InFlight
      <4> QED
        BY <4>1, <1>2, <2>1 DEF InFlight
    <3> QED
      BY <3>1, <3>2
  <2>3. DoneFollows'
    <3>1. DoneLast(inbox["caller"], told, crossed)
      BY <1>9 DEF FramesInv, DoneFollows
    <3> QED
      BY <3>1, <1>2, <2>1, DoneMore DEF DoneFollows
  <2>4. FailuresTold'
    <3> SUFFICES ASSUME NEW i \in 1 .. Len(inbox'["server"]), inbox'["server"][i].kind = "failed"
                 PROVE  inbox'["server"][i].file \in told \cup {f}
      BY <1>2 DEF FailuresTold
    <3>1. q \in Seq(Frames) /\ Len(q) \in Nat /\ Len(q \o <<m>>) = Len(q) + 1 /\ (q \o <<m>>)[Len(q) + 1] = m
          /\ \A k \in 1 .. Len(q) : (q \o <<m>>)[k] = q[k]
      BY <1>1 DEF SessionTypes
    <3>2. \A k \in 1 .. Len(q) : q[k].kind = "failed" => q[k].file \in told
      BY <1>9 DEF FramesInv, FailuresTold
    <3>3. CASE inbox'["server"] = q
      BY <3>2, <3>3
    <3>4. CASE inbox'["server"] = q \o <<m>>
      <4>1. CASE i = Len(q) + 1
        BY <4>1, <3>1, <3>4, <1>1
      <4>2. CASE i # Len(q) + 1
        BY <4>2, <3>1, <3>2, <3>4
      <4> QED
        BY <4>1, <4>2
    <3> QED
      BY <2>1, <3>3, <3>4
  <2> QED
    BY <1>6, <1>7, <1>8, <2>2, <2>3, <2>4 DEF FramesInv
<1>10. CASE ~Push
  <2> DEFINE q == inbox["caller"]
  <2>1. inbox'["server"] = inbox["server"] /\ inbox'["caller"] = IF link THEN q \o <<m>> ELSE q
    BY <1>2, <1>10 DEF Receiver, SessionTypes
  <2>2. q \in Seq(Frames) /\ Len(q) \in Nat /\ Len(q \o <<m>>) = Len(q) + 1 /\ (q \o <<m>>)[Len(q) + 1] = m
        /\ \A k \in 1 .. Len(q) : (q \o <<m>>)[k] = q[k]
    BY <1>1 DEF SessionTypes
  <2>3. ResultsTrue'
    <3>1. \A k \in 1 .. Len(q) : q[k].kind = "landed" => q[k].file \in landed
      BY DEF FramesInv, ResultsTrue
    <3>2. CASE inbox'["caller"] = q
      BY <3>1, <3>2, <1>2 DEF ResultsTrue
    <3>3. CASE inbox'["caller"] = q \o <<m>>
      <4>1. \A k \in 1 .. Len(q) + 1 : (q \o <<m>>)[k].kind = "landed" => k \in 1 .. Len(q)
        BY <2>2, <1>1
      <4> QED
        BY <3>1, <3>3, <4>1, <2>2, <1>2 DEF ResultsTrue
    <3> QED
      BY <2>1, <3>2, <3>3
  <2>4. FailuresTold' /\ InFlight' /\ DoneFollows'
    BY <1>2, <1>10 DEF FailuresTold, InFlight, DoneFollows, Push
  <2> QED
    BY <1>6, <1>7, <1>8, <2>3, <2>4 DEF FramesInv
<1> QED
  BY <1>9, <1>10

\* A result that is heard is told, and named if it is a failure.
LEMMA HearResultKeeps == ASSUME RunInv, NEW f \in All, HearResult(f) PROVE RunInv'
<1> USE DEF RunInv, atEnds, fixed
<1>1. PICK k \in {"landed", "failed"} :
        /\ inbox[Sender] # <<>> /\ Head(inbox[Sender]) = FileResult(k, f)
        /\ Named(Sender, IF k = "failed" /\ f \notin told THEN {f} ELSE {})
  BY DEF HearResult
<1>2. /\ UNCHANGED <<atEnds, landed, settled, count, crossed, said>> /\ told' = told \cup {f}
      /\ inbox' = [inbox EXCEPT ![Sender] = Tail(@)]
      /\ Head(inbox[Sender]).kind = k /\ Head(inbox[Sender]).file = f
  BY <1>1 DEF HearResult, Took, FileResult
<1>3. Sender \in {"caller", "server"} /\ inbox[Sender] \in Seq(Frames)
  BY DEF Sender, SessionTypes
<1>4. /\ report' \in [names : SUBSET All, cancelled : BOOLEAN] /\ report'.cancelled = report.cancelled
      /\ report.names \subseteq report'.names
      /\ Push /\ k = "failed" /\ f \notin told => f \in report'.names
  BY <1>1 DEF SessionTypes, Named, Sender
<1>5. inbox' \in [{"caller", "server"} -> Seq(Frames)]
  BY <1>1, <1>2, <1>3 DEF SessionTypes
<1>6. SessionTypes'
  BY <1>2, <1>4, <1>5 DEF SessionTypes
<1>7. CountInv' /\ OkInv'
  BY <1>2, <1>4 DEF CountInv, Counted, SaidAll, OkInv, OkKept, OnlyOverIsOk, Push
<1>8. CASE Push
  <2> DEFINE q == inbox["caller"]
  <2>1. /\ q \in Seq(Frames) /\ q # <<>> /\ Head(q).kind = k /\ Head(q).file = f
        /\ inbox'["caller"] = Tail(q) /\ inbox'["server"] = inbox["server"]
    BY <1>1, <1>2, <1>3, <1>8 DEF Sender, SessionTypes
  <2>2. Len(q) \in Nat /\ Len(q) > 0 /\ Len(Tail(q)) = Len(q) - 1 /\ Head(q) = q[1]
        /\ \A i \in 1 .. Len(q) - 1 : Tail(q)[i] = q[i + 1]
    BY <2>1
  <2>3. \A i \in 1 .. Len(q) : q[i].kind = "landed" => q[i].file \in landed
    BY DEF FramesInv, ResultsTrue
  <2>4. ResultsTrue'
    <3>1. \A i \in 1 .. Len(q) - 1 : Tail(q)[i].kind = "landed" => Tail(q)[i].file \in landed
      BY <2>2, <2>3
    <3>2. Len(inbox'["caller"]) = Len(q) - 1 /\ inbox'["caller"] = Tail(q) /\ landed' = landed
      BY <2>1, <2>2, <1>2
    <3> QED
      BY <3>1, <3>2 DEF ResultsTrue
  <2>5. NamedInv'
    <3>1. k = "landed" => f \in landed
      BY <2>1, <2>2, <2>3
    <3> QED
      BY <3>1, <1>2, <1>4, <1>8 DEF NamedInv, SettledNamed, ToldNamed, Push
  <2>6. FailuresTold'
    BY <2>1, <1>2, <1>8 DEF FramesInv, FailuresTold, Push
  <2>7. \A g \in All : ResultOf(Head(q), g) => g \in told \cup {f}
    BY <2>1 DEF ResultOf
  <2>8. DoneFollows'
    <3>1. DoneLast(q, told, crossed)
      BY <1>8 DEF FramesInv, DoneFollows
    <3>2. DoneLast(Tail(q), told \cup {f}, crossed)
      BY <3>1, <2>1, <2>7, DoneTaken
    <3> QED
      BY <3>2, <2>1, <1>2 DEF DoneFollows
  <2>9. InFlight'
    <3> SUFFICES ASSUME link, NEW g \in settled, g \notin told \cup {f} PROVE Flies(Tail(q), g)
      BY <1>2, <2>1 DEF InFlight
    <3>1. Flies(q, g)
      BY <1>8 DEF FramesInv, InFlight
    <3>2. ~ResultOf(Head(q), g)
      BY <2>1 DEF ResultOf
    <3> QED
      BY <3>1, <3>2, <2>1, FlyOn
  <2> QED
    BY <1>6, <1>7, <2>4, <2>5, <2>6, <2>8, <2>9 DEF FramesInv
<1>9. CASE ~Push
  <2>1. inbox'["caller"] = inbox["caller"]
    BY <1>2, <1>9 DEF Sender, SessionTypes
  <2>2. FramesInv'
    BY <1>2, <1>9, <2>1 DEF FramesInv, ResultsTrue, FailuresTold, InFlight, DoneFollows, Push
  <2>3. NamedInv'
    BY <1>2, <1>4, <1>9 DEF NamedInv, SettledNamed, ToldNamed, Push
  <2> QED
    BY <1>6, <1>7, <2>2, <2>3
<1> QED
  BY <1>8, <1>9

\* A failure that is heard is an outcome, once; told a second time it has crossed.
LEMMA HearSourceFailedKeeps == ASSUME RunInv, NEW f \in All, HearSourceFailed(f) PROVE RunInv'
<1> USE DEF RunInv, atEnds, fixed
<1>1. /\ UNCHANGED <<atEnds, landed, told, said>> /\ count' = count + 1 /\ settled' = settled \cup {f}
      /\ crossed' = IF f \in settled THEN crossed \cup {f} ELSE crossed
      /\ Named(Receiver, IF f \in settled THEN {} ELSE {f})
      /\ inbox' = [inbox EXCEPT ![Receiver] = Tail(@)]
      /\ inbox[Receiver] # <<>> /\ Head(inbox[Receiver]).kind = "failed" /\ Head(inbox[Receiver]).file = f
  BY DEF HearSourceFailed, Took, FileResult
<1>2. Receiver \in {"caller", "server"} /\ inbox[Receiver] \in Seq(Frames)
  BY DEF Receiver, SessionTypes
<1>3. /\ report' \in [names : SUBSET All, cancelled : BOOLEAN] /\ report'.cancelled = report.cancelled
      /\ report.names \subseteq report'.names /\ (~Push /\ f \notin settled => f \in report'.names)
  BY <1>1 DEF SessionTypes, Named, Receiver
<1>4. inbox' \in [{"caller", "server"} -> Seq(Frames)]
  BY <1>1, <1>2 DEF SessionTypes
<1>5. SessionTypes'
  BY <1>1, <1>3, <1>4 DEF SessionTypes
<1>6. NamedInv'
  BY <1>1, <1>3 DEF NamedInv, SettledNamed, ToldNamed, Push
<1>7. CountInv'
  <2>1. IsFiniteSet(settled)
    BY FramesAndFiles, FS_Subset DEF SessionTypes
  <2>2. f \notin settled => Cardinality(settled \cup {f}) = Cardinality(settled) + 1
    BY <2>1, FS_AddElement
  <2>3. crossed' = {} => crossed = {} /\ f \notin settled
    BY <1>1
  <2>4. crossed \subseteq crossed'
    BY <1>1
  <2>5. Counted'
    BY <1>1, <2>2, <2>3 DEF CountInv, Counted
  <2>6. SaidAll'
    BY <1>1, <2>4 DEF CountInv, SaidAll, Push, SessionTypes
  <2> QED
    BY <2>5, <2>6 DEF CountInv
<1>8. OkInv'
  BY <1>1, <1>3 DEF OkInv, OkKept, OnlyOverIsOk, Push
<1>9. CASE Push
  <2> DEFINE q == inbox["server"]
  <2>1. /\ q \in Seq(Frames) /\ q # <<>> /\ Head(q).kind = "failed" /\ Head(q).file = f
        /\ inbox'["server"] = Tail(q) /\ inbox'["caller"] = inbox["caller"]
    BY <1>1, <1>2, <1>9 DEF Receiver, SessionTypes
  <2>2. Len(q) \in Nat /\ Len(q) > 0 /\ Len(Tail(q)) = Len(q) - 1 /\ Head(q) = q[1]
        /\ \A i \in 1 .. Len(q) - 1 : Tail(q)[i] = q[i + 1]
    BY <2>1
  <2>3. \A i \in 1 .. Len(q) : q[i].kind = "failed" => q[i].file \in told
    BY <1>9 DEF FramesInv, FailuresTold
  <2>4. f \in told
    BY <2>1, <2>2, <2>3
  <2>5. FailuresTold'
    <3>1. \A i \in 1 .. Len(q) - 1 : Tail(q)[i].kind = "failed" => Tail(q)[i].file \in told
      BY <2>2, <2>3
    <3> QED
      BY <3>1, <2>1, <2>2, <1>1 DEF FailuresTold
  <2>6. ResultsTrue' /\ InFlight'
    BY <1>1, <2>1, <2>4 DEF FramesInv, ResultsTrue, InFlight, Push
  <2>7. DoneFollows'
    <3>1. DoneLast(inbox["caller"], told, crossed) /\ crossed \subseteq crossed'
      BY <1>1, <1>9 DEF FramesInv, DoneFollows
    <3>2. DoneLast(inbox["caller"], told, crossed')
      BY <3>1, DoneMore
    <3> QED
      BY <3>2, <1>1, <2>1 DEF DoneFollows
  <2> QED
    BY <1>5, <1>6, <1>7, <1>8, <2>5, <2>6, <2>7 DEF FramesInv
<1>10. CASE ~Push
  <2> DEFINE q == inbox["caller"]
  <2>1. q \in Seq(Frames) /\ q # <<>> /\ inbox'["caller"] = Tail(q)
    BY <1>1, <1>2, <1>10 DEF Receiver, SessionTypes
  <2>2. Len(q) \in Nat /\ Len(q) > 0 /\ Len(Tail(q)) = Len(q) - 1
        /\ \A i \in 1 .. Len(q) - 1 : Tail(q)[i] = q[i + 1]
    BY <2>1
  <2>3. \A i \in 1 .. Len(q) - 1 : Tail(q)[i].kind = "landed" => Tail(q)[i].file \in landed
    BY <2>2 DEF FramesInv, ResultsTrue
  <2>4. ResultsTrue'
    BY <2>1, <2>2, <2>3, <1>1 DEF ResultsTrue
  <2>5. FailuresTold' /\ InFlight' /\ DoneFollows'
    BY <1>1, <1>10 DEF FailuresTold, InFlight, DoneFollows, Push
  <2> QED
    BY <1>5, <1>6, <1>7, <1>8, <2>4, <2>5 DEF FramesInv
<1> QED
  BY <1>9, <1>10

\* Done is said with every file settled, or an error crossed, and after all results.
LEMMA SayDoneKeeps == ASSUME RunInv, SayDone PROVE RunInv'
<1> USE DEF RunInv, atEnds, fixed
<1> DEFINE ms == <<Frame("done"), Frame("goodbye")>>
<1>1. /\ UNCHANGED <<atEnds, landed, report, told, settled, count, crossed>> /\ said' = TRUE
      /\ inbox' = [inbox EXCEPT ![Sender] = IF link THEN @ \o ms ELSE @] /\ count >= Files
  BY DEF SayDone, Tell
<1>2. /\ ms \in Seq(Frames) /\ Len(ms) = 2 /\ ms[1].kind = "done" /\ ms[2].kind = "goodbye"
  <2>1. Frame("done") \in Frames /\ Frame("goodbye") \in Frames
    BY FramesAndFiles DEF Kinds
  <2>2. Frame("done").kind = "done" /\ Frame("goodbye").kind = "goodbye"
    BY DEF Frame
  <2> QED
    BY <2>1, <2>2
<1>3. Sender \in {"caller", "server"} /\ inbox[Sender] \in Seq(Frames)
  BY DEF Sender, SessionTypes
<1>4. crossed # {} \/ settled = All
  <2> SUFFICES ASSUME crossed = {} PROVE settled = All
    OBVIOUS
  <2>1. count = Cardinality(settled) /\ settled \subseteq All /\ IsFiniteSet(All) /\ Cardinality(All) = Files
    BY FramesAndFiles DEF CountInv, Counted, SessionTypes
  <2>2. Files \in Nat /\ Cardinality(settled) \in Nat /\ Cardinality(settled) <= Cardinality(All)
        /\ (Cardinality(settled) = Cardinality(All) => settled = All)
    BY <2>1, FS_Subset, FS_CardinalityType, SessionAssumption DEF SessionAssumption
  <2> QED
    BY <1>1, <2>1, <2>2
<1>5. inbox' \in [{"caller", "server"} -> Seq(Frames)]
  BY <1>1, <1>2, <1>3 DEF SessionTypes
<1>6. SessionTypes'
  BY <1>1, <1>5 DEF SessionTypes
<1>7. NamedInv' /\ OkInv'
  BY <1>1 DEF NamedInv, SettledNamed, ToldNamed, OkInv, OkKept, OnlyOverIsOk, Push
<1>8. CountInv'
  BY <1>1, <1>4 DEF CountInv, Counted, SaidAll, Push
<1>9. CASE ~Push \/ ~link
  <2>1. inbox'["caller"] = inbox["caller"] /\ (Push => inbox'["server"] = inbox["server"])
    BY <1>1, <1>9 DEF Sender, SessionTypes
  <2>2. ResultsTrue'
    <3>1. inbox'["caller"] = inbox["caller"] /\ landed' = landed
      BY <1>1, <2>1
    <3> QED
      BY <3>1, SameResults
  <2>3. FailuresTold'
    <3>1. (Push => inbox'["server"] = inbox["server"]) /\ told' = told /\ dirn' = dirn
      BY <1>1, <2>1
    <3> QED
      BY <3>1, SameFailures
  <2>4. InFlight'
    BY <1>1, <1>9 DEF InFlight, Push
  <2>5. DoneFollows'
    BY <1>1, <2>1 DEF FramesInv, DoneFollows, Push
  <2> QED
    BY <1>6, <1>7, <1>8, <2>2, <2>3, <2>4, <2>5 DEF FramesInv
<1>10. CASE Push /\ link
  <2> DEFINE q == inbox["caller"]
  <2>1. q \in Seq(Frames) /\ inbox'["caller"] = q \o ms /\ inbox'["server"] = inbox["server"]
    BY <1>1, <1>3, <1>10 DEF Sender, SessionTypes
  <2>2. /\ Len(q \o ms) = Len(q) + 2 /\ Len(q) \in Nat
        /\ (q \o ms)[Len(q) + 1] = ms[1] /\ (q \o ms)[Len(q) + 2] = ms[2]
        /\ \A i \in 1 .. Len(q) : (q \o ms)[i] = q[i]
    BY <1>2, <2>1
  <2> HIDE DEF ms
  <2>3. ResultsTrue'
    <3>1. \A i \in 1 .. Len(q) : q[i].kind = "landed" => q[i].file \in landed
      BY DEF FramesInv, ResultsTrue
    <3>2. \A i \in 1 .. Len(q) + 2 : (q \o ms)[i].kind = "landed" => i \in 1 .. Len(q)
      BY <2>2, <1>2
    <3> QED
      BY <3>1, <3>2, <2>1, <2>2, <1>1 DEF ResultsTrue
  <2>4. \A f \in settled : f \in told \/ Flies(q, f)
    BY <1>10 DEF FramesInv, InFlight
  <2>5. InFlight'
    BY <2>4, <2>1, <1>1, <1>2, FlyOn DEF InFlight
  <2>6. DoneFollows'
    <3>1. DoneLast(q, told, crossed)
      BY <1>10 DEF FramesInv, DoneFollows
    <3>2. DoneLast(q \o ms, told, crossed)
      BY <3>1, <2>1, <2>4, <1>2, <1>4, DoneSent
    <3> QED
      BY <3>2, <2>1, <1>1 DEF DoneFollows
  <2>7. FailuresTold'
    BY <1>1, <2>1 DEF FramesInv, FailuresTold, Push
  <2> QED
    BY <1>6, <1>7, <1>8, <2>3, <2>5, <2>6, <2>7 DEF FramesInv
<1> QED
  BY <1>9, <1>10

\* A dial begins an attempt with nothing told, settled or reported.
LEMMA DialKeeps == ASSUME RunInv, Dial PROVE RunInv'
<1> USE DEF RunInv
<1>1. /\ UNCHANGED <<fixed, landed>> /\ caller = "dial"
      /\ report' = [names |-> {}, cancelled |-> FALSE]
      /\ told' = {} /\ settled' = {} /\ count' = 0 /\ crossed' = {} /\ said' = FALSE
      /\ inbox' = [inbox EXCEPT !["caller"] = <<>>,
                                !["server"] = IF DialOutcome = "up" THEN <<Frame("init")>> ELSE <<>>]
  BY DEF Dial
<1>2. DialOutcome \in {"lost", "no listener", "refused", "secret", "up"}
  BY DEF DialOutcome, SessionTypes
<1>3. result' # "ok"
  <2>1. result # "ok"
    BY <1>1 DEF OkInv, OnlyOverIsOk
  <2> QED
    BY <2>1, <1>2 DEF Dial, Fail
<1>4. Frame("init") \in Frames /\ Frame("init").kind = "init"
  <2>1. Frame("init").kind = "init"
    BY DEF Frame
  <2> QED
    BY <2>1, FramesAndFiles DEF Kinds
<1>5. /\ inbox'["caller"] = <<>> /\ Len(inbox'["caller"]) = 0
      /\ inbox'["server"] \in {<<>>, <<Frame("init")>>}
      /\ inbox' \in [{"caller", "server"} -> Seq(Frames)]
  <2>1. <<Frame("init")>> \in Seq(Frames) /\ <<>> \in Seq(Frames) /\ Len(<<>>) = 0
    BY <1>4
  <2>2. PICK b \in {<<>>, <<Frame("init")>>} : inbox' = [inbox EXCEPT !["caller"] = <<>>, !["server"] = b]
    BY <1>1
  <2>6. inbox \in [{"caller", "server"} -> Seq(Frames)]
    BY DEF SessionTypes
  <2>3. b \in Seq(Frames)
    BY <2>1
  <2>4. inbox'["caller"] = <<>> /\ inbox'["server"] = b
    BY <2>2, <2>6
  <2>5. inbox' \in [{"caller", "server"} -> Seq(Frames)]
    BY <2>1, <2>2, <2>3, <2>6
  <2> QED
    BY <2>1, <2>4, <2>5
<1>6. \A i \in 1 .. Len(inbox'["server"]) : inbox'["server"][i].kind # "failed"
  BY <1>4, <1>5
<1>7. SessionTypes'
  BY <1>1, <1>5 DEF SessionTypes, fixed
<1>8. FramesInv'
  BY <1>1, <1>5, <1>6 DEF FramesInv, ResultsTrue, FailuresTold, InFlight, DoneFollows, DoneLast
<1>9. Cardinality({}) = 0
  BY FS_EmptySet
<1>10. NamedInv' /\ CountInv' /\ OkInv'
  BY <1>1, <1>3, <1>9 DEF NamedInv, SettledNamed, ToldNamed, CountInv, Counted, SaidAll, OkInv, OkKept, OnlyOverIsOk
<1> QED
  BY <1>7, <1>8, <1>10

\* The other steps of the caller: whoever says ok has every result, or has said or
\* heard Done.
LEMMA CallerKeeps == ASSUME RunInv, CallerRuns PROVE RunInv'
<1> DEFINE q == inbox["caller"]
<1>1. q \in Seq(Frames) /\ inbox["server"] \in Seq(Frames) /\ inbox \in [{"caller", "server"} -> Seq(Frames)]
      /\ report \in [names : SUBSET All, cancelled : BOOLEAN]
  BY DEF RunInv, SessionTypes
<1>2. ASSUME Hang PROVE QuietFrames /\ (link' => link)
  BY <1>2 DEF Hang, QuietFrames
<1>3. caller # "over" => result # "ok"
  BY DEF RunInv, OkInv, OnlyOverIsOk
<1>4. CASE HearAck
  <2>1. q # <<>> /\ Head(q).kind = "ack" /\ inbox' = [inbox EXCEPT !["caller"] = Tail(@)]
        /\ UNCHANGED <<fixed, landed, result, report, link, engines>> /\ caller = "ack"
    BY <1>4 DEF HearAck, Heard, Took
  <2>2. QuietFrames
    BY <2>1, <1>1 DEF QuietFrames
  <2>3. OkInv'
    BY <2>1, <1>3 DEF OkInv, OkKept, OnlyOverIsOk
  <2> QED
    BY <2>1, <2>2, <2>3, <1>1, OtherKeeps
<1>5. CASE HearRefusal \/ HearError
  <2>1. Hang /\ result' # "ok" /\ UNCHANGED <<fixed, landed, report, engines>>
    BY <1>5 DEF HearRefusal, HearError, Fail
  <2>2. OkInv'
    BY <2>1 DEF OkInv, OkKept, OnlyOverIsOk
  <2> QED
    BY <2>1, <2>2, <1>1, <1>2, OtherKeeps
<1>6. CASE PushEnds
  <2>1. Hang /\ Push /\ told = All /\ caller' = "over" /\ UNCHANGED <<fixed, landed, report, engines>>
    BY <1>6 DEF PushEnds
  <2>2. All \subseteq landed \cup report.names
    BY <2>1 DEF RunInv, NamedInv, ToldNamed
  <2>3. OkInv'
    BY <2>1, <2>2 DEF OkInv, OkKept, OnlyOverIsOk
  <2> QED
    BY <2>1, <2>3, <1>1, <1>2, OtherKeeps
<1>7. CASE PushHearsDone
  <2>1. /\ Hang /\ Push /\ q # <<>> /\ Head(q).kind = "done" /\ caller' = "over" /\ UNCHANGED <<fixed, landed, engines>>
        /\ report' = [report EXCEPT !.cancelled = told # All]
    BY <1>7 DEF PushHearsDone, Heard
  <2>2. /\ report'.names = report.names /\ report'.cancelled = (told # All)
        /\ report' \in [names : SUBSET All, cancelled : BOOLEAN]
    BY <2>1, <1>1
  <2>3. 1 \in 1 .. Len(q) /\ q[1].kind = "done"
    BY <2>1, <1>1
  <2>4. crossed # {} \/ told = All
    <3>1. DoneLast(q, told, crossed) /\ told \subseteq All
      BY <2>1 DEF RunInv, FramesInv, DoneFollows, SessionTypes
    <3>2. crossed # {} \/ \A f \in All : f \in told \/ \E j \in 1 .. 1 - 1 : ResultOf(q[j], f)
      BY <2>3, <3>1 DEF DoneLast
    <3> QED
      BY <3>1, <3>2
  <2>5. told = All => All \subseteq landed \cup report.names
    BY <2>1 DEF RunInv, NamedInv, ToldNamed
  <2>6. OkInv'
    <3>1. UNCHANGED <<landed, crossed, dirn>>
      BY <2>1 DEF engines, fixed
    <3> QED
      BY <3>1, <2>1, <2>2, <2>4, <2>5 DEF OkInv, OkKept, OnlyOverIsOk
  <2> QED
    BY <2>1, <2>2, <2>6, <1>2, OtherKeeps
<1>8. CASE HearEnd
  <2>1. /\ UNCHANGED <<fixed, landed, report, link, inbox, engines>> /\ (result' = "ok" => caller' = "over")
        /\ result' = IF caller = "run" THEN LossResult ELSE "lost"
    BY <1>8 DEF HearEnd
  <2>2. QuietFrames
    BY <2>1, <1>1 DEF QuietFrames
  <2>3. result' = "ok" => IF Push THEN told = All ELSE said
    BY <2>1 DEF LossResult
  <2>4. result' = "ok" => All \subseteq landed \cup report.names \/ (crossed # {} /\ ~Push)
    BY <2>3 DEF RunInv, NamedInv, ToldNamed, SettledNamed, CountInv, SaidAll
  <2>5. OkInv'
    <3>1. UNCHANGED <<landed, crossed, dirn, report>>
      BY <2>1 DEF engines, fixed
    <3> QED
      BY <2>1, <2>4, <3>1 DEF OkInv, OkKept, OnlyOverIsOk, Push
  <2> QED
    BY <2>1, <2>2, <2>5, <1>1, OtherKeeps
<1>9. CASE Again
  <2>1. UNCHANGED <<fixed, landed, result, report, link, inbox, engines>> /\ caller = "failed"
    BY <1>9 DEF Again
  <2>2. QuietFrames
    BY <2>1, <1>1 DEF QuietFrames
  <2>3. OkInv'
    BY <2>1, <1>3 DEF OkInv, OkKept, OnlyOverIsOk
  <2> QED
    BY <2>1, <2>2, <2>3, <1>1, OtherKeeps
<1> QED
  BY <1>4, <1>5, <1>6, <1>7, <1>8, <1>9, DialKeeps DEF CallerRuns

\* The server's queue loses its first frame, or all of them ...
LEMMA QuietTail ==
  ASSUME inbox \in [{"caller", "server"} -> Seq(Frames)], inbox["server"] # <<>>,
         inbox' = [inbox EXCEPT !["server"] = Tail(@)] \/ inbox' = [inbox EXCEPT !["server"] = <<>>]
  PROVE  QuietFrames
<1>1. inbox["server"] \in Seq(Frames) /\ Tail(inbox["server"]) \in Seq(Frames) /\ <<>> \in Seq(Frames)
  OBVIOUS
<1>2. inbox' \in [{"caller", "server"} -> Seq(Frames)]
  BY <1>1
<1>3. inbox'["caller"] = inbox["caller"]
  OBVIOUS
<1>4. inbox'["server"] = Tail(inbox["server"]) \/ inbox'["server"] = <<>>
  OBVIOUS
<1> QED
  BY <1>2, <1>3, <1>4 DEF QuietFrames

\* ... while one more goes to the caller.
LEMMA QuietSent ==
  ASSUME inbox \in [{"caller", "server"} -> Seq(Frames)],
         NEW k \in {"ack", "nack", "error"}, Frame(k) \in Frames,
         \/ inbox' = [inbox EXCEPT !["caller"] = Append(@, Frame(k)), !["server"] = <<>>]
         \/ /\ inbox["server"] # <<>>
            /\ inbox' = [inbox EXCEPT !["caller"] = Append(@, Frame(k)), !["server"] = Tail(@)]
  PROVE  QuietFrames
<1>1. inbox["caller"] \in Seq(Frames) /\ inbox["server"] \in Seq(Frames)
  OBVIOUS
<1>2. /\ Append(inbox["caller"], Frame(k)) = inbox["caller"] \o <<Frame(k)>>
      /\ Append(inbox["caller"], Frame(k)) \in Seq(Frames)
  BY <1>1, AppendIsConcat, AppendProperties
<1>3. /\ inbox'["caller"] = inbox["caller"] \o <<Frame(k)>>
      /\ \/ inbox'["server"] = <<>> \/ (inbox["server"] # <<>> /\ inbox'["server"] = Tail(inbox["server"]))
  BY <1>2
<1>4. inbox' \in [{"caller", "server"} -> Seq(Frames)]
  <2>1. <<>> \in Seq(Frames) /\ (inbox["server"] # <<>> => Tail(inbox["server"]) \in Seq(Frames))
    BY <1>1
  <2> QED
    BY <1>2, <2>1
<1> QED
  BY <1>3, <1>4 DEF QuietFrames

\* The server's loop and the link touch neither the files nor the caller.
LEMMA OthersKeep ==
  ASSUME RunInv, HandlerRuns \/ Drop \/ ServerDies \/ ServerStarts
  PROVE  RunInv'
<1> DEFINE q == inbox["caller"]
           s == inbox["server"]
<1>1. q \in Seq(Frames) /\ s \in Seq(Frames) /\ inbox \in [{"caller", "server"} -> Seq(Frames)]
      /\ report \in [names : SUBSET All, cancelled : BOOLEAN]
  BY DEF RunInv, SessionTypes
<1>2. UNCHANGED <<fixed, landed, caller, result, report, engines>> /\ (link' => link)
  BY DEF atCaller, HandlerCloses, Hang, HandlerRuns, TakeInit, SenderHearsDone, SenderReturns, SecondTakes,
    LoopUnexpected, LoopGoodbye, HandlerEnds, Drop, ServerDies, ServerStarts
<1>3. OkInv'
  <2>1. UNCHANGED <<landed, crossed, dirn, report, result, caller>>
    BY <1>2 DEF engines, fixed
  <2> QED
    BY <2>1 DEF RunInv, OkInv, OkKept, OnlyOverIsOk, Push
<1>4. \A k \in Kinds : Frame(k) \in Frames
  BY FramesAndFiles
<1>5. QuietFrames
  <2>1. CASE TakeInit
    <3>1. /\ s # <<>>
          /\ inbox' = [inbox EXCEPT !["caller"] = Append(@, Frame(IF allowed THEN "ack" ELSE "nack")),
                                    !["server"] = Tail(@)]
      BY <2>1 DEF TakeInit, Heard
    <3>2. PICK k \in {"ack", "nack"} : k = IF allowed THEN "ack" ELSE "nack"
      OBVIOUS
    <3>3. inbox' = [inbox EXCEPT !["caller"] = Append(@, Frame(k)), !["server"] = Tail(@)]
      BY <3>1, <3>2
    <3>4. Frame(k) \in Frames
      BY <1>4 DEF Kinds
    <3> QED
      BY <1>1, <3>1, <3>3, <3>4, QuietSent
  <2>2. CASE SenderHearsDone
    <3>1. s # <<>> /\ inbox' = [inbox EXCEPT !["server"] = Tail(@)]
      BY <2>2 DEF SenderHearsDone, Heard, Took
    <3> QED
      BY <1>1, <3>1, QuietTail
  <2>3. CASE SenderReturns \/ HandlerEnds \/ ServerStarts
    <3>1. inbox' = inbox
      BY <2>3 DEF SenderReturns, HandlerEnds, ServerStarts
    <3> QED
      BY <3>1, <1>1 DEF QuietFrames
  <2>4. CASE SecondTakes
    <3>1. s # <<>> /\ \/ inbox' = [inbox EXCEPT !["server"] = Tail(@)]
                      \/ inbox' = [inbox EXCEPT !["server"] = <<>>]
      BY <2>4 DEF SecondTakes, Took
    <3> QED
      BY <1>1, <3>1, QuietTail
  <2>5. CASE LoopUnexpected
    <3>1. inbox' = [inbox EXCEPT !["caller"] = Append(@, Frame("error")), !["server"] = <<>>]
      BY <2>5 DEF LoopUnexpected
    <3>2. Frame("error") \in Frames
      BY <1>4 DEF Kinds
    <3> QED
      BY <1>1, <3>1, <3>2, QuietSent
  <2>6. CASE LoopGoodbye
    <3>1. s # <<>> /\ inbox' = [inbox EXCEPT !["server"] = <<>>]
      BY <2>6 DEF LoopGoodbye, Heard
    <3> QED
      BY <1>1, <3>1, QuietTail
  <2>7. CASE Drop \/ ServerDies
    <3>1. Hang
      BY <2>7 DEF Drop, ServerDies
    <3> QED
      BY <3>1 DEF Hang, QuietFrames
  <2> QED
    BY <2>1, <2>2, <2>3, <2>4, <2>5, <2>6, <2>7 DEF HandlerRuns
<1> QED
  BY <1>1, <1>2, <1>3, <1>5, OtherKeeps

\* The invariant of a run, for any number of files, retries, losses and restarts.
THEOREM RunInvariant == SessionSpec => []RunInv
<1>1. SessionInit => RunInv
  BY RunStarts
<1>2. RunInv /\ [SessionNext]_sessionVars => RunInv'
  <2> SUFFICES ASSUME RunInv, [SessionNext]_sessionVars PROVE RunInv'
    OBVIOUS
  <2>1. CASE UNCHANGED sessionVars
    BY <2>1 DEF sessionVars, fixed, engines, RunInv, SessionTypes, NamedInv, SettledNamed, ToldNamed, FramesInv,
      ResultsTrue, FailuresTold, InFlight, DoneFollows, CountInv, Counted, SaidAll, OkInv, OkKept, OnlyOverIsOk, Push
  <2>2. CASE SenderRuns
    BY <2>2, SourceFailsKeeps, HearResultKeeps DEF SenderRuns
  <2>3. CASE ReceiverRuns
    BY <2>3, SayDoneKeeps, ReceiverKeeps, HearSourceFailedKeeps DEF ReceiverRuns
  <2>4. CASE CallerRuns
    BY <2>4, CallerKeeps
  <2>5. CASE HandlerRuns \/ Drop \/ ServerDies \/ ServerStarts
    BY <2>5, OthersKeep
  <2> QED
    BY <2>1, <2>2, <2>3, <2>4, <2>5 DEF SessionNext
<1> QED
  BY <1>1, <1>2, PTL DEF SessionSpec

\* A run that ends without an error leaves no file in silence: each is at its place
\* or named in the last attempt's report, unless an error of the sender crossed a
\* file's outcome, and a push then calls itself Cancelled (session.go:491-516,
\* sender.go:226, 281-286, receiver.go:306-312, 1262-1280), whatever failed at either
\* end, was lost on the way, and however often it was tried again.
THEOREM OkIsAll == SessionSpec => []OkMeansAll
<1>1. RunInv => OkMeansAll
  BY DEF RunInv, OkInv, OkKept, OkMeansAll
<1> QED
  BY <1>1, RunInvariant, PTL

-----------------------------------------------------------------------------
(***************************************************************************)
(* Journal.                                                                *)
(*                                                                         *)
(* What was acknowledged is among the durable lines and has nothing        *)
(* unreadable before it (AckedKept), and readable lines link (Linked).     *)
(* For a new line to do so, the writer's head must be the last line, as    *)
(* long as all are readable (WriterAt); and what it writes is readable     *)
(* unless a failed write has left a tail (Unspoiled).  Several writers do  *)
(* not have this: each has a head and an offset of its own.                *)
(***************************************************************************)
Alone == \A v, w \in Writers : v = w

Lines == [id : Nat, prev : Nat]
WriterStates == [open : BOOLEAN, head : Nat, off : Nat, new : Nat]

JournalTypes ==
  /\ log \in Seq(Lines) /\ durable \in 0 .. Len(log)
  /\ journal \in [Writers -> WriterStates]
  /\ torn \in BOOLEAN /\ spoiled \in BOOLEAN /\ used \in Nat

Clean(n) == \A k \in 1 .. n : log[k] # Junk

Linked == \A i \in 1 .. Len(log) : Clean(i) => log[i].prev = HashOf(i - 1)

AckedKept == \A a \in acked : \E n \in 1 .. durable : log[n].id = a /\ Clean(n)

WriterAt ==
  \A w \in Writers : journal[w].open =>
    /\ journal[w].off = Len(log)
    /\ Clean(Len(log)) => journal[w].head = HashOf(Len(log))

Pending ==
  \A w \in Writers : journal[w].new # 0 =>
    /\ journal[w].open /\ Len(log) > 0
    /\ ~spoiled => log[Len(log)].id = journal[w].new

Unspoiled == ~spoiled => Clean(Len(log)) /\ \A w \in Writers : journal[w].open => ~torn

JournalInv == JournalTypes /\ Linked /\ AckedKept /\ WriterAt /\ Pending /\ Unspoiled

\* An empty journal links.
LEMMA JournalStarts == JournalInit => JournalInv
<1> SUFFICES ASSUME JournalInit PROVE JournalInv
  OBVIOUS
<1>1. Len(log) = 0 /\ log \in Seq(Lines) /\ acked = {} /\ durable = 0 /\ used = 0
  BY DEF JournalInit
<1>2. journal = [w \in Writers |-> Shut] /\ torn = FALSE /\ spoiled = FALSE
  BY DEF JournalInit
<1>3. Shut \in WriterStates /\ Shut.open = FALSE /\ Shut.new = 0
  BY DEF Shut, WriterStates
<1>4. journal \in [Writers -> WriterStates] /\ \A w \in Writers : journal[w] = Shut
  BY <1>2, <1>3
<1>5. torn \in BOOLEAN /\ spoiled \in BOOLEAN
  BY <1>2
<1>6. durable \in 0 .. Len(log)
  BY <1>1
<1>7. JournalTypes
  BY <1>1, <1>4, <1>5, <1>6 DEF JournalTypes
<1> QED
  BY <1>7, <1>1, <1>2, <1>3, <1>4, <1>5 DEF JournalInv, Linked, AckedKept, WriterAt, Pending, Unspoiled, Clean

\* Lines that stay are as clean, and have the same hash, as before.
LEMMA SameLines ==
  ASSUME NEW m \in Nat, \A k \in 1 .. m : log'[k] = log[k]
  PROVE  \A n \in 0 .. m : (Clean(n)' <=> Clean(n)) /\ HashOf(n)' = HashOf(n)
BY DEF Clean, HashOf

\* Opening: the head is the last line, which is readable, and the tail is cut off.
LEMMA OpenKeeps == ASSUME Alone, JournalInv, NEW w \in Writers, OpenJournal(w) PROVE JournalInv'
<1> USE DEF JournalInv
<1>1. UNCHANGED <<log, durable, acked, used>> /\ torn' = FALSE /\ ~journal[w].open
  BY DEF OpenJournal, Repaired
<1>11. Clean(Len(log)) /\ spoiled' \in BOOLEAN
  <2>1. DOMAIN log = 1 .. Len(log) /\ Len(log) \in Nat
    BY DEF JournalTypes
  <2>2. \A k \in 1 .. Len(log) : k \in Readable
    BY <2>1 DEF OpenJournal
  <2>3. \A k \in 1 .. Len(log) : \A i \in 1 .. k : log[i] # Junk
    BY <2>2 DEF Readable
  <2>4. \A k \in 1 .. Len(log) : k \in 1 .. k
    BY <2>1
  <2>5. spoiled' \in BOOLEAN
    BY DEF OpenJournal
  <2> QED
    BY <2>3, <2>4, <2>5 DEF Clean
<1>2. HashOf(Len(log)) \in Nat
  <2>1. log \in Seq(Lines) /\ Len(log) \in Nat
    BY DEF JournalTypes
  <2>2. CASE Len(log) = 0
    BY <2>2 DEF HashOf
  <2>3. CASE Len(log) # 0
    <3>1. Len(log) \in 1 .. Len(log)
      BY <2>1, <2>3
    <3>2. log[Len(log)] \in Lines
      BY <2>1, <3>1
    <3> QED
      BY <3>2, <2>3 DEF HashOf, Lines
  <2> QED
    BY <2>2, <2>3
<1>3. /\ journal' \in [Writers -> WriterStates]
      /\ journal'[w].open /\ journal'[w].off = Len(log) /\ journal'[w].new = 0
      /\ journal'[w].head = HashOf(Len(log))
  BY <1>2 DEF OpenJournal, JournalTypes, WriterStates
<1>4. \A v \in Writers : v = w
  BY DEF Alone
<1>5. torn' \in BOOLEAN
  BY <1>1
<1>10. JournalTypes'
  BY <1>1, <1>3, <1>5, <1>11 DEF JournalTypes
<1>6. Linked' /\ AckedKept'
  BY <1>1 DEF Linked, AckedKept, Clean, HashOf
<1>7. WriterAt'
  BY <1>1, <1>3, <1>4 DEF WriterAt, HashOf
<1>8. Pending'
  BY <1>3, <1>4 DEF Pending
<1>9. Unspoiled'
  BY <1>1, <1>11 DEF Unspoiled, Clean
<1> QED
  BY <1>10, <1>6, <1>7, <1>8, <1>9

\* Writing: the only writer is at the end, so that the line is added, and it links
\* to the last one unless that, or it, is unreadable.
LEMMA WriteKeeps == ASSUME Alone, JournalInv, NEW w \in Writers, AppendWrite(w) PROVE JournalInv'
<1> USE DEF JournalInv
<1> DEFINE e == [id |-> used + 1, prev |-> journal[w].head]
           x == IF torn THEN Junk ELSE e
<1>1. journal[w].open /\ journal[w].off = Len(log) /\ UNCHANGED <<durable, acked, spoiled>> /\ used' = used + 1
  BY DEF AppendWrite, Writable, WriterAt
<1>2. log' = Append(log, x) /\ torn' = FALSE
  <2>1. ~(journal[w].off < Len(log))
    BY <1>1 DEF JournalTypes
  <2>2. log' = Append(log, x)
    BY <2>1 DEF AppendWrite, LineAt
  <2>3. torn' = FALSE
    BY <2>1 DEF AppendWrite
  <2> QED
    BY <2>2, <2>3
<1>3. e \in Lines /\ Junk \in Lines /\ e # Junk
  BY DEF JournalTypes, WriterStates, Lines, Junk
<1>19. PICK L \in Nat : L = Len(log)
  BY DEF JournalTypes
<1>4. /\ log' \in Seq(Lines) /\ Len(log') = L + 1 /\ log'[L + 1] = x
      /\ \A k \in 1 .. L : log'[k] = log[k]
  BY <1>2, <1>3, <1>19 DEF JournalTypes
<1>5. L = Len(log) /\ L \in Nat /\ used \in Nat /\ durable \in 0 .. L
  BY <1>19 DEF JournalTypes
<1>6. \A n \in 0 .. L : (Clean(n)' <=> Clean(n)) /\ HashOf(n)' = HashOf(n)
  BY <1>4, <1>5, SameLines
<1>7. Clean(L + 1)' <=> Clean(L) /\ x # Junk
  <2>1. \A k \in 1 .. L : log'[k] = log[k]
    BY <1>4
  <2>2. log'[L + 1] = x /\ 1 .. L + 1 = (1 .. L) \cup {L + 1}
    BY <1>4, <1>5
  <2> HIDE DEF x
  <2> QED
    BY <2>1, <2>2 DEF Clean
<1>8. /\ journal' \in [Writers -> WriterStates]
      /\ journal'[w].head = used + 1 /\ journal'[w].off = L + 1 /\ journal'[w].new = used + 1
      /\ journal'[w].open
  BY <1>1, <1>5 DEF AppendWrite, JournalTypes, WriterStates
<1>9. \A v \in Writers : v = w
  BY DEF Alone
<1>10. x # Junk => ~torn /\ x.id = used + 1 /\ x.prev = journal[w].head
  BY DEF Junk
<1>11. ~torn => x # Junk
  BY <1>3
<1> HIDE DEF x
<1>12. JournalTypes'
  <2>1. torn' \in BOOLEAN /\ spoiled' \in BOOLEAN
    BY <1>1, <1>2 DEF JournalTypes
  <2>2. durable' \in 0 .. Len(log') /\ used' \in Nat
    BY <1>1, <1>4, <1>5
  <2> QED
    BY <2>1, <2>2, <1>4, <1>8 DEF JournalTypes
<1>13. Linked'
  <2> SUFFICES ASSUME NEW i \in 1 .. Len(log'), Clean(i)' PROVE log'[i].prev = HashOf(i - 1)'
    BY DEF Linked
  <2>1. CASE i \in 1 .. L
    <3>1. i - 1 \in 0 .. L /\ i \in 0 .. L
      BY <2>1, <1>5
    <3> QED
      BY <2>1, <3>1, <1>4, <1>5, <1>6 DEF Linked
  <2>2. CASE i = L + 1
    <3>0. Clean(L + 1)'
      BY <2>2
    <3>1. journal[w].head = HashOf(L) /\ x # Junk
      BY <3>0, <1>1, <1>5, <1>7 DEF WriterAt
    <3>2. HashOf(L)' = HashOf(L)
      BY <1>6, <1>5
    <3>3. i - 1 = L
      BY <2>2, <1>5
    <3>4. HashOf(i - 1)' = HashOf(L)
      BY <3>2, <3>3, <1>4, <1>5 DEF HashOf
    <3> QED
      BY <2>2, <3>1, <3>4, <1>4, <1>10
  <2> QED
    BY <2>1, <2>2, <1>4, <1>5
<1>14. AckedKept'
  <2> SUFFICES ASSUME NEW a \in acked PROVE \E n \in 1 .. durable : log'[n].id = a /\ Clean(n)'
    BY <1>1 DEF AckedKept
  <2>1. PICK n \in 1 .. durable : log[n].id = a /\ Clean(n)
    BY DEF AckedKept
  <2>2. n \in 1 .. L
    BY <1>5
  <2> QED
    BY <2>1, <2>2, <1>4, <1>6
<1>15. WriterAt'
  <2>1. Clean(L + 1)' => HashOf(L + 1)' = used + 1
    BY <1>4, <1>5, <1>7, <1>10 DEF HashOf
  <2> QED
    BY <2>1, <1>4, <1>8, <1>9 DEF WriterAt
<1>16. ~spoiled => Clean(L) /\ x # Junk
  BY <1>1, <1>5, <1>11 DEF Unspoiled
<1>17. Pending'
  BY <1>1, <1>4, <1>5, <1>8, <1>9, <1>10, <1>16 DEF Pending
<1>18. Unspoiled'
  BY <1>1, <1>2, <1>4, <1>7, <1>16 DEF Unspoiled
<1> QED
  BY <1>12, <1>13, <1>14, <1>15, <1>17, <1>18


\* A write cut short leaves a tail and says so; no line changes.
LEMMA ShortKeeps == ASSUME JournalInv, NEW w \in Writers, AppendShort(w) PROVE JournalInv'
<1> USE DEF JournalInv
<1>1. UNCHANGED <<log, durable, journal, acked>> /\ spoiled' = TRUE /\ used' = used + 1
  BY DEF AppendShort, Writable
<1>2. torn' \in BOOLEAN /\ spoiled' \in BOOLEAN
  BY <1>1 DEF AppendShort, JournalTypes
<1>3. JournalTypes'
  BY <1>1, <1>2 DEF JournalTypes
<1>4. Linked' /\ AckedKept' /\ WriterAt'
  BY <1>1 DEF Linked, AckedKept, WriterAt, Clean, HashOf
<1>5. Pending' /\ Unspoiled'
  BY <1>1 DEF Pending, Unspoiled
<1> QED
  BY <1>3, <1>4, <1>5

\* A sync makes all lines durable, among them, if no write has failed, the new one.
LEMMA SyncKeeps == ASSUME Alone, JournalInv, NEW w \in Writers, AppendSync(w) PROVE JournalInv'
<1> USE DEF JournalInv
<1>1. UNCHANGED <<log, torn, spoiled, used>> /\ durable' = Len(log) /\ journal[w].new # 0
  BY DEF AppendSync
<1>2. PICK L \in Nat : L = Len(log)
  BY DEF JournalTypes
<1>3. /\ journal' \in [Writers -> WriterStates] /\ journal'[w].new = 0
      /\ journal'[w].open = journal[w].open /\ journal'[w].off = journal[w].off
      /\ journal'[w].head = journal[w].head
  BY DEF AppendSync, JournalTypes, WriterStates
<1>4. \A v \in Writers : v = w
  BY DEF Alone
<1>5. durable' \in 0 .. Len(log)
  BY <1>1, <1>2
<1>6. JournalTypes'
  BY <1>1, <1>3, <1>5 DEF JournalTypes
<1>7. Linked'
  BY <1>1 DEF Linked, Clean, HashOf
<1>8. AckedKept'
  <2> SUFFICES ASSUME NEW a \in acked' PROVE \E n \in 1 .. L : log[n].id = a /\ Clean(n)
    BY <1>1, <1>2 DEF AckedKept, Clean
  <2>1. CASE a \in acked
    <3>1. PICK n \in 1 .. durable : log[n].id = a /\ Clean(n)
      BY <2>1 DEF AckedKept
    <3>2. n \in 1 .. L
      BY <1>2 DEF JournalTypes
    <3> QED
      BY <3>1, <3>2
  <2>2. CASE a \notin acked
    <3>1. ~spoiled /\ a = journal[w].new
      BY <2>2 DEF AppendSync
    <3>2. L \in 1 .. L /\ log[L].id = a /\ Clean(L)
      BY <1>1, <1>2, <3>1 DEF Pending, Unspoiled
    <3> QED
      BY <3>2
  <2> QED
    BY <2>1, <2>2
<1>9. WriterAt'
  BY <1>1, <1>3, <1>4 DEF WriterAt, Clean, HashOf
<1>10. Pending'
  BY <1>3, <1>4 DEF Pending
<1>11. Unspoiled'
  BY <1>1, <1>3, <1>4 DEF Unspoiled, Clean
<1> QED
  BY <1>6, <1>7, <1>8, <1>9, <1>10, <1>11

\* A sync that fails acknowledges nothing.
LEMMA SyncFailsKeeps == ASSUME JournalInv, NEW w \in Writers, SyncFails(w) PROVE JournalInv'
<1> USE DEF JournalInv
<1>1. UNCHANGED <<log, torn, durable, acked, spoiled, used>>
  BY DEF SyncFails
<1>2. /\ journal' \in [Writers -> WriterStates] /\ journal'[w].new = 0
      /\ journal'[w].open = journal[w].open /\ journal'[w].off = journal[w].off
      /\ journal'[w].head = journal[w].head
      /\ \A v \in Writers \ {w} : journal'[v] = journal[v]
  BY DEF SyncFails, JournalTypes, WriterStates
<1>3. JournalTypes'
  BY <1>1, <1>2 DEF JournalTypes
<1>4. Linked' /\ AckedKept'
  BY <1>1 DEF Linked, AckedKept, Clean, HashOf
<1>5. WriterAt' /\ Pending' /\ Unspoiled'
  BY <1>1, <1>2 DEF WriterAt, Pending, Unspoiled, Clean, HashOf
<1> QED
  BY <1>3, <1>4, <1>5

\* A closed writer has no place.
LEMMA CloseKeeps == ASSUME JournalInv, NEW w \in Writers, CloseJournal(w) PROVE JournalInv'
<1> USE DEF JournalInv
<1>1. UNCHANGED <<log, torn, durable, acked, spoiled, used>> /\ journal' = [journal EXCEPT ![w] = Shut]
  BY DEF CloseJournal
<1>2. Shut \in WriterStates /\ Shut.open = FALSE /\ Shut.new = 0
  BY DEF Shut, WriterStates
<1>3. /\ journal' \in [Writers -> WriterStates] /\ journal'[w] = Shut
      /\ \A v \in Writers \ {w} : journal'[v] = journal[v]
  BY <1>1, <1>2 DEF JournalTypes
<1>4. JournalTypes'
  BY <1>1, <1>3 DEF JournalTypes
<1>5. Linked' /\ AckedKept'
  BY <1>1 DEF Linked, AckedKept, Clean, HashOf
<1>6. WriterAt'
  BY <1>1, <1>2, <1>3 DEF WriterAt, Clean, HashOf
<1>7. Pending' /\ Unspoiled'
  BY <1>1, <1>2, <1>3 DEF Pending, Unspoiled, Clean
<1> QED
  BY <1>4, <1>5, <1>6, <1>7

\* A crash leaves a prefix with every durable line, and nobody at the journal.
LEMMA CrashKeeps == ASSUME JournalInv, CrashJournal PROVE JournalInv'
<1> USE DEF JournalInv
<1>1. UNCHANGED <<durable, acked, spoiled, used>> /\ journal' = [w \in Writers |-> Shut]
  BY DEF CrashJournal
<1>2. PICK n \in durable .. Len(log) :
        log' = SubSeq(log, 1, n) /\ torn' \in IF n < Len(log) THEN BOOLEAN ELSE {torn}
  BY DEF CrashJournal
<1>3. durable \in Nat /\ n \in Nat /\ durable <= n /\ n <= Len(log) /\ Len(log) \in Nat
  BY <1>2 DEF JournalTypes
<1>4. log' \in Seq(Lines) /\ Len(log') = n /\ \A k \in 1 .. n : log'[k] = log[k]
  BY <1>2, <1>3 DEF JournalTypes
<1>5. \A k \in 0 .. n : (Clean(k)' <=> Clean(k)) /\ HashOf(k)' = HashOf(k)
  BY <1>3, <1>4, SameLines
<1>6. Shut \in WriterStates /\ Shut.open = FALSE /\ Shut.new = 0
  BY DEF Shut, WriterStates
<1>7. journal' \in [Writers -> WriterStates] /\ \A w \in Writers : journal'[w] = Shut
  BY <1>1, <1>6
<1>8. torn' \in BOOLEAN
  BY <1>2 DEF JournalTypes
<1>9. durable' \in 0 .. Len(log')
  BY <1>1, <1>3, <1>4
<1>10. JournalTypes'
  BY <1>1, <1>4, <1>7, <1>8, <1>9 DEF JournalTypes
<1>11. Linked'
  <2> SUFFICES ASSUME NEW i \in 1 .. Len(log'), Clean(i)' PROVE log'[i].prev = HashOf(i - 1)'
    BY DEF Linked
  <2>1. i \in 1 .. n /\ i \in 0 .. n /\ i - 1 \in 0 .. n /\ i \in 1 .. Len(log)
    BY <1>3, <1>4
  <2> QED
    BY <2>1, <1>4, <1>5 DEF Linked
<1>12. AckedKept'
  <2> SUFFICES ASSUME NEW a \in acked PROVE \E k \in 1 .. durable : log'[k].id = a /\ Clean(k)'
    BY <1>1 DEF AckedKept
  <2>1. PICK k \in 1 .. durable : log[k].id = a /\ Clean(k)
    BY DEF AckedKept
  <2>2. k \in 1 .. n /\ k \in 0 .. n
    BY <1>3
  <2> QED
    BY <2>1, <2>2, <1>4, <1>5
<1>13. WriterAt' /\ Pending'
  BY <1>6, <1>7 DEF WriterAt, Pending
<1>14. ~spoiled => Clean(n)'
  <2>1. ~spoiled => Clean(Len(log))
    BY DEF Unspoiled
  <2>2. Clean(Len(log)) => Clean(n)
    BY <1>3 DEF Clean
  <2> QED
    BY <2>1, <2>2, <1>3, <1>5
<1>15. Unspoiled'
  BY <1>1, <1>4, <1>6, <1>7, <1>14 DEF Unspoiled, Clean
<1> QED
  BY <1>10, <1>11, <1>12, <1>13, <1>15

\* The journal's invariant, for a writer that is alone, over any number of
\* appends, short writes, crashes and openings.
THEOREM JournalInvariant == ASSUME Alone PROVE JournalSpec => []JournalInv
<1>1. JournalInit => JournalInv
  BY JournalStarts
<1>2. JournalInv /\ [JournalNext]_journalVars => JournalInv'
  <2> SUFFICES ASSUME JournalInv, [JournalNext]_journalVars PROVE JournalInv'
    OBVIOUS
  <2>1. CASE \E w \in Writers : OpenJournal(w)
    BY <2>1, OpenKeeps
  <2>2. CASE \E w \in Writers : AppendWrite(w)
    BY <2>2, WriteKeeps
  <2>3. CASE \E w \in Writers : AppendShort(w)
    BY <2>3, ShortKeeps
  <2>4. CASE \E w \in Writers : AppendSync(w)
    BY <2>4, SyncKeeps
  <2>8. CASE \E w \in Writers : SyncFails(w)
    BY <2>8, SyncFailsKeeps
  <2>5. CASE \E w \in Writers : CloseJournal(w)
    BY <2>5, CloseKeeps
  <2>6. CASE CrashJournal
    BY <2>6, CrashKeeps
  <2>7. CASE UNCHANGED journalVars
    BY <2>7 DEF journalVars, JournalInv, JournalTypes, Linked, AckedKept, WriterAt, Pending,
      Unspoiled, Clean, HashOf
  <2> QED
    BY <2>1, <2>2, <2>3, <2>4, <2>5, <2>6, <2>7, <2>8 DEF JournalNext
<1> QED
  BY <1>1, <1>2, PTL DEF JournalSpec

\* With one writer at a time, what Append has acknowledged stays in the chain that
\* `audit verify` counts, and the readable lines have no break (audit.go:35-37,
\* 48-51), over crashes at any byte, writes that stop half way and syncs that fail.
THEOREM AckedStays == ASSUME Alone PROVE JournalSpec => []AckedIntact
<1>1. JournalInv => AckedIntact
  <2> SUFFICES ASSUME JournalInv PROVE AckedIntact
    OBVIOUS
  <2>1. Len(log) \in Nat /\ durable \in 0 .. Len(log) /\ DOMAIN log = 1 .. Len(log)
    BY DEF JournalInv, JournalTypes
  <2>2. \A n \in DOMAIN log : Clean(n) => \A i \in 1 .. n : log[i].prev = HashOf(i - 1)
    <3> SUFFICES ASSUME NEW n \in DOMAIN log, Clean(n), NEW i \in 1 .. n
                 PROVE  log[i].prev = HashOf(i - 1)
      OBVIOUS
    <3>1. i \in 1 .. Len(log) /\ Clean(i)
      BY <2>1 DEF Clean
    <3> QED
      BY <3>1 DEF JournalInv, Linked
  <2>3. Intact = Readable
    BY <2>2 DEF Intact, Readable, Clean
  <2>4. \A a \in acked : \E n \in Readable : log[n].id = a
    <3> SUFFICES ASSUME NEW a \in acked PROVE \E n \in Readable : log[n].id = a
      OBVIOUS
    <3>1. PICK n \in 1 .. durable : log[n].id = a /\ Clean(n)
      BY DEF JournalInv, AckedKept
    <3>2. n \in Readable
      BY <2>1, <3>1 DEF Readable, Clean
    <3> QED
      BY <3>1, <3>2
  <2> QED
    BY <2>3, <2>4 DEF AckedIntact
<1> QED
  BY <1>1, JournalInvariant, PTL

=============================================================================
