------------------------- MODULE Completion_proofs --------------------------
(* A session over a whole manifest, for every manifest, credit and size of  *)
(* batch, and whatever fails: types, the walker's credit, the sender's      *)
(* report, the single outcome of an entry, and the order of the post-pass.  *)
EXTENDS Completion, SequenceTheorems, FiniteSetTheorems, TLAPS

(***************************************************************************)
(* The invariant.  An entry is in one place at a time on its way through   *)
(* the receiver: so whoever settles it finds it unsettled.  What the       *)
(* messages say is what their sender did and never took back.              *)
(***************************************************************************)
Mail(q) == {q[i] : i \in DOMAIN q}

ToReceiver == [type : {"entry", "fileError"}, id : Entry] \cup {EndMsg}
ToSender ==
  [type : {"have"}, id : Entry, what : {"skip", "all", "part"}]
  \cup [type : {"result"}, id : Entry, what : {"ok", "error"}] \cup {DoneMsg}

QueueTypes == toR \in Seq(ToReceiver) /\ toS \in Seq(ToSender)

\* No message of type t is on the queue twice.
Distinct(q, t) == \A i, j \in DOMAIN q : i # j /\ q[i] = q[j] => q[i].type # t

\* The batch is what was walked last.
Batched ==
  /\ Len(batch) <= walked
  /\ \A i \in DOMAIN batch : batch[i] = walked - Len(batch) + i

\* What the receiver has not been told of: it is nowhere else.
Untold(e) == e > walked - Len(batch) \/ EntryMsg(e) \in Mail(toR)
Fresh(e) ==
  outcome[e] = "none" /\ rx[e] = "none" /\ held # e /\ e \notin preparing \cup links
Queued ==
  /\ Distinct(toR, "entry")
  /\ \A e \in Entry : EntryMsg(e) \in Mail(toR) => e <= walked - Len(batch)
  /\ \A e \in Entry : Untold(e) => Fresh(e)

\* One place at a time, until the outcome.
Placed ==
  /\ held # 0 => /\ Regular(held) /\ held \notin preparing
                 /\ outcome[held] = "none" /\ rx[held] = "none"
  /\ \A e \in preparing : Regular(e) /\ outcome[e] = "none" /\ rx[e] = "none"
  /\ \A e \in links : ~Regular(e) /\ rx[e] = "none" /\ (watch = "wait" \/ e \in jobs => outcome[e] = "none")
  /\ jobs # {} => watch \in {"post", "last"}

\* What files[] says of an entry, and its outcome.
Registry ==
  \A e \in Entry :
    /\ rx[e] = "open" => outcome[e] = "none"
    /\ rx[e] = "ok" => outcome[e] = "ok"
    /\ rx[e] = "error" => outcome[e] \in {"error", "sender"}

PlaceInv == TypeOK /\ QueueTypes /\ Batched /\ Queued /\ Placed /\ Registry

\* The results on their way, and those counted, are the receiver's outcomes.
ResultsTrue == \A e \in Entry, o \in {"ok", "error"} : ResultMsg(e, o) \in Mail(toS) => outcome[e] = o

ReportInv == ResultsTrue /\ ReportSound

\* The sender has an answer only on an entry the receiver came to.
Known(e) == rx[e] # "none" \/ outcome[e] # "none"
Answered ==
  /\ \A e \in Entry, h \in {"skip", "all", "part"} : HaveMsg(e, h) \in Mail(toS) => Known(e)
  /\ \A e \in Entry : have[e] # "none" \/ e \in resolvedIDs => Known(e)
  /\ \A e \in sent : have[e] = "part"

CreditInv == ReportInv /\ Answered /\ CreditHeld

\* The sender believes a file is in parts only if the receiver has it so.
Told(e) == have[e] = "part" \/ HaveMsg(e, "part") \in Mail(toS)
InParts ==
  /\ \A e \in frames : e \in sent
  /\ \A e \in finalQ : rx[e] # "none"
  /\ \A e \in Entry : Told(e) => rx[e] \in {"open", "ok", "error"}

\* A file in parts is settled by the receiver alone only after its chunks came.
SettledBySent ==
  \A e \in Entry :
    Told(e) /\ (e \in finalQ \/ (rx[e] = "error" /\ outcome[e] = "error")) => e \in sent

\* The sender gives a file up once, and the receiver hears it once.
GivenUp ==
  /\ Distinct(toR, "fileError")
  /\ \A e \in Entry :
       /\ FileErrorMsg(e) \in Mail(toR) => e \in errS /\ have[e] = "part" /\ outcome[e] # "sender"
       /\ outcome[e] = "sender" => e \in errS

PartInv == InParts /\ SettledBySent /\ GivenUp

\* The receiver's count is right until the sender fails a file it had settled, and
\* then too high for good.
Count == ~Crossed => rResolved = Cardinality(Settled)
Ahead == rResolved >= Cardinality(Settled)

OrderInv == Count /\ Ahead /\ PassOrder

-----------------------------------------------------------------------------
(* Queues *)

\* What the rest of a queue holds, and its head.
LEMMA TailMail ==
  ASSUME NEW S, NEW q \in Seq(S), q # <<>>
  PROVE  /\ Tail(q) \in Seq(S) /\ Head(q) \in S /\ Mail(q) = {Head(q)} \cup Mail(Tail(q))
         /\ \A t : Distinct(q, t) =>
              Distinct(Tail(q), t) /\ (Head(q).type = t => Head(q) \notin Mail(Tail(q)))
<1>1. /\ Tail(q) \in Seq(S) /\ Head(q) \in S /\ Len(q) \in Nat \ {0} /\ Head(q) = q[1]
      /\ Len(Tail(q)) = Len(q) - 1 /\ \A i \in 1 .. Len(Tail(q)) : Tail(q)[i] = q[i + 1]
  BY HeadTailProperties, EmptySeq, LenProperties
<1>2. DOMAIN q = 1 .. Len(q) /\ DOMAIN Tail(q) = 1 .. Len(Tail(q))
  BY <1>1, LenProperties
<1>3. \A i \in DOMAIN Tail(q) : i + 1 \in DOMAIN q /\ Tail(q)[i] = q[i + 1] /\ i + 1 # 1
  BY <1>1, <1>2
<1>4. \A i \in DOMAIN q : i = 1 \/ (i - 1 \in DOMAIN Tail(q) /\ Tail(q)[i - 1] = q[i])
  BY <1>1, <1>2
<1>5. Mail(q) = {Head(q)} \cup Mail(Tail(q))
  <2>1. ASSUME NEW m \in Mail(q), m # q[1] PROVE m \in Mail(Tail(q))
    BY <1>4, <2>1 DEF Mail
  <2>2. ASSUME NEW m \in Mail(Tail(q)) PROVE m \in Mail(q)
    BY <1>3 DEF Mail
  <2>3. q[1] \in Mail(q)
    BY <1>1, <1>2 DEF Mail
  <2> QED
    BY <1>1, <2>1, <2>2, <2>3
<1>6. ASSUME NEW t, Distinct(q, t)
      PROVE  Distinct(Tail(q), t) /\ (Head(q).type = t => Head(q) \notin Mail(Tail(q)))
  <2>1. Distinct(Tail(q), t)
    <3> SUFFICES ASSUME NEW i \in DOMAIN Tail(q), NEW j \in DOMAIN Tail(q), i # j, Tail(q)[i] = Tail(q)[j]
                 PROVE  Tail(q)[i].type # t
      BY DEF Distinct
    <3>1. i + 1 # j + 1
      BY <1>2
    <3> QED
      BY <1>3, <1>6, <3>1 DEF Distinct
  <2>2. ASSUME Head(q).type = t PROVE Head(q) \notin Mail(Tail(q))
    BY <1>1, <1>2, <1>3, <1>6, <2>2 DEF Mail, Distinct
  <2> QED
    BY <2>1, <2>2
<1> QED
  BY <1>1, <1>5, <1>6

\* What a queue holds when more is put on it.
LEMMA JoinedMail ==
  ASSUME NEW S, NEW q \in Seq(S), NEW r \in Seq(S)
  PROVE  /\ q \o r \in Seq(S) /\ Mail(q \o r) = Mail(q) \cup Mail(r)
         /\ \A t : Distinct(q, t) /\ Distinct(r, t) /\ (\A m \in Mail(q) \cap Mail(r) : m.type # t)
                   => Distinct(q \o r, t)
<1>1. /\ q \o r \in Seq(S) /\ Len(q \o r) = Len(q) + Len(r) /\ Len(q) \in Nat /\ Len(r) \in Nat
      /\ \A i \in 1 .. Len(q) + Len(r) : (q \o r)[i] = IF i <= Len(q) THEN q[i] ELSE r[i - Len(q)]
  BY ConcatProperties, LenProperties
<1>2. DOMAIN q = 1 .. Len(q) /\ DOMAIN r = 1 .. Len(r) /\ DOMAIN (q \o r) = 1 .. Len(q) + Len(r)
  BY <1>1, LenProperties
<1>3. \A i \in DOMAIN (q \o r) :
        \/ i \in DOMAIN q /\ (q \o r)[i] = q[i]
        \/ i \notin DOMAIN q /\ i - Len(q) \in DOMAIN r /\ (q \o r)[i] = r[i - Len(q)]
  BY <1>1, <1>2
<1>4. \A i \in DOMAIN q : i \in DOMAIN (q \o r) /\ (q \o r)[i] = q[i]
  BY <1>1, <1>2
<1>5. \A i \in DOMAIN r : i + Len(q) \in DOMAIN (q \o r) /\ (q \o r)[i + Len(q)] = r[i]
  BY <1>1, <1>2
<1>6. Mail(q \o r) = Mail(q) \cup Mail(r)
  <2>1. ASSUME NEW m \in Mail(q \o r) PROVE m \in Mail(q) \cup Mail(r)
    BY <1>3 DEF Mail
  <2>2. ASSUME NEW m \in Mail(q) PROVE m \in Mail(q \o r)
    BY <1>4 DEF Mail
  <2>3. ASSUME NEW m \in Mail(r) PROVE m \in Mail(q \o r)
    BY <1>5 DEF Mail
  <2> QED
    BY <2>1, <2>2, <2>3
<1>7. ASSUME NEW t, Distinct(q, t), Distinct(r, t), \A m \in Mail(q) \cap Mail(r) : m.type # t,
             NEW i \in DOMAIN (q \o r), NEW j \in DOMAIN (q \o r), i # j, (q \o r)[i] = (q \o r)[j]
      PROVE  (q \o r)[i].type # t
  <2>1. i \in Nat /\ j \in Nat /\ i - Len(q) # j - Len(q)
    BY <1>1, <1>2, <1>7
  <2>2. CASE i \in DOMAIN q /\ j \in DOMAIN q
    BY <1>3, <1>4, <1>7, <2>2 DEF Distinct
  <2>3. CASE i \notin DOMAIN q /\ j \notin DOMAIN q
    BY <1>3, <1>7, <2>1, <2>3 DEF Distinct
  <2>4. CASE i \in DOMAIN q /\ j \notin DOMAIN q
    BY <1>3, <1>4, <1>7, <2>4 DEF Mail
  <2>5. CASE i \notin DOMAIN q /\ j \in DOMAIN q
    BY <1>3, <1>4, <1>7, <2>5 DEF Mail
  <2> QED
    BY <2>2, <2>3, <2>4, <2>5
<1> QED
  BY <1>1, <1>6, <1>7 DEF Distinct

\* Short queues.
LEMMA ShortMail ==
  /\ Mail(<<>>) = {} /\ \A t : Distinct(<<>>, t)
  /\ \A m : Mail(<<m>>) = {m} /\ (\A t : Distinct(<<m>>, t))
  /\ \A m, n : Mail(<<m, n>>) = {m, n}
BY DEF Mail, Distinct

\* A control frame goes on the queue, or is lost with the connection.
LEMMA SendMail ==
  ASSUME NEW S, NEW q \in Seq(S), NEW ms \in Seq(S)
  PROVE  /\ Send(q, ms) \in Seq(S) /\ Mail(Send(q, ms)) \subseteq Mail(q) \cup Mail(ms)
         /\ \A t : Distinct(q, t) /\ Distinct(ms, t) /\ (\A m \in Mail(q) \cap Mail(ms) : m.type # t)
                   => Distinct(Send(q, ms), t)
BY JoinedMail DEF Send

-----------------------------------------------------------------------------
(* Manifest and messages *)

\* The entries of a manifest are numbered, and of the four kinds.
LEMMA Entries ==
  ASSUME manifest \in Manifests
  PROVE  /\ Total \in Nat \ {0} /\ Entry = 1 .. Total
         /\ \A e \in Entry : KindOf(e) \in Kind /\ (Regular(e) <=> KindOf(e) \in {"file", "empty"})
         /\ IsFiniteSet(Entry) /\ Cardinality(Entry) = Total
         /\ \A e \in Entry : KindOf(e) = "link" => manifest[e].ref \in Entry /\ Regular(manifest[e].ref)
<1>1. manifest \in Seq([kind : Kind, ref : Nat]) /\ manifest # <<>>
  BY ManifestAssumption
<1>2. Total \in Nat \ {0} /\ Entry = 1 .. Total
  BY <1>1, LenProperties, EmptySeq DEF Total, Entry
<1>3. \A e \in Entry : manifest[e] \in [kind : Kind, ref : Nat]
  BY <1>1, <1>2, ElementOfSeq DEF Total
<1>4. IsFiniteSet(Entry) /\ Cardinality(Entry) = Total
  BY <1>2, FS_Interval
<1>5. \A e \in Entry : KindOf(e) = "link" => manifest[e].ref \in Entry /\ Regular(manifest[e].ref)
  BY <1>2, ManifestAssumption DEF Entry, KindOf, Regular
<1> QED
  BY <1>2, <1>3, <1>4, <1>5 DEF KindOf, Regular, Data

\* What messages there are.
LEMMA Messages ==
  /\ \A e \in Entry : EntryMsg(e) \in ToReceiver /\ FileErrorMsg(e) \in ToReceiver
  /\ EndMsg \in ToReceiver /\ DoneMsg \in ToSender
  /\ \A e \in Entry, h \in {"skip", "all", "part"} : HaveMsg(e, h) \in ToSender
  /\ \A e \in Entry, o \in {"ok", "error"} : ResultMsg(e, o) \in ToSender
  /\ \A m \in ToReceiver :
       /\ m.type = "entry" => m.id \in Entry /\ m = EntryMsg(m.id)
       /\ m.type = "fileError" => m.id \in Entry /\ m = FileErrorMsg(m.id)
  /\ \A m \in ToSender :
       /\ m.type = "have" => m.id \in Entry /\ m.what \in {"skip", "all", "part"} /\ m = HaveMsg(m.id, m.what)
       /\ m.type = "result" => m.id \in Entry /\ m.what \in {"ok", "error"} /\ m = ResultMsg(m.id, m.what)
<1> USE DEF EntryMsg, FileErrorMsg, EndMsg, HaveMsg, ResultMsg, DoneMsg, ToReceiver, ToSender
<1>1. /\ \A e \in Entry : EntryMsg(e) \in ToReceiver /\ FileErrorMsg(e) \in ToReceiver
      /\ EndMsg \in ToReceiver /\ DoneMsg \in ToSender
  OBVIOUS
<1>2. /\ \A e \in Entry, h \in {"skip", "all", "part"} : HaveMsg(e, h) \in ToSender
      /\ \A e \in Entry, o \in {"ok", "error"} : ResultMsg(e, o) \in ToSender
  OBVIOUS
<1>3. ASSUME NEW m \in ToReceiver
      PROVE  /\ m.type = "entry" => m.id \in Entry /\ m = EntryMsg(m.id)
             /\ m.type = "fileError" => m.id \in Entry /\ m = FileErrorMsg(m.id)
  OBVIOUS
<1>4. ASSUME NEW m \in ToSender
      PROVE  /\ m.type = "have" => /\ m.id \in Entry /\ m.what \in {"skip", "all", "part"}
                                   /\ m = HaveMsg(m.id, m.what)
             /\ m.type = "result" => /\ m.id \in Entry /\ m.what \in {"ok", "error"}
                                     /\ m = ResultMsg(m.id, m.what)
  OBVIOUS
<1> QED
  BY <1>1, <1>2, <1>3, <1>4

\* Different messages are told apart.
LEMMA MessagesDiffer ==
  /\ \A e, f : (EntryMsg(e) = EntryMsg(f) => e = f) /\ EntryMsg(e) # FileErrorMsg(f)
  /\ \A e, f : FileErrorMsg(e) = FileErrorMsg(f) => e = f
  /\ \A e : EntryMsg(e) # EndMsg /\ FileErrorMsg(e) # EndMsg
  /\ \A e, f, h, g : HaveMsg(e, h) = HaveMsg(f, g) => e = f /\ h = g
  /\ \A e, f, h, g : ResultMsg(e, h) = ResultMsg(f, g) => e = f /\ h = g
  /\ \A e, f, h, g : HaveMsg(e, h) # ResultMsg(f, g)
  /\ \A e, h : HaveMsg(e, h) # DoneMsg /\ ResultMsg(e, h) # DoneMsg
BY DEF EntryMsg, FileErrorMsg, EndMsg, HaveMsg, ResultMsg, DoneMsg

\* The messages of a batch.
LEMMA BatchMail ==
  ASSUME TypeOK, Batched
  PROVE  /\ Msgs(batch) \in Seq(ToReceiver) /\ \A t : Distinct(Msgs(batch), t)
         /\ \A m \in Mail(Msgs(batch)) : \E e \in Entry : m = EntryMsg(e)
         /\ \A e \in Entry : EntryMsg(e) \in Mail(Msgs(batch)) => e > walked - Len(batch) /\ e <= walked
<1>1. batch \in Seq(Entry) /\ Len(batch) \in Nat /\ DOMAIN batch = 1 .. Len(batch)
      /\ \A i \in DOMAIN batch : batch[i] \in Entry
  BY LenProperties, ElementOfSeq DEF TypeOK, TypeSender
<1>2. Msgs(batch) \in [1 .. Len(batch) -> ToReceiver]
  BY <1>1, Messages DEF Msgs
<1>3. Msgs(batch) \in Seq(ToReceiver)
  BY <1>1, <1>2
<1>4. /\ DOMAIN Msgs(batch) = DOMAIN batch
      /\ \A i \in DOMAIN batch : Msgs(batch)[i] = EntryMsg(batch[i]) /\ batch[i] = walked - Len(batch) + i
  BY <1>1 DEF Msgs, Batched
<1>5. walked \in Nat /\ \A i \in DOMAIN batch : batch[i] > walked - Len(batch) /\ batch[i] <= walked
  BY <1>1, <1>4, Entries DEF TypeOK, TypeSender
<1>6. \A m \in Mail(Msgs(batch)) : \E i \in DOMAIN batch : m = EntryMsg(batch[i])
  BY <1>4 DEF Mail
<1>7. ASSUME NEW i \in DOMAIN batch, NEW j \in DOMAIN batch, i # j PROVE Msgs(batch)[i] # Msgs(batch)[j]
  BY <1>1, <1>4, <1>5, <1>7, MessagesDiffer
<1>8. \A t : Distinct(Msgs(batch), t)
  BY <1>4, <1>7 DEF Distinct
<1> QED
  BY <1>1, <1>3, <1>5, <1>6, <1>8, MessagesDiffer

-----------------------------------------------------------------------------
(* One place at a time: frames *)

\* At first nothing is anywhere.
LEMMA PlaceInit == ASSUME Init PROVE PlaceInv
<1> USE DEF Init
<1>1. Total \in Nat /\ Entry = 1 .. Total
  BY Entries
<1>2. TypeSender
  BY <1>1, EmptySeq DEF TypeSender
<1>3. TypeReceiver
  <2>1. phase = "run" /\ held \in 0 .. Total /\ preparing \in SUBSET Entry /\ links \in SUBSET Entry
        /\ finalQ \in SUBSET Entry /\ jobs \in SUBSET links /\ watch = "wait"
    BY <1>1
  <2>2. rx \in [Entry -> {"none", "open", "stub", "ok", "error"}]
        /\ outcome \in [Entry -> {"none", "ok", "error", "sender"}]
    OBVIOUS
  <2>3. manifestDone \in BOOLEAN /\ rResolved \in Nat
    OBVIOUS
  <2> HIDE DEF Init
  <2> QED
    BY <2>1, <2>2, <2>3 DEF TypeReceiver
<1>4. TypeOK
  BY <1>1, <1>2, <1>3 DEF TypeOK
<1>5. QueueTypes
  BY EmptySeq DEF QueueTypes
<1>6. Len(batch) = 0 /\ DOMAIN batch = {} /\ walked = 0
  BY EmptySeq
<1>7. Batched
  BY <1>6 DEF Batched
<1>8. Queued
  BY <1>1, <1>6, ShortMail DEF Queued, Untold, Fresh
<1>9. Placed /\ Registry
  BY <1>1 DEF Placed, Registry
<1> QED
  BY <1>4, <1>5, <1>7, <1>8, <1>9 DEF PlaceInv

\* A step in which the receiver is still: nothing it was told of is untold again.
LEMMA SenderFrame ==
  ASSUME PlaceInv, UNCHANGED <<manifest, disk, rxVars>>, TypeSender', conn' \in {"up", "closed"},
         frames' \in SUBSET Entry, QueueTypes', Batched', Distinct(toR', "entry"),
         \A e \in Entry : EntryMsg(e) \in Mail(toR') => e <= walked' - Len(batch'),
         \A e \in Entry : Untold(e)' => Untold(e)
  PROVE  PlaceInv'
<1>1. Entry' = Entry /\ \A e \in Entry : Regular(e)' = Regular(e)
  BY DEF Entry, Regular, KindOf
<1>2. TypeOK'
  BY <1>1 DEF PlaceInv, TypeOK, TypeReceiver, rxVars, Total, Entry
<1>3. Queued'
  BY <1>1 DEF PlaceInv, Queued, Fresh, rxVars
<1>4. Placed'
  BY <1>1 DEF PlaceInv, Placed, Regular, KindOf, rxVars
<1>5. Registry'
  BY <1>1 DEF PlaceInv, Registry, rxVars
<1> QED
  BY <1>2, <1>3, <1>4, <1>5 DEF PlaceInv

\* A step in which the walker is still as well, and no entry is sent.
LEMMA WalkerFrame ==
  ASSUME PlaceInv, UNCHANGED <<manifest, disk, rxVars, walked, batch>>, TypeSender',
         conn' \in {"up", "closed"}, frames' \in SUBSET Entry,
         toR' \in Seq(ToReceiver), toS' \in Seq(ToSender), Distinct(toR', "entry"),
         \A e \in Entry : EntryMsg(e) \in Mail(toR') => EntryMsg(e) \in Mail(toR)
  PROVE  PlaceInv'
<1>1. QueueTypes'
  BY DEF QueueTypes, ToReceiver, ToSender, Entry
<1>2. Batched'
  BY DEF PlaceInv, Batched
<1>3. \A e \in Entry : EntryMsg(e) \in Mail(toR') => e <= walked' - Len(batch')
  BY DEF PlaceInv, Queued
<1>4. \A e \in Entry : Untold(e)' => Untold(e)
  BY DEF Untold
<1> QED
  BY <1>1, <1>2, <1>3, <1>4, SenderFrame

\* The connection goes.
LEMMA LostFrame ==
  ASSUME PlaceInv, CloseConn, UNCHANGED <<manifest, disk, sendVars, rxVars>> PROVE PlaceInv'
<1>1. TypeSender'
  BY DEF PlaceInv, TypeOK, TypeSender, sendVars, Entry, Total
<1>2. toR' = <<>> /\ toS' = <<>> /\ frames' = {} /\ conn' = "closed"
  BY DEF CloseConn
<1> QED
  BY <1>1, <1>2, WalkerFrame, ShortMail, EmptySeq DEF sendVars

\* A step in which the sender is still: what the receiver was not told of stays so.
LEMMA ReceiverFrame ==
  ASSUME PlaceInv, UNCHANGED <<manifest, disk, sendVars>>, TypeReceiver', held' \notin preparing',
         conn' \in {"up", "closed"}, frames' \in SUBSET Entry,
         toR' \in Seq(ToReceiver), toS' \in Seq(ToSender), Distinct(toR', "entry"),
         Mail(toR') \subseteq Mail(toR),
         \A e \in Entry : Untold(e)' /\ Untold(e) /\ Fresh(e) => Fresh(e)',
         Placed', Registry'
  PROVE  PlaceInv'
<1>1. Entry' = Entry
  BY DEF Entry
<1>2. TypeSender' /\ TypeOK'
  BY <1>1 DEF PlaceInv, TypeOK, TypeSender, sendVars, Entry, Total
<1>3. QueueTypes' /\ Batched'
  BY DEF PlaceInv, QueueTypes, Batched, ToReceiver, ToSender, Entry, sendVars
<1>4. \A e \in Entry : Untold(e)' => Untold(e)
  BY DEF Untold, sendVars
<1>5. Queued'
  BY <1>1, <1>4 DEF PlaceInv, Queued, sendVars
<1> QED
  BY <1>2, <1>3, <1>5 DEF PlaceInv

\* A step that takes one entry, which the receiver has been told of, a place further.
LEMMA MovesOne ==
  ASSUME PlaceInv, NEW e \in Entry, ~Fresh(e), held # e,
         UNCHANGED <<manifest, disk, sendVars, held, links, watch>>,
         TypeReceiver', conn' \in {"up", "closed"}, frames' \in SUBSET Entry,
         toR' \in Seq(ToReceiver), toS' \in Seq(ToSender), Distinct(toR', "entry"),
         Mail(toR') \subseteq Mail(toR),
         preparing' \subseteq preparing \ {e}, jobs' \subseteq jobs \ {e},
         \A f \in Entry \ {e} : rx'[f] = rx[f] /\ outcome'[f] = outcome[f],
         e \in links => watch # "wait" /\ rx'[e] = "none",
         rx'[e] = "open" => outcome'[e] = "none",
         rx'[e] = "ok" => outcome'[e] = "ok",
         rx'[e] = "error" => outcome'[e] \in {"error", "sender"}
  PROVE  PlaceInv'
<1>1. Entry' = Entry /\ Entry = 1 .. Total /\ Total \in Nat /\ \A f : Regular(f)' = Regular(f)
  BY Entries DEF Entry, Regular, KindOf, PlaceInv, TypeOK
<1>2. held \in 0 .. Total /\ preparing \in SUBSET Entry /\ links \in SUBSET Entry
  BY DEF PlaceInv, TypeOK, TypeReceiver
<1>3. \A f \in Entry : Untold(f)' /\ Untold(f) /\ Fresh(f) => Fresh(f)'
  BY DEF Fresh
<1>4. Placed'
  <2>1. (held # 0 => /\ Regular(held) /\ held \notin preparing
                     /\ outcome[held] = "none" /\ rx[held] = "none")'
    BY <1>1, <1>2 DEF PlaceInv, Placed
  <2>2. (\A f \in preparing : Regular(f) /\ outcome[f] = "none" /\ rx[f] = "none")'
    BY <1>1, <1>2 DEF PlaceInv, Placed
  <2>3. (\A f \in links : ~Regular(f) /\ rx[f] = "none" /\ (watch = "wait" \/ f \in jobs => outcome[f] = "none"))'
    BY <1>1, <1>2 DEF PlaceInv, Placed
  <2>4. (jobs # {} => watch \in {"post", "last"})'
    BY DEF PlaceInv, Placed
  <2> QED
    BY <2>1, <2>2, <2>3, <2>4 DEF Placed
<1>5. Registry'
  BY <1>1 DEF PlaceInv, Registry
<1>6. held' \notin preparing'
  BY DEF PlaceInv, TypeOK
<1> QED
  BY <1>3, <1>4, <1>5, <1>6, ReceiverFrame

-----------------------------------------------------------------------------
(* One place at a time: the sender *)

\* Walk: the next entry joins the batch, the batch before it may go out.
LEMMA WalkPlace == ASSUME PlaceInv, Walk PROVE PlaceInv'
<1>1. /\ TypeOK /\ QueueTypes /\ Batched /\ Queued
      /\ Total \in Nat /\ Entry = 1 .. Total /\ walked \in Nat /\ walked < Total /\ walked' = walked + 1
      /\ UNCHANGED <<manifest, disk, rxVars, have, sent, checked, resolvedIDs, okS, errS, sRun, conn, toS, frames>>
  BY Entries DEF PlaceInv, TypeOK, TypeSender, Walk
<1>2. batch \in Seq(Entry) /\ Len(batch) \in Nat /\ DOMAIN batch = 1 .. Len(batch) /\ walked' \in Entry
  BY <1>1, LenProperties DEF TypeOK, TypeSender
<1>3. Entry' = Entry /\ Total' = Total /\ ToReceiver' = ToReceiver /\ ToSender' = ToSender
  BY <1>1 DEF Entry, Total, ToReceiver, ToSender
<1>4. gates' \in Int
  BY <1>1 DEF Walk, TypeOK, TypeSender
<1>5. CASE batch' = <<walked'>> /\ toR' = toR \o Msgs(batch)
  <2>1. batch' \in Seq(Entry) /\ Len(batch') = 1 /\ DOMAIN batch' = 1 .. 1 /\ batch'[1] = walked'
    BY <1>2, <1>5
  <2>2. TypeSender'
    BY <1>1, <1>2, <1>3, <1>4, <2>1 DEF TypeOK, TypeSender
  <2>3. toR' \in Seq(ToReceiver) /\ Mail(toR') = Mail(toR) \cup Mail(Msgs(batch))
    BY <1>1, <1>5, BatchMail, JoinedMail DEF QueueTypes
  <2>4. \A m \in Mail(toR) \cap Mail(Msgs(batch)) : FALSE
    <3> SUFFICES ASSUME NEW e \in Entry, EntryMsg(e) \in Mail(toR), EntryMsg(e) \in Mail(Msgs(batch)) PROVE FALSE
      BY <1>1, BatchMail
    <3>1. e \in Int /\ e <= walked - Len(batch) /\ e > walked - Len(batch)
      BY <1>1, BatchMail DEF Queued
    <3> QED
      BY <1>1, <1>2, <3>1
  <2>5. Distinct(toR', "entry")
    BY <1>1, <1>5, <2>4, BatchMail, JoinedMail DEF QueueTypes, Queued
  <2>6. Batched'
    BY <1>1, <2>1 DEF Batched
  <2>7. \A e \in Entry : EntryMsg(e) \in Mail(toR') => e <= walked' - Len(batch')
    <3> SUFFICES ASSUME NEW e \in Entry, EntryMsg(e) \in Mail(toR') PROVE e <= walked' - Len(batch')
      OBVIOUS
    <3>1. e \in Int /\ (e <= walked - Len(batch) \/ e <= walked)
      BY <1>1, <2>3, BatchMail DEF Queued
    <3> QED
      BY <1>1, <1>2, <2>1, <3>1
  <2>8. \A e \in Entry : Untold(e)' => Untold(e)
    <3> SUFFICES ASSUME NEW e \in Entry, Untold(e)' PROVE Untold(e)
      OBVIOUS
    <3>1. CASE e > walked' - Len(batch')
      BY <1>1, <1>2, <2>1, <3>1 DEF Untold
    <3>2. CASE EntryMsg(e) \in Mail(toR')
      BY <1>1, <2>3, <3>2, BatchMail DEF Untold
    <3> QED
      BY <3>1, <3>2 DEF Untold
  <2>9. QueueTypes'
    BY <1>1, <1>3, <2>3 DEF QueueTypes
  <2> QED
    BY <1>1, <2>2, <2>5, <2>6, <2>7, <2>8, <2>9, SenderFrame DEF TypeOK
<1>6. CASE batch' = Append(batch, walked') /\ toR' = toR
  <2>1. batch' \in Seq(Entry) /\ Len(batch') = Len(batch) + 1 /\ DOMAIN batch' = 1 .. Len(batch) + 1
        /\ batch'[Len(batch) + 1] = walked' /\ \A i \in DOMAIN batch : batch'[i] = batch[i]
    BY <1>2, <1>6, AppendProperties, LenProperties
  <2>2. TypeSender'
    BY <1>1, <1>2, <1>3, <1>4, <2>1 DEF TypeOK, TypeSender
  <2>3. walked' - Len(batch') = walked - Len(batch)
    BY <1>1, <1>2, <2>1
  <2>4. Batched'
    <3>1. Len(batch') <= walked'
      BY <1>1, <1>2, <2>1 DEF Batched
    <3>2. ASSUME NEW i \in DOMAIN batch' PROVE batch'[i] = walked' - Len(batch') + i
      <4>1. CASE i \in DOMAIN batch
        BY <1>1, <2>1, <2>3, <4>1 DEF Batched
      <4>2. CASE i = Len(batch) + 1
        BY <1>1, <1>2, <2>1, <2>3, <4>2
      <4> QED
        BY <1>2, <2>1, <3>2, <4>1, <4>2
    <3> QED
      BY <3>1, <3>2 DEF Batched
  <2>5. \A e \in Entry : EntryMsg(e) \in Mail(toR') => e <= walked' - Len(batch')
    BY <1>1, <1>6, <2>3 DEF Queued
  <2>6. \A e \in Entry : Untold(e)' => Untold(e)
    BY <1>6, <2>3 DEF Untold
  <2>7. Distinct(toR', "entry") /\ QueueTypes'
    BY <1>1, <1>3, <1>6 DEF Queued, QueueTypes
  <2> QED
    BY <1>1, <2>2, <2>4, <2>5, <2>6, <2>7, SenderFrame DEF TypeOK
<1> QED
  BY <1>1, <1>5, <1>6 DEF Walk

\* WalkEnd: what is left of the batch goes out.
LEMMA WalkEndPlace == ASSUME PlaceInv, WalkEnd PROVE PlaceInv'
<1>1. /\ TypeOK /\ QueueTypes /\ Batched /\ Queued
      /\ Total \in Nat /\ Entry = 1 .. Total /\ walked = Total /\ walked' = walked
      /\ UNCHANGED <<manifest, disk, rxVars, gates, have, sent, checked, resolvedIDs, okS, errS, conn, toS, frames>>
      /\ sRun' = "wait" /\ batch' = <<>> /\ toR' = toR \o Msgs(batch) \o <<EndMsg>>
  BY Entries DEF PlaceInv, TypeOK, TypeSender, WalkEnd
<1>2. batch \in Seq(Entry) /\ Len(batch) \in Nat /\ Len(batch') = 0 /\ DOMAIN batch' = {} /\ batch' \in Seq(Entry)
  BY <1>1, LenProperties DEF TypeOK, TypeSender
<1>3. Entry' = Entry /\ Total' = Total /\ ToReceiver' = ToReceiver /\ ToSender' = ToSender
  BY <1>1 DEF Entry, Total, ToReceiver, ToSender
<1>4. TypeSender'
  BY <1>1, <1>2, <1>3 DEF TypeOK, TypeSender
<1>5. <<EndMsg>> \in Seq(ToReceiver) /\ Mail(<<EndMsg>>) = {EndMsg} /\ \A t : Distinct(<<EndMsg>>, t)
  BY Messages, ShortMail
<1> DEFINE early == toR \o Msgs(batch)
<1>6. early \in Seq(ToReceiver) /\ Mail(early) = Mail(toR) \cup Mail(Msgs(batch))
  BY <1>1, BatchMail, JoinedMail DEF QueueTypes
<1>7. \A m \in Mail(toR) \cap Mail(Msgs(batch)) : FALSE
  <2> SUFFICES ASSUME NEW e \in Entry, EntryMsg(e) \in Mail(toR), EntryMsg(e) \in Mail(Msgs(batch)) PROVE FALSE
    BY <1>1, BatchMail
  <2>1. e \in Int /\ e <= walked - Len(batch) /\ e > walked - Len(batch)
    BY <1>1, BatchMail DEF Queued
  <2> QED
    BY <1>1, <1>2, <2>1
<1>8. Distinct(early, "entry")
  BY <1>1, <1>7, BatchMail, JoinedMail DEF QueueTypes, Queued
<1> HIDE DEF early
<1>9. toR' = early \o <<EndMsg>>
  BY <1>1 DEF early
<1>10. toR' \in Seq(ToReceiver) /\ Mail(toR') = Mail(early) \cup {EndMsg} /\ Distinct(toR', "entry")
  <2>1. \A m \in Mail(early) \cap {EndMsg} : m.type # "entry"
    BY DEF EndMsg
  <2> QED
    BY <1>5, <1>6, <1>8, <1>9, <2>1, JoinedMail
<1>11. \A e \in Entry : EntryMsg(e) \in Mail(toR') => EntryMsg(e) \in Mail(toR) \/ EntryMsg(e) \in Mail(Msgs(batch))
  BY <1>6, <1>10, MessagesDiffer
<1>12. \A e \in Entry : EntryMsg(e) \in Mail(toR') => e <= walked' - Len(batch')
  BY <1>1, <1>2
<1>13. \A e \in Entry : Untold(e)' => Untold(e)
  <2> SUFFICES ASSUME NEW e \in Entry, Untold(e)' PROVE Untold(e)
    OBVIOUS
  <2>1. EntryMsg(e) \in Mail(toR')
    <3>1. ~(e > walked' - Len(batch'))
      BY <1>1, <1>2
    <3> QED
      BY <3>1 DEF Untold
  <2> QED
    BY <1>1, <1>11, <2>1, BatchMail DEF Untold
<1>14. Batched' /\ QueueTypes'
  BY <1>1, <1>2, <1>3, <1>10 DEF Batched, QueueTypes
<1> QED
  BY <1>1, <1>4, <1>10, <1>12, <1>13, <1>14, SenderFrame DEF TypeOK

\* What the sender hears.
LEMMA HearsPlace == ASSUME PlaceInv, GateOpen \/ FileResult PROVE PlaceInv'
<1>1. /\ TypeOK /\ QueueTypes /\ Queued /\ toS # <<>> /\ toS' = Tail(toS)
      /\ UNCHANGED <<manifest, disk, rxVars, walked, batch, sent, checked, sRun, conn, toR, frames>>
  BY DEF PlaceInv, GateOpen, FileResult, Heard
<1>2. toS' \in Seq(ToSender) /\ Head(toS) \in ToSender
  BY <1>1, TailMail DEF QueueTypes
<1>3. Entry' = Entry /\ Total' = Total
  BY <1>1 DEF Entry, Total
<1>4. CASE GateOpen
  <2>1. Head(toS).id \in Entry /\ Head(toS).what \in {"skip", "all", "part"}
    BY <1>2, <1>4, Messages DEF GateOpen, Heard
  <2>2. gates' \in Int /\ have' \in [Entry -> {"none", "skip", "all", "part"}]
    BY <1>1, <1>4, <2>1 DEF GateOpen, TypeOK, TypeSender
  <2>3. TypeSender'
    BY <1>1, <1>3, <1>4, <2>2 DEF GateOpen, TypeOK, TypeSender
  <2> QED
    BY <1>1, <1>2, <2>3, WalkerFrame DEF QueueTypes, Queued, TypeOK
<1>5. CASE FileResult
  <2>1. Head(toS).id \in Entry
    BY <1>2, <1>5, Messages DEF FileResult, Heard
  <2>2. gates' \in Int
    BY <1>1, <1>5, <2>1 DEF FileResult, TypeOK, TypeSender, Released
  <2>3. resolvedIDs' \in SUBSET Entry /\ okS' \in SUBSET resolvedIDs' /\ errS' \in SUBSET resolvedIDs'
    BY <1>1, <1>5, <2>1 DEF FileResult, TypeOK, TypeSender, Counted
  <2>4. TypeSender'
    BY <1>1, <1>3, <1>5, <2>2, <2>3 DEF FileResult, TypeOK, TypeSender
  <2> QED
    BY <1>1, <1>2, <2>4, WalkerFrame DEF QueueTypes, Queued, TypeOK
<1> QED
  BY <1>4, <1>5

\* failFile tells the receiver of a file it has been told of.
LEMMA FailFilePlace ==
  ASSUME PlaceInv, NEW e \in Entry, FailFile(e),
         UNCHANGED <<manifest, disk, rxVars, walked, batch, gates, have, sent, okS, sRun, conn, toS, frames>>,
         checked' \in SUBSET sent
  PROVE  PlaceInv'
<1>1. TypeOK /\ QueueTypes /\ Queued
  BY DEF PlaceInv
<1>2. /\ <<FileErrorMsg(e)>> \in Seq(ToReceiver) /\ Mail(<<FileErrorMsg(e)>>) = {FileErrorMsg(e)}
      /\ \A t : Distinct(<<FileErrorMsg(e)>>, t)
  BY Messages, ShortMail
<1>3. \A m \in Mail(toR) \cap Mail(<<FileErrorMsg(e)>>) : m.type # "entry"
  BY <1>2 DEF FileErrorMsg
<1>4. /\ toR' \in Seq(ToReceiver) /\ Distinct(toR', "entry")
      /\ Mail(toR') \subseteq Mail(toR) \cup {FileErrorMsg(e)}
  BY <1>1, <1>2, <1>3, SendMail DEF FailFile, QueueTypes, Queued
<1>5. \A f \in Entry : EntryMsg(f) \in Mail(toR') => EntryMsg(f) \in Mail(toR)
  BY <1>4, MessagesDiffer
<1>6. resolvedIDs' \in SUBSET Entry /\ okS' \in SUBSET resolvedIDs' /\ errS' \in SUBSET resolvedIDs'
  BY <1>1 DEF FailFile, TypeOK, TypeSender
<1>7. TypeSender'
  BY <1>1, <1>6 DEF TypeOK, TypeSender, Entry, Total
<1> QED
  BY <1>1, <1>4, <1>5, <1>7, WalkerFrame DEF QueueTypes, TypeOK

\* What the sender does by itself.
LEMMA SenderPlace == ASSUME PlaceInv, Sender \/ Lose PROVE PlaceInv'
<1>0. TypeOK /\ QueueTypes /\ Queued
  BY DEF PlaceInv
<1>1. CASE Walk
  BY <1>1, WalkPlace
<1>2. CASE WalkEnd
  BY <1>2, WalkEndPlace
<1>3. CASE GateOpen \/ FileResult
  BY <1>3, HearsPlace
<1>4. CASE \E e \in Entry : SendData(e)
  <2> PICK e \in Entry : SendData(e)
    BY <1>4
  <2>1. TypeSender' /\ frames' \in SUBSET Entry
    BY <1>0 DEF SendData, TypeOK, TypeSender, Entry, Total
  <2> QED
    BY <1>0, <2>1, WalkerFrame DEF SendData, QueueTypes, Queued, TypeOK
<1>5. CASE \E e \in Entry : SendFails(e)
  BY <1>0, <1>5, FailFilePlace DEF SendFails, TypeOK, TypeSender
<1>6. CASE \E e \in sent, changed \in BOOLEAN : TaskDone(e, changed)
  <2> PICK e \in sent, changed \in BOOLEAN : TaskDone(e, changed)
    BY <1>6
  <2>1. e \in Entry /\ checked' \in SUBSET sent
    BY <1>0 DEF TaskDone, TypeOK, TypeSender
  <2>2. CASE FailFile(e)
    BY <2>1, <2>2, FailFilePlace DEF TaskDone
  <2>3. CASE UNCHANGED <<resolvedIDs, errS, toR>>
    <3>1. TypeSender'
      BY <1>0, <2>1, <2>3 DEF TaskDone, TypeOK, TypeSender, Entry, Total
    <3> QED
      BY <1>0, <2>3, <3>1, WalkerFrame DEF TaskDone, QueueTypes, Queued, TypeOK
  <2> QED
    BY <2>2, <2>3 DEF TaskDone
<1>7. CASE SenderEnd \/ SenderStops \/ SenderStalls
  <2>1. TypeSender'
    BY <1>0, <1>7 DEF SenderEnd, SenderStops, SenderStalls, TypeOK, TypeSender, Entry, Total
  <2> QED
    BY <1>0, <1>7, <2>1, WalkerFrame DEF SenderEnd, SenderStops, SenderStalls, QueueTypes, Queued, TypeOK
<1>8. CASE Hangup \/ Lose
  BY <1>8, LostFrame DEF Hangup, Lose
<1> QED
  BY <1>1, <1>2, <1>3, <1>4, <1>5, <1>6, <1>7, <1>8 DEF Sender

-----------------------------------------------------------------------------
(* One place at a time: the receiver *)

\* The control reader takes the first message.
LEMMA ReadMail ==
  ASSUME PlaceInv, toR # <<>>
  PROVE  /\ Tail(toR) \in Seq(ToReceiver) /\ Head(toR) \in ToReceiver
         /\ Mail(toR) = {Head(toR)} \cup Mail(Tail(toR))
         /\ \A t : Distinct(toR, t) =>
              Distinct(Tail(toR), t) /\ (Head(toR).type = t => Head(toR) \notin Mail(Tail(toR)))
         /\ Distinct(Tail(toR), "entry")
<1>1. toR \in Seq(ToReceiver) /\ Distinct(toR, "entry")
  BY DEF PlaceInv, QueueTypes, Queued
<1> HIDE DEF ToReceiver
<1> QED
  BY <1>1, TailMail

\* What an outcome adds to the queue.
LEMMA ResolveMail ==
  ASSUME PlaceInv, NEW e \in Entry, NEW o \in {"ok", "error"}, NEW before \in Seq(ToSender),
         NEW after \in Seq(ToSender), Resolve(e, o, before, after)
  PROVE  /\ toS' \in Seq(ToSender)
         /\ Mail(toS') \subseteq Mail(toS) \cup Mail(before) \cup {ResultMsg(e, o)} \cup Mail(after)
         /\ rResolved' = rResolved + 1 /\ outcome' = [outcome EXCEPT ![e] = o]
         /\ outcome'[e] = o /\ \A f \in Entry \ {e} : outcome'[f] = outcome[f]
         /\ outcome' \in [Entry -> {"none", "ok", "error", "sender"}] /\ rResolved' \in Nat
<1>1. toS \in Seq(ToSender) /\ outcome \in [Entry -> {"none", "ok", "error", "sender"}] /\ rResolved \in Nat
  BY DEF PlaceInv, QueueTypes, TypeOK, TypeReceiver
<1>2. <<ResultMsg(e, o)>> \in Seq(ToSender) /\ Mail(<<ResultMsg(e, o)>>) = {ResultMsg(e, o)}
  BY Messages, ShortMail
<1> DEFINE one == <<ResultMsg(e, o)>>
<1>3. one \in Seq(ToSender) /\ Mail(one) = {ResultMsg(e, o)}
  BY <1>2
<1>4. toS' = Send(toS, before \o one \o after)
  BY DEF Resolve
<1> HIDE DEF one
<1>5. before \o one \in Seq(ToSender) /\ Mail(before \o one) = Mail(before) \cup {ResultMsg(e, o)}
  BY <1>3, JoinedMail
<1> DEFINE two == before \o one
<1>6. two \in Seq(ToSender) /\ Mail(two) = Mail(before) \cup {ResultMsg(e, o)} /\ toS' = Send(toS, two \o after)
  BY <1>4, <1>5
<1> HIDE DEF two
<1> DEFINE three == two \o after
<1>7. three \in Seq(ToSender) /\ Mail(three) = Mail(two) \cup Mail(after) /\ toS' = Send(toS, three)
  BY <1>6, JoinedMail
<1> HIDE DEF three
<1>8. toS' \in Seq(ToSender) /\ Mail(toS') \subseteq Mail(toS) \cup Mail(three)
  BY <1>1, <1>7, SendMail
<1>9. outcome' = [outcome EXCEPT ![e] = o] /\ rResolved' = rResolved + 1
  BY DEF Resolve
<1> QED
  BY <1>1, <1>6, <1>7, <1>8, <1>9

\* HearEntry: the entry leaves the queue for its first place at the receiver.
LEMMA HearEntryPlace == ASSUME PlaceInv, NEW refused \in BOOLEAN, HearEntry(refused) PROVE PlaceInv'
<1>0. toR # <<>> /\ toR' = Tail(toR) /\ Head(toR).type = "entry"
  BY DEF HearEntry, Heard
<1> PICK e \in Entry : e = Head(toR).id /\ Head(toR) = EntryMsg(e)
  BY <1>0, ReadMail, Messages
<1>1. /\ TypeOK /\ QueueTypes /\ Queued /\ Placed /\ Registry /\ held = 0
      /\ UNCHANGED <<manifest, disk, sendVars, conn, frames, phase, preparing, rx, manifestDone, finalQ, watch, jobs>>
  BY DEF PlaceInv, HearEntry, Heard
<1>2. /\ toR' \in Seq(ToReceiver) /\ Distinct(toR', "entry") /\ Mail(toR') \subseteq Mail(toR)
      /\ e \in Entry /\ EntryMsg(e) \in Mail(toR) /\ EntryMsg(e) \notin Mail(toR')
  BY <1>0, <1>1, ReadMail DEF Queued
<1>3. e <= walked - Len(batch) /\ Untold(e) /\ Fresh(e) /\ ~Untold(e)'
  <2>1. e \in Int /\ walked - Len(batch) \in Int /\ walked' - Len(batch') = walked - Len(batch)
    BY <1>1, <1>2, Entries, LenProperties DEF TypeOK, TypeSender, sendVars
  <2> QED
    BY <1>1, <1>2, <2>1 DEF Queued, Untold
<1>4. outcome[e] = "none" /\ rx[e] = "none" /\ e \notin preparing /\ e \notin links
  BY <1>3 DEF Fresh
<1>5. e \in 1 .. Total /\ Total \in Nat /\ Total' = Total /\ Entry' = Entry /\ (\A f : Regular(f)' = Regular(f))
  BY <1>1, <1>2, Entries DEF TypeOK, Total, Entry, Regular, KindOf
<1>6. /\ preparing \in SUBSET Entry /\ links \in SUBSET Entry /\ jobs \in SUBSET links
      /\ rx \in [Entry -> {"none", "open", "stub", "ok", "error"}]
      /\ outcome \in [Entry -> {"none", "ok", "error", "sender"}]
  BY <1>1 DEF TypeOK, TypeReceiver
<1>7. CASE UNCHANGED <<held, links, outcome, rResolved, toS>>
  <2>1. TypeReceiver'
    BY <1>1, <1>5, <1>7 DEF TypeOK, TypeReceiver
  <2>2. Placed' /\ Registry'
    BY <1>1, <1>5, <1>7 DEF Placed, Registry
  <2> QED
    BY <1>1, <1>2, <1>7, <2>1, <2>2, ReceiverFrame DEF TypeOK, QueueTypes, Fresh
<1>8. CASE \E o \in {"ok", "error"} : Resolve(e, o, <<>>, <<>>) /\ UNCHANGED <<held, links>>
  <2> PICK o \in {"ok", "error"} : Resolve(e, o, <<>>, <<>>)
    BY <1>8
  <2>1. /\ toS' \in Seq(ToSender) /\ outcome' \in [Entry -> {"none", "ok", "error", "sender"}] /\ rResolved' \in Nat
        /\ outcome'[e] = o /\ \A f \in Entry \ {e} : outcome'[f] = outcome[f]
    BY <1>2, ResolveMail, EmptySeq
  <2>2. TypeReceiver'
    BY <1>1, <1>5, <1>8, <2>1 DEF TypeOK, TypeReceiver
  <2>3. Placed'
    <3>1. \A f \in links : f # e
      BY <1>4
    <3>2. \A f \in preparing : f # e
      BY <1>4
    <3> QED
      BY <1>1, <1>5, <1>6, <1>8, <2>1, <3>1, <3>2 DEF Placed
  <2>4. Registry'
    BY <1>1, <1>4, <1>5, <1>6, <2>1 DEF Registry
  <2>5. \A f \in Entry : Untold(f)' /\ Untold(f) /\ Fresh(f) => Fresh(f)'
    BY <1>1, <1>3, <1>8, <2>1 DEF Fresh
  <2> QED
    BY <1>1, <1>2, <2>1, <2>2, <2>3, <2>4, <2>5, <1>8, ReceiverFrame DEF TypeOK
<1>9. CASE UNCHANGED <<outcome, rResolved, toS>> /\
           \/ ~Regular(e) /\ links' = links \cup {e} /\ held' = 0
           \/ Regular(e) /\ links' = links /\ held' = e
  <2>1. TypeReceiver' /\ held' \notin preparing'
    <3>1. held' \in 0 .. Total /\ held' \notin preparing'
      <4>1. 0 \notin preparing
        BY <1>5, <1>6, Entries, <1>1 DEF TypeOK
      <4> QED
        BY <1>1, <1>4, <1>5, <1>9, <4>1
    <3>2. links' \in SUBSET Entry /\ jobs' \in SUBSET links'
      BY <1>1, <1>2, <1>6, <1>9
    <3> QED
      BY <1>1, <1>5, <1>9, <3>1, <3>2 DEF TypeOK, TypeReceiver
  <2>2. Placed'
    <3>1. (held # 0 => /\ Regular(held) /\ held \notin preparing /\ outcome[held] = "none" /\ rx[held] = "none")'
      BY <1>1, <1>4, <1>5, <1>9
    <3>2. (\A f \in preparing : Regular(f) /\ outcome[f] = "none" /\ rx[f] = "none")'
      BY <1>1, <1>5, <1>9 DEF Placed
    <3>3. (\A f \in links : ~Regular(f) /\ rx[f] = "none" /\ (watch = "wait" \/ f \in jobs => outcome[f] = "none"))'
      BY <1>1, <1>4, <1>5, <1>9 DEF Placed
    <3>4. (jobs # {} => watch \in {"post", "last"})'
      BY <1>1 DEF Placed
    <3> QED
      BY <3>1, <3>2, <3>3, <3>4 DEF Placed
  <2>3. Registry'
    BY <1>1, <1>5, <1>9 DEF Registry
  <2>4. \A f \in Entry : Untold(f)' /\ Untold(f) /\ Fresh(f) => Fresh(f)'
    <3> SUFFICES ASSUME NEW f \in Entry, f # e, Fresh(f) PROVE Fresh(f)'
      BY <1>3
    <3>1. f # 0
      BY <1>1, <1>5, Entries DEF TypeOK
    <3> QED
      BY <1>1, <1>9, <3>1 DEF Fresh
  <2> QED
    BY <1>1, <1>2, <1>9, <2>1, <2>2, <2>3, <2>4, ReceiverFrame DEF TypeOK, QueueTypes
<1> QED
  <2>1. CASE phase # "run"
    BY <1>7, <2>1 DEF HearEntry
  <2>2. CASE phase = "run" /\ (refused \/ KindOf(e) = "dir")
    BY <1>8, <2>2 DEF HearEntry
  <2>3. CASE phase = "run" /\ ~(refused \/ KindOf(e) = "dir")
    BY <1>9, <2>3 DEF HearEntry
  <2> QED
    BY <2>1, <2>2, <2>3

\* Enqueue: the entry goes to the workers, is dropped, or takes the process down.
LEMMA EnqueuePlace == ASSUME PlaceInv, Enqueue PROVE PlaceInv'
<1>1. /\ TypeOK /\ QueueTypes /\ Queued /\ Placed /\ Registry /\ held # 0 /\ held' = 0
      /\ UNCHANGED <<manifest, disk, sendVars, rx, links, manifestDone, rResolved, finalQ, watch, jobs, outcome>>
      /\ preparing' = preparing \/ preparing' = preparing \cup {held}
  BY DEF PlaceInv, Enqueue
<1>2. /\ held \in Entry /\ 0 \notin Entry /\ Entry' = Entry /\ Total' = Total /\ Total \in Nat
      /\ (\A f : Regular(f)' = Regular(f))
  BY <1>1, Entries DEF TypeOK, TypeReceiver, Entry, Total, Regular, KindOf
<1>3. TypeReceiver' /\ held' \notin preparing'
  <2>1. preparing' \in SUBSET Entry /\ phase' \in {"run", "cancelled", "closed", "flushed", "panic"}
    BY <1>1, <1>2 DEF TypeOK, TypeReceiver, Enqueue
  <2>2. held' \in 0 .. Total' /\ held' \notin preparing'
    BY <1>1, <1>2, <2>1
  <2> QED
    BY <1>1, <1>2, <2>1, <2>2 DEF TypeOK, TypeReceiver
<1>4. Placed' /\ Registry'
  BY <1>1, <1>2 DEF Placed, Registry
<1>5. conn' \in {"up", "closed"} /\ frames' \in SUBSET Entry /\ toR' \in Seq(ToReceiver) /\ toS' \in Seq(ToSender)
      /\ Distinct(toR', "entry") /\ Mail(toR') \subseteq Mail(toR)
  <2>1. CASE UNCHANGED <<conn, toR, toS, frames>>
    BY <1>1, <2>1 DEF TypeOK, QueueTypes, Queued
  <2>2. CASE CloseConn
    BY <2>2, EmptySeq, ShortMail DEF CloseConn
  <2> QED
    BY <2>1, <2>2 DEF Enqueue
<1>6. \A f \in Entry : Untold(f)' /\ Untold(f) /\ Fresh(f) => Fresh(f)'
  BY <1>1, <1>2 DEF Fresh
<1> QED
  BY <1>1, <1>3, <1>4, <1>5, <1>6, ReceiverFrame


\* A file leaves its worker, or is finalized, or fails, or a link is made: one outcome.
LEMMA ResolvePlace ==
  ASSUME PlaceInv, NEW e \in Entry, NEW o \in {"ok", "error"}, NEW before \in Seq(ToSender),
         NEW after \in Seq(ToSender), Resolve(e, o, before, after), ~Fresh(e), held # e,
         UNCHANGED <<manifest, disk, sendVars, conn, toR, phase, held, links, manifestDone, watch>>,
         frames' \in SUBSET Entry, finalQ' \in SUBSET Entry,
         preparing' \subseteq preparing \ {e}, jobs' \subseteq jobs \ {e},
         e \in links => watch # "wait" /\ rx'[e] = "none",
         \E r \in {"none", "stub", o} : rx' = [rx EXCEPT ![e] = r]
  PROVE  PlaceInv'
<1>1. TypeOK /\ QueueTypes /\ Queued
  BY DEF PlaceInv
<1>2. /\ toS' \in Seq(ToSender) /\ outcome' \in [Entry -> {"none", "ok", "error", "sender"}] /\ rResolved' \in Nat
      /\ outcome'[e] = o /\ \A f \in Entry \ {e} : outcome'[f] = outcome[f]
  BY ResolveMail
<1>3. /\ rx' \in [Entry -> {"none", "open", "stub", "ok", "error"}] /\ rx'[e] \in {"none", "stub", o}
      /\ \A f \in Entry \ {e} : rx'[f] = rx[f]
  BY <1>1 DEF TypeOK, TypeReceiver
<1>4. TypeReceiver'
  BY <1>1, <1>2, <1>3 DEF TypeOK, TypeReceiver, Entry, Total
<1> QED
  BY <1>1, <1>2, <1>3, <1>4, MovesOne DEF TypeOK, QueueTypes, Queued

\* A worker gets an entry the control reader has let go.
LEMMA AtWork ==
  ASSUME PlaceInv, NEW e \in preparing
  PROVE  /\ e \in Entry /\ Regular(e) /\ held # e /\ e \notin links /\ ~Fresh(e)
         /\ outcome[e] = "none" /\ rx[e] = "none"
BY DEF PlaceInv, TypeOK, TypeReceiver, Placed, Fresh

\* What is registered has left the workers and is no link.
LEMMA AtDisk ==
  ASSUME PlaceInv, NEW e \in Entry, rx[e] # "none"
  PROVE  held # e /\ e \notin links /\ e \notin preparing /\ ~Fresh(e)
<1>1. 0 \notin Entry
  BY Entries DEF PlaceInv, TypeOK
<1> QED
  BY <1>1 DEF PlaceInv, Placed, Fresh

\* Workers.
LEMMA PreparePlace ==
  ASSUME PlaceInv, NEW e \in preparing,
         PrepareSkip(e) \/ PrepareEmpty(e) \/ PrepareFails(e) \/ \E complete \in BOOLEAN : PreparePart(e, complete)
  PROVE  PlaceInv'
<1>1. /\ TypeOK /\ QueueTypes /\ Queued /\ e \in Entry /\ held # e /\ e \notin links /\ e \notin jobs /\ ~Fresh(e)
      /\ rx \in [Entry -> {"none", "open", "stub", "ok", "error"}] /\ rx[e] = "none" /\ outcome[e] = "none"
  BY AtWork DEF PlaceInv, TypeOK, TypeReceiver
<1>2. frames \in SUBSET Entry /\ finalQ \in SUBSET Entry
  BY <1>1 DEF TypeOK, TypeReceiver
<1>3. CASE PrepareSkip(e)
  <2>1. <<HaveMsg(e, "skip")>> \in Seq(ToSender) /\ <<>> \in Seq(ToSender)
    BY <1>1, Messages
  <2>2. rx' = [rx EXCEPT ![e] = "none"]
    BY <1>1, <1>3 DEF PrepareSkip
  <2> QED
    BY <1>1, <1>2, <1>3, <2>1, <2>2, ResolvePlace DEF PrepareSkip, Prepares
<1>4. CASE PrepareEmpty(e)
  <2>1. <<HaveMsg(e, "all")>> \in Seq(ToSender) /\ <<>> \in Seq(ToSender)
    BY <1>1, Messages
  <2> QED
    BY <1>1, <1>2, <1>4, <2>1, ResolvePlace DEF PrepareEmpty, Prepares
<1>5. CASE PrepareFails(e)
  <2> DEFINE after == IF KindOf(e) = "empty" THEN <<HaveMsg(e, "all")>> ELSE <<>>
  <2>1. <<>> \in Seq(ToSender) /\ after \in Seq(ToSender)
    BY <1>1, Messages
  <2>2. rx' = [rx EXCEPT ![e] = "none"] /\ Resolve(e, "error", <<>>, after)
    BY <1>1, <1>5 DEF PrepareFails
  <2> HIDE DEF after
  <2> QED
    BY <1>1, <1>2, <1>5, <2>1, <2>2, ResolvePlace DEF PrepareFails, Prepares
<1>6. ASSUME NEW complete \in BOOLEAN, PreparePart(e, complete) PROVE PlaceInv'
  <2> DEFINE h == IF complete THEN "all" ELSE "part"
  <2>1. h \in {"skip", "all", "part"}
    OBVIOUS
  <2>2. <<HaveMsg(e, h)>> \in Seq(ToSender) /\ toS' = Send(toS, <<HaveMsg(e, h)>>)
    BY <1>1, <1>6, <2>1, Messages DEF PreparePart
  <2>3. toS' \in Seq(ToSender)
    <3> DEFINE ms == <<HaveMsg(e, h)>>
    <3>1. ms \in Seq(ToSender) /\ toS' = Send(toS, ms) /\ toS \in Seq(ToSender)
      BY <1>1, <2>2 DEF QueueTypes
    <3> HIDE DEF ms
    <3> QED
      BY <3>1, SendMail
  <2>4. rx' \in [Entry -> {"none", "open", "stub", "ok", "error"}] /\ \A f \in Entry \ {e} : rx'[f] = rx[f]
        /\ rx'[e] = "open"
    BY <1>1, <1>6 DEF PreparePart
  <2>5. finalQ' \in SUBSET Entry /\ preparing' \in SUBSET Entry
    BY <1>1, <1>2, <1>6 DEF PreparePart, Prepares, TypeOK, TypeReceiver
  <2>6. TypeReceiver'
    BY <1>1, <1>6, <2>4, <2>5 DEF PreparePart, Prepares, TypeOK, TypeReceiver, Entry, Total
  <2> QED
    BY <1>1, <1>2, <1>6, <2>3, <2>4, <2>6, MovesOne DEF PreparePart, Prepares, TypeOK, QueueTypes, Queued
<1> QED
  BY <1>3, <1>4, <1>5, <1>6

\* The finalizer, and failFile.
LEMMA FinishPlace ==
  ASSUME PlaceInv, NEW e \in Entry, Arrive(e) \/ Finalize(e) \/ RxFails(e) PROVE PlaceInv'
<1>1. /\ TypeOK /\ QueueTypes /\ Queued /\ Placed /\ Registry
      /\ frames \in SUBSET Entry /\ finalQ \in SUBSET Entry /\ rx \in [Entry -> {"none", "open", "stub", "ok", "error"}]
  BY DEF PlaceInv, TypeOK, TypeReceiver
<1>2. CASE rx[e] = "open" /\ \E o \in {"ok", "error"} :
            /\ Resolve(e, o, <<>>, <<>>) /\ rx' = [rx EXCEPT ![e] = o]
            /\ UNCHANGED <<manifest, disk, sendVars, conn, toR, phase, held, preparing, links, manifestDone, watch, jobs>>
            /\ frames' \subseteq frames /\ finalQ' \subseteq finalQ
  <2>1. held # e /\ e \notin links /\ e \notin preparing /\ e \notin jobs /\ ~Fresh(e)
    BY <1>1, <1>2, AtDisk DEF TypeOK, TypeReceiver
  <2>2. <<>> \in Seq(ToSender)
    OBVIOUS
  <2>3. /\ frames' \in SUBSET Entry /\ finalQ' \in SUBSET Entry
        /\ preparing' \subseteq preparing \ {e} /\ jobs' \subseteq jobs \ {e}
    BY <1>1, <1>2, <2>1
  <2> PICK o \in {"ok", "error"} : Resolve(e, o, <<>>, <<>>) /\ rx' = [rx EXCEPT ![e] = o]
    BY <1>2
  <2> QED
    BY <1>2, <2>1, <2>2, <2>3, ResolvePlace
<1>3. CASE /\ UNCHANGED <<manifest, disk, sendVars, conn, toR, toS, phase, held, preparing, rx, links, manifestDone,
                          rResolved, watch, jobs, outcome>>
           /\ frames' \subseteq frames /\ finalQ' \subseteq finalQ \cup {e}
  <2>1. TypeReceiver'
    BY <1>1, <1>3 DEF TypeOK, TypeReceiver, Entry, Total
  <2>2. Placed' /\ Registry'
    BY <1>1, <1>3 DEF Placed, Registry, Regular, KindOf, Entry
  <2> QED
    BY <1>1, <1>3, <2>1, <2>2, ReceiverFrame DEF TypeOK, QueueTypes, Queued, Fresh
<1>4. CASE Arrive(e)
  BY <1>3, <1>4 DEF Arrive
<1>5. CASE Finalize(e)
  BY <1>2, <1>3, <1>5 DEF Finalize, Finalizable
<1>6. CASE RxFails(e)
  BY <1>2, <1>6 DEF RxFails
<1> QED
  BY <1>4, <1>5, <1>6

\* senderFileError: a message leaves the queue, a file may be closed.
LEMMA HearFileErrorPlace == ASSUME PlaceInv, HearFileError PROVE PlaceInv'
<1>0. toR # <<>> /\ toR' = Tail(toR) /\ Head(toR).type = "fileError"
  BY DEF HearFileError, Heard
<1> PICK e \in Entry : e = Head(toR).id
  BY <1>0, ReadMail, Messages
<1>1. /\ TypeOK /\ QueueTypes /\ Queued /\ Placed /\ Registry /\ held = 0
      /\ UNCHANGED <<manifest, disk, sendVars, conn, toS, frames, phase, held, preparing, links, manifestDone, finalQ, watch, jobs>>
      /\ rResolved' = rResolved + 1
  BY DEF PlaceInv, HearFileError
<1>2. toR' \in Seq(ToReceiver) /\ Distinct(toR', "entry") /\ Mail(toR') \subseteq Mail(toR)
  BY <1>0, ReadMail
<1>3. rx \in [Entry -> {"none", "open", "stub", "ok", "error"}] /\ outcome \in [Entry -> {"none", "ok", "error", "sender"}]
  BY <1>1 DEF TypeOK, TypeReceiver
<1>4. CASE UNCHANGED <<rx, outcome>>
  <2>1. TypeReceiver'
    BY <1>1, <1>4 DEF TypeOK, TypeReceiver, Entry, Total
  <2>2. Placed' /\ Registry'
    BY <1>1, <1>4 DEF Placed, Registry, Regular, KindOf, Entry
  <2> QED
    BY <1>1, <1>2, <1>4, <2>1, <2>2, ReceiverFrame DEF TypeOK, QueueTypes, Fresh
<1>5. CASE rx[e] = "open" /\ rx' = [rx EXCEPT ![e] = "error"] /\ outcome' = [outcome EXCEPT ![e] = "sender"]
  <2>1. held # e /\ e \notin links /\ e \notin preparing /\ e \notin jobs /\ ~Fresh(e)
    BY <1>1, <1>5, AtDisk DEF TypeOK, TypeReceiver
  <2>2. TypeReceiver'
    BY <1>1, <1>3, <1>5 DEF TypeOK, TypeReceiver, Entry, Total
  <2>3. rx'[e] = "error" /\ outcome'[e] = "sender" /\ \A f \in Entry \ {e} : rx'[f] = rx[f] /\ outcome'[f] = outcome[f]
    BY <1>3, <1>5
  <2> QED
    BY <1>1, <1>2, <2>1, <2>2, <2>3, MovesOne DEF TypeOK, QueueTypes
<1> QED
  BY <1>4, <1>5 DEF HearFileError

\* The post-pass.
LEMMA PostPassPlace ==
  ASSUME PlaceInv, PostPass \/ PostLost \/ WatchGone \/ PostEnd \/ Done PROVE PlaceInv'
<1>1. /\ TypeOK /\ QueueTypes /\ Queued /\ Placed /\ Registry
  BY DEF PlaceInv
<1>2. /\ UNCHANGED <<manifest, disk, sendVars, conn, toR, frames, held, preparing, rx, links, manifestDone, rResolved, finalQ, outcome>>
      /\ phase' \in {"run", "cancelled", "closed", "flushed", "panic"}
      /\ \/ jobs' = links /\ watch = "wait" /\ watch' \in {"post", "last"}
         \/ jobs' = jobs /\ watch' \in {"posted", "gone", "done"} /\ (jobs = {} \/ watch \notin {"post", "last"})
  BY <1>1 DEF PostPass, PostLost, WatchGone, PostEnd, Done, TypeOK, TypeReceiver
<1>3. toS' \in Seq(ToSender)
  <2>1. toS \in Seq(ToSender) /\ <<DoneMsg>> \in Seq(ToSender)
    BY <1>1, Messages DEF QueueTypes
  <2> DEFINE ms == <<DoneMsg>>
  <2>2. ms \in Seq(ToSender) /\ (toS' = toS \/ toS' = Send(toS, ms))
    BY <2>1 DEF PostPass, PostLost, WatchGone, PostEnd, Done
  <2> HIDE DEF ms
  <2> QED
    BY <2>1, <2>2, SendMail
<1>4. TypeReceiver'
  BY <1>1, <1>2 DEF TypeOK, TypeReceiver, Entry, Total
<1>5. Registry'
  BY <1>1, <1>2 DEF Registry, Entry
<1>6. Placed'
  <2>1. jobs \in SUBSET links
    BY <1>1 DEF TypeOK, TypeReceiver
  <2> QED
    BY <1>1, <1>2, <2>1 DEF Placed, Regular, KindOf
<1> QED
  BY <1>1, <1>2, <1>3, <1>4, <1>5, <1>6, ReceiverFrame DEF TypeOK, QueueTypes, Queued, Fresh

\* One hardlink.
LEMMA PostLinkPlace ==
  ASSUME PlaceInv, NEW e \in jobs, NEW fails \in BOOLEAN, PostLink(e, fails) PROVE PlaceInv'
<1>1. /\ TypeOK /\ e \in links /\ e \in Entry /\ rx[e] = "none" /\ ~Fresh(e) /\ ~Regular(e) /\ held # e /\ e \notin preparing
      /\ rx \in [Entry -> {"none", "open", "stub", "ok", "error"}] /\ frames \in SUBSET Entry /\ finalQ \in SUBSET Entry
  <2>1. TypeOK /\ e \in links /\ e \in Entry
    BY DEF PlaceInv, TypeOK, TypeReceiver
  <2>2. e # 0
    BY <2>1, Entries DEF TypeOK
  <2> QED
    BY <2>1, <2>2 DEF PlaceInv, TypeOK, TypeReceiver, Placed, Fresh
<1>2. rx' = [rx EXCEPT ![e] = "none"]
  BY <1>1 DEF PostLink
<1>3. <<>> \in Seq(ToSender)
  OBVIOUS
<1>4. \E o \in {"ok", "error"} : Resolve(e, o, <<>>, <<>>)
  BY DEF PostLink
<1> QED
  BY <1>1, <1>2, <1>3, <1>4, ResolvePlace DEF PostLink

\* ManifestEnd, and the end of Run.
LEMMA UnwindPlace == ASSUME PlaceInv, HearEnd \/ Cancel \/ CloseRehash \/ Flush PROVE PlaceInv'
<1>1. TypeOK /\ QueueTypes /\ Queued /\ Placed /\ Registry
  BY DEF PlaceInv
<1>2. /\ UNCHANGED <<manifest, disk, sendVars, conn, toS, frames, held, preparing, rx, links, rResolved, finalQ, watch, jobs, outcome>>
      /\ phase' \in {"run", "cancelled", "closed", "flushed", "panic"} /\ manifestDone' \in BOOLEAN
  BY <1>1 DEF HearEnd, Cancel, CloseRehash, Flush, TypeOK, TypeReceiver
<1>3. toR' \in Seq(ToReceiver) /\ Distinct(toR', "entry") /\ Mail(toR') \subseteq Mail(toR)
  <2>1. toR' = toR \/ (toR # <<>> /\ toR' = Tail(toR))
    BY DEF HearEnd, Cancel, CloseRehash, Flush, Heard
  <2> QED
    BY <1>1, <2>1, ReadMail DEF QueueTypes, Queued
<1>4. TypeReceiver'
  BY <1>1, <1>2 DEF TypeOK, TypeReceiver, Entry, Total
<1>5. Placed' /\ Registry'
  BY <1>1, <1>2 DEF Placed, Registry, Regular, KindOf, Entry
<1> QED
  BY <1>1, <1>2, <1>3, <1>4, <1>5, ReceiverFrame DEF TypeOK, QueueTypes, Fresh

\* All that the receiver does.
LEMMA ReceiverPlace == ASSUME PlaceInv, Receiver PROVE PlaceInv'
<1>1. preparing \in SUBSET Entry /\ frames \in SUBSET Entry /\ finalQ \in SUBSET Entry
  BY DEF PlaceInv, TypeOK, TypeReceiver
<1>2. CASE \E refused \in BOOLEAN : HearEntry(refused)
  BY <1>2, HearEntryPlace
<1>3. CASE Enqueue
  BY <1>3, EnqueuePlace
<1>4. CASE HearEnd \/ Cancel \/ CloseRehash \/ Flush
  BY <1>4, UnwindPlace
<1>5. CASE HearFileError
  BY <1>5, HearFileErrorPlace
<1>6. CASE \E e \in preparing : PrepareSkip(e) \/ PrepareEmpty(e) \/ PrepareFails(e)
                                \/ \E complete \in BOOLEAN : PreparePart(e, complete)
  BY <1>6, PreparePlace
<1>7. CASE (\E e \in frames : Arrive(e)) \/ (\E e \in finalQ : Finalize(e)) \/ (\E e \in frames \cup finalQ : RxFails(e))
  BY <1>1, <1>7, FinishPlace
<1>8. CASE PostPass \/ PostLost \/ WatchGone \/ PostEnd \/ Done
  BY <1>8, PostPassPlace
<1>9. CASE \E e \in jobs, fails \in BOOLEAN : PostLink(e, fails)
  BY <1>9, PostLinkPlace
<1> QED
  BY <1>2, <1>3, <1>4, <1>5, <1>6, <1>7, <1>8, <1>9 DEF Receiver

\* Nothing happens.
LEMMA StillPlace == ASSUME PlaceInv, UNCHANGED vars PROVE PlaceInv'
<1>1. TypeSender' /\ QueueTypes /\ Queued /\ TypeOK
  BY DEF PlaceInv, TypeOK, TypeSender, vars, sendVars, Entry, Total
<1> QED
  BY <1>1, WalkerFrame DEF QueueTypes, Queued, TypeOK, vars, sendVars

\* The invariant holds throughout.
THEOREM PlaceInvariant == Spec => []PlaceInv
<1>1. Init => PlaceInv
  BY PlaceInit
<1>2. PlaceInv /\ [Next]_vars => PlaceInv'
  BY SenderPlace, ReceiverPlace, StillPlace DEF Next
<1> QED
  BY <1>1, <1>2, PTL DEF Spec

\* Types; and an entry on its way to a worker is in one place at a time: it is not
\* handed to the workers again while one has it (receiver.go:487-498).
THEOREM CompletionTypes == Spec => []TypeOK
<1>1. PlaceInv => TypeOK
  BY DEF PlaceInv
<1> QED
  BY <1>1, PlaceInvariant, PTL


-----------------------------------------------------------------------------
(* Outcomes *)

\* An outcome goes out, with the have-information before or after it.
LEMMA ResolveOutcome ==
  ASSUME PlaceInv, NEW e \in Entry, NEW o \in {"ok", "error"}, NEW before \in Seq(ToSender),
         NEW after \in Seq(ToSender), Resolve(e, o, before, after), outcome[e] = "none",
         \A m \in Mail(before) \cup Mail(after) : \E h \in {"skip", "all"} : m = HaveMsg(e, h)
  PROVE  /\ outcome' = [outcome EXCEPT ![e] = o] /\ rResolved' = rResolved + 1
         /\ \A f \in Entry, p \in {"ok", "error"} :
              ResultMsg(f, p) \in Mail(toS') => ResultMsg(f, p) \in Mail(toS) \/ (f = e /\ p = o)
         /\ \A f \in Entry, h \in {"skip", "all", "part"} :
              HaveMsg(f, h) \in Mail(toS') => HaveMsg(f, h) \in Mail(toS) \/ (f = e /\ h # "part")
<1>1. Mail(toS') \subseteq Mail(toS) \cup Mail(before) \cup {ResultMsg(e, o)} \cup Mail(after)
  BY ResolveMail
<1>2. outcome' = [outcome EXCEPT ![e] = o] /\ rResolved' = rResolved + 1
  BY DEF Resolve
<1>3. ASSUME NEW f \in Entry, NEW p \in {"ok", "error"}, ResultMsg(f, p) \in Mail(toS')
      PROVE  ResultMsg(f, p) \in Mail(toS) \/ (f = e /\ p = o)
  BY <1>1, <1>3, MessagesDiffer
<1>4. ASSUME NEW f \in Entry, NEW h \in {"skip", "all", "part"}, HaveMsg(f, h) \in Mail(toS')
      PROVE  HaveMsg(f, h) \in Mail(toS) \/ (f = e /\ h # "part")
  BY <1>1, <1>4, MessagesDiffer
<1> QED
  BY <1>2, <1>3, <1>4

\* The outcome of one entry that was open, and what is told of it.
Settling(e, o) ==
  /\ outcome[e] = "none" /\ outcome' = [outcome EXCEPT ![e] = o] /\ rResolved' = rResolved + 1
  /\ \A f \in Entry, p \in {"ok", "error"} :
       ResultMsg(f, p) \in Mail(toS') => ResultMsg(f, p) \in Mail(toS) \/ (f = e /\ p = o)
  /\ \A f \in Entry, h \in {"skip", "all", "part"} :
       HaveMsg(f, h) \in Mail(toS') => HaveMsg(f, h) \in Mail(toS) \/ (f = e /\ h # "part")

\* A worker that is done with an entry settles it.
LEMMA PrepareSettles ==
  ASSUME PlaceInv, NEW e \in preparing, PrepareSkip(e) \/ PrepareEmpty(e) \/ PrepareFails(e)
  PROVE  e \in Entry /\ \E o \in {"ok", "error"} : Settling(e, o)
<1>1. e \in Entry /\ outcome[e] = "none"
  BY AtWork
<1>2. /\ <<>> \in Seq(ToSender) /\ Mail(<<>>) = {}
      /\ \A h \in {"skip", "all"} : <<HaveMsg(e, h)>> \in Seq(ToSender) /\ Mail(<<HaveMsg(e, h)>>) = {HaveMsg(e, h)}
  BY <1>1, ShortMail, Messages
<1>3. CASE PrepareSkip(e)
  BY <1>1, <1>2, <1>3, ResolveOutcome DEF PrepareSkip, Settling
<1>4. CASE PrepareEmpty(e)
  BY <1>1, <1>2, <1>4, ResolveOutcome DEF PrepareEmpty, Settling
<1>5. CASE PrepareFails(e)
  BY <1>1, <1>2, <1>5, ResolveOutcome DEF PrepareFails, Settling
<1> QED
  BY <1>1, <1>3, <1>4, <1>5

\* The outcome alone goes out.
LEMMA PlainSettles ==
  ASSUME PlaceInv, NEW e \in Entry, NEW o \in {"ok", "error"}, Resolve(e, o, <<>>, <<>>), outcome[e] = "none"
  PROVE  Settling(e, o)
<1>1. <<>> \in Seq(ToSender) /\ Mail(<<>>) = {}
  BY ShortMail
<1> QED
  BY <1>1, ResolveOutcome DEF Settling

\* The entry the control reader takes is unsettled.
LEMMA HeardFresh ==
  ASSUME PlaceInv, NEW refused \in BOOLEAN, HearEntry(refused)
  PROVE  Head(toR).id \in Entry /\ Fresh(Head(toR).id) /\ outcome[Head(toR).id] = "none"
<1>1. toR # <<>> /\ Head(toR).type = "entry"
  BY DEF HearEntry, Heard
<1>2. Head(toR).id \in Entry /\ EntryMsg(Head(toR).id) \in Mail(toR)
  BY <1>1, ReadMail, Messages
<1> QED
  BY <1>2 DEF PlaceInv, Queued, Untold, Fresh

\* A step of the receiver settles one entry that was open, or hears of a failure
\* at the sender, or leaves all outcomes as they are.
LEMMA Outcomes ==
  ASSUME PlaceInv, Receiver
  PROVE  \/ \E e \in Entry, o \in {"ok", "error"} : Settling(e, o)
         \/ HearFileError
         \/ UNCHANGED <<outcome, rResolved>> /\ \A f \in Entry, p \in {"ok", "error"} :
                        ResultMsg(f, p) \in Mail(toS') => ResultMsg(f, p) \in Mail(toS)
<1>1. preparing \in SUBSET Entry /\ frames \in SUBSET Entry /\ finalQ \in SUBSET Entry /\ jobs \in SUBSET links /\ links \in SUBSET Entry
      /\ rx \in [Entry -> {"none", "open", "stub", "ok", "error"}] /\ toS \in Seq(ToSender)
  BY DEF PlaceInv, TypeOK, TypeReceiver, QueueTypes
<1> DEFINE Quiet == UNCHANGED <<outcome, rResolved>> /\ \A f \in Entry, p \in {"ok", "error"} :
                      ResultMsg(f, p) \in Mail(toS') => ResultMsg(f, p) \in Mail(toS)
<1>2. CASE UNCHANGED <<outcome, rResolved, toS>>
  BY <1>2
<1>3. CASE \E refused \in BOOLEAN : HearEntry(refused)
  <2> PICK refused \in BOOLEAN : HearEntry(refused)
    BY <1>3
  <2>1. CASE Resolve(Head(toR).id, IF refused THEN "error" ELSE "ok", <<>>, <<>>)
    BY <2>1, HeardFresh, PlainSettles
  <2>2. CASE UNCHANGED <<outcome, rResolved, toS>>
    BY <1>2, <2>2
  <2> QED
    BY <2>1, <2>2 DEF HearEntry
<1>4. CASE Enqueue
  <2>1. UNCHANGED <<outcome, rResolved>> /\ Mail(toS') \subseteq Mail(toS)
    BY <1>4, ShortMail DEF Enqueue, CloseConn
  <2> QED
    BY <2>1
<1>5. CASE HearEnd \/ PostPass \/ PostLost \/ WatchGone \/ PostEnd \/ Cancel \/ CloseRehash \/ Flush
  BY <1>2, <1>5 DEF HearEnd, PostPass, PostLost, WatchGone, PostEnd, Cancel, CloseRehash, Flush
<1>6. CASE \E e \in preparing : PrepareSkip(e) \/ PrepareEmpty(e) \/ PrepareFails(e)
  BY <1>6, PrepareSettles
<1>7. CASE \E e \in preparing, complete \in BOOLEAN : PreparePart(e, complete)
  <2> PICK e \in preparing, complete \in BOOLEAN : PreparePart(e, complete)
    BY <1>7
  <2> DEFINE h == IF complete THEN "all" ELSE "part"
             ms == <<HaveMsg(e, h)>>
  <2>1. ms \in Seq(ToSender) /\ Mail(ms) = {HaveMsg(e, h)} /\ toS' = Send(toS, ms) /\ UNCHANGED <<outcome, rResolved>>
    BY <1>1, Messages, ShortMail DEF PreparePart
  <2> HIDE DEF ms
  <2>2. Mail(toS') \subseteq Mail(toS) \cup {HaveMsg(e, h)}
    BY <1>1, <2>1, SendMail
  <2> QED
    BY <2>1, <2>2, MessagesDiffer
<1>8. CASE \E e \in frames : Arrive(e)
  BY <1>2, <1>8 DEF Arrive
<1>9. CASE \E e \in finalQ : Finalize(e)
  <2> PICK e \in finalQ : Finalize(e)
    BY <1>9
  <2>1. CASE Finalizable(e)
    <3>1. e \in Entry /\ outcome[e] = "none"
      BY <1>1, <2>1 DEF Finalizable, PlaceInv, Registry
    <3> QED
      BY <2>1, <3>1, PlainSettles DEF Finalize
  <2>2. CASE ~Finalizable(e)
    BY <1>2, <2>2 DEF Finalize
  <2> QED
    BY <2>1, <2>2
<1>10. CASE \E e \in frames \cup finalQ : RxFails(e)
  <2> PICK e \in frames \cup finalQ : RxFails(e)
    BY <1>10
  <2>1. e \in Entry /\ outcome[e] = "none" /\ Resolve(e, "error", <<>>, <<>>)
    BY <1>1 DEF RxFails, PlaceInv, Registry
  <2> QED
    BY <2>1, PlainSettles
<1>11. CASE \E e \in jobs, fails \in BOOLEAN : PostLink(e, fails)
  <2> PICK e \in jobs, fails \in BOOLEAN : PostLink(e, fails)
    BY <1>11
  <2>1. e \in Entry /\ outcome[e] = "none"
    BY <1>1 DEF PlaceInv, Placed
  <2>2. CASE fails
    BY <2>1, <2>2, PlainSettles DEF PostLink
  <2>3. CASE ~fails
    BY <2>1, <2>3, PlainSettles DEF PostLink
  <2> QED
    BY <2>2, <2>3
<1>12. CASE Done
  <2> DEFINE ms == <<DoneMsg>>
  <2>1. ms \in Seq(ToSender) /\ Mail(ms) = {DoneMsg} /\ toS' = Send(toS, ms) /\ UNCHANGED <<outcome, rResolved>>
    BY <1>12, Messages, ShortMail DEF Done
  <2> HIDE DEF ms
  <2>2. Mail(toS') \subseteq Mail(toS) \cup {DoneMsg}
    BY <1>1, <2>1, SendMail
  <2> QED
    BY <2>1, <2>2, MessagesDiffer
<1> HIDE DEF Quiet
<1> QED
  BY <1>3, <1>4, <1>5, <1>6, <1>7, <1>8, <1>9, <1>10, <1>11, <1>12 DEF Receiver, Quiet

\* What the sender, the network and a step of nothing do is no outcome, and no result.
LEMMA SenderOutcomes ==
  ASSUME PlaceInv, Sender \/ Lose \/ UNCHANGED vars
  PROVE  UNCHANGED <<manifest, rxVars>> /\ Mail(toS') \subseteq Mail(toS)
<1>1. UNCHANGED <<manifest, rxVars>>
  BY DEF Sender, Walk, WalkEnd, GateOpen, FileResult, SendData, SendFails, TaskDone, SenderEnd, SenderStops,
         SenderStalls, Hangup, Lose, vars
<1>2. toS' = toS \/ (toS # <<>> /\ toS' = Tail(toS)) \/ toS' = <<>>
  BY DEF Sender, Walk, WalkEnd, GateOpen, FileResult, SendData, SendFails, TaskDone, SenderEnd, SenderStops,
         SenderStalls, Hangup, Lose, CloseConn, Heard, vars
<1>3. Mail(toS') \subseteq Mail(toS)
  <2>1. CASE toS # <<>> /\ toS' = Tail(toS)
    <3>1. toS \in Seq(ToSender)
      BY DEF PlaceInv, QueueTypes
    <3> QED
      BY <2>1, <3>1, TailMail
  <2>2. CASE toS' = <<>>
    BY <2>2, ShortMail
  <2> QED
    BY <1>2, <2>1, <2>2
<1> QED
  BY <1>1, <1>3

\* No step changes an outcome there is.
Kept == \A e \in Entry : outcome[e] # "none" => outcome'[e] = outcome[e]

LEMMA OutcomesKept == ASSUME PlaceInv, [Next]_vars PROVE Kept /\ manifest' = manifest
<1>1. outcome \in [Entry -> {"none", "ok", "error", "sender"}]
  BY DEF PlaceInv, TypeOK, TypeReceiver
<1>2. CASE Sender \/ Lose \/ UNCHANGED vars
  BY <1>2, SenderOutcomes DEF rxVars, Kept
<1>3. CASE Receiver
  <2>1. manifest' = manifest
    BY <1>3 DEF Receiver, HearEntry, Enqueue, HearEnd, HearFileError, PrepareSkip, PrepareEmpty, PreparePart, PrepareFails,
                Arrive, Finalize, RxFails, PostPass, PostLost, WatchGone, PostLink, PostEnd, Done, Cancel, CloseRehash, Flush
  <2> SUFFICES Kept
    BY <2>1
  <2>2. CASE \E e \in Entry, o \in {"ok", "error"} : Settling(e, o)
    BY <1>1, <2>2 DEF Settling, Kept
  <2>3. CASE HearFileError
    <3>1. outcome' = outcome \/ \E e \in Entry : outcome[e] = "none" /\ outcome' = [outcome EXCEPT ![e] = "sender"]
      <4>1. toR # <<>> /\ Head(toR).type = "fileError"
        BY <2>3 DEF HearFileError, Heard
      <4>2. Head(toR).id \in Entry
        BY <4>1, ReadMail, Messages
      <4> QED
        BY <2>3, <4>2 DEF HearFileError, PlaceInv, Registry
    <3> QED
      BY <1>1, <3>1 DEF Kept
  <2>4. CASE UNCHANGED outcome
    BY <2>4 DEF Kept
  <2> QED
    BY <1>3, <2>1, <2>2, <2>3, <2>4, Outcomes
<1> QED
  BY <1>2, <1>3 DEF Next

\* An entry has one outcome: a failure the sender tells of late, a finalize or a
\* frame that comes after it changes nothing (receiver.go:1124-1131, 1420-1425, 1447-1457).
THEOREM OneOutcome == Spec => OutcomeFinal
<1>1. PlaceInv /\ [Next]_vars => [\A e \in Entry : outcome[e] # "none" => outcome'[e] = outcome[e]]_vars
  BY OutcomesKept DEF Kept
<1> QED
  BY <1>1, PlaceInvariant, PTL DEF Spec, OutcomeFinal


-----------------------------------------------------------------------------
(* The report, and the credit *)

\* At first nothing is reported, nothing answered and no credit out.
LEMMA CreditInit == ASSUME Init PROVE CreditInv
<1> USE DEF Init
<1>1. Mail(toS) = {}
  BY ShortMail
<1>2. ReportInv
  BY <1>1 DEF ReportInv, ResultsTrue, ReportSound
<1>3. Answered
  BY <1>1 DEF Answered
<1>4. Waiting = {}
  BY DEF Waiting
<1>5. CreditHeld
  BY <1>4, FS_EmptySet DEF CreditHeld
<1> QED
  BY <1>2, <1>3, <1>5 DEF CreditInv

\* Files do not leave the registry.
LEMMA RegisteredStays ==
  ASSUME PlaceInv, Receiver PROVE \A e \in Entry : rx[e] # "none" => rx'[e] # "none"
<1>1. rx \in [Entry -> {"none", "open", "stub", "ok", "error"}]
  BY DEF PlaceInv, TypeOK, TypeReceiver
<1>2. CASE UNCHANGED rx
  BY <1>2
<1>3. CASE \E f, r : r # "none" /\ rx' = [rx EXCEPT ![f] = r]
  BY <1>1, <1>3
<1>4. CASE HearFileError
  BY <1>2, <1>3, <1>4 DEF HearFileError
<1>5. CASE \E e \in preparing : PrepareEmpty(e)
  BY <1>3, <1>5 DEF PrepareEmpty
<1>6. CASE \E e \in preparing, complete \in BOOLEAN : PreparePart(e, complete)
  BY <1>3, <1>6 DEF PreparePart
<1>7. CASE \E e \in finalQ : Finalize(e)
  BY <1>2, <1>3, <1>7 DEF Finalize
<1>8. CASE \E e \in frames \cup finalQ : RxFails(e)
  BY <1>3, <1>8 DEF RxFails
<1>9. CASE \/ \E refused \in BOOLEAN : HearEntry(refused)
           \/ Enqueue \/ HearEnd
           \/ \E e \in preparing : PrepareSkip(e) \/ PrepareFails(e)
           \/ \E e \in frames : Arrive(e)
           \/ PostPass \/ PostLost \/ WatchGone
           \/ \E e \in jobs, fails \in BOOLEAN : PostLink(e, fails)
           \/ PostEnd \/ Done \/ Cancel \/ CloseRehash \/ Flush
  <2>1. UNCHANGED rx
    BY <1>9 DEF HearEntry, Enqueue, HearEnd, PrepareSkip, PrepareFails, Arrive, PostPass, PostLost, WatchGone, PostLink,
                PostEnd, Done, Cancel, CloseRehash, Flush
  <2> QED
    BY <1>2, <2>1
<1> QED
  BY <1>4, <1>5, <1>6, <1>7, <1>8, <1>9 DEF Receiver

\* Have-information is told of a file that is known from then on; of one that is in
\* parts when it is registered as such.
LEMMA HaveTold ==
  ASSUME PlaceInv, Receiver, NEW e \in Entry, NEW h \in {"skip", "all", "part"},
         HaveMsg(e, h) \in Mail(toS'), HaveMsg(e, h) \notin Mail(toS)
  PROVE  /\ rx'[e] # "none" \/ outcome'[e] # "none"
         /\ h = "part" => PreparePart(e, FALSE) /\ e \in preparing /\ rx'[e] = "open"
<1>1. toS \in Seq(ToSender) /\ outcome \in [Entry -> {"none", "ok", "error", "sender"}]
      /\ rx \in [Entry -> {"none", "open", "stub", "ok", "error"}]
  BY DEF PlaceInv, TypeOK, TypeReceiver, QueueTypes
<1>2. ASSUME \E f \in Entry, o \in {"ok", "error"} : Settling(f, o)
      PROVE  outcome'[e] # "none" /\ h # "part"
  BY <1>1, <1>2 DEF Settling
<1>3. ~UNCHANGED toS /\ ~(toS' = <<>>)
  BY ShortMail
<1>4. CASE \E f \in preparing : PrepareSkip(f) \/ PrepareEmpty(f) \/ PrepareFails(f)
  BY <1>2, <1>4, PrepareSettles
<1>5. CASE \E f \in preparing, complete \in BOOLEAN : PreparePart(f, complete)
  <2> PICK f \in preparing, complete \in BOOLEAN : PreparePart(f, complete)
    BY <1>5
  <2> DEFINE g == IF complete THEN "all" ELSE "part"
             ms == <<HaveMsg(f, g)>>
  <2>1. f \in Entry
    BY AtWork
  <2>2. ms \in Seq(ToSender) /\ Mail(ms) = {HaveMsg(f, g)} /\ toS' = Send(toS, ms)
    BY <1>1, <2>1, Messages, ShortMail DEF PreparePart
  <2> HIDE DEF ms
  <2>3. HaveMsg(e, h) = HaveMsg(f, g)
    BY <1>1, <2>2, SendMail
  <2>4. f = e /\ h = g
    BY <2>3, MessagesDiffer
  <2>5. rx'[e] = "open"
    BY <1>1, <2>4 DEF PreparePart
  <2> QED
    BY <2>4, <2>5
<1>6. CASE Done
  <2> DEFINE ms == <<DoneMsg>>
  <2>1. ms \in Seq(ToSender) /\ Mail(ms) = {DoneMsg} /\ toS' = Send(toS, ms)
    BY <1>6, Messages, ShortMail DEF Done
  <2> HIDE DEF ms
  <2> QED
    BY <1>1, <2>1, SendMail, MessagesDiffer
<1>7. ASSUME NEW f \in Entry, NEW o \in {"ok", "error"}, Resolve(f, o, <<>>, <<>>) PROVE FALSE
  <2>1. <<>> \in Seq(ToSender) /\ Mail(<<>>) = {}
    BY ShortMail
  <2>2. Mail(toS') \subseteq Mail(toS) \cup {ResultMsg(f, o)}
    BY <1>7, <2>1, ResolveMail
  <2> QED
    BY <2>2, MessagesDiffer
<1>8. CASE \E refused \in BOOLEAN : HearEntry(refused)
  <2> PICK refused \in BOOLEAN : HearEntry(refused)
    BY <1>8
  <2>1. Resolve(Head(toR).id, IF refused THEN "error" ELSE "ok", <<>>, <<>>)
    BY <1>3 DEF HearEntry
  <2> QED
    BY <1>7, <2>1, HeardFresh
<1>9. CASE (\E f \in finalQ : Finalize(f)) \/ (\E f \in frames \cup finalQ : RxFails(f))
           \/ \E f \in jobs, fails \in BOOLEAN : PostLink(f, fails)
  <2>1. finalQ \in SUBSET Entry /\ frames \in SUBSET Entry /\ jobs \in SUBSET Entry
    BY DEF PlaceInv, TypeOK, TypeReceiver
  <2>2. \E f \in Entry, o \in {"ok", "error"} : Resolve(f, o, <<>>, <<>>)
    BY <1>3, <1>9, <2>1 DEF Finalize, RxFails, PostLink
  <2> QED
    BY <1>7, <2>2
<1>10. CASE Enqueue \/ HearEnd \/ HearFileError \/ (\E f \in frames : Arrive(f)) \/ PostPass \/ PostLost \/ WatchGone
            \/ PostEnd \/ Cancel \/ CloseRehash \/ Flush
  BY <1>3, <1>10 DEF Enqueue, CloseConn, HearEnd, HearFileError, Arrive, PostPass, PostLost, WatchGone, PostEnd, Cancel,
                     CloseRehash, Flush
<1> QED
  BY <1>4, <1>5, <1>6, <1>8, <1>9, <1>10 DEF Receiver


\* A set that loses at most one element loses at most one in number.
LEMMA OneLess ==
  ASSUME NEW S, NEW T, IsFiniteSet(S), IsFiniteSet(T), NEW e, S \ {e} \subseteq T
  PROVE  /\ Cardinality(S) \in Nat /\ Cardinality(T) \in Nat /\ Cardinality(T) >= Cardinality(S) - 1
         /\ (e \in S => e \in T) => Cardinality(T) >= Cardinality(S)
<1>1. Cardinality(S) \in Nat /\ Cardinality(T) \in Nat
  BY FS_CardinalityType
<1>2. IsFiniteSet(S \ {e}) /\ Cardinality(S \ {e}) = IF e \in S THEN Cardinality(S) - 1 ELSE Cardinality(S)
  BY FS_RemoveElement
<1>3. Cardinality(S \ {e}) <= Cardinality(T)
  BY FS_Subset
<1>4. (e \in S => e \in T) => S \subseteq T
  OBVIOUS
<1>5. S \subseteq T => Cardinality(S) <= Cardinality(T)
  BY FS_Subset
<1> QED
  BY <1>1, <1>2, <1>3, <1>4, <1>5

\* The files that wait are entries.
LEMMA WaitingFinite == ASSUME PlaceInv PROVE IsFiniteSet(Waiting) /\ Waiting \subseteq Entry
<1>1. walked \in 0 .. Total /\ Total \in Nat /\ Entry = 1 .. Total /\ IsFiniteSet(Entry)
  BY Entries DEF PlaceInv, TypeOK, TypeSender
<1>2. Waiting \subseteq Entry
  BY <1>1 DEF Waiting
<1> QED
  BY <1>1, <1>2, FS_Subset

\* The receiver leaves the sender's state alone.
LEMMA ReceiverOnly == ASSUME Receiver PROVE UNCHANGED <<manifest, disk, sendVars>>
BY DEF Receiver, HearEntry, Enqueue, HearEnd, HearFileError, PrepareSkip, PrepareEmpty, PreparePart, PrepareFails,
       Arrive, Finalize, RxFails, PostPass, PostLost, WatchGone, PostLink, PostEnd, Done, Cancel, CloseRehash, Flush

\* A step of the receiver: results and have-information are as they are told.
LEMMA ReceiverCredit == ASSUME PlaceInv, CreditInv, Receiver PROVE CreditInv'
<1>1. UNCHANGED <<manifest, disk, sendVars>> /\ Kept /\ Entry' = Entry
  BY ReceiverOnly, OutcomesKept DEF Next, Entry
<1>2. outcome \in [Entry -> {"none", "ok", "error", "sender"}] /\ okS \in SUBSET Entry
  BY DEF PlaceInv, TypeOK, TypeSender, TypeReceiver
<1>3. ASSUME NEW e \in Entry, NEW o \in {"ok", "error"}, ResultMsg(e, o) \in Mail(toS') PROVE outcome'[e] = o
  <2>1. CASE ResultMsg(e, o) \in Mail(toS)
    BY <1>1, <2>1 DEF CreditInv, ReportInv, ResultsTrue, Kept
  <2>2. CASE ResultMsg(e, o) \notin Mail(toS)
    <3>1. CASE HearFileError
      BY <1>3, <2>2, <3>1 DEF HearFileError
    <3>2. CASE \E f \in Entry, p \in {"ok", "error"} : Settling(f, p)
      BY <1>2, <1>3, <2>2, <3>2 DEF Settling
    <3> QED
      BY <1>3, <2>2, <3>1, <3>2, Outcomes
  <2> QED
    BY <2>1, <2>2
<1>4. ReportInv'
  <2>1. ReportSound'
    BY <1>1, <1>2 DEF CreditInv, ReportInv, ReportSound, Kept, sendVars
  <2> QED
    BY <1>1, <1>3, <2>1 DEF ReportInv, ResultsTrue
<1>5. \A e \in Entry : Known(e) => Known(e)'
  BY <1>1, RegisteredStays DEF Known, Kept
<1>6. Answered'
  <2>1. ASSUME NEW e \in Entry, NEW h \in {"skip", "all", "part"}, HaveMsg(e, h) \in Mail(toS') PROVE Known(e)'
    BY <1>5, <2>1, HaveTold DEF CreditInv, Answered, Known
  <2>2. ASSUME NEW e \in Entry, have[e] # "none" \/ e \in resolvedIDs PROVE Known(e)'
    BY <1>5, <2>2 DEF CreditInv, Answered
  <2>3. (\A e \in sent : have[e] = "part")'
    BY <1>1 DEF CreditInv, Answered, sendVars
  <2> QED
    BY <1>1, <2>1, <2>2, <2>3 DEF Answered, sendVars
<1>7. CreditHeld'
  <2>1. Waiting' = Waiting /\ gates' = gates
    BY <1>1 DEF Waiting, Regular, KindOf, sendVars
  <2> QED
    BY <2>1 DEF CreditInv, CreditHeld
<1> QED
  BY <1>4, <1>6, <1>7 DEF CreditInv

\* A step that leaves the receiver be, and the sender's knowledge true.
LEMMA SenderCredit ==
  ASSUME PlaceInv, CreditInv, UNCHANGED <<manifest, rxVars>>, Mail(toS') \subseteq Mail(toS),
         ReportSound', CreditHeld',
         \A e \in Entry : have'[e] # "none" \/ e \in resolvedIDs' => Known(e), \A e \in sent' : have'[e] = "part"
  PROVE  CreditInv'
<1>1. Entry' = Entry /\ \A e \in Entry : Known(e)' = Known(e)
  BY DEF Entry, Known, rxVars
<1>2. ResultsTrue'
  BY <1>1 DEF CreditInv, ReportInv, ResultsTrue, rxVars
<1>3. Answered'
  <2>1. \A e \in Entry, h \in {"skip", "all", "part"} : HaveMsg(e, h) \in Mail(toS') => Known(e)
    BY DEF CreditInv, Answered
  <2> QED
    BY <1>1, <2>1 DEF Answered
<1> QED
  BY <1>2, <1>3 DEF CreditInv, ReportInv

\* A step of the sender.
LEMMA SendingCredit == ASSUME PlaceInv, CreditInv, Sender \/ Lose \/ UNCHANGED vars PROVE CreditInv'
<1>0. UNCHANGED <<manifest, rxVars>> /\ Mail(toS') \subseteq Mail(toS) /\ Entry' = Entry /\ PlaceInv'
  BY SenderOutcomes, SenderPlace, StillPlace DEF Entry
<1>1. /\ TypeOK /\ TypeSender /\ walked \in Nat /\ gates \in Int /\ 0 \notin Entry
      /\ Entry = 1 .. Total /\ Total \in Nat /\ \A e : Regular(e)' = Regular(e)
      /\ have \in [Entry -> {"none", "skip", "all", "part"}] /\ resolvedIDs \in SUBSET Entry
  BY <1>0, Entries DEF PlaceInv, TypeOK, TypeSender, Regular, KindOf
<1>2. IsFiniteSet(Waiting) /\ IsFiniteSet(Waiting') /\ Cardinality(Waiting) \in Nat /\ Cardinality(Waiting') \in Nat
  <2>1. IsFiniteSet(Waiting) /\ IsFiniteSet(Entry)
    BY <1>1, WaitingFinite, Entries DEF TypeOK
  <2>2. walked' \in 0 .. Total /\ Total \in Nat
    BY <1>0, <1>1 DEF PlaceInv, TypeOK, TypeSender, Total
  <2>3. Waiting' \subseteq Entry
    BY <1>1, <2>2 DEF Waiting
  <2> QED
    BY <2>1, <2>3, FS_Subset, FS_CardinalityType
<1>3. ASSUME UNCHANGED <<okS>> PROVE ReportSound'
  BY <1>0, <1>3 DEF CreditInv, ReportInv, ReportSound, rxVars
<1>4. ASSUME UNCHANGED <<okS, have, resolvedIDs, sent, walked, gates>> PROVE CreditInv'
  <2>1. CreditHeld'
    BY <1>0, <1>1, <1>4 DEF CreditInv, CreditHeld, Waiting
  <2> QED
    BY <1>0, <1>3, <1>4, <2>1, SenderCredit DEF CreditInv, Answered
<1>5. CASE Walk
  <2>1. walked' = walked + 1 /\ walked' \in Entry /\ UNCHANGED <<okS, have, sent, resolvedIDs>>
        /\ gates' = IF Regular(walked') THEN gates + 1 ELSE gates
    BY <1>1, <1>5 DEF Walk
  <2>2. Untold(walked')
    <3>1. Len(batch) \in Nat /\ Len(batch) <= walked
      BY <1>1, LenProperties DEF PlaceInv, TypeSender, Batched
    <3> QED
      BY <1>1, <2>1, <3>1 DEF Untold
  <2>3. ~Known(walked')
    BY <2>1, <2>2 DEF PlaceInv, Queued, Fresh, Known
  <2>4. have[walked'] = "none" /\ walked' \notin resolvedIDs
    BY <2>1, <2>3 DEF CreditInv, Answered
  <2>5. walked' \notin Waiting /\ Waiting \subseteq Waiting' /\ (Regular(walked') => walked' \in Waiting')
    <3>1. walked' \notin 1 .. walked
      BY <1>1, <2>1
    <3>2. Waiting \subseteq Waiting'
      BY <1>1, <2>1 DEF Waiting
    <3>3. Regular(walked') => walked' \in Waiting'
      BY <1>1, <2>1, <2>4 DEF Waiting
    <3> QED
      BY <3>1, <3>2, <3>3 DEF Waiting
  <2>6. CreditHeld'
    <3>1. CASE Regular(walked')
      <4>1. Waiting \subseteq Waiting' \ {walked'} /\ Cardinality(Waiting' \ {walked'}) = Cardinality(Waiting') - 1
            /\ IsFiniteSet(Waiting' \ {walked'})
        BY <1>2, <2>5, <3>1, FS_RemoveElement
      <4>2. Cardinality(Waiting) <= Cardinality(Waiting') - 1
        BY <1>2, <4>1, FS_Subset
      <4> QED
        BY <1>1, <1>2, <2>1, <3>1, <4>2 DEF CreditInv, CreditHeld
    <3>2. CASE ~Regular(walked')
      <4>1. Cardinality(Waiting) <= Cardinality(Waiting')
        BY <1>2, <2>5, FS_Subset
      <4> QED
        BY <1>1, <1>2, <2>1, <3>2, <4>1 DEF CreditInv, CreditHeld
    <3> QED
      BY <3>1, <3>2
  <2> QED
    BY <1>0, <1>3, <2>1, <2>6, SenderCredit DEF CreditInv, Answered
<1>6. CASE GateOpen
  <2> PICK e : e = Head(toS).id
    OBVIOUS
  <2>1. e \in Entry /\ HaveMsg(e, Head(toS).what) \in Mail(toS) /\ Head(toS).what \in {"skip", "all", "part"}
    <3>1. toS \in Seq(ToSender) /\ toS # <<>> /\ Head(toS).type = "have"
      BY <1>6 DEF GateOpen, Heard, PlaceInv, QueueTypes
    <3>2. Head(toS) \in ToSender /\ Head(toS) \in Mail(toS)
      BY <3>1, TailMail
    <3> QED
      BY <3>1, <3>2, Messages
  <2>2. CASE have[e] # "none"
    BY <1>4, <1>6, <2>2 DEF GateOpen
  <2>3. CASE have[e] = "none"
    <3>1. have' = [have EXCEPT ![e] = Head(toS).what] /\ gates' = gates - 1
          /\ UNCHANGED <<okS, resolvedIDs, sent, walked>>
      BY <1>6, <2>3 DEF GateOpen
    <3>2. Waiting \ {e} \subseteq Waiting'
      BY <1>1, <2>1, <3>1 DEF Waiting
    <3>3. CreditHeld'
      <4>1. Cardinality(Waiting') >= Cardinality(Waiting) - 1
        BY <1>2, <3>2, OneLess
      <4> QED
        BY <1>1, <1>2, <3>1, <4>1 DEF CreditInv, CreditHeld
    <3>4. \A f \in Entry : have'[f] # "none" \/ f \in resolvedIDs' => Known(f)
      BY <1>1, <2>1, <3>1 DEF CreditInv, Answered
    <3>5. \A f \in sent' : have'[f] = "part"
      BY <1>1, <2>1, <2>3, <3>1 DEF CreditInv, Answered
    <3> QED
      BY <1>0, <1>3, <3>1, <3>3, <3>4, <3>5, SenderCredit
  <2> QED
    BY <2>2, <2>3
<1>7. CASE FileResult
  <2> PICK e : e = Head(toS).id
    OBVIOUS
  <2>1. e \in Entry /\ ResultMsg(e, Head(toS).what) \in Mail(toS) /\ Head(toS).what \in {"ok", "error"}
    <3>1. toS \in Seq(ToSender) /\ toS # <<>> /\ Head(toS).type = "result"
      BY <1>7 DEF FileResult, Heard, PlaceInv, QueueTypes
    <3>2. Head(toS) \in ToSender /\ Head(toS) \in Mail(toS)
      BY <3>1, TailMail
    <3> QED
      BY <3>1, <3>2, Messages
  <2>2. outcome[e] = Head(toS).what /\ Known(e)
    BY <2>1 DEF CreditInv, ReportInv, ResultsTrue, Known
  <2>3. CASE e \in resolvedIDs
    BY <1>4, <1>7, <2>3 DEF FileResult
  <2>4. CASE e \notin resolvedIDs
    <3>1. /\ gates' = Released(e) /\ resolvedIDs' = resolvedIDs \cup {e} /\ UNCHANGED <<have, sent, walked>>
          /\ okS' = IF Head(toS).what = "ok" THEN okS \cup {e} ELSE okS
      BY <1>7, <2>4 DEF FileResult, Counted
    <3>2. Waiting \ {e} \subseteq Waiting'
      BY <1>1, <3>1 DEF Waiting
    <3>3. CreditHeld'
      <4>1. CASE Regular(e) /\ have[e] = "none"
        BY <1>1, <1>2, <3>1, <3>2, <4>1, OneLess DEF CreditInv, CreditHeld, Released
      <4>2. CASE ~(Regular(e) /\ have[e] = "none")
        <5>1. e \notin Waiting /\ gates' = gates
          BY <3>1, <4>2 DEF Waiting, Released
        <5> QED
          BY <1>1, <1>2, <3>2, <5>1, OneLess DEF CreditInv, CreditHeld
      <4> QED
        BY <4>1, <4>2
    <3>4. ReportSound'
      BY <1>0, <2>2, <3>1 DEF CreditInv, ReportInv, ReportSound, rxVars
    <3>5. \A f \in Entry : have'[f] # "none" \/ f \in resolvedIDs' => Known(f)
      BY <2>2, <3>1 DEF CreditInv, Answered
    <3> QED
      BY <1>0, <3>1, <3>3, <3>4, <3>5, SenderCredit DEF CreditInv, Answered
  <2> QED
    BY <2>3, <2>4
<1>8. CASE \E e \in Entry : SendData(e)
  <2> PICK e \in Entry : SendData(e)
    BY <1>8
  <2>1. sent' = sent \cup {e} /\ have[e] = "part" /\ UNCHANGED <<okS, have, resolvedIDs, walked, gates>>
    BY DEF SendData, NextFile
  <2>2. CreditHeld'
    BY <1>0, <1>1, <2>1 DEF CreditInv, CreditHeld, Waiting
  <2> QED
    BY <1>0, <1>3, <2>1, <2>2, SenderCredit DEF CreditInv, Answered
<1>9. ASSUME NEW e \in Entry, have[e] = "part", FailFile(e), UNCHANGED <<okS, have, sent, walked, gates>> PROVE CreditInv'
  <2>1. resolvedIDs' = resolvedIDs \cup {e}
    BY <1>9 DEF FailFile
  <2>2. Waiting' = Waiting
    <3>1. Waiting' \subseteq Waiting
      BY <1>1, <1>9, <2>1 DEF Waiting
    <3>2. Waiting \subseteq Waiting'
      BY <1>1, <1>9, <2>1 DEF Waiting
    <3> QED
      BY <3>1, <3>2
  <2>3. CreditHeld'
    BY <1>9, <2>2 DEF CreditInv, CreditHeld
  <2> QED
    BY <1>0, <1>3, <1>9, <2>1, <2>3, SenderCredit DEF CreditInv, Answered
<1>10. CASE \E e \in Entry : SendFails(e)
  BY <1>9, <1>10 DEF SendFails, NextFile
<1>11. CASE \E e \in sent, changed \in BOOLEAN : TaskDone(e, changed)
  <2> PICK e \in sent, changed \in BOOLEAN : TaskDone(e, changed)
    BY <1>11
  <2>1. e \in Entry /\ have[e] = "part"
    BY <1>1 DEF TypeSender, CreditInv, Answered
  <2>2. CASE FailFile(e)
    BY <1>9, <2>1, <2>2 DEF TaskDone
  <2>3. CASE UNCHANGED resolvedIDs
    BY <1>4, <2>3 DEF TaskDone
  <2> QED
    BY <2>2, <2>3 DEF TaskDone
<1>12. CASE WalkEnd \/ SenderEnd \/ SenderStops \/ SenderStalls \/ Hangup \/ Lose \/ UNCHANGED vars
  BY <1>4, <1>12 DEF WalkEnd, SenderEnd, SenderStops, SenderStalls, Hangup, Lose, vars, sendVars
<1> QED
  BY <1>5, <1>6, <1>7, <1>8, <1>10, <1>11, <1>12 DEF Sender

\* The invariant of report and credit holds throughout.
THEOREM CreditInvariant == Spec => []CreditInv
<1>1. Init => CreditInv
  BY CreditInit
<1>2. PlaceInv /\ CreditInv /\ [Next]_vars => CreditInv'
  BY ReceiverCredit, SendingCredit DEF Next
<1> QED
  BY <1>1, <1>2, PlaceInvariant, PTL DEF Spec

\* No credit is lost, in whatever order bitmaps, outcomes and failures come: the
\* walker is held back by files that wait only (sender.go:331-342, 661-669).
THEOREM NoCreditLost == Spec => []CreditHeld
<1>1. CreditInv => CreditHeld
  BY DEF CreditInv
<1> QED
  BY <1>1, CreditInvariant, PTL

\* What the sender reports as transferred is at the receiver.
THEOREM TrueReport == Spec => []ReportSound
<1>1. CreditInv => ReportSound
  BY DEF CreditInv, ReportInv
<1> QED
  BY <1>1, CreditInvariant, PTL


-----------------------------------------------------------------------------
(* Files in parts, and failures at the sender *)

\* At first there are none.
LEMMA PartInit == ASSUME Init PROVE PartInv
<1> USE DEF Init
<1>1. Mail(toS) = {} /\ Mail(toR) = {} /\ Distinct(toR, "fileError")
  BY ShortMail
<1> QED
  BY <1>1 DEF PartInv, InParts, SettledBySent, GivenUp, Told

\* What the control reader leaves of the failures.
LEMMA RestDistinct ==
  ASSUME PlaceInv, PartInv, toR' = toR \/ toR' = <<>> \/ (toR # <<>> /\ toR' = Tail(toR))
  PROVE  Distinct(toR', "fileError") /\ Mail(toR') \subseteq Mail(toR)
<1>1. Distinct(toR, "fileError")
  BY DEF PartInv, GivenUp
<1>2. CASE toR # <<>> /\ toR' = Tail(toR)
  BY <1>1, <1>2, ReadMail
<1>3. CASE toR' = <<>>
  BY <1>3, ShortMail
<1> QED
  BY <1>1, <1>2, <1>3

\* A step of the receiver that registers no part.
LEMMA PartFrame ==
  ASSUME PlaceInv, CreditInv, PartInv, Receiver,
         toR' = toR \/ toR' = <<>> \/ (toR # <<>> /\ toR' = Tail(toR)),
         frames' \subseteq frames,
         \A e \in finalQ' : e \in finalQ \/ (e \in sent /\ rx[e] = "open"),
         finalQ' \subseteq Entry,
         \A e \in Entry :
           \/ rx'[e] = rx[e]
           \/ rx[e] = "none" /\ rx'[e] = "stub"
           \/ rx[e] = "open" /\ rx'[e] = "ok"
           \/ rx[e] = "open" /\ rx'[e] = "error" /\ (e \in frames \cup finalQ \/ outcome'[e] = "sender"),
         \A e \in Entry : outcome'[e] = "sender" => outcome[e] = "sender" \/ (e \in errS /\ FileErrorMsg(e) \notin Mail(toR'))
  PROVE  PartInv'
<1>1. UNCHANGED <<manifest, disk, sendVars>> /\ Kept /\ Entry' = Entry
  BY ReceiverOnly, OutcomesKept DEF Next, Entry
<1>2. /\ rx \in [Entry -> {"none", "open", "stub", "ok", "error"}]
      /\ outcome \in [Entry -> {"none", "ok", "error", "sender"}]
      /\ frames \in SUBSET Entry /\ finalQ \in SUBSET Entry
  BY DEF PlaceInv, TypeOK, TypeReceiver
<1>3. \A e \in Entry : Told(e)' => Told(e)
  <2> SUFFICES ASSUME NEW e \in Entry, HaveMsg(e, "part") \in Mail(toS'), HaveMsg(e, "part") \notin Mail(toS) PROVE FALSE
    BY <1>1 DEF Told, sendVars
  <2>1. e \in preparing /\ rx'[e] = "open"
    BY HaveTold
  <2>2. rx[e] = "none"
    BY <2>1, AtWork
  <2> QED
    BY <2>1, <2>2
<1>4. InParts'
  <2>1. \A e \in frames' : e \in sent
    BY DEF PartInv, InParts
  <2>2. \A e \in finalQ' : rx'[e] # "none"
    BY <1>2 DEF PartInv, InParts
  <2>3. \A e \in Entry : Told(e)' => rx'[e] \in {"open", "ok", "error"}
    BY <1>2, <1>3 DEF PartInv, InParts
  <2> QED
    BY <1>1, <2>1, <2>2, <2>3 DEF InParts, sendVars
<1>5. SettledBySent'
  <2> SUFFICES ASSUME NEW e \in Entry, Told(e)', e \in finalQ' \/ (rx'[e] = "error" /\ outcome'[e] = "error")
               PROVE  e \in sent
    BY <1>1 DEF SettledBySent, sendVars
  <2>1. Told(e)
    BY <1>3
  <2>2. e \in finalQ => e \in sent
    BY <2>1 DEF PartInv, SettledBySent
  <2>3. e \in frames => e \in sent
    BY DEF PartInv, InParts
  <2>4. CASE e \in finalQ'
    BY <2>2, <2>4
  <2>5. CASE rx'[e] = "error" /\ outcome'[e] = "error" /\ rx[e] = "error"
    <3>1. outcome[e] = "error"
      BY <1>1, <1>2, <2>5 DEF Kept, PlaceInv, Registry
    <3> QED
      BY <2>1, <2>5, <3>1 DEF PartInv, SettledBySent
  <2>6. CASE rx'[e] = "error" /\ outcome'[e] = "error" /\ rx[e] # "error"
    BY <2>2, <2>3, <2>6
  <2> QED
    BY <2>4, <2>5, <2>6
<1>6. GivenUp'
  <2>1. Distinct(toR', "fileError") /\ Mail(toR') \subseteq Mail(toR)
    BY RestDistinct
  <2>2. ASSUME NEW e \in Entry, FileErrorMsg(e) \in Mail(toR') PROVE e \in errS /\ have[e] = "part" /\ outcome'[e] # "sender"
    BY <2>1, <2>2 DEF PartInv, GivenUp
  <2>3. ASSUME NEW e \in Entry, outcome'[e] = "sender" PROVE e \in errS
    BY <2>3 DEF PartInv, GivenUp
  <2> QED
    BY <1>1, <2>1, <2>2, <2>3 DEF GivenUp, sendVars
<1> QED
  BY <1>4, <1>5, <1>6 DEF PartInv

\* No outcome of the receiver's own is the sender's.
LEMMA OwnOutcome ==
  ASSUME PlaceInv, Receiver, ~HearFileError, NEW e \in Entry, outcome'[e] = "sender" PROVE outcome[e] = "sender"
<1>1. outcome \in [Entry -> {"none", "ok", "error", "sender"}]
  BY DEF PlaceInv, TypeOK, TypeReceiver
<1> QED
  BY <1>1, Outcomes DEF Settling

\* A part is registered and announced.
LEMMA PreparePartPart ==
  ASSUME PlaceInv, CreditInv, PartInv, Receiver, NEW e \in preparing, NEW complete \in BOOLEAN, PreparePart(e, complete)
  PROVE  PartInv'
<1>1. /\ UNCHANGED <<manifest, disk, sendVars, frames, toR, outcome>> /\ Entry' = Entry
      /\ rx' = [rx EXCEPT ![e] = "open"] /\ finalQ' = IF complete THEN finalQ \cup {e} ELSE finalQ
  BY ReceiverOnly DEF PreparePart, Entry
<1>2. e \in Entry /\ rx[e] = "none" /\ outcome[e] = "none"
  BY AtWork
<1>3. rx \in [Entry -> {"none", "open", "stub", "ok", "error"}] /\ finalQ \in SUBSET Entry
  BY DEF PlaceInv, TypeOK, TypeReceiver
<1>4. ~Told(e) /\ e \notin finalQ
  BY <1>2 DEF PartInv, InParts
<1>5. \A f \in Entry \ {e} : Told(f)' => Told(f)
  <2> SUFFICES ASSUME NEW f \in Entry \ {e}, HaveMsg(f, "part") \in Mail(toS'), HaveMsg(f, "part") \notin Mail(toS) PROVE FALSE
    BY <1>1 DEF Told, sendVars
  <2>1. f \in preparing /\ rx'[f] = "open"
    BY HaveTold
  <2>2. rx[f] = "none"
    BY <2>1, AtWork
  <2> QED
    BY <1>1, <1>3, <2>1, <2>2
<1>6. complete => ~Told(e)'
  <2> SUFFICES ASSUME complete, HaveMsg(e, "part") \in Mail(toS') PROVE FALSE
    BY <1>1, <1>4 DEF Told, sendVars
  <2>1. toS \in Seq(ToSender) /\ toS' = Send(toS, <<HaveMsg(e, "all")>>)
    BY DEF PreparePart, PlaceInv, QueueTypes
  <2> DEFINE ms == <<HaveMsg(e, "all")>>
  <2>2. ms \in Seq(ToSender) /\ Mail(ms) = {HaveMsg(e, "all")} /\ toS' = Send(toS, ms)
    BY <1>2, <2>1, Messages, ShortMail
  <2> HIDE DEF ms
  <2>3. HaveMsg(e, "part") \in Mail(toS) \cup {HaveMsg(e, "all")}
    BY <2>1, <2>2, SendMail
  <2> QED
    BY <1>4, <2>3, MessagesDiffer DEF Told
<1>7. InParts'
  <2>1. \A f \in frames' : f \in sent
    BY <1>1 DEF PartInv, InParts
  <2>2. \A f \in finalQ' : rx'[f] # "none"
    BY <1>1, <1>2, <1>3 DEF PartInv, InParts
  <2>3. \A f \in Entry : Told(f)' => rx'[f] \in {"open", "ok", "error"}
    BY <1>1, <1>2, <1>3, <1>5 DEF PartInv, InParts
  <2> QED
    BY <1>1, <2>1, <2>2, <2>3 DEF InParts, sendVars
<1>8. SettledBySent'
  <2> SUFFICES ASSUME NEW f \in Entry, Told(f)', f \in finalQ' \/ (rx'[f] = "error" /\ outcome'[f] = "error")
               PROVE  f \in sent
    BY <1>1 DEF SettledBySent, sendVars
  <2>1. CASE f = e
    BY <1>1, <1>2, <1>3, <1>4, <1>6, <2>1
  <2>2. CASE f # e
    BY <1>1, <1>3, <1>5, <2>2 DEF PartInv, SettledBySent
  <2> QED
    BY <2>1, <2>2
<1>9. GivenUp'
  BY <1>1 DEF PartInv, GivenUp, sendVars
<1> QED
  BY <1>7, <1>8, <1>9 DEF PartInv

\* Without a message read no failure is heard.
LEMMA NoneRead == ASSUME PlaceInv, toR' = toR PROVE ~HearFileError
<1>1. HearFileError => toR # <<>> /\ toR' = Tail(toR)
  BY DEF HearFileError, Heard
<1>2. toR \in Seq(ToReceiver)
  BY DEF PlaceInv, QueueTypes
<1>3. toR # <<>> => Len(Tail(toR)) = Len(toR) - 1 /\ Len(toR) \in Nat
  BY <1>2, HeadTailProperties, LenProperties
<1> QED
  BY <1>1, <1>3

\* A step of the receiver.
LEMMA ReceiverPart == ASSUME PlaceInv, CreditInv, PartInv, Receiver PROVE PartInv'
<1>1. /\ rx \in [Entry -> {"none", "open", "stub", "ok", "error"}] /\ finalQ \in SUBSET Entry
      /\ preparing \in SUBSET Entry /\ frames \in SUBSET Entry
      /\ outcome \in [Entry -> {"none", "ok", "error", "sender"}]
  BY DEF PlaceInv, TypeOK, TypeReceiver
<1> DEFINE Read == toR' = toR \/ toR' = <<>> \/ (toR # <<>> /\ toR' = Tail(toR))
<1>2. CASE \E e \in preparing, complete \in BOOLEAN : PreparePart(e, complete)
  BY <1>2, PreparePartPart
<1>3. CASE HearFileError
  <2>1. toR # <<>> /\ Head(toR).type = "fileError" /\ toR' = Tail(toR) /\ UNCHANGED <<frames, finalQ>>
    BY <1>3 DEF HearFileError, Heard
  <2> PICK e \in Entry : e = Head(toR).id /\ Head(toR) = FileErrorMsg(e)
    BY <2>1, ReadMail, Messages
  <2>2. FileErrorMsg(e) \in Mail(toR) /\ FileErrorMsg(e) \notin Mail(toR')
    BY <2>1, ReadMail DEF PartInv, GivenUp
  <2>3. e \in errS
    BY <2>2 DEF PartInv, GivenUp
  <2>4. CASE UNCHANGED <<rx, outcome>>
    BY <1>1, <2>1, <2>4, PartFrame
  <2>5. CASE rx[e] = "open" /\ rx' = [rx EXCEPT ![e] = "error"] /\ outcome' = [outcome EXCEPT ![e] = "sender"]
    <3>1. \A f \in Entry : rx'[f] = rx[f] \/ (rx[f] = "open" /\ rx'[f] = "error" /\ outcome'[f] = "sender")
      BY <1>1, <2>5
    <3>2. \A f \in Entry : outcome'[f] = "sender" => outcome[f] = "sender" \/ (f \in errS /\ FileErrorMsg(f) \notin Mail(toR'))
      BY <1>1, <2>2, <2>3, <2>5
    <3> QED
      BY <1>1, <2>1, <3>1, <3>2, PartFrame
  <2> QED
    BY <1>3, <2>4, <2>5 DEF HearFileError
<1>4. CASE ~HearFileError /\ Read /\ frames' \subseteq frames /\ rx' = rx /\ finalQ' \subseteq finalQ
  BY <1>1, <1>4, PartFrame, OwnOutcome
<1>5. CASE /\ ~HearFileError /\ Read /\ frames' \subseteq frames /\ finalQ' \subseteq finalQ
           /\ \E e \in Entry : rx' = [rx EXCEPT ![e] = "stub"] /\ rx[e] = "none"
  <2>1. \A f \in Entry : rx'[f] = rx[f] \/ (rx[f] = "none" /\ rx'[f] = "stub")
    BY <1>1, <1>5
  <2> QED
    BY <1>1, <1>5, <2>1, PartFrame, OwnOutcome
<1>6. CASE \E refused \in BOOLEAN : HearEntry(refused)
  <2>1. UNCHANGED <<frames, rx, finalQ>> /\ Read /\ ~HearFileError
    BY <1>6 DEF HearEntry, HearFileError, Heard
  <2> QED
    BY <1>4, <2>1
<1>7. CASE Enqueue
  <2>1. UNCHANGED <<rx, finalQ>> /\ Read /\ ~HearFileError /\ frames' \subseteq frames
    BY <1>7 DEF Enqueue, HearFileError, CloseConn
  <2> QED
    BY <1>4, <2>1
<1>8. CASE HearEnd
  <2>1. UNCHANGED <<frames, rx, finalQ>> /\ Read /\ ~HearFileError
    BY <1>8 DEF HearEnd, HearFileError, Heard
  <2> QED
    BY <1>4, <2>1
<1>9. CASE (\E e \in preparing : PrepareSkip(e) \/ PrepareFails(e)) \/ PostPass \/ PostLost \/ WatchGone
           \/ (\E e \in jobs, fails \in BOOLEAN : PostLink(e, fails)) \/ PostEnd \/ Done \/ Cancel \/ CloseRehash \/ Flush
  <2>1. UNCHANGED <<frames, rx, finalQ, toR>>
    BY <1>9 DEF PrepareSkip, PrepareFails, PostPass, PostLost, WatchGone, PostLink, PostEnd, Done, Cancel, CloseRehash, Flush
  <2> QED
    BY <1>4, <2>1, NoneRead
<1>10. CASE \E e \in preparing : PrepareEmpty(e)
  <2> PICK e \in preparing : PrepareEmpty(e)
    BY <1>10
  <2>1. UNCHANGED <<frames, finalQ, toR>> /\ rx' = [rx EXCEPT ![e] = "stub"] /\ rx[e] = "none" /\ e \in Entry
    BY AtWork DEF PrepareEmpty
  <2> QED
    BY <1>5, <2>1, NoneRead
<1>11. CASE \E e \in frames : Arrive(e)
  <2> PICK e \in frames : Arrive(e)
    BY <1>11
  <2>1. /\ UNCHANGED <<toR, rx>> /\ frames' \subseteq frames /\ e \in sent
        /\ finalQ' = IF rx[e] = "open" THEN finalQ \cup {e} ELSE finalQ
    BY DEF Arrive, PartInv, InParts
  <2>2. finalQ' \subseteq Entry /\ \A f \in finalQ' : f \in finalQ \/ (f \in sent /\ rx[f] = "open")
    BY <1>1, <2>1
  <2> QED
    BY <2>1, <2>2, NoneRead, OwnOutcome, PartFrame
<1>12. CASE \E e \in finalQ : Finalize(e)
  <2> PICK e \in finalQ : Finalize(e)
    BY <1>12
  <2>1. UNCHANGED <<toR, frames>> /\ finalQ' \subseteq finalQ
    BY DEF Finalize
  <2>2. \A f \in Entry : rx'[f] = rx[f] \/ (rx[f] = "open" /\ rx'[f] = "ok")
    BY <1>1 DEF Finalize, Finalizable
  <2> QED
    BY <1>1, <2>1, <2>2, NoneRead, OwnOutcome, PartFrame
<1>13. CASE \E e \in frames \cup finalQ : RxFails(e)
  <2> PICK e \in frames \cup finalQ : RxFails(e)
    BY <1>13
  <2>1. UNCHANGED toR /\ finalQ' \subseteq finalQ /\ frames' \subseteq frames
    BY DEF RxFails
  <2>2. \A f \in Entry : rx'[f] = rx[f] \/ (rx[f] = "open" /\ rx'[f] = "error" /\ f \in frames \cup finalQ)
    BY <1>1 DEF RxFails
  <2> QED
    BY <1>1, <2>1, <2>2, NoneRead, OwnOutcome, PartFrame
<1> QED
  BY <1>2, <1>3, <1>6, <1>7, <1>8, <1>9, <1>10, <1>11, <1>12, <1>13 DEF Receiver


\* What the sender has sent or given up stays so.
LEMMA SenderGrows == ASSUME [Next]_vars PROVE sent \subseteq sent' /\ errS \subseteq errS'
<1>1. CASE Sender
  BY <1>1 DEF Sender, Walk, WalkEnd, GateOpen, FileResult, SendData, SendFails, TaskDone, SenderEnd, SenderStops,
         SenderStalls, Hangup, FailFile, Counted, sendVars
<1>2. CASE Receiver
  BY <1>2, ReceiverOnly DEF sendVars
<1>3. CASE Lose \/ UNCHANGED vars
  BY <1>3 DEF Lose, vars, sendVars
<1> QED
  BY <1>1, <1>2, <1>3 DEF Next

\* A step that leaves the receiver be, and gives up what it tells of.
LEMMA SenderPartFrame ==
  ASSUME PlaceInv, PartInv, UNCHANGED <<manifest, rxVars>>, sent \subseteq sent', errS \subseteq errS',
         \A e \in Entry : Told(e)' => Told(e), \A e \in Entry : have[e] = "part" => have'[e] = "part",
         frames' \subseteq sent', Distinct(toR', "fileError"),
         \A e \in Entry : FileErrorMsg(e) \in Mail(toR') =>
           \/ FileErrorMsg(e) \in Mail(toR)
           \/ e \in errS' /\ have'[e] = "part" /\ outcome[e] # "sender"
  PROVE  PartInv'
<1>1. Entry' = Entry /\ UNCHANGED <<rx, outcome, finalQ>>
  BY DEF Entry, rxVars
<1>2. InParts'
  BY <1>1 DEF PartInv, InParts
<1>3. SettledBySent'
  BY <1>1 DEF PartInv, SettledBySent
<1>4. GivenUp'
  <2>1. ASSUME NEW e \in Entry, FileErrorMsg(e) \in Mail(toR') PROVE e \in errS' /\ have'[e] = "part" /\ outcome'[e] # "sender"
    BY <1>1, <2>1 DEF PartInv, GivenUp
  <2>2. ASSUME NEW e \in Entry, outcome'[e] = "sender" PROVE e \in errS'
    BY <1>1, <2>2 DEF PartInv, GivenUp
  <2> QED
    BY <1>1, <2>1, <2>2 DEF GivenUp
<1> QED
  BY <1>2, <1>3, <1>4 DEF PartInv

\* Entries that go out say nothing of failures.
LEMMA BatchNoFailure ==
  ASSUME PlaceInv, PartInv, NEW ms \in Seq(ToReceiver), toR' = toR \o ms, \A m \in Mail(ms) : m.type # "fileError"
  PROVE  Distinct(toR', "fileError") /\ \A e : FileErrorMsg(e) \in Mail(toR') => FileErrorMsg(e) \in Mail(toR)
<1>1. toR \in Seq(ToReceiver) /\ Distinct(toR, "fileError")
  BY DEF PlaceInv, QueueTypes, PartInv, GivenUp
<1>2. Distinct(ms, "fileError")
  BY DEF Distinct, Mail
<1>3. Distinct(toR', "fileError") /\ Mail(toR') = Mail(toR) \cup Mail(ms)
  BY <1>1, <1>2, JoinedMail
<1>4. \A e : FileErrorMsg(e).type = "fileError"
  BY DEF FileErrorMsg
<1> QED
  BY <1>3, <1>4

\* The walker.
LEMMA WalkerMail ==
  ASSUME PlaceInv, PartInv, Walk \/ WalkEnd
  PROVE  Distinct(toR', "fileError") /\ \A e : FileErrorMsg(e) \in Mail(toR') => FileErrorMsg(e) \in Mail(toR)
<1>1. /\ Msgs(batch) \in Seq(ToReceiver) /\ \A m \in Mail(Msgs(batch)) : m.type # "fileError"
  <2>1. \A e : EntryMsg(e).type # "fileError"
    BY DEF EntryMsg
  <2> QED
    BY <2>1, BatchMail DEF PlaceInv
<1>2. toR \in Seq(ToReceiver) /\ <<EndMsg>> \in Seq(ToReceiver) /\ Mail(<<EndMsg>>) = {EndMsg} /\ EndMsg.type # "fileError"
  BY Messages, ShortMail DEF PlaceInv, QueueTypes, EndMsg
<1>3. CASE Walk
  <2>1. toR' = toR \/ toR' = toR \o Msgs(batch)
    BY <1>3 DEF Walk
  <2> QED
    BY <1>1, <2>1, BatchNoFailure DEF PartInv, GivenUp
<1>4. CASE WalkEnd
  <2> DEFINE end == <<EndMsg>>
             ms == Msgs(batch) \o end
  <2>1. end \in Seq(ToReceiver) /\ Mail(end) = {EndMsg} /\ toR' = toR \o Msgs(batch) \o end
    BY <1>2, <1>4 DEF WalkEnd
  <2> HIDE DEF end
  <2>2. ms \in Seq(ToReceiver) /\ Mail(ms) = Mail(Msgs(batch)) \cup {EndMsg}
    BY <1>1, <2>1, JoinedMail
  <2>3. toR' = toR \o ms
    BY <1>1, <1>2, <2>1, ConcatAssociative
  <2> QED
    BY <1>1, <1>2, <2>2, <2>3, BatchNoFailure
<1> QED
  BY <1>3, <1>4

\* A step of the sender.
LEMMA SenderPart == ASSUME PlaceInv, CreditInv, PartInv, Sender \/ Lose \/ UNCHANGED vars PROVE PartInv'
<1>0. /\ UNCHANGED <<manifest, rxVars>> /\ Mail(toS') \subseteq Mail(toS) /\ sent \subseteq sent' /\ errS \subseteq errS'
      /\ have \in [Entry -> {"none", "skip", "all", "part"}] /\ resolvedIDs \in SUBSET Entry /\ errS \in SUBSET resolvedIDs
      /\ sent \in SUBSET Entry /\ frames \subseteq sent /\ Distinct(toR, "fileError")
  BY SenderOutcomes, SenderGrows DEF Next, PlaceInv, TypeOK, TypeSender, PartInv, InParts, GivenUp
<1>1. have' = have => \A e \in Entry : Told(e)' => Told(e)
  BY <1>0 DEF Told
<1>2. CASE Walk \/ WalkEnd
  <2>1. UNCHANGED <<have, frames, sent>>
    BY <1>2 DEF Walk, WalkEnd
  <2> QED
    BY <1>0, <1>1, <1>2, <2>1, WalkerMail, SenderPartFrame
<1>3. CASE GateOpen
  <2>1. UNCHANGED <<frames, sent, toR>>
    BY <1>3 DEF GateOpen
  <2>2. CASE have' = have
    BY <1>0, <1>1, <2>1, <2>2, SenderPartFrame
  <2>3. CASE have[Head(toS).id] = "none" /\ have' = [have EXCEPT ![Head(toS).id] = Head(toS).what]
    <3> PICK e : e = Head(toS).id
      OBVIOUS
    <3>1. toS \in Seq(ToSender) /\ toS # <<>> /\ Head(toS).type = "have"
      BY <1>3 DEF GateOpen, Heard, PlaceInv, QueueTypes
    <3>2. e \in Entry /\ HaveMsg(e, Head(toS).what) \in Mail(toS)
      BY <3>1, TailMail, Messages
    <3>3. \A f \in Entry : Told(f)' => Told(f)
      BY <1>0, <2>3, <3>2 DEF Told
    <3>4. \A f \in Entry : have[f] = "part" => have'[f] = "part"
      BY <1>0, <2>3
    <3> QED
      BY <1>0, <2>1, <3>3, <3>4, SenderPartFrame
  <2> QED
    BY <1>3, <2>2, <2>3 DEF GateOpen
<1>4. CASE FileResult \/ SenderEnd \/ SenderStops \/ SenderStalls \/ UNCHANGED vars
  <2>1. UNCHANGED <<have, frames, sent, toR>>
    BY <1>4 DEF FileResult, SenderEnd, SenderStops, SenderStalls, vars, sendVars
  <2> QED
    BY <1>0, <1>1, <2>1, SenderPartFrame
<1>5. CASE \E e \in Entry : SendData(e)
  <2>1. UNCHANGED <<have, toR>> /\ frames' \subseteq sent'
    BY <1>0, <1>5 DEF SendData
  <2> QED
    BY <1>0, <1>1, <2>1, SenderPartFrame
<1>6. ASSUME NEW e \in Entry, have[e] = "part", e \notin resolvedIDs, FailFile(e), UNCHANGED <<have, sent, frames>>
      PROVE  PartInv'
  <2> DEFINE ms == <<FileErrorMsg(e)>>
  <2>1. ms \in Seq(ToReceiver) /\ Mail(ms) = {FileErrorMsg(e)} /\ Distinct(ms, "fileError") /\ toR' = Send(toR, ms)
        /\ toR \in Seq(ToReceiver)
    BY <1>6, Messages, ShortMail DEF FailFile, PlaceInv, QueueTypes
  <2> HIDE DEF ms
  <2>2. e \notin errS /\ FileErrorMsg(e) \notin Mail(toR) /\ outcome[e] # "sender"
    BY <1>0, <1>6 DEF PartInv, GivenUp
  <2>3. Distinct(toR', "fileError") /\ Mail(toR') \subseteq Mail(toR) \cup {FileErrorMsg(e)}
    BY <1>0, <2>1, <2>2, SendMail
  <2>4. e \in errS'
    BY <1>6 DEF FailFile
  <2>5. \A f \in Entry : FileErrorMsg(f) \in Mail(toR') => FileErrorMsg(f) \in Mail(toR) \/ f = e
    BY <2>3, MessagesDiffer
  <2> QED
    BY <1>0, <1>1, <1>6, <2>2, <2>3, <2>4, <2>5, SenderPartFrame
<1>7. CASE \E e \in Entry : SendFails(e)
  BY <1>6, <1>7 DEF SendFails, NextFile
<1>8. CASE \E e \in sent, changed \in BOOLEAN : TaskDone(e, changed)
  <2> PICK e \in sent, changed \in BOOLEAN : TaskDone(e, changed)
    BY <1>8
  <2>1. e \in Entry /\ have[e] = "part" /\ UNCHANGED <<have, sent, frames>>
    BY <1>0 DEF CreditInv, Answered, TaskDone
  <2>2. CASE FailFile(e) /\ e \notin resolvedIDs
    BY <1>6, <2>1, <2>2
  <2>3. CASE UNCHANGED toR
    BY <1>0, <1>1, <2>1, <2>3, SenderPartFrame
  <2> QED
    BY <2>2, <2>3 DEF TaskDone
<1>9. CASE Hangup \/ Lose
  <2>1. UNCHANGED <<have, sent>> /\ toR' = <<>> /\ frames' = {}
    BY <1>9 DEF Hangup, Lose, CloseConn, sendVars
  <2> QED
    BY <1>0, <1>1, <2>1, ShortMail, SenderPartFrame
<1> QED
  BY <1>2, <1>3, <1>4, <1>5, <1>7, <1>8, <1>9 DEF Sender

\* The invariant of files in parts holds throughout.
THEOREM PartInvariant == Spec => []PartInv
<1>1. Init => PartInv
  BY PartInit
<1>2. PlaceInv /\ CreditInv /\ PartInv /\ [Next]_vars => PartInv'
  BY ReceiverPart, SenderPart DEF Next
<1> QED
  BY <1>1, <1>2, PlaceInvariant, CreditInvariant, PTL DEF Spec

-----------------------------------------------------------------------------
(* The count, and the order of the end *)

\* Once the sender has failed a file the receiver settled, it has done so for good.
LEMMA CrossedStays == ASSUME PlaceInv, Crossed, [Next]_vars PROVE Crossed'
<1>1. PICK e \in errS : outcome[e] = "ok" \/ (outcome[e] = "error" /\ e \in sent)
  BY DEF Crossed
<1>2. e \in Entry /\ e \in errS' /\ (e \in sent => e \in sent')
  BY <1>1, SenderGrows DEF PlaceInv, TypeOK, TypeSender
<1>3. outcome'[e] = outcome[e]
  BY <1>1, <1>2, OutcomesKept DEF Kept
<1> QED
  BY <1>1, <1>2, <1>3 DEF Crossed

\* Settled entries are entries.
LEMMA SettledFinite == ASSUME PlaceInv PROVE IsFiniteSet(Settled) /\ Settled \subseteq Entry /\ Cardinality(Settled) \in Nat
<1>1. IsFiniteSet(Entry) /\ Settled \subseteq Entry
  BY Entries DEF PlaceInv, TypeOK, Settled
<1> QED
  BY <1>1, FS_Subset, FS_CardinalityType

\* One more outcome is one more that is settled.
LEMMA SettlesOne ==
  ASSUME PlaceInv, NEW e \in Entry, NEW o \in {"ok", "error", "sender"},
         outcome[e] = "none", outcome' = [outcome EXCEPT ![e] = o], manifest' = manifest
  PROVE  Cardinality(Settled') = Cardinality(Settled) + 1
<1>1. Settled' = Settled \cup {e}
  BY DEF Settled, Entry, PlaceInv, TypeOK, TypeReceiver
<1>2. e \notin Settled
  BY DEF Settled
<1> QED
  BY <1>1, <1>2, SettledFinite, FS_AddElement

\* A failure that is heard is of a file in transfer, or it crossed the file's outcome.
LEMMA HeardFailure ==
  ASSUME PlaceInv, PartInv, HearFileError, ~Crossed
  PROVE  \E e \in Entry : outcome[e] = "none" /\ outcome' = [outcome EXCEPT ![e] = "sender"]
<1>1. toR # <<>> /\ Head(toR).type = "fileError"
  BY DEF HearFileError, Heard
<1> PICK e \in Entry : e = Head(toR).id /\ Head(toR) = FileErrorMsg(e)
  BY <1>1, ReadMail, Messages
<1>2. e \in errS /\ have[e] = "part" /\ outcome[e] # "sender" /\ rx[e] \in {"open", "ok", "error"}
  <2>1. FileErrorMsg(e) \in Mail(toR)
    BY <1>1, ReadMail
  <2> QED
    BY <2>1 DEF PartInv, GivenUp, InParts, Told
<1>3. rx[e] # "ok"
  BY <1>2 DEF PlaceInv, Registry, Crossed
<1>4. rx[e] # "error"
  <2> SUFFICES ASSUME rx[e] = "error" PROVE FALSE
    OBVIOUS
  <2>1. outcome[e] = "error"
    BY <1>2 DEF PlaceInv, Registry
  <2>2. e \in sent
    BY <1>2, <2>1 DEF PartInv, SettledBySent, Told
  <2> QED
    BY <1>2, <2>1, <2>2 DEF Crossed
<1> QED
  BY <1>2, <1>3, <1>4 DEF HearFileError, PlaceInv, Registry

\* The count.
LEMMA CountStep == ASSUME PlaceInv, PartInv, Count, [Next]_vars PROVE Count'
<1> SUFFICES ASSUME ~Crossed' PROVE rResolved' = Cardinality(Settled')
  BY DEF Count
<1>1. ~Crossed /\ rResolved = Cardinality(Settled) /\ manifest' = manifest
  BY CrossedStays, OutcomesKept DEF Count
<1>2. CASE UNCHANGED <<outcome, rResolved>>
  <2>1. Settled' = Settled
    BY <1>1, <1>2 DEF Settled, Entry
  <2> QED
    BY <1>1, <1>2, <2>1
<1>3. CASE Sender \/ Lose \/ UNCHANGED vars
  BY <1>2, <1>3, SenderOutcomes DEF rxVars
<1>4. CASE \E e \in Entry, o \in {"ok", "error"} : Settling(e, o)
  BY <1>1, <1>4, SettlesOne DEF Settling
<1>5. CASE HearFileError
  BY <1>1, <1>5, HeardFailure, SettlesOne DEF HearFileError
<1> QED
  BY <1>2, <1>3, <1>4, <1>5, Outcomes DEF Next

\* A count that is too high stays so.
LEMMA AheadStep ==
  ASSUME PlaceInv, Ahead, [Next]_vars
  PROVE  Ahead' /\ (rResolved' = Cardinality(Settled') => rResolved = Cardinality(Settled))
<1>1. manifest' = manifest /\ rResolved \in Nat /\ Cardinality(Settled) \in Nat
  BY OutcomesKept, SettledFinite DEF PlaceInv, TypeOK, TypeReceiver
<1>2. ASSUME UNCHANGED outcome PROVE Settled' = Settled
  BY <1>1, <1>2 DEF Settled, Entry
<1>3. CASE UNCHANGED <<outcome, rResolved>>
  BY <1>2, <1>3 DEF Ahead
<1>4. CASE Sender \/ Lose \/ UNCHANGED vars
  BY <1>3, <1>4, SenderOutcomes DEF rxVars
<1>5. CASE \E e \in Entry, o \in {"ok", "error"} : Settling(e, o)
  <2> PICK e \in Entry, o \in {"ok", "error"} : Settling(e, o)
    BY <1>5
  <2>1. Cardinality(Settled') = Cardinality(Settled) + 1
    BY <1>1, SettlesOne DEF Settling
  <2>2. rResolved' = rResolved + 1
    BY DEF Settling
  <2> QED
    BY <1>1, <2>1, <2>2 DEF Ahead
<1>6. CASE HearFileError
  <2>1. toR # <<>> /\ Head(toR).type = "fileError"
    BY <1>6 DEF HearFileError, Heard
  <2> PICK e \in Entry : e = Head(toR).id
    BY <2>1, ReadMail, Messages
  <2>2. rResolved' = rResolved + 1
    BY <1>6 DEF HearFileError
  <2>3. CASE rx[e] = "open"
    <3>1. outcome[e] = "none" /\ outcome' = [outcome EXCEPT ![e] = "sender"]
      BY <1>6, <2>3 DEF HearFileError, PlaceInv, Registry
    <3>2. Cardinality(Settled') = Cardinality(Settled) + 1
      BY <1>1, <3>1, SettlesOne
    <3> QED
      BY <1>1, <2>2, <3>2 DEF Ahead
  <2>4. CASE UNCHANGED outcome
    BY <1>1, <1>2, <2>2, <2>4 DEF Ahead
  <2> QED
    BY <1>6, <2>3, <2>4 DEF HearFileError
<1> QED
  BY <1>3, <1>4, <1>5, <1>6, Outcomes DEF Next

\* What watchCompletion goes by: it moves on when the count says so; entries only
\* join the links, and the links of a post-pass are unsettled until it starts.
LEMMA WatchMoves ==
  ASSUME Next
  PROVE  \/ watch' = watch /\ links \subseteq links'
         \/ PostPass \/ watch' \in {"last", "gone"}
         \/ watch = "post" /\ watch' = "posted" /\ UNCHANGED <<links, outcome>>
         \/ Done
<1>1. CASE Sender \/ Lose
  BY <1>1 DEF Sender, Walk, WalkEnd, GateOpen, FileResult, SendData, SendFails, TaskDone, SenderEnd, SenderStops,
         SenderStalls, Hangup, Lose, rxVars
<1>2. CASE Receiver
  BY <1>2 DEF Receiver, HearEntry, Enqueue, HearEnd, HearFileError, PrepareSkip, PrepareEmpty, PreparePart, PrepareFails,
       Arrive, Finalize, RxFails, PostPass, PostLost, WatchGone, PostLink, PostEnd, Done, Cancel, CloseRehash, Flush
<1> QED
  BY <1>1, <1>2 DEF Next

\* The order of post-pass and Done.
LEMMA PassOrderStep == ASSUME PlaceInv, PartInv, Count, Ahead, PassOrder, [Next]_vars PROVE PassOrder'
<1> SUFFICES ASSUME rResolved' = Cardinality(Settled')
             PROVE  /\ watch' \in {"post", "posted", "done"} => \A e \in Entry : outcome'[e] = "none" => e \in links'
                    /\ watch' = "done" => \A e \in Entry : outcome'[e] # "none"
  BY OutcomesKept, CountStep DEF PassOrder, Count, Settled, Entry
<1>1. rResolved = Cardinality(Settled) /\ Kept
  BY AheadStep, OutcomesKept
<1>2. /\ watch \in {"post", "posted", "done"} => \A e \in Entry : outcome[e] = "none" => e \in links
      /\ watch = "done" => \A e \in Entry : outcome[e] # "none"
  BY <1>1 DEF PassOrder, Settled
<1>3. /\ outcome \in [Entry -> {"none", "ok", "error", "sender"}] /\ links \in SUBSET Entry
      /\ IsFiniteSet(Entry) /\ Cardinality(Entry) = Total /\ Total \in Nat /\ rResolved \in Nat
  BY Entries DEF PlaceInv, TypeOK, TypeReceiver
<1>4. CASE watch' = watch /\ links \subseteq links'
  BY <1>1, <1>2, <1>4 DEF Kept
<1>5. CASE watch = "post" /\ watch' = "posted" /\ UNCHANGED <<links, outcome>>
  BY <1>2, <1>5
<1>6. CASE PostPass
  <2>1. watch = "wait" /\ watch' = "post" /\ rResolved + Cardinality(links) >= Total /\ UNCHANGED <<links, outcome>>
    BY <1>6 DEF PostPass, PostDue
  <2>2. Settled \cap links = {} /\ Settled \subseteq Entry /\ IsFiniteSet(Settled)
    BY <2>1, SettledFinite DEF PlaceInv, Placed, Settled
  <2>3. IsFiniteSet(links) /\ Cardinality(links) \in Nat /\ Cardinality(Settled) \in Nat
    BY <1>3, <2>2, FS_Subset, FS_CardinalityType
  <2>4. IsFiniteSet(Settled \cup links) /\ Cardinality(Settled \cup links) = Cardinality(Settled) + Cardinality(links)
    <3>1. Cardinality(Settled \cap links) = 0
      BY <2>2, FS_EmptySet
    <3>2. Cardinality(Settled \cup links) = Cardinality(Settled) + Cardinality(links) - Cardinality(Settled \cap links)
      BY <2>2, <2>3, FS_Union
    <3>3. IsFiniteSet(Settled \cup links)
      BY <2>2, <2>3, FS_Union
    <3> QED
      BY <2>3, <3>1, <3>2, <3>3
  <2>5. Settled \cup links \subseteq Entry /\ Cardinality(Settled \cup links) >= Cardinality(Entry)
    BY <1>1, <1>3, <2>1, <2>2, <2>4
  <2>6. Settled \cup links = Entry
    BY <1>3, <2>4, <2>5, FS_Subset, FS_CardinalityType
  <2> QED
    BY <2>1, <2>6 DEF Settled
<1>7. CASE Done
  <2>1. rResolved >= Total /\ UNCHANGED outcome
    BY <1>7 DEF Done
  <2>2. Settled = Entry
    BY <1>1, <1>3, <2>1, SettledFinite, FS_Subset
  <2> QED
    BY <2>1, <2>2 DEF Settled
<1>8. CASE watch' \in {"last", "gone"}
  BY <1>8
<1>9. CASE UNCHANGED vars
  BY <1>4, <1>9 DEF vars, rxVars
<1> QED
  BY <1>4, <1>5, <1>6, <1>7, <1>8, <1>9, WatchMoves

\* The receiver's count stands for its outcomes until failures cross, and as long
\* as it does the post-pass of a session in progress finds every other entry
\* settled, and Done is said when all are (receiver.go:1255-1281).
THEOREM EndInOrder == Spec => []PassOrder
<1>1. Init => OrderInv
  <2> SUFFICES ASSUME Init PROVE OrderInv
    OBVIOUS
  <2>1. Settled = {} /\ rResolved = 0 /\ watch = "wait"
    BY DEF Init, Settled
  <2> QED
    BY <2>1, FS_EmptySet DEF OrderInv, Count, Ahead, PassOrder
<1>2. PlaceInv /\ PartInv /\ OrderInv /\ [Next]_vars => OrderInv'
  BY CountStep, AheadStep, PassOrderStep DEF OrderInv
<1>3. OrderInv => PassOrder
  BY DEF OrderInv
<1> QED
  BY <1>1, <1>2, <1>3, PlaceInvariant, PartInvariant, PTL DEF Spec

=============================================================================
