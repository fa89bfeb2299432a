------------------------------- MODULE Broker -------------------------------
(***************************************************************************)
(* The relay broker and the two ends it pairs: internal/relay/broker.go    *)
(* (janitor, offer, take, remove), dial.go and the two rounds of the       *)
(* record layer's handshake, e2ee.go, which are one exchange here.  The    *)
(* bytes of a pair go through two spools (module Spool).                   *)
(*                                                                         *)
(* One goroutine of the broker serves a connection: at[p] is where it is.  *)
(* client[p] is the program at the other end.  A lock's section is one     *)
(* action; replies, the buffered wake channel and the deferred remove are  *)
(* steps of their own.                                                     *)
(***************************************************************************)
EXTENDS Naturals, FiniteSets

CONSTANTS
  Offerers, Takers,  \* connections, by what their HELLO asks
  Codes,             \* pairing codes (the broker sees their hashes)
  MaxSlots,          \* maxSlots, 4096 in the code
  MaxComers          \* bound: how many of them connect

Ends == Offerers \cup Takers
NoEnd == "none"

ASSUME BrokerAssumption ==
  /\ Offerers \cap Takers = {} /\ {"empty", "closed", "read", NoEnd} \cap Ends = {}
  /\ MaxSlots \in Nat /\ MaxComers \in Nat

VARIABLES
  slots,   \* [code -> the offerer parked under it]
  old,     \* offerers parked for longer than the TTL
  stale,   \* the slots the janitor has dropped and not yet told
  wake,    \* a slot's channel: "empty", "closed", a taker in its buffer, or "read"
  at,      \* the handler: "new", "reply", "parked", "hand", "pipe", "return", "done"
  mate,    \* the offerer whose slot a taker took; the taker an offerer's pipe joins
  lines,   \* what the broker has written to an end
  shut,    \* the ends whose connection the broker closed
  panicked,
  client,  \* "asks", "hello", "up", "failed"
  code,    \* the code an end asked for
  gone     \* ends that have closed their connection

brokerVars == <<slots, old, stale, wake, at, mate, lines, shut, panicked, client, code, gone>>
clientVars == <<client, gone>>

Say(p, text) == lines' = [lines EXCEPT ![p] = @ \cup {text}]
Move(p, to) == at' = [at EXCEPT ![p] = to]
Close(ps) == shut' = shut \cup ps

\* A write fails only to an end that has closed.
ReplyFails(p) == p \in gone \cup shut

Without(s, c) == [d \in DOMAIN s \ {c} |-> s[d]]

-----------------------------------------------------------------------------
(* An offerer's handler. *)

Refuse(p, text) ==
  /\ Say(p, text) /\ Close({p}) /\ Move(p, "done")
  /\ UNCHANGED <<slots, old, stale, wake, mate, panicked, clientVars>>

OfferRefused(o, c) ==
  /\ Cardinality(DOMAIN slots) >= MaxSlots \/ c \in DOMAIN slots
  /\ Refuse(o, "ERR")

Park(o, c) ==
  /\ Cardinality(DOMAIN slots) < MaxSlots /\ c \notin DOMAIN slots
  /\ slots' = [d \in DOMAIN slots \cup {c} |-> IF d = c THEN o ELSE slots[d]]
  /\ Move(o, "reply")
  /\ UNCHANGED <<old, stale, wake, mate, lines, shut, panicked, clientVars>>

Connects(p) == at[p] = "new" /\ Cardinality({q \in Ends : at[q] # "new"}) < MaxComers

OfferHello(o, c) ==
  /\ Connects(o)
  /\ code' = [code EXCEPT ![o] = c]
  /\ OfferRefused(o, c) \/ Park(o, c)

OfferReply(o) ==
  /\ o \in Offerers /\ at[o] = "reply"
  /\ \/ ReplyFails(o) /\ Move(o, "return") /\ UNCHANGED lines
     \/ o \notin gone \cup shut /\ Say(o, "OK") /\ Move(o, "parked")
  /\ UNCHANGED <<slots, old, stale, wake, mate, shut, panicked, clientVars, code>>

\* The slot's TTL passes.
Age(o) ==
  /\ at[o] = "parked" /\ old' = old \cup {o} /\ o \notin old
  /\ UNCHANGED <<slots, stale, wake, at, mate, lines, shut, panicked, clientVars, code>>

\* mutant: a TTL that never passes
ExpiredNever(o) == FALSE

Expired(o) == o \in old

\* What an offerer's handler waits for: a taker through the channel, or its close.
Woken(o) ==
  /\ at[o] = "parked" /\ wake[o] # "empty"
  /\ IF wake[o] = "closed"
     THEN Move(o, "return") /\ UNCHANGED <<wake, mate>>
     ELSE Move(o, "pipe") /\ mate' = [mate EXCEPT ![o] = wake[o]] /\ wake' = [wake EXCEPT ![o] = "read"]
  /\ UNCHANGED <<slots, old, stale, lines, shut, panicked, clientVars, code>>

TimerFires(o) ==
  /\ at[o] = "parked" /\ Expired(o)
  /\ Say(o, "ERR timeout") /\ Move(o, "return")
  /\ UNCHANGED <<slots, old, stale, wake, mate, shut, panicked, clientVars, code>>

\* mutant: whoever parked under the code since
MineAny(o) == code[o] \in DOMAIN slots

\* Whose slot a returning handler removes: its own, if it is still there.
Mine(o) == code[o] \in DOMAIN slots /\ slots[code[o]] = o

\* The deferred remove.
Remove(o) ==
  /\ at[o] = "return"
  /\ slots' = IF Mine(o) THEN Without(slots, code[o]) ELSE slots
  /\ Close({o}) /\ Move(o, "done")
  /\ UNCHANGED <<old, stale, wake, mate, lines, panicked, clientVars, code>>

\* A pipe ends once an end has left it and both directions are drained.
PipeEnds(o) ==
  /\ at[o] = "pipe" /\ (o \in gone \/ mate[o] \in gone)
  /\ Close({o, mate[o]}) /\ Move(o, "return")
  /\ UNCHANGED <<slots, old, stale, wake, mate, lines, panicked, clientVars, code>>

-----------------------------------------------------------------------------
(* A taker's handler. *)

\* mutant: the slot stays until its offerer wakes
ClaimedKept(c) == slots

\* One-shot: the first taker's claim removes the slot.
Claimed(c) == Without(slots, c)

TakeHello(t, c) ==
  /\ Connects(t)
  /\ code' = [code EXCEPT ![t] = c]
  /\ IF c \notin DOMAIN slots THEN Refuse(t, "ERR")
     ELSE /\ slots' = Claimed(c)
          /\ mate' = [mate EXCEPT ![t] = slots[c]] /\ Move(t, "reply")
          /\ UNCHANGED <<old, stale, wake, lines, shut, panicked, clientVars>>

TakeReply(t) ==
  /\ t \in Takers /\ at[t] = "reply"
  /\ \/ t \notin gone /\ Say(t, "OK") /\ Move(t, "hand") /\ UNCHANGED shut
     \/ ReplyFails(t) /\ Say(mate[t], "ERR gone") /\ Close({t, mate[t]}) /\ Move(t, "done")
  /\ UNCHANGED <<slots, old, stale, wake, mate, panicked, clientVars, code>>

\* select { case s.wake <- conn: default: }
Hand(t) ==
  /\ at[t] = "hand" /\ Move(t, "done")
  /\ CASE wake[mate[t]] = "closed" -> panicked' = TRUE /\ UNCHANGED <<wake, lines, shut>>
       [] wake[mate[t]] \in {"empty", "read"} ->
            wake' = [wake EXCEPT ![mate[t]] = t] /\ UNCHANGED <<lines, shut, panicked>>
       [] OTHER -> Say(t, "ERR gone") /\ Close({t}) /\ UNCHANGED <<wake, panicked>>
  /\ UNCHANGED <<slots, old, stale, mate, clientVars, code>>

-----------------------------------------------------------------------------
(* The janitor. *)

Sweep ==
  LET olds == {o \in Offerers : Expired(o) /\ Mine(o)}
  IN /\ stale = {} /\ olds # {}
     /\ slots' = [c \in {d \in DOMAIN slots : slots[d] \notin olds} |-> slots[c]]
     /\ stale' = olds
     /\ UNCHANGED <<old, wake, at, mate, lines, shut, panicked, clientVars, code>>

TellStale(o) ==
  /\ o \in stale /\ stale' = stale \ {o}
  /\ wake' = [wake EXCEPT ![o] = "closed"] /\ Say(o, "ERR timeout")
  /\ UNCHANGED <<slots, old, at, mate, shut, panicked, clientVars, code>>

-----------------------------------------------------------------------------
(* The ends: dialRelay reads one line; then the handshake writes and reads *)
(* with a deadline.                                                        *)

brokerSide == <<slots, old, stale, wake, at, mate, lines, shut, panicked, code>>

\* The end a pipe joins p to.
Other(p) == IF p \in Offerers THEN mate[p]
            ELSE IF mate[p] \in Offerers /\ mate[mate[p]] = p THEN mate[p] ELSE NoEnd
Piped(p) == Other(p) # NoEnd /\ at[IF p \in Offerers THEN p ELSE Other(p)] = "pipe"

Fails(p) == client' = [client EXCEPT ![p] = "failed"] /\ gone' = gone \cup {p}

ReadReply(p) ==
  /\ client[p] = "asks" /\ p \notin gone /\ lines[p] # {}
  /\ IF "OK" \in lines[p] THEN client' = [client EXCEPT ![p] = "hello"] /\ UNCHANGED gone
     ELSE Fails(p)
  /\ UNCHANGED brokerSide

\* The other end's hello waits in its socket since it read its own OK.
SentHello(q) == client[q] \in {"hello", "up"} \/ (client[q] = "failed" /\ "OK" \in lines[q])

ReadHello(p) ==
  /\ client[p] = "hello" /\ Piped(p) /\ SentHello(Other(p))
  /\ client' = [client EXCEPT ![p] = "up"] /\ UNCHANGED gone /\ UNCHANGED brokerSide

\* deadlineSoon: 20 seconds for each read.
Deadline(p) == client[p] = "hello" /\ Fails(p) /\ UNCHANGED brokerSide

Hangup(p) == client[p] = "hello" /\ p \in shut /\ Fails(p) /\ UNCHANGED brokerSide

\* A session over the pipe ends, or before the broker's reply is read the
\* program or its link does.
Leaves(p) ==
  /\ client[p] = "up" \/ (client[p] = "asks" /\ at[p] # "new")
  /\ p \notin gone /\ gone' = gone \cup {p} /\ UNCHANGED <<client, brokerSide>>

-----------------------------------------------------------------------------

BrokerInit ==
  /\ slots = [c \in {} |-> NoEnd] /\ old = {} /\ stale = {}
  /\ wake = [o \in Offerers |-> "empty"]
  /\ at = [p \in Ends |-> "new"] /\ mate = [p \in Ends |-> NoEnd]
  /\ lines = [p \in Ends |-> {}] /\ shut = {} /\ panicked = FALSE
  /\ client = [p \in Ends |-> "asks"] /\ code = [p \in Ends |-> NoEnd] /\ gone = {}

OfferRuns(o) == OfferReply(o) \/ Woken(o) \/ TimerFires(o) \/ Remove(o)
TakeRuns(t) == TakeReply(t) \/ Hand(t)
Janitor == Sweep \/ \E o \in Offerers : TellStale(o)
EndRuns(p) == ReadReply(p) \/ ReadHello(p) \/ Deadline(p) \/ Hangup(p)

BrokerNext ==
  \/ \E o \in Offerers, c \in Codes : OfferHello(o, c)
  \/ \E t \in Takers, c \in Codes : TakeHello(t, c)
  \/ \E o \in Offerers : OfferRuns(o) \/ Age(o) \/ PipeEnds(o)
  \/ \E t \in Takers : TakeRuns(t)
  \/ Janitor
  \/ \E p \in Ends : EndRuns(p) \/ Leaves(p)

BrokerSpec == BrokerInit /\ [][BrokerNext]_brokerVars

-----------------------------------------------------------------------------

\* A wake channel the janitor has closed is sent to by no taker, which would
\* bring the broker down: taking a slot and dropping it exclude each other
\* (broker.go:87, 196, 207-208).
BrokerLives == ~panicked

\* A parked offer can be taken until somebody has it or its time is over: the
\* late remove of an earlier offer of the same code, or the janitor's sweep,
\* loses no other (broker.go:219-226).
ParkedFindable ==
  \A o \in Offerers :
    /\ at[o] = "parked" /\ wake[o] = "empty" /\ o \notin stale \cup shut
    /\ \A t \in Takers : mate[t] # o
    => Mine(o)

\* A taker the broker said OK to and then let drop took a slot whose time was
\* over or whose offerer had left (broker.go:167-183, 207-215).
DroppedLate ==
  \A t \in Takers :
    "OK" \in lines[t] /\ at[t] = "done" /\ at[mate[t]] = "done" /\ mate[mate[t]] # t
      => mate[t] \in old \cup gone

\* Who gives up waiting in a slot was told to, or its slot is taken or over:
\* "parks in a slot under the code and waits for the receiver" (dial.go:11-13).
OffererWaits ==
  \A o \in Offerers :
    client[o] = "failed" /\ at[o] = "parked" =>
      o \in old \cup shut \/ \E t \in Takers : mate[t] = o

\* An offerer's goroutine runs while it can, its slot's time passes, and a pipe
\* with a dead end is closed; a session on a pipe need not end, nor a client go.
BrokerFairness == \A o \in Offerers : WF_brokerVars(OfferRuns(o) \/ Age(o) \/ PipeEnds(o))

\* No offer is parked for ever (broker.go:171-183).
OfferSettles ==
  \A o \in Offerers : at[o] = "parked" ~> at[o] \in {"pipe", "done"}
=============================================================================
