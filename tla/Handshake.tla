----------------------------- MODULE Handshake -----------------------------
(***************************************************************************)
(* How two ends make a session of a connection: DialConnSec, AcceptConnSec *)
(* and secureConn of internal/transport/transport.go, and the key exchange *)
(* of internal/relay/e2ee.go (handshakeV1Bound).  The client writes its    *)
(* preface and reads the server's, the server the other way about; when    *)
(* both ask for a token or a passphrase, each writes a hello and a tag     *)
(* while it reads the other's.                                             *)
(*                                                                         *)
(* pipe[e] is what e has written and the other end has not read.  A write  *)
(* returns when no more of it than `room` is left there, 0 for a pipe      *)
(* without a buffer.                                                       *)
(***************************************************************************)
EXTENDS Naturals, Sequences

CONSTANTS
  Offers,   \* what an end may be set to: [token, pass, features]
  NoSecret, \* the token or passphrase of an end that has none
  Rooms     \* sizes of a pipe's buffer

ASSUME HandshakeAssumption == Rooms \subseteq Nat

Client == "client"
Server == "server"
Sides == {Client, Server}
Far(e) == IF e = Client THEN Server ELSE Client

VARIABLES
  offer,  \* [end -> what it is set to]
  room,
  pipe,   \* [end -> sequence of messages]
  step,   \* [end -> where it is; at the end "up" or "failed"]
  peer,   \* [end -> the preface it read]
  merged, \* [end -> the features it will use]
  late    \* a deadline has passed, or the connection was lost

handshakeVars == <<offer, room, pipe, step, peer, merged, late>>

NoPreface == [token |-> FALSE, pass |-> FALSE, features |-> {}]

\* NewHandshake with sec.flags(): that a secret is wanted, not which.
Preface(e) ==
  [token |-> offer[e].token # NoSecret, pass |-> offer[e].pass # NoSecret,
   features |-> offer[e].features]

Layered(e) == Preface(e).token \/ Preface(e).pass

Goes(e, to) == step' = [step EXCEPT ![e] = to]
Written(e) == Len(pipe[e]) <= room
Puts(e, m) == pipe' = [pipe EXCEPT ![e] = Append(@, m)]

WritePreface(e) ==
  /\ step[e] = (IF e = Client THEN "start" ELSE "read")
  /\ Puts(e, Preface(e)) /\ Goes(e, "offered")
  /\ UNCHANGED <<offer, room, peer, merged, late>>

\* A client reads when its own preface is out, a server before it writes one.
ReadPreface(e) ==
  /\ IF e = Client THEN step[e] = "offered" /\ Written(e) ELSE step[e] = "start"
  /\ pipe[Far(e)] # <<>>
  /\ peer' = [peer EXCEPT ![e] = Head(pipe[Far(e)])]
  /\ pipe' = [pipe EXCEPT ![Far(e)] = Tail(@)]
  /\ Goes(e, "read")
  /\ UNCHANGED <<offer, room, merged, late>>

HasBoth(e) == IF e = Client THEN step[e] = "read" ELSE step[e] = "offered" /\ Written(e)

\* Each layer must be asked for by both.
SameLayers(e) == Preface(e).token = peer[e].token /\ Preface(e).pass = peer[e].pass

Decline(e) ==
  /\ HasBoth(e) /\ ~SameLayers(e) /\ Goes(e, "failed")
  /\ UNCHANGED <<offer, room, pipe, peer, merged, late>>

\* negotiate
Comes(e) ==
  /\ Goes(e, "up")
  /\ merged' = [merged EXCEPT ![e] = offer[e].features \cap peer[e].features]

PlainUp(e) ==
  /\ HasBoth(e) /\ SameLayers(e) /\ ~Layered(e) /\ Comes(e)
  /\ UNCHANGED <<offer, room, pipe, peer, late>>

WriteHello(e) ==
  /\ HasBoth(e) /\ SameLayers(e) /\ Layered(e)
  /\ Puts(e, "hello") /\ Goes(e, "hello")
  /\ UNCHANGED <<offer, room, peer, merged, late>>

\* mutant: the write is over before the read begins
ReadsAfterWrite(e) == pipe[Far(e)] # <<>> /\ Written(e)
\* The read does not wait for the write.
MayRead(e) == pipe[Far(e)] # <<>>

ReadPeerHello(e) ==
  /\ step[e] = "hello" /\ MayRead(e)
  /\ pipe' = [pipe EXCEPT ![Far(e)] = Tail(@)] /\ Goes(e, "helloed")
  /\ UNCHANGED <<offer, room, peer, merged, late>>

\* The tag of an end is of the secrets and of both prefaces as it saw them.
Tag(e) == [token |-> offer[e].token, pass |-> offer[e].pass, seen |-> {Preface(e), peer[e]}]

WriteTag(e) ==
  /\ step[e] = "helloed" /\ Written(e)
  /\ Puts(e, Tag(e)) /\ Goes(e, "tag")
  /\ UNCHANGED <<offer, room, peer, merged, late>>

ReadTag(e) ==
  /\ step[e] = "tag" /\ MayRead(e)
  /\ pipe' = [pipe EXCEPT ![Far(e)] = Tail(@)]
  /\ Goes(e, IF Head(pipe[Far(e)]) = Tag(e) THEN "proved" ELSE "mismatch")
  /\ UNCHANGED <<offer, room, peer, merged, late>>

\* The tag that was read is compared when the own tag is out.
SecureUp(e) ==
  /\ step[e] = "proved" /\ Written(e) /\ Comes(e)
  /\ UNCHANGED <<offer, room, pipe, peer, late>>

Mismatch(e) ==
  /\ step[e] = "mismatch" /\ Written(e) /\ Goes(e, "failed")
  /\ UNCHANGED <<offer, room, pipe, peer, merged, late>>

HearsOut(e) ==
  \/ step[e] \in {"hello", "tag"}
  \/ IF e = Client THEN step[e] = "offered" /\ Written(e) ELSE step[e] = "start"

\* The other end has closed: a read finds the end of what it had written, and
\* a write that is not over fails.
HearClose(e) ==
  /\ step[e] \notin {"up", "failed"} /\ step[Far(e)] = "failed"
  /\ (HearsOut(e) /\ pipe[Far(e)] = <<>>) \/ ~Written(e)
  /\ Goes(e, "failed")
  /\ UNCHANGED <<offer, room, pipe, peer, merged, late>>

\* 15 seconds for the prefaces, 20 for each read and write of the exchange.
TimesOut(e) ==
  /\ step[e] \notin {"up", "failed"} /\ Goes(e, "failed") /\ late' = TRUE
  /\ UNCHANGED <<offer, room, pipe, peer, merged>>

HandshakeInit ==
  /\ offer \in [Sides -> Offers] /\ room \in Rooms
  /\ pipe = [e \in Sides |-> <<>>] /\ step = [e \in Sides |-> "start"]
  /\ peer = [e \in Sides |-> NoPreface] /\ merged = [e \in Sides |-> {}]
  /\ late = FALSE

SideRuns(e) ==
  \/ WritePreface(e) \/ ReadPreface(e) \/ Decline(e) \/ PlainUp(e)
  \/ WriteHello(e) \/ ReadPeerHello(e) \/ WriteTag(e) \/ ReadTag(e)
  \/ SecureUp(e) \/ Mismatch(e) \/ HearClose(e)

HandshakeNext == \E e \in Sides : SideRuns(e) \/ TimesOut(e)

-----------------------------------------------------------------------------

SameSecrets ==
  offer[Client].token = offer[Server].token /\ offer[Client].pass = offer[Server].pass

\* Unless a deadline passes, both ends come up with the same features when
\* their secrets agree, and both give up, neither left to wait, when they do
\* not; over an unbuffered pipe as well (transport.go:170-334, e2ee.go:82-132).
BothEndsMeet ==
  <>(\/ late
     \/ /\ SameSecrets /\ \A e \in Sides : step[e] = "up"
        /\ merged[Client] = merged[Server]
     \/ ~SameSecrets /\ \A e \in Sides : step[e] = "failed")
=============================================================================
