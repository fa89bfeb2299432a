------------------------------ MODULE Tracker -------------------------------
(***************************************************************************)
(* The swarm tracker: internal/relay/swarm.go, rooms of peers that         *)
(* announce themselves and are told of others.  Announce is one critical   *)
(* section; time passes between the calls.  An address is always a seed's  *)
(* or always a joiner's: the entry of an address keeps its first role      *)
(* (swarm.go:110-112), and a joiner that has all announces as a joiner.    *)
(***************************************************************************)
EXTENDS Integers, FiniteSets, FiniteSetsExt

CONSTANTS
  RoomIDs,     \* rooms anybody may ask for
  Addrs,       \* addresses of members
  SeedAddrs,   \* those of seeds
  MaxRooms,    \* 4096 in the code
  MaxMembers,  \* maxRoomPeers
  MaxReturn,   \* maxAnnounceReturn
  TTL,         \* peerTTL, in ticks
  Leash,       \* a seed's TTL is this many times longer
  MaxTime      \* bound: ticks

ASSUME TrackerAssumption ==
  /\ SeedAddrs \subseteq Addrs /\ {MaxRooms, MaxMembers, MaxReturn, TTL, Leash} \subseteq Nat \ {0}
  /\ MaxTime \in Nat

VARIABLES
  rooms,    \* [room -> its members' last announces: [addr, seen]], for the rooms there are
  now,
  heard,    \* when an announce of an address in a room was last answered, or -1
  reply     \* the last announce's answer

trackerVars == <<rooms, now, heard, reply>>

Lifetime(a) == IF a \in SeedAddrs THEN Leash * TTL ELSE TTL
Alive(m) == now - m.seen <= Lifetime(m.addr)
Fresh(m) == now - m.seen <= TTL

\* Asked for a room too many, the tracker drops those nobody was seen in of late.
Swept == [r \in {q \in DOMAIN rooms : \E m \in rooms[q] : Fresh(m)} |-> rooms[r]]

Full(rs) == Cardinality(DOMAIN rs) >= MaxRooms
RoomsFor(r) == IF r \in DOMAIN rooms \/ ~Full(rooms) THEN rooms ELSE Swept

Stalest(ms) == {m \in ms : \A k \in ms : m.seen <= k.seen}

\* mutant: a seed may be the one
VictimsAny(ms) == Stalest(ms)

\* A full room makes place by losing a member not seen for longest, no seed.
Victims(ms) == Stalest({m \in ms : m.addr \notin SeedAddrs})

\* Who is told: the other seeds, and others up to the limit.
Told(a, ms) ==
  LET others == {m.addr : m \in ms} \ {a}
      seeds == others \cap SeedAddrs
      room == IF MaxReturn > Cardinality(seeds) THEN MaxReturn - Cardinality(seeds) ELSE 0
      size == Min({room, Cardinality(others \ seeds)})
  IN {seeds \cup s : s \in {x \in SUBSET (others \ seeds) : Cardinality(x) = size}}

Refused(r, a) ==
  /\ r \notin DOMAIN RoomsFor(r) /\ Full(RoomsFor(r))
  /\ rooms' = RoomsFor(r)
  /\ reply' = [to |-> a, room |-> r, ok |-> FALSE, out |-> {}]
  /\ UNCHANGED <<now, heard>>

Answered(r, a) ==
  /\ r \in DOMAIN RoomsFor(r) \/ ~Full(RoomsFor(r))
  /\ LET rs == RoomsFor(r)
         old == IF r \in DOMAIN rs THEN {m \in rs[r] : Alive(m)} ELSE {}
         known == \E m \in old : m.addr = a
         out == IF known \/ Cardinality(old) < MaxMembers THEN {} ELSE Victims(old)
     IN \E gone \in IF out = {} THEN {{}} ELSE {{v} : v \in out} :
          LET ms == {m \in old \ gone : m.addr # a} \cup {[addr |-> a, seen |-> now]}
          IN /\ rooms' = [q \in DOMAIN rs \cup {r} |-> IF q = r THEN ms ELSE rs[q]]
             /\ \E told \in Told(a, ms) :
                  reply' = [to |-> a, room |-> r, ok |-> TRUE, out |-> told]
  /\ heard' = [heard EXCEPT ![<<r, a>>] = now]
  /\ UNCHANGED now

Announces(r, a) == Refused(r, a) \/ Answered(r, a)

Tick == now < MaxTime /\ now' = now + 1 /\ UNCHANGED <<rooms, heard, reply>>

TrackerInit ==
  /\ rooms = [r \in {} |-> {}] /\ now = 0
  /\ heard = [x \in RoomIDs \X Addrs |-> -1]
  /\ reply = [to |-> "", room |-> "", ok |-> FALSE, out |-> {}]

TrackerNext == Tick \/ \E r \in RoomIDs, a \in Addrs : Announces(r, a)

TrackerSpec == TrackerInit /\ [][TrackerNext]_trackerVars

-----------------------------------------------------------------------------

\* A seed that keeps announcing is in every answer: no crowd of joiners and no
\* sweep of a full tracker drops it (swarm.go:57-58, 101-130).
SeedsReturned ==
  reply.ok =>
    \A a \in SeedAddrs \ {reply.to} :
      LET h == heard[<<reply.room, a>>]
      IN h >= 0 /\ now - h <= TTL => \E m \in rooms[reply.room] : m.addr = a /\ a \in reply.out
=============================================================================
