----------------------------- MODULE MCServices -----------------------------
(***************************************************************************)
(* What goes on around a transfer, checked in one run: a behaviour is one  *)
(* of one `component`; the others stay in an initial state.                *)
(***************************************************************************)
EXTENDS Spool, PartLock, Session, Journal, Mesh, Watch, Handshake, MCMirror

VARIABLE component

servicesVars ==
  <<component, vars, partVars, sessionVars, journalVars, meshVars, watchVars, handshakeVars,
    mirrorVars>>

MCPlain == [token |-> "", pass |-> "", features |-> {"zstd"}]

\* No secret, a token, another one, a passphrase too.
MCOffers ==
  {MCPlain, [token |-> "t", pass |-> "", features |-> {"zstd", "lz4"}],
   [token |-> "u", pass |-> "", features |-> {}],
   [token |-> "t", pass |-> "p", features |-> {"lz4"}]}

MCSource == [s1 |-> 1, s2 |-> 1, s3 |-> 2]

Is(p) == component = p

ServicesInit ==
  /\ component \in {"spool", "locks", "session", "journal", "mesh", "watch", "handshake", "mirror"}
  /\ Init /\ PartInit /\ SessionInit /\ JournalInit /\ MeshInit /\ WatchInit /\ HandshakeInit
  /\ MirrorInit
  /\ ~Is("locks") => Final \notin DOMAIN dir
  /\ ~Is("session") => dirn = "push" /\ agree = "same" /\ allowed /\ ~given
  /\ ~Is("handshake") => room = 0 /\ \A e \in Sides : offer[e] = MCPlain
  /\ ~Is("mirror") => order = Order(<<<<2>>, <<1>>>>, {}, {})
  /\ "e1" \in DOMAIN config.ends

ServicesNext ==
  /\ \/ Is("spool") /\ Next
     \/ Is("locks") /\ PartNext
     \/ Is("session") /\ SessionNext
     \/ Is("journal") /\ JournalNext
     \/ Is("mesh") /\ MeshNext
     \/ Is("watch") /\ WatchNext
     \/ Is("handshake") /\ HandshakeNext
     \/ Is("mirror") /\ MirrorNext
  /\ UNCHANGED component
  /\ IF Is("spool") THEN TRUE ELSE UNCHANGED vars
  /\ IF Is("locks") THEN TRUE ELSE UNCHANGED partVars
  /\ IF Is("session") THEN TRUE ELSE UNCHANGED sessionVars
  /\ IF Is("journal") THEN TRUE ELSE UNCHANGED journalVars
  /\ IF Is("mesh") THEN TRUE ELSE UNCHANGED meshVars
  /\ IF Is("watch") THEN TRUE ELSE UNCHANGED watchVars
  /\ IF Is("handshake") THEN TRUE ELSE UNCHANGED handshakeVars
  /\ IF Is("mirror") THEN TRUE ELSE UNCHANGED mirrorVars

ServicesSpec == ServicesInit /\ [][ServicesNext]_servicesVars

\* Spool!Fairness.
SpoolFairness ==
  /\ WF_vars(Is("spool") /\ (WriteSleeps \/ WriteGivesUp \/ WriteMem \/ WriteFile))
  /\ WF_vars(Is("spool") /\ (ProducerFails \/ CloseWrite))
  /\ WF_vars(Is("spool") /\ (ReadFile \/ ReadMem \/ ReadEnds \/ ReadSleeps))
  /\ WF_vars(Is("spool") /\ \E b \in BOOLEAN : Delivered(b))
  /\ WF_vars(Is("spool") /\ (ConsumerFails \/ Finish))

ServicesFairness ==
  /\ SpoolFairness
  /\ WF_sessionVars(Is("session") /\ CallerRuns) /\ WF_sessionVars(Is("session") /\ HandlerRuns)
  /\ WF_sessionVars(Is("session") /\ SenderRuns) /\ WF_sessionVars(Is("session") /\ ReceiverRuns)
  /\ WF_watchVars(Is("watch") /\ SweepFires) /\ WF_watchVars(Is("watch") /\ PushRuns)
  /\ \A e \in {"client", "server"} : WF_handshakeVars(Is("handshake") /\ SideRuns(e))

ServicesFair == ServicesSpec /\ ServicesFairness

\* session.go:487-490: a push over a flaky link converges.
SessionConverges == Is("session") => FlakyLinkConverges

\* watch.go:20-29: no change of a watched tree is lost to the baseline.
WatchMirrors == Is("watch") => Mirrored

\* transport.go:170-334, e2ee.go:82-132: neither end of a new connection is
\* left to wait for the other.
EndsMeet == Is("handshake") => BothEndsMeet
=============================================================================
