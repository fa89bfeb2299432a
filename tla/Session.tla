------------------------------ MODULE Session -------------------------------
(***************************************************************************)
(* A caller's run with its retries and the server's handler of each of its *)
(* connections: internal/session/session.go over internal/transport, with  *)
(* what the two engines count and report of a transfer.  The inside of a   *)
(* transfer is modules Transfer and Completion; here a file is one step,   *)
(* and what has landed stays for the next attempt.                         *)
(***************************************************************************)
EXTENDS Naturals, Sequences, FiniteSets

CONSTANTS
  Directions,   \* of {"push", "pull"}
  Files,        \* how many the transfer has
  Retries,      \* --retries
  MaxDrops,     \* bound: connections lost
  MaxRestarts   \* bound: restarts of the server

ASSUME SessionAssumption ==
  Directions \subseteq {"push", "pull"}
  /\ Files \in Nat \ {0} /\ Retries \in Nat /\ MaxDrops \in Nat /\ MaxRestarts \in Nat

VARIABLES
  dirn,     \* the run's direction
  agree,    \* what the two ends were given: "same", other "layers", another "secret"
  allowed,  \* does the server allow the direction, and the paths
  given,    \* the caller was handed its connection (--via) and cannot make another
  landed,   \* files that are at their place
  tries,    \* attempts after the first
  caller,   \* "dial", "ack", "run", "failed", "over"
  result,   \* of the last attempt: "ok", or why not
  report,   \* the caller's, of the last attempt: files it names, and is it Cancelled
  conn,     \* the server's handler of the connection: "none", "loop", "run", "closed"
  link,     \* is the connection up
  second,   \* a sender's control reader outlives its Run
  inbox,    \* [end -> control frames on the way to it]
  told,     \* the attempt's sender: resolvedIDs
  settled,  \* its receiver: files with an outcome ...
  count,    \* ... r.resolved ...
  crossed,  \* ... files the sender failed after that ...
  said,     \* ... and doneSent
  server,   \* is it listening
  drops, restarts

fixed   == <<dirn, agree, allowed, given>>
engines == <<told, settled, count, crossed, said>>
budget  == <<drops, restarts>>
sessionVars == <<fixed, landed, tries, caller, result, report, conn, link, second, inbox, engines,
                 server, budget>>

All == 1 .. Files
Push == dirn = "push"

Sender   == IF Push THEN "caller" ELSE "server"
Receiver == IF Push THEN "server" ELSE "caller"

Sending   == IF Push THEN caller = "run" ELSE conn = "run"
Receiving == IF Push THEN conn = "run" ELSE caller = "run"

Frame(k)     == [kind |-> k, file |-> 0]
FileResult(k, f) == [kind |-> k, file |-> f]   \* "landed" or "failed"

Heard(e, k) == inbox[e] # <<>> /\ Head(inbox[e]).kind = k
Took(e)     == inbox' = [inbox EXCEPT ![e] = Tail(@)]
\* What is sent on a connection that is gone is lost.
Tell(e, ms) == inbox' = [inbox EXCEPT ![e] = IF link THEN @ \o ms ELSE @]
Hang        == link' = FALSE /\ inbox' = [e \in {"caller", "server"} |-> <<>>]

\* Only the caller's own engine writes the report the user sees.
Named(e, fs) ==
  report' = IF e = "caller" THEN [report EXCEPT !.names = @ \cup fs] ELSE report

-----------------------------------------------------------------------------
(* The caller dials. *)

\* mutant: a lost connection is final
RetryableNot(r) == r \in {"remote", "secret"}

\* Words of the error text decide (retryableErr): "refused", "token", "protocol",
\* ... are final.  A dial that nobody listens to is "connection refused".
Retryable(r) == r \in {"lost", "remote", "secret"}

Fail(r) == caller' = "failed" /\ result' = r

\* DialSec and DialConnSec, with AcceptConnSec at the other end: both want the
\* same layers, or both refuse; a secret the other does not have fails the
\* record layer's confirmation at both.  A connection that was given is dialled
\* again as it is, and each attempt closes its own.
DialOutcome ==
  IF given /\ (tries > 0 \/ ~server) THEN "lost"
  ELSE IF ~server THEN "no listener"
  ELSE CASE agree = "layers" -> "refused" [] agree = "secret" -> "secret" [] agree = "same" -> "up"

Dial ==
  /\ caller = "dial" /\ conn \in {"none", "closed"}
  /\ IF DialOutcome = "up"
     THEN caller' = "ack" /\ conn' = "loop" /\ link' = TRUE /\ UNCHANGED result
     ELSE Fail(DialOutcome) /\ UNCHANGED <<conn, link>>
  /\ inbox' = [inbox EXCEPT !["caller"] = <<>>,
                            !["server"] = IF DialOutcome = "up" THEN <<Frame("init")>> ELSE <<>>]
  /\ second' = FALSE /\ report' = [names |-> {}, cancelled |-> FALSE]
  /\ told' = {} /\ settled' = {} /\ count' = 0 /\ crossed' = {} /\ said' = FALSE
  /\ UNCHANGED <<fixed, landed, tries, server, budget>>

HearAck ==
  /\ caller = "ack" /\ Heard("caller", "ack") /\ caller' = "run" /\ Took("caller")
  /\ UNCHANGED <<fixed, landed, tries, result, report, conn, link, second, engines, server, budget>>

HearRefusal ==
  /\ caller = "ack" /\ Heard("caller", "nack") /\ Fail("refused") /\ Hang
  /\ UNCHANGED <<fixed, landed, tries, report, conn, second, engines, server, budget>>

-----------------------------------------------------------------------------
(* The two engines. *)

atEnds == <<fixed, tries, caller, result, conn, link, second, server, budget>>

\* A file's outcome at the receiver: it is at its place, or was already, or
\* cannot be; the sender hears of it.
Lands(f) ==
  /\ Receiving /\ link /\ caller = "run" /\ f \notin settled
  /\ landed' = landed \cup {f} /\ settled' = settled \cup {f} /\ count' = count + 1
  /\ Tell(Sender, <<FileResult("landed", f)>>)
  /\ UNCHANGED <<atEnds, report, told, crossed, said>>

CannotLand(f) ==
  /\ Receiving /\ link /\ caller = "run" /\ f \notin settled
  /\ settled' = settled \cup {f} /\ count' = count + 1 /\ Named(Receiver, {f})
  /\ Tell(Sender, <<FileResult("failed", f)>>)
  /\ UNCHANGED <<atEnds, landed, told, crossed, said>>

\* failFile: the source cannot be read.
SourceFails(f) ==
  /\ Sending /\ f \notin told
  /\ told' = told \cup {f} /\ Named(Sender, {f})
  /\ Tell(Receiver, <<FileResult("failed", f)>>)
  /\ UNCHANGED <<atEnds, landed, settled, count, crossed, said>>

\* fileResult: the first outcome of a file is the one reported.
HearResult(f) ==
  /\ Sending /\ \E k \in {"landed", "failed"} :
       /\ inbox[Sender] # <<>> /\ Head(inbox[Sender]) = FileResult(k, f)
       /\ Named(Sender, IF k = "failed" /\ f \notin told THEN {f} ELSE {})
  /\ told' = told \cup {f} /\ Took(Sender)
  /\ UNCHANGED <<atEnds, landed, settled, count, crossed, said>>

\* senderFileError counts, whatever the receiver knows of the file.
HearSourceFailed(f) ==
  /\ Receiving /\ inbox[Receiver] # <<>> /\ Head(inbox[Receiver]) = FileResult("failed", f)
  /\ count' = count + 1 /\ settled' = settled \cup {f}
  /\ crossed' = IF f \in settled THEN crossed \cup {f} ELSE crossed
  /\ Named(Receiver, IF f \in settled THEN {} ELSE {f})
  /\ Took(Receiver)
  /\ UNCHANGED <<atEnds, landed, told, said>>

\* watchCompletion goes by its count.
SayDone ==
  /\ Receiving /\ caller = "run" /\ ~said /\ count >= Files
  /\ said' = TRUE /\ Tell(Sender, <<Frame("done"), Frame("goodbye")>>)
  /\ UNCHANGED <<atEnds, landed, report, told, settled, count, crossed>>

-----------------------------------------------------------------------------
(* The caller's run ends. *)

\* A push ends when the last result has come, with whatever results: the
\* session is closed.
PushEnds ==
  /\ Push /\ caller = "run" /\ told = All
  /\ caller' = "over" /\ result' = "ok" /\ Hang
  /\ UNCHANGED <<fixed, landed, tries, report, conn, second, engines, server, budget>>

\* Or at Done: what has no result then makes it Cancelled, which is no error.
PushHearsDone ==
  /\ Push /\ caller = "run" /\ Heard("caller", "done")
  /\ caller' = "over" /\ result' = "ok" /\ Hang
  /\ report' = [report EXCEPT !.cancelled = told # All]
  /\ UNCHANGED <<fixed, landed, tries, conn, second, engines, server, budget>>

\* mutant: any end is a clean end
LossResultOk == "ok"

\* How the end of the control stream is read: after its own Done by a receiver,
\* and with every result by a sender, it is the clean end.
LossResult == IF (IF Push THEN told = All ELSE said) THEN "ok" ELSE "lost"

\* The error frame comes before the close.
HearError ==
  /\ caller = "run" /\ Heard("caller", "error") /\ Fail("remote") /\ Hang
  /\ UNCHANGED <<fixed, landed, tries, report, conn, second, engines, server, budget>>

HearEnd ==
  /\ caller \in {"ack", "run"} /\ ~link /\ inbox["caller"] = <<>>
  /\ result' = IF caller = "run" THEN LossResult ELSE "lost"
  /\ caller' = IF result' = "ok" THEN "over" ELSE "failed"
  /\ UNCHANGED <<fixed, landed, tries, report, conn, link, second, inbox, engines, server, budget>>

\* RunWithRetries: back off and dial again, or return the last result.
Again ==
  /\ caller = "failed"
  /\ IF Retryable(result) /\ tries < Retries THEN tries' = tries + 1 /\ caller' = "dial"
     ELSE caller' = "over" /\ UNCHANGED tries
  /\ UNCHANGED <<fixed, landed, result, report, conn, link, second, inbox, engines, server, budget>>

-----------------------------------------------------------------------------
(* The server's handler. *)

atCaller == <<fixed, landed, tries, caller, result, report, engines, server, budget>>

\* runTransfer: every refusal comes before the one ack.
TakeInit ==
  /\ conn = "loop" /\ link /\ Heard("server", "init")
  /\ conn' = IF allowed THEN "run" ELSE conn
  /\ inbox' = [inbox EXCEPT !["caller"] = Append(@, Frame(IF allowed THEN "ack" ELSE "nack")),
                            !["server"] = Tail(@)]
  /\ UNCHANGED <<atCaller, link, second>>

\* A pull's sender: its control reader has Done, or every result has come and
\* Run returns with the reader still reading.
SenderHearsDone ==
  /\ ~Push /\ conn = "run" /\ Heard("server", "done") /\ Took("server")
  /\ conn' = "loop" /\ second' = FALSE
  /\ UNCHANGED <<atCaller, link>>

SenderReturns ==
  /\ ~Push /\ conn = "run" /\ told = All
  /\ conn' = "loop" /\ second' = TRUE
  /\ UNCHANGED <<atCaller, link, inbox>>

\* The reader left behind takes a frame from the handler's loop, and reads on
\* after a result ...
SecondTakes ==
  /\ second /\ conn = "loop" /\ inbox["server"] # <<>>
  /\ \/ Took("server") /\ second' = (Head(inbox["server"]).kind \in {"landed", "failed"})
     \* ... or all there is into a buffer the loop is not reading.
     \/ inbox' = [inbox EXCEPT !["server"] = <<>>] /\ second' = FALSE
  /\ UNCHANGED <<atCaller, conn, link>>

HandlerCloses == conn' = "closed" /\ link' = FALSE /\ second' = FALSE

\* The loop knows neither Done nor any other frame of a transfer.
LoopUnexpected ==
  /\ conn = "loop" /\ \E k \in {"done", "landed", "failed"} : Heard("server", k)
  /\ HandlerCloses
  /\ inbox' = [inbox EXCEPT !["caller"] = Append(@, Frame("error")), !["server"] = <<>>]
  /\ UNCHANGED atCaller

LoopGoodbye ==
  /\ conn = "loop" /\ Heard("server", "goodbye") /\ HandlerCloses
  /\ inbox' = [inbox EXCEPT !["server"] = <<>>]
  /\ UNCHANGED atCaller

\* The connection is gone: whatever reads from it returns.
Unwinds == conn \in {"loop", "run"} /\ ~link

HandlerEnds == Unwinds /\ HandlerCloses /\ UNCHANGED <<atCaller, inbox>>

-----------------------------------------------------------------------------
(* The link and the server's process. *)

Drop ==
  /\ link /\ drops < MaxDrops /\ drops' = drops + 1 /\ Hang
  /\ UNCHANGED <<fixed, landed, tries, caller, result, report, conn, second, engines, server, restarts>>

ServerDies ==
  /\ server /\ restarts < MaxRestarts /\ restarts' = restarts + 1
  /\ server' = FALSE /\ Hang /\ second' = FALSE
  /\ conn' = IF conn = "none" THEN conn ELSE "closed"
  /\ UNCHANGED <<fixed, landed, tries, caller, result, report, engines, drops>>

ServerStarts ==
  /\ ~server /\ server' = TRUE
  /\ UNCHANGED <<fixed, landed, tries, caller, result, report, conn, link, second, inbox, engines, budget>>

-----------------------------------------------------------------------------

SessionInit ==
  /\ dirn \in Directions /\ agree \in {"same", "layers", "secret"} /\ allowed \in BOOLEAN
  /\ given \in BOOLEAN
  /\ landed = {} /\ tries = 0 /\ caller = "dial" /\ result = "none"
  /\ report = [names |-> {}, cancelled |-> FALSE]
  /\ conn = "none" /\ link = FALSE /\ second = FALSE
  /\ inbox = [e \in {"caller", "server"} |-> <<>>]
  /\ told = {} /\ settled = {} /\ count = 0 /\ crossed = {} /\ said = FALSE
  /\ server = TRUE /\ drops = 0 /\ restarts = 0

SenderRuns == \E f \in All : SourceFails(f) \/ HearResult(f)
ReceiverRuns == SayDone \/ \E f \in All : Lands(f) \/ CannotLand(f) \/ HearSourceFailed(f)

CallerRuns ==
  \/ Dial \/ HearAck \/ HearRefusal \/ PushEnds \/ PushHearsDone \/ HearError \/ HearEnd \/ Again
HandlerRuns ==
  TakeInit \/ SenderHearsDone \/ SenderReturns \/ SecondTakes \/ LoopUnexpected \/ LoopGoodbye \/ HandlerEnds

SessionNext ==
  CallerRuns \/ SenderRuns \/ ReceiverRuns \/ HandlerRuns \/ Drop \/ ServerDies \/ ServerStarts

SessionSpec == SessionInit /\ [][SessionNext]_sessionVars

-----------------------------------------------------------------------------

\* A run that ends without an error leaves no file in silence, whatever attempt
\* it ends in and whichever end of its connection it comes from: each is at its
\* place or named in that attempt's report.  Only an error the sender gives of a
\* file that has an outcome already may cut it short (see Completion!DoneComplete),
\* and a push then calls itself Cancelled (session.go:491-516, sender.go:226,
\* 281-286, receiver.go:306-312, 1262-1280).
OkMeansAll ==
  caller = "over" /\ result = "ok" =>
    All \subseteq landed \cup report.names \/ (crossed # {} /\ (Push => report.cancelled))

\* A flaky link converges instead of failing the run (session.go:487-490): a
\* push with a retry for each loss ends well, unless it dials a dead server or
\* was given its connection.
FlakyLinkConverges ==
  (Push /\ agree = "same" /\ allowed)
    ~> (caller = "over" /\ \/ result = "ok" \/ result = "no listener"
                           \/ drops + restarts > Retries \/ (given /\ drops + restarts > 0))

\* One goroutine reads the control stream: "a single reader" (protocol.go:213);
\* a pull that has all its files is not failed by its own Done.
PullReported == ~Push /\ caller = "failed" => settled # All \/ result # "remote"
=============================================================================
