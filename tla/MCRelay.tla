------------------------------ MODULE MCRelay -------------------------------
(***************************************************************************)
(* A joiner of a swarm, the tracker and the broker, checked in one run: a  *)
(* behaviour is one of one `component`; the others stay in an initial      *)
(* state.                                                                  *)
(***************************************************************************)
EXTENDS Swarm, Tracker, Broker

VARIABLE component

relayVars == <<component, vars, trackerVars, brokerVars>>

MCFiles == <<"a">>
MCChunks == [f \in {"a"} |-> 2]
MCFinals == {[f \in {"a"} |-> x] : x \in {"none", "old", "good"}}
MCLeftovers == {{}, {"a"}}

\* The two chunks are alike: of two parts that differ by their order, one.
PartLeft ==
  <<part[<<"a", 1>>], part[<<"a", 2>>]>>
    \notin {<<"hole", "bad">>, <<"hole", "good">>, <<"bad", "good">>}

\* A v2 spec meets an older or whole file, maybe with a part.  A v1 spec, whose
\* chunks cannot be checked, meets nothing, or a part with a bad chunk.
Meets ==
  IF catalog THEN final["a"] # "none" /\ (hasPart # {} => PartLeft)
  ELSE /\ final["a"] = "none" /\ ~reliable
       /\ hasPart # {} => <<part[<<"a", 1>>], part[<<"a", 2>>]>> = <<"bad", "hole">>

\* Of the broker's comers that are alike, the first comes first.
InTurn == (at["o2"] # "new" => at["o1"] # "new") /\ (at["t2"] # "new" => at["t1"] # "new")

Is(c) == component = c

RelayInit ==
  /\ component \in {"swarm", "tracker", "broker"}
  /\ Init /\ TrackerInit /\ BrokerInit
  /\ Meets
  /\ ~Is("swarm") => catalog /\ reliable /\ hasPart = {} /\ final["a"] = "old"

RelayNext ==
  /\ \/ Is("swarm") /\ Next
     \/ Is("tracker") /\ TrackerNext
     \/ Is("broker") /\ BrokerNext /\ InTurn'
  /\ UNCHANGED component
  /\ IF Is("swarm") THEN TRUE ELSE UNCHANGED vars
  /\ IF Is("tracker") THEN TRUE ELSE UNCHANGED trackerVars
  /\ IF Is("broker") THEN TRUE ELSE UNCHANGED brokerVars

\* Broker!BrokerFairness.
ServesOffers ==
  \A o \in Offerers : WF_brokerVars(Is("broker") /\ (OfferRuns(o) \/ Age(o) \/ PipeEnds(o)))

RelayFair == RelayInit /\ [][RelayNext]_relayVars /\ Fairness /\ ServesOffers
=============================================================================
