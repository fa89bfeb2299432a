---------------------------- MODULE MCCompletion ----------------------------
(* Instances of Completion for TLC. *)
EXTENDS Completion

E(k) == [kind |-> k, ref |-> 0]
L(r) == [kind |-> "link", ref |-> r]

\* one more data entry than the credit; two files in transfer; an entry made on
\* sight, and a link to a file that may be there
MCManifests ==
  {<<E("file"), E("empty"), E("empty")>>, <<E("file"), E("file")>>, <<E("dir"), E("file"), L(2)>>}
\* the shortest manifests that show each finding
MCTwoFiles  == {<<E("file"), E("file")>>}
MCLinked    == {<<E("file"), L(1)>>}
=============================================================================
