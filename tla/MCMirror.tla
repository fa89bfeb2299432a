------------------------------ MODULE MCMirror ------------------------------
(***************************************************************************)
(* Two directories at the source, one within a third, with a hardlink      *)
(* across them; at the destination an old version of a file, a directory   *)
(* that is not in the source, and a part.                                  *)
(***************************************************************************)
EXTENDS Mirror, TLC

Node(kind, ino) == [kind |-> kind, ino |-> ino]
Old(kind, obj, data) == [kind |-> kind, obj |-> obj, data |-> data]

MCSourceTree ==
  <<>> :> Node("dir", 1) @@
  <<1>> :> Node("dir", 2) @@
    <<1, 1>> :> Node("file", 11) @@
    <<1, 2>> :> Node("dir", 3) @@
      <<1, 2, 1>> :> Node("file", 11) @@
      <<1, 2, 2>> :> Node("file", 12) @@
    <<1, 3>> :> Node("shut", 4) @@
      <<1, 3, 1>> :> Node("file", 13) @@
    <<1, 4>> :> Node("socket", 5) @@
  <<2>> :> Node("dir", 6) @@
    <<2, 1>> :> Node("file", 14)

MCOldTree ==
  <<>> :> Old("dir", 0, 0) @@
  <<1>> :> Old("dir", 0, 0) @@
    <<1, 1>> :> Old("file", 91, 10) @@
  <<3>> :> Old("file", 92, 90) @@
    <<1, 8>> :> Old("part", 93, 90) @@
  <<2>> :> Old("dir", 0, 0) @@
    <<2, 1>> :> Old("file", 94, 14) @@
  <<9>> :> Old("dir", 0, 0) @@
    <<9, 1>> :> Old("file", 95, 90)

Order(roots, skip, flags) ==
  [roots |-> roots, skip |-> skip, links |-> "links" \in flags,
   delete |-> "delete" \in flags, dry |-> "dry" \in flags]

\* One root, two, roots that overlap either way round, a root that is not sent.
MCOrders ==
  LET roots == {<<<<1>>>>, <<<<2>>, <<1>>>>, <<<<1>>, <<1, 2>>>>, <<<<1, 2, 1>>, <<1>>>>}
  IN {Order(rs, {}, {"links", "delete"}) : rs \in roots}
     \cup {Order(<<<<2>>, <<1>>>>, {}, {}), Order(<<<<1, 4>>, <<1, 2>>>>, {}, {"delete"}),
           Order(<<<<1>>>>, {2}, {"delete"}), Order(<<<<1>>>>, {}, {"delete", "dry"}),
           Order(<<<<1, 2, 1>>, <<2>>, <<1>>>>, {}, {"links", "delete"}),
           Order(<<<<1>>, <<3>>>>, {}, {"delete"})}
=============================================================================
