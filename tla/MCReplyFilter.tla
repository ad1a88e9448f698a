---------------------------- MODULE MCReplyFilter ----------------------------
(***************************************************************************)
(* Datagrams around every boundary the matcher tests: each length at which *)
(* a comparison changes its result, each marker, phase and number.         *)
(***************************************************************************)
EXTENDS ReplyFilter

SomeNumbers == {0, 2, 3, 255}

Boundaries ==
  [n : {1, 7, 8, 24, 25, 38, 39, 40, 71, 72, 272}, b0 : {2, 4, 5, 7},
   b1 : {0, 1, 2, 3, 255}, w : {0, 16, 40, 72, 272}, b4 : {0, 6, 11},
   b5 : {0, 2, 4, 6}]

Observed == UNION {ServerReplies(k, s) : k \in Kinds, s \in SomeNumbers}

AllDatagrams == Boundaries \cup Observed \cup {Rejection}
=============================================================================
