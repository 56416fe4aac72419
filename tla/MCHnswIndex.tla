---------------------------- MODULE MCHnswIndex ----------------------------
(***************************************************************************)
(* A small instance of the HNSW index for TLC.                             *)
(***************************************************************************)
EXTENDS HnswProperties, TLC

\* The ids are points on a line; some of the distances tie.
Position == [a |-> 3, b |-> 0, c |-> 10, d |-> 9, e |-> 4]
Points == DOMAIN Position
Gap(p, q) == IF p < q THEN q - p ELSE p - q
LineDist == [pair \in Points \X Points |-> Gap(Position[pair[1]], Position[pair[2]])]

\* c comes first and e second or last.  Only they may be on layer 0 alone, so
\* that layer 1 has full lists.
Added == [n \in 0 .. 4 |->
            CASE n = 0 -> {<<"c", 0>>, <<"c", 1>>}
              [] n = 1 -> {<<"a", 1>>, <<"b", 1>>, <<"d", 1>>, <<"e", 1>>}
              [] n = 4 -> {<<"a", 1>>, <<"b", 1>>, <<"d", 1>>, <<"e", 0>>, <<"e", 1>>}
              [] OTHER -> {<<"a", 1>>, <<"b", 1>>, <<"d", 1>>}]
=============================================================================
