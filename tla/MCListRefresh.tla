----------------------------- MODULE MCListRefresh -----------------------------
(***************************************************************************)
(* ListRefresh for TLC: the bounds are in the configurations.              *)
(***************************************************************************)
EXTENDS ListRefresh, TLC

\* The first change leaves total and first ID of the first query alone, the second
\* gives the second query those it began with, and then both queries have the same.
Tokens == [q \in 0..MaxVisits |-> [n \in 0..MaxSource |->
              CASE q = 0 -> IF n = 2 THEN 1 ELSE 0
                [] OTHER -> IF n = 1 THEN 2 ELSE 1]]
=============================================================================
