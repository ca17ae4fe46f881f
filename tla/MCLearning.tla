------------------------------ MODULE MCLearning ------------------------------
(***************************************************************************)
(* TLC instance of Learning: two threads judge a threat of one alert and   *)
(* one of two alerts of the same source: two verdicts are enough to learn  *)
(* from.  The learning rate is a tenth, so that it caps the blend.         *)
(* The source and the kind of the indicator are model values: keys of      *)
(* every sort can then be told apart.                                      *)
(***************************************************************************)
EXTENDS Learning

CONSTANTS t1, t2, s1, domain

Single ==
  [DefaultAlert EXCEPT !.id = "a0", !.source = s1, !.severity = "LOW", !.ips = <<"ip1">>]
Repeated(i) ==
  [DefaultAlert EXCEPT !.id = ToString(i), !.source = s1, !.severity = "HIGH",
                       !.observables = {[type |-> domain, value |-> "d1"]}]

MCThreats == {<<Single>>, [i \in 1 .. 2 |-> Repeated(i)]}
Symmetry == Permutations(Threads)
=============================================================================
