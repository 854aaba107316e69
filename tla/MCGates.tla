------------------------------ MODULE MCGates ------------------------------
(* The instances of Gates that TLC checks.                                 *)
EXTENDS Gates, TLC

CONSTANTS o1, o2, p1, s1, k1

Request(scope, key, remember, lifetime) ==
  [scope |-> scope, key |-> key, remember |-> remember, lifetime |-> lifetime]

\* Gates that share a similarity key: of one routine, with a deadline, and of
\* another, without.  NoKey stands for a routine without a similarity function.
MCRequests == {Request("drafts", k1, TRUE, 1), Request("sends", k1, TRUE, Never)}
=============================================================================
