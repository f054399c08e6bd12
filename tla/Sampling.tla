------------------------------- MODULE Sampling -------------------------------
(***************************************************************************)
(* How both programs choose the values they look up: every step-th value   *)
(* of the data, `limit` of them at most.  The places of the data start at  *)
(* 1.                                                                      *)
(***************************************************************************)
EXTENDS Naturals

\* (n / limit).max(1)
Step(n, limit) == IF n < limit THEN 1 ELSE n \div limit

\* How many values step_by yields, and take lets through.
TargetCount(n, limit) ==
    LET stepped == (n + Step(n, limit) - 1) \div Step(n, limit)
    IN  IF stepped < limit THEN stepped ELSE limit

\* The places of the targets in the data.
Targets(n, limit) == [k \in 1 .. TargetCount(n, limit) |-> (k - 1) * Step(n, limit) + 1]
===============================================================================
