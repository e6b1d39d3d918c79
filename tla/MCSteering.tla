----------------------------- MODULE MCSteering -----------------------------
(* Small instances of Steering for TLC.                                     *)
EXTENDS Steering, TLC

CONSTANTS i1, i2, c1, c2, c3

TwoInputs == {i1, i2}
ThreeCalls == {c1, c2, c3}

\* The first input is sent twice.
Sent == [c \in ThreeCalls |-> IF c = c3 THEN i2 ELSE i1]

\* The first by any path, the second as an explicit STEER or REPLACE.
Ways == [i \in TwoInputs |-> IF i = i1 THEN Paths ELSE {"explicit"}]
Retries == Permutations({c1, c2})
=============================================================================
