------------------------------ MODULE KeepChooser ------------------------------
(***************************************************************************)
(* The policy that ends a stream after too many parse errors               *)
(* (src/server/keep-chooser.go): a queue of the times of recent errors, of *)
(* bounded size, and the number of errors in a row.                        *)
(***************************************************************************)
EXTENDS Naturals, Sequences, FiniteSets

CONSTANTS SecMaxErr, MaxSerializedErr, Second

ASSUME ChooserAssumption == SecMaxErr \in Nat /\ MaxSerializedErr \in Nat /\ Second \in Nat

NewChooser == [times |-> <<>>, row |-> 0]

Reset(c) == [c EXCEPT !.times = <<>>, !.row = 0]

OnSuccess(c) == [c EXCEPT !.row = 0]

\* Errors older than a second leave the queue at its head.
RecentOnly(times, now) ==
  LET old == {i \in 0 .. Len(times) : \A j \in 1 .. i : now - times[j] > Second}
  IN  SubSeq(times, Cardinality(old), Len(times))

\* mutant
PrunedNever(c, now) == [c EXCEPT !.row = @ + 1]

Pruned(c, now) == [times |-> RecentOnly(c.times, now), row |-> c.row + 1]
\* OnError at time now: the chooser after it, and whether to go on.
OnError(c, now) ==
  LET d == Pruned(c, now)
  IN  IF c.row + 1 > MaxSerializedErr
      THEN [chooser |-> [c EXCEPT !.row = @ + 1], keep |-> FALSE]
      ELSE IF Len(d.times) = SecMaxErr
      THEN [chooser |-> d, keep |-> FALSE]
      ELSE [chooser |-> [d EXCEPT !.times = Append(@, now)], keep |-> TRUE]
===============================================================================
