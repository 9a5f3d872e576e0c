------------------------------ MODULE AlarmList ------------------------------
(***************************************************************************)
(* What the ranks of the active alarms stand for: a list of alarms, each   *)
(* at most once, the one raised last in front.  ActiveAlarms implements it *)
(* with one rank per alarm.                                                *)
(***************************************************************************)
EXTENDS Integers

CONSTANT Alarms

VARIABLES
  size,   \* how many alarms the list has
  at      \* the alarm at each of its places 1 .. size

listVars == <<size, at>>

Listed(a) == \E n \in 1..size : at[n] = a

ListInit == size = 0 /\ at = [n \in 1..0 |-> 0]

\* An alarm is raised: it goes in front, the others keep their order.
Push(a) ==
  /\ ~Listed(a)
  /\ size' = size + 1
  /\ at' = [n \in 1..size + 1 |-> IF n = 1 THEN a ELSE at[n - 1]]

\* The alarm at place k is over: the ones behind it move up.
Remove(k) ==
  /\ size' = size - 1
  /\ at' = [n \in 1..size - 1 |-> IF n < k THEN at[n] ELSE at[n + 1]]

ListNext == (\E a \in Alarms : Push(a)) \/ (\E k \in 1..size : Remove(k))

ListSpec == ListInit /\ [][ListNext]_listVars
=============================================================================
