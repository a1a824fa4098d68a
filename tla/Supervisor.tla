------------------------------ MODULE Supervisor ------------------------------
(***************************************************************************)
(* What the process controller of z/ze/proc promises its callers: it runs  *)
(* at most one generation of the child, and it launches a generation only  *)
(* when the one before it is over, whose stop ends or is given up.         *)
(***************************************************************************)
EXTENDS Integers

CONSTANT MaxGen   \* bound: how many generations may be launched

VARIABLES
  status,    \* what State() reports
  current,   \* the generation Pid() names, 0 for none
  launched,  \* how many generations were launched
  over       \* the generations that are over

vars == <<status, current, launched, over>>

Init ==
  /\ status = "stopped"
  /\ current = 0
  /\ launched = 0
  /\ over = {}

Launch ==
  /\ status = "stopped"
  /\ over = 1 .. launched
  /\ launched < MaxGen
  /\ launched' = launched + 1
  /\ current' = launched + 1
  /\ status' = "running"
  /\ UNCHANGED over

BeginStop ==
  /\ status = "running"
  /\ status' = "stopping"
  /\ UNCHANGED <<current, launched, over>>

\* The stop could not be delivered.
AbandonStop ==
  /\ status = "stopping"
  /\ status' = "running"
  /\ UNCHANGED <<current, launched, over>>

\* The current generation ends, asked to or not.
Finish ==
  /\ status \in {"running", "stopping"}
  /\ status' = "stopped"
  /\ over' = over \cup {current}
  /\ current' = 0
  /\ UNCHANGED launched

Next == Launch \/ BeginStop \/ AbandonStop \/ Finish

Spec == Init /\ [][Next]_vars
=============================================================================
