------------------------------- MODULE MCService -------------------------------
(* What a process of the service must finish: a migration, a shutdown, the      *)
(* reclaiming of garbage.  The three share nothing: a behaviour is one of one   *)
(* of them, from its own initial states.                                       *)
EXTENDS Migrate, ServerLifecycle, ReclaimBudget

VARIABLE part

(* Two builds one of which continues the other, and a third that does not. *)
MCCode == [a |-> <<"k1">>, s |-> <<"k1">>, b |-> <<"k1", "k2">>, t |-> <<"k1", "k2">>, x |-> <<"j1", "j2">>]
MCCalls == [a |-> 1, b |-> 2, x |-> 1]

(* The last object is larger than a whole pass may read. *)
MCSizeOf == <<1, 1, 3>>

Others(p) ==
  /\ p # "migrate" => UNCHANGED migrateVars
  /\ p # "life" => UNCHANGED lifeVars
  /\ p # "budget" => UNCHANGED budgetVars

In(p) == part = p /\ part' = part /\ Others(p)

Init ==
  /\ part \in {"migrate", "life", "budget"}
  /\ MigrateInit /\ LifeInit
  /\ BudgetInit /\ (part # "budget" => catalog = {} /\ medium = {} /\ temps = {} /\ young = {} /\ stuck = {})

Next ==
  \/ In("migrate") /\ MigrateNext
  \/ In("life") /\ LifeNext
  \/ In("budget") /\ BudgetNext

vars == <<part, migrateVars, lifeVars, budgetVars>>

(* A process that migrates goes on and is granted the lock in the end; the    *)
(* start of a server settles and a timer that was set fires, while nothing is *)
(* assumed of the requests or the close; a pass that began ends and the       *)
(* operator runs one from the start now and then.                             *)
Fairness ==
  /\ \A p \in Migrators : /\ SF_vars(In("migrate") /\ Lock(p))
                          /\ WF_vars(In("migrate") /\ MigrateStep(p))
  /\ WF_vars(In("life") /\ (StartFails \/ Started)) /\ WF_vars(In("life") /\ GraceExceeded)
  /\ SF_vars(In("budget") /\ SelectUnreferenced(0)) /\ WF_vars(In("budget") /\ BudgetStep)

Spec == Init /\ [][Next]_vars /\ Fairness
===============================================================================
