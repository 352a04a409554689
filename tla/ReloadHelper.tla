---------------------------- MODULE ReloadHelper ----------------------------
(* nanoinit --reload, src/source/nanoinit.c: the processes of /proc are     *)
(* looked at one after the other, in the order of their numbers, and the    *)
(* first one with "nanoinit" in the first word of its command line is sent  *)
(* SIGUSR1.  A child of nanoinit before its execv() is such a one.  Other   *)
(* processes end and start meanwhile, and a number is used again.  A        *)
(* "Mutant" is a wrong variant of the next definition.                      *)
EXTENDS Integers, FiniteSets

CONSTANTS MaxPid,      \* process numbers are 1..MaxPid
          MaxChurn     \* bound on processes that end or start meanwhile

ASSUME ReloadHelperAssumption == MaxPid \in Nat \ {0} /\ MaxChurn \in Nat

VARIABLES procs,       \* what runs under every number
          self,        \* the number of the helper
          scan,        \* the next number to look at
          target,      \* what get_nanoinit_pid() found, 0 for none
          signalled,   \* the number that was sent SIGUSR1, 0 for none
          churn,       \* processes that ended or started
          plain        \* one supervisor was the first nanoinit all the time

helperVars == <<procs, self, scan, target, signalled, churn, plain>>

Pids == 1..MaxPid
Kinds == {"none", "supervisor", "command", "other"}

(* The first word of these contains "nanoinit"; "self" is the helper. *)
Named == {"supervisor", "command", "self"}

(* p has the lowest number of all with such a command line. *)
IsFirst(ps, p) ==
    /\ p # self /\ ps[p] \in Named
    /\ \A q \in 1..p - 1 : q # self => ps[q] \notin Named

SupervisorFirst(ps) == \E s \in Pids : ps[s] = "supervisor" /\ IsFirst(ps, s)

(* All process tables with the helper and at most one supervisor. *)
Tables == {ps \in [Pids -> Kinds \cup {"self"}] :
             /\ Cardinality({p \in Pids : ps[p] = "self"}) = 1
             /\ Cardinality({p \in Pids : ps[p] = "supervisor"}) <= 1}

HelperInit(tables) ==
    /\ procs \in tables
    /\ self \in {p \in Pids : procs[p] = "self"}
    /\ scan = 1
    /\ target = 0
    /\ signalled = 0
    /\ churn = 0
    /\ plain = SupervisorFirst(procs)

(* Mutant: the helper takes itself for a nanoinit to reload. *)
LookAnywhere ==
    /\ scan \in Pids
    /\ IF procs[scan] \in Named
         THEN target' = scan /\ scan' = MaxPid + 1
         ELSE target' = target /\ scan' = scan + 1
    /\ UNCHANGED <<procs, self, signalled, churn, plain>>

(* get_nanoinit_pid(), one entry of /proc *)
Look ==
    /\ scan \in Pids
    /\ IF scan # self /\ procs[scan] \in Named
         THEN target' = scan /\ scan' = MaxPid + 1
         ELSE target' = target /\ scan' = scan + 1
    /\ UNCHANGED <<procs, self, signalled, churn, plain>>

Scanned == scan = MaxPid + 1

(* kill() succeeds on whatever has the number now. *)
KillSucceeds == Scanned /\ target # 0 /\ procs[target] # "none"

SendSigusr1 ==
    /\ KillSucceeds
    /\ signalled' = target
    /\ UNCHANGED <<procs, self, scan, target, churn, plain>>

(* A process ends, or a number is given to a new one. *)
Churn(p, kind) ==
    /\ churn < MaxChurn
    /\ p # self
    /\ IF kind = "none" THEN procs[p] # "none" ELSE procs[p] = "none"
    /\ procs' = [procs EXCEPT ![p] = kind]
    /\ churn' = churn + 1
    /\ plain' = (plain /\ \E s \in Pids : IsFirst(procs, s) /\ IsFirst(procs', s))
    /\ UNCHANGED <<self, scan, target, signalled>>

HelperTypeOK ==
    /\ procs \in [Pids -> Kinds \cup {"self"}]
    /\ scan \in 1..MaxPid + 1
    /\ target \in 0..MaxPid
    /\ signalled \in {0, target}
=============================================================================
