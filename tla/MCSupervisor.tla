---------------------------- MODULE MCSupervisor ----------------------------
(* Small instances of Supervisor for TLC. *)
EXTENDS Supervisor, TLC

CONSTANTS p1, p2, p3

TwoPids == {p1, p2}
ThreePids == {p1, p2, p3}
PidSymmetry == Permutations(Pids)

Web(start, restart) == [name |-> "web", autostart |-> start,
                        autorestart |-> restart, captured |-> {"stdout"}]
Job(start, restart) == [name |-> "job", autostart |-> start,
                        autorestart |-> restart, captured |-> {}]

OneApp == {[i \in 1..1 |-> Web(TRUE, TRUE)]}
TwoApps == {[i \in 1..2 |-> IF i = 1 THEN Web(TRUE, TRUE) ELSE Job(TRUE, FALSE)]}
(* Two different configurations and the zero configuration, for reloads. *)
ReloadConfigs == TwoApps \cup {[i \in 1..1 |-> Job(FALSE, TRUE)], [i \in {} |-> 0]}

AllRequests == [cmd : Commands, name : Names]
StartStop == [cmd : {"START", "STOP"}, name : Names]
NoRequests == {}

OneStream == {"stdout"}
AllFaults == FaultKinds

(* Without the START that is the subject of the run supervisor_start_race. *)
LiveSpec == Init /\ [][Next /\ NoLateStart]_vars /\ Fairness
=============================================================================
