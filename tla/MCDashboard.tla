----------------------------- MODULE MCDashboard -----------------------------
(* Instances of Dashboard for TLC: a few parts at a time, each part in one.   *)
(* Where changes can be asked for, two clicks make up to four calls overlap.  *)
EXTENDS Dashboard

MCSetups == {{"agents"}, {"cron"}, {"models"}, {"packages", "processes"},
             {"containers", "processes"}, {"vitals"}, {"stats"}, {"access"}}
MCBudget == [parts \in MCSetups |-> IF parts \subseteq {"cron", "models"} THEN 2 ELSE 3]
=============================================================================
