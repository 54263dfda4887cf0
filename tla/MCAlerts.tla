------------------------------ MODULE MCAlerts ------------------------------
(* Alerts with its constants given by the configurations. *)
EXTENDS Alerts

\* vnStat is missing together with the boot identity, or with the counters.
Losses == {{}, {"boot_id", "vnstat"}, {"netdev", "vnstat"}}
=============================================================================
