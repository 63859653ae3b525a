---------------------------- MODULE MCDeployWait ----------------------------
(* The scripts of two jobs only read, so one is enough: its deployment has *)
(* an older one and up to two newer ones, which push it out of the list.   *)
EXTENDS DeployWait

MCJobs == {2}
=============================================================================
