------------------------------ MODULE MCHostJobs ------------------------------
(* A small instance of HostJobs for TLC. *)
EXTENDS HostTransfers
===============================================================================
