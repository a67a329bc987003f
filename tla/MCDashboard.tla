------------------------------ MODULE MCDashboard ------------------------------
(* One dashboard and one control address.  See README for the bounds. *)
EXTENDS Dashboard

CONSTANTS s1, s2
================================================================================
