------------------------------- MODULE MCCommands -------------------------------
(* A GUI database with an active subscription, a local profile, the same       *)
(* subscription again, and a row of an unknown type; ids for two remote        *)
(* profiles and one local one.                                                 *)
EXTENDS Commands
CONSTANTS r1, r2, l1, u1
MCIds == {r1, r2, l1}
MCRemote == {r1, r2}
MCRows == << [kind |-> "remote", url |-> u1,    active |-> TRUE],
             [kind |-> "local",  url |-> NoUrl, active |-> FALSE],
             [kind |-> "remote", url |-> u1,    active |-> FALSE],
             [kind |-> "other",  url |-> NoUrl, active |-> FALSE] >>
================================================================================
