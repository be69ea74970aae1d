------------------------------ MODULE MCFleet ------------------------------
(***************************************************************************)
(* Small fleets: a worker runs model sessions and adopts ssh, web serves   *)
(* its tool and adopts ssh too, ops both runs sessions and serves a tool.  *)
(***************************************************************************)
EXTENDS Fleet, TLC

CONSTANTS worker, web, ops, everyone

MCToolName == [n \in Routes |-> IF n \in {"worker-ssh", "web-ssh"} THEN "ssh" ELSE n]
MCScopeOf == [n \in Routes |-> CASE n = "worker-ssh" -> worker
                                 [] n = "web-ssh" -> web
                                 [] OTHER -> everyone]
MCOwnRoute == [a \in Owns |-> IF a = web THEN "web" ELSE "ops"]
MCSshRoute == [a \in Adopts |-> IF a = worker THEN "worker-ssh" ELSE "web-ssh"]
=============================================================================
