------------------------------- MODULE MCClients -------------------------------
(***************************************************************************)
(* The instances TLC checks of the two ends a packet of a client passes: the  *)
(* socket of two clients, which are not a symmetry set since Nothing chooses   *)
(* one of them, and the choice of its server among three servers on two        *)
(* levels, whose reloads lengthen, shorten and empty the list while the round  *)
(* robin number stands.  Each behaviour moves one of the two.                  *)
(***************************************************************************)
EXTENDS ClientIO, Routing, TLC

VARIABLE part  \* what moves

AllInit ==
  /\ part \in {"client", "routing"} /\ Init /\ RoutingInit
  /\ part = "client" => svidlist = <<>> /\ cmdlist = {}
AllNext ==
  \/ part = "client" /\ Next /\ UNCHANGED <<part, routingVars>>
  \/ part = "routing" /\ RoutingNext /\ UNCHANGED <<part, vars>>
AllSpec == AllInit /\ [][AllNext]_<<part, vars, routingVars>>

Symmetry == Permutations(Svid) \cup Permutations(Level)
=============================================================================
