----------------------------- MODULE MCCraftEdge -----------------------------
(* TLC instances of CraftEdge. *)
EXTENDS CraftReport, TLC

Symmetry == Permutations(Node)

(* An overloaded node with lossy network, and a busy one.                  *)
MCDemand ==
  { [cpu |-> 9000, mem |-> 8500, net |-> 9000, lat |-> 9000, loss |-> 1200],
    [cpu |-> 4500, mem |-> 5000, net |-> 4000, lat |-> 4000, loss |-> 50] }

(* Exploring, with a decay per second update and with one per episode; and *)
(* greedy, in a mode that only initialize lets through.                    *)
MCSetting ==
  { [epsilon |-> 150, min |-> 20, decay |-> 900, interval |-> 2,
     mode |-> "interval"],
    [epsilon |-> 200, min |-> 50, decay |-> 850, interval |-> 1,
     mode |-> "episode"],
    [epsilon |-> 0, min |-> 0, decay |-> 995, interval |-> 1,
     mode |-> "other"] }

===============================================================================
