--------------------------- MODULE MCSchedulingState ---------------------------
(* Two sorts of table, each with at most a few rows, ids going on while rows  *)
(* come and go: strategic opening work and execution orders below it, mixed   *)
(* freely and in batches; and economy orders that hold slots, are deferred,   *)
(* attempted and ranked anew.                                                 *)
EXTENDS SchedulingState

Make(layer, state, task, actor, slot) ==
    [layer |-> layer, state |-> state, task |-> task, goal |-> 1,
     detail |-> "d1", actor |-> actor, rank |-> 1, slot |-> slot]

Economy == Make("EconomyAndProduction", "Queued", 0, "noActor", "s1")

MCTemplates ==
    {Make("StrategicDirector", "Queued", 1, "noActor", "noSlot"),
     Make("UnitExecution", "Ready", 1, "a1", "noSlot"),
     Economy}

(* Strategic opening work with its execution orders; a batch is within        *)
(* another only while at most two rows have been created.                     *)
Strategic ==
    /\ \A i \in DOMAIN orders :
          /\ orders[i].layer # "EconomyAndProduction" /\ orders[i].state \notin {"Dispatched", "Expired"}
          /\ orders[i].rank = 1 /\ orders[i].slot = NoSlot /\ orders[i].reason = NoReason /\ orders[i].attempts = 0
    /\ batchDepth = 2 => nextOrderId <= 3

(* Economy orders with slots, reasons, attempts and ranks.                    *)
Holding ==
    /\ \A i \in DOMAIN orders :
          /\ orders[i].layer = "EconomyAndProduction" /\ orders[i].parent = 0
          /\ orders[i].state \notin {"Completed", "Aborted"}
    /\ nextOrderId <= 3 /\ batchDepth = 0 /\ planOrder = [step \in {} |-> 0]
    /\ \A i \in DOMAIN derived : derived[i].layer = "EconomyAndProduction"

Apart == Strategic \/ Holding

(* The table's steps as long as it is of one sort.                            *)
MCSpec == Init /\ [][Next /\ Apart']_vars
=============================================================================
