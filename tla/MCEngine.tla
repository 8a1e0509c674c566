------------------------------ MODULE MCEngine ------------------------------
\* Parts of an engine that share no state: the connection, the settlement queue
\* in Redis and the slot of the decision cycles.  A behaviour is one of a
\* single part.
EXTENDS MarketStream, RedisQueue, CycleSlot

VARIABLE part

engineVars == <<vars, queueVars, slotVars, part>>

EngineInit ==
  /\ Init /\ QueueInit /\ SlotInit
  /\ part \in {"stream", "queue", "slot"}
  /\ part # "slot" => pullback /\ window

EngineNext ==
  /\ \/ part = "stream" /\ Next /\ UNCHANGED <<queueVars, slotVars>>
     \/ part = "queue" /\ QueueNext /\ UNCHANGED <<vars, slotVars>>
     \/ part = "slot" /\ SlotNext /\ UNCHANGED <<vars, queueVars>>
  /\ UNCHANGED part

EngineSpec == EngineInit /\ [][EngineNext]_engineVars

StreamReconnects == part = "stream" /\ MainLoopConnects => KeepsReconnecting
QueueSettles     == part = "queue" /\ QueueFairness => SettlementsAreBooked
SlotDecides      == part = "slot" /\ SlotFairness => KeepsDeciding
=============================================================================
