---------------------------- MODULE RecoveryClaim ----------------------------
(***************************************************************************)
(* The reservation of the loss to recover.  An order that wants to recover *)
(* the pending loss of the account reserves it first, in its engine and in *)
(* Redis, so that no two orders of the account stake for the same loss;    *)
(* the reservation passes from the order to the contract it bought and is  *)
(* released when the contract settles.  Both copies expire.                *)
(*                                                                         *)
(* An action is the code between two awaits.  Time is counted in fractions *)
(* of the 900 s after which the key in Redis expires.                      *)
(***************************************************************************)
EXTENDS Naturals, FiniteSets

CONSTANTS
  Engines,       \* engines of the account
  Orders,        \* the orders considered: <<engine, number>>
  Hold,          \* the 900 s of the key in Redis, in ticks
  NoOrder,       \* no value of the key, no holder of the lock
  MaxEngineRestarts

ASSUME OrdersAssumption == Orders \subseteq Engines \X Nat
ASSUME HoldAssumption == Hold \in Nat \ {0}
ASSUME NoOrderAssumption == NoOrder \notin Orders

VARIABLES
  orderStep,      \* where the code of each order is
  contractStep,   \* the contract it bought: none, open, releasing, erasing, settled
  localLeft,      \* _pullback_recovery_claims: time left of the order's claim, 0 if none
  bound,          \* its claim is under the contract's id, no longer under the token
  claimLock,      \* who holds the engine's _pullback_recovery_lock
  redisKey,       \* whose token the account's key in Redis holds
  keyLeft,        \* the time the key has left
  sinceSet,       \* history: time since an order's SET, Hold at most and without one
  settledUnbound, \* history: orders whose contract settled before the bind
  engineRestarts

orderVars == <<orderStep, contractStep>>
localVarsOfClaim == <<localLeft, bound, claimLock>>
keyVars == <<redisKey, keyLeft, sinceSet>>
claimVars == <<orderVars, localVarsOfClaim, keyVars, settledUnbound, engineRestarts>>

Engine(o) == o[1]
Claims(e) == {o \in Orders : Engine(o) = e /\ localLeft[o] > 0}
OpenContracts(e) ==
  {o \in Orders : Engine(o) = e /\ contractStep[o] = "open"}

ClaimTypeOK ==
  /\ orderStep \in [Orders -> {"new", "locking", "setting", "answering", "buying",
                               "binding", "releasing", "erasing", "done"}]
  /\ contractStep \in [Orders -> {"none", "open", "releasing", "erasing", "settled"}]
  /\ localLeft \in [Orders -> 0 .. 2 * Hold]
  /\ bound \in [Orders -> BOOLEAN]
  /\ claimLock \in [Engines -> Orders \union {NoOrder}]
  /\ redisKey \in Orders \union {NoOrder}
  /\ keyLeft \in 0 .. Hold
  /\ sinceSet \in [Orders -> 0 .. Hold]
  /\ settledUnbound \subseteq Orders
  /\ engineRestarts \in Nat

ClaimInit ==
  /\ orderStep = [o \in Orders |-> "new"]
  /\ contractStep = [o \in Orders |-> "none"]
  /\ localLeft = [o \in Orders |-> 0]
  /\ bound = [o \in Orders |-> FALSE]
  /\ claimLock = [e \in Engines |-> NoOrder]
  /\ redisKey = NoOrder /\ keyLeft = 0
  /\ sinceSet = [o \in Orders |-> Hold]
  /\ settledUnbound = {}
  /\ engineRestarts = 0

-----------------------------------------------------------------------------
(* Reserving *)

OrderTo(o, step) == orderStep' = [orderStep EXCEPT ![o] = step]

HoldLock(o) ==
  /\ claimLock[Engine(o)] = NoOrder
  /\ claimLock' = [claimLock EXCEPT ![Engine(o)] = o]

FreeLock(o) == claimLock' = [claimLock EXCEPT ![Engine(o)] = NoOrder]

\* A loss not yet reserved is left: never while contracts are open of which
\* none has a claim, whose share of the loss is not known.
LossIsLeft(e) == OpenContracts(e) = {} \/ Claims(e) # {}

WantShare(o) ==
  /\ orderStep[o] = "new"
  /\ LossIsLeft(Engine(o))
  /\ OrderTo(o, "locking")
  /\ UNCHANGED <<contractStep, localVarsOfClaim, keyVars, settledUnbound, engineRestarts>>

\* An order with the base stake only.
WantNoShare(o) ==
  /\ orderStep[o] = "new"
  /\ OrderTo(o, "buying")
  /\ UNCHANGED <<contractStep, localVarsOfClaim, keyVars, settledUnbound, engineRestarts>>

\* Bug: the lock is not taken.
AskShareUnlocked(o) ==
  /\ orderStep[o] = "locking"
  /\ Claims(Engine(o)) = {}
  /\ OrderTo(o, "setting")
  /\ UNCHANGED <<contractStep, localVarsOfClaim, keyVars, settledUnbound, engineRestarts>>

\* With the lock and no claim in the engine, SET is sent.
AskShare(o) ==
  /\ orderStep[o] = "locking"
  /\ HoldLock(o)
  /\ Claims(Engine(o)) = {}
  /\ OrderTo(o, "setting")
  /\ UNCHANGED <<contractStep, localLeft, bound, keyVars, settledUnbound, engineRestarts>>

RefusedLocally(o) ==
  /\ orderStep[o] = "locking"
  /\ claimLock[Engine(o)] = NoOrder
  /\ Claims(Engine(o)) # {}
  /\ OrderTo(o, "buying")
  /\ UNCHANGED <<contractStep, localVarsOfClaim, keyVars, settledUnbound, engineRestarts>>

\* SET NX EX at Redis.
SetKey(o) ==
  /\ orderStep[o] = "setting"
  /\ redisKey = NoOrder
  /\ redisKey' = o /\ keyLeft' = Hold
  /\ sinceSet' = [sinceSet EXCEPT ![o] = 0]
  /\ OrderTo(o, "answering")
  /\ UNCHANGED <<contractStep, localVarsOfClaim, settledUnbound, engineRestarts>>

\* The key was taken, Redis failed, or only its answer was lost: then the key
\* stays without a claim until it expires.
NoShare(o) ==
  /\ orderStep[o] \in {"setting", "answering"}
  /\ FreeLock(o)
  /\ OrderTo(o, "buying")
  /\ UNCHANGED <<contractStep, localLeft, bound, keyVars, settledUnbound, engineRestarts>>

TakeShare(o) ==
  /\ orderStep[o] = "answering"
  /\ localLeft' = [localLeft EXCEPT ![o] = Hold]
  /\ FreeLock(o)
  /\ OrderTo(o, "buying")
  /\ UNCHANGED <<contractStep, bound, keyVars, settledUnbound, engineRestarts>>

-----------------------------------------------------------------------------
(* Buying *)

BuyContract(o) ==
  /\ orderStep[o] = "buying"
  /\ contractStep' = [contractStep EXCEPT ![o] = "open"]
  /\ OrderTo(o, "binding")
  /\ UNCHANGED <<localVarsOfClaim, keyVars, settledUnbound, engineRestarts>>

\* Nothing was bought, and the code knows it.
BuyNothing(o) ==
  /\ orderStep[o] = "buying"
  /\ OrderTo(o, "releasing")
  /\ UNCHANGED <<contractStep, localVarsOfClaim, keyVars, settledUnbound, engineRestarts>>

\* The acknowledgement was lost: the claim is left to expire.
BuyUnknown(o) ==
  /\ orderStep[o] = "buying"
  /\ OrderTo(o, "done")
  /\ UNCHANGED <<contractStep, localVarsOfClaim, keyVars, settledUnbound, engineRestarts>>

\* The claim moves from the token to the contract, without the lock.
Bind(o) ==
  /\ orderStep[o] = "binding"
  /\ IF localLeft[o] > 0
     THEN /\ bound' = [bound EXCEPT ![o] = TRUE]
          /\ localLeft' = [localLeft EXCEPT ![o] = @ + Hold]
     ELSE UNCHANGED <<bound, localLeft>>
  /\ OrderTo(o, "releasing")
  /\ UNCHANGED <<contractStep, claimLock, keyVars, settledUnbound, engineRestarts>>

-----------------------------------------------------------------------------
(* Releasing *)

\* In the order's finally clause: the claim that is still under the token.
ReleaseOrder(o) ==
  /\ orderStep[o] = "releasing"
  /\ claimLock[Engine(o)] = NoOrder
  /\ IF localLeft[o] > 0 /\ ~bound[o]
     THEN /\ localLeft' = [localLeft EXCEPT ![o] = 0]
          /\ HoldLock(o)
          /\ OrderTo(o, "erasing")
     ELSE OrderTo(o, "done") /\ UNCHANGED <<localLeft, claimLock>>
  /\ UNCHANGED <<contractStep, bound, keyVars, settledUnbound, engineRestarts>>

\* The contract is settled and its settlement goes on to the release.
SettleContract(o) ==
  /\ contractStep[o] = "open"
  /\ contractStep' = [contractStep EXCEPT ![o] = "releasing"]
  /\ UNCHANGED <<orderStep, localVarsOfClaim, keyVars, settledUnbound, engineRestarts>>

\* Bug: the settlement looks for the claim under the token.
ReleaseContractByToken(o) ==
  /\ contractStep[o] = "releasing"
  /\ claimLock[Engine(o)] = NoOrder
  /\ contractStep' = [contractStep EXCEPT ![o] = "settled"]
  /\ settledUnbound' = IF orderStep[o] = "binding" THEN settledUnbound \union {o}
                                                   ELSE settledUnbound
  /\ UNCHANGED <<orderStep, localVarsOfClaim, keyVars, engineRestarts>>

\* The claim under the contract's id.  One still under the token is not found.
ReleaseContract(o) ==
  /\ contractStep[o] = "releasing"
  /\ claimLock[Engine(o)] = NoOrder
  /\ IF localLeft[o] > 0 /\ bound[o]
     THEN /\ localLeft' = [localLeft EXCEPT ![o] = 0]
          /\ HoldLock(o)
          /\ contractStep' = [contractStep EXCEPT ![o] = "erasing"]
     ELSE /\ contractStep' = [contractStep EXCEPT ![o] = "settled"]
          /\ UNCHANGED <<localLeft, claimLock>>
  /\ settledUnbound' = IF orderStep[o] = "binding" THEN settledUnbound \union {o}
                                                   ELSE settledUnbound
  /\ UNCHANGED <<orderStep, bound, keyVars, engineRestarts>>

\* Bug: the key is deleted whosever it is.
EraseAnyKey(o) ==
  /\ redisKey' = NoOrder /\ keyLeft' = 0
  /\ UNCHANGED sinceSet

\* The script deletes the key only if it still holds the token, or Redis fails.
EraseKey(o) ==
  /\ redisKey' \in {redisKey, IF redisKey = o THEN NoOrder ELSE redisKey}
  /\ keyLeft' = IF redisKey' = NoOrder THEN 0 ELSE keyLeft
  /\ UNCHANGED sinceSet

EndRelease(o) ==
  /\ \/ /\ orderStep[o] = "erasing"
        /\ OrderTo(o, "done")
        /\ UNCHANGED contractStep
     \/ /\ contractStep[o] = "erasing"
        /\ contractStep' = [contractStep EXCEPT ![o] = "settled"]
        /\ UNCHANGED orderStep
  /\ EraseKey(o)
  /\ FreeLock(o)
  /\ UNCHANGED <<localLeft, bound, settledUnbound, engineRestarts>>

-----------------------------------------------------------------------------
(* Time and crashes *)

Tick ==
  /\ localLeft' = [o \in Orders |-> IF localLeft[o] > 0 THEN localLeft[o] - 1 ELSE 0]
  /\ sinceSet' = [o \in Orders |-> IF sinceSet[o] < Hold THEN sinceSet[o] + 1 ELSE Hold]
  /\ keyLeft' = IF keyLeft > 0 THEN keyLeft - 1 ELSE 0
  /\ redisKey' = IF keyLeft' = 0 THEN NoOrder ELSE redisKey
  /\ UNCHANGED <<orderVars, bound, claimLock, settledUnbound, engineRestarts>>

\* The engine forgets its claims and its open contracts.
RestartEngine(e) ==
  /\ engineRestarts < MaxEngineRestarts
  /\ engineRestarts' = engineRestarts + 1
  /\ orderStep' = [o \in Orders |->
       IF Engine(o) = e /\ orderStep[o] # "new" THEN "done" ELSE orderStep[o]]
  /\ contractStep' = [o \in Orders |-> IF Engine(o) = e THEN "none" ELSE contractStep[o]]
  /\ localLeft' = [o \in Orders |-> IF Engine(o) = e THEN 0 ELSE localLeft[o]]
  /\ claimLock' = [claimLock EXCEPT ![e] = NoOrder]
  /\ UNCHANGED <<bound, keyVars, settledUnbound>>

ClaimStep(o) ==
  \/ WantShare(o) \/ WantNoShare(o)
  \/ AskShare(o) \/ RefusedLocally(o) \/ SetKey(o) \/ NoShare(o) \/ TakeShare(o)
  \/ BuyContract(o) \/ BuyNothing(o) \/ BuyUnknown(o) \/ Bind(o)
  \/ ReleaseOrder(o) \/ SettleContract(o) \/ ReleaseContract(o) \/ EndRelease(o)

ClaimNext ==
  \/ \E o \in Orders : ClaimStep(o)
  \/ \E e \in Engines : RestartEngine(e)
  \/ Tick

ClaimSpec == ClaimInit /\ [][ClaimNext]_claimVars

-----------------------------------------------------------------------------
(* Properties *)

\* No two claims of the account stand for the same loss: never two in one
\* engine, and two in different engines only when the older one's key expired
\* in Redis, 900 s after its SET, while its contract was still open.
ShareIsExclusive ==
  \A o, p \in Orders :
    o # p /\ localLeft[o] > 0 /\ localLeft[p] > 0 =>
      /\ Engine(o) # Engine(p)
      /\ sinceSet[o] = Hold \/ sinceSet[p] = Hold

\* The key of a claim leaves Redis by its own release or its expiry, and by
\* nothing another order does, whichever engine it belongs to.
ReleaseKeepsOthers ==
  [][redisKey' # redisKey /\ redisKey # NoOrder =>
       \/ keyLeft = 1 /\ Tick
       \/ orderStep[redisKey] = "erasing" \/ contractStep[redisKey] = "erasing"]_claimVars

\* A contract that settled leaves no claim behind, which would keep the next
\* order from recovering, unless it settled before the claim was its own.
SettledReleases ==
  \A o \in Orders \ settledUnbound :
    contractStep[o] \in {"erasing", "settled"} => localLeft[o] = 0
=============================================================================
