----------------------------- MODULE OrderClaims ----------------------------
(***************************************************************************)
(* How purchases of one symbol are kept to one per candle and account: the *)
(* engine's local reservation, the reservation and the symbol claim in     *)
(* Redis, the quarantine after a buy whose acknowledgement was lost, and   *)
(* the release of what was not bought.  Attempts of one engine overlap     *)
(* when a stuck cycle's slot is given away; several engines share Redis.   *)
(*                                                                         *)
(* Any call to Redis may fail, executed or not.                            *)
(*                                                                         *)
(* Every action is one stretch of code between two awaits.  Time is the    *)
(* candle whose entry window is open, the five seconds before it in which  *)
(* its signal is already accepted included: a reservation's 900 s and the  *)
(* symbol claim's candle plus 30 s end after that window.                  *)
(***************************************************************************)
EXTENDS Naturals, FiniteSets

CONSTANTS
  Instances,    \* engines of the same account
  Attempts,     \* passages of execute_cluster_orders, each made once
  InstanceOf,   \* the engine that makes each attempt
  None,
  MaxCandle,    \* candles considered
  MaxCrashes,   \* engine crashes considered
  AcksLost,     \* attempts whose buy may time out or lose its connection
  BuysAbandoned,\* attempts whose retry by parameters may, or whose cycle may be cancelled
  RedisDown     \* attempts whose calls to Redis may fail

ASSUME AttemptsAssumption ==
  /\ InstanceOf \in [Attempts -> Instances]
  /\ None \notin Attempts

ASSUME FaultsAssumption ==
  /\ AcksLost \subseteq Attempts /\ BuysAbandoned \subseteq Attempts
  /\ RedisDown \subseteq Attempts

ASSUME CandlesAssumption ==
  /\ MaxCandle \in Nat \ {0}
  /\ MaxCrashes \in Nat

Candles == 1 .. MaxCandle
Stages == {"new", "asking", "claiming", "claimingSymbol", "stealing", "ready",
           "buying", "quarantining", "undoing", "undoingSymbol", "releasing",
           "releasingSymbol", "done", "crashed"}

VARIABLES
  now,         \* the candle whose entry window is open
  orderClaim,  \* Redis order_claim of each candle: the attempt whose token it is
  symbolClaim, \* Redis order_symbol_claim
  unknown,     \* Redis unknown_purchase: the candle it was set in, or 0
  localClaims, \* _indicator_order_claims of each engine
  localUnknown,\* _unknown_purchase_until of each engine, as unknown
  open,        \* contracts each engine holds open, by their attempt
  stage,       \* where each attempt is
  epoch,       \* the candle of each attempt
  token,       \* the attempts with an order token in their metrics
  crashes,
  buys,        \* history: purchases the broker made in each candle
  bought,      \* history: attempts whose purchase was confirmed
  unacked,     \* history: candles with a buy whose acknowledgement was lost
  abandoned,   \* history: candles with a buy abandoned in flight
  stranded,    \* history: attempts that ended on a failed call to Redis
  unsaved,     \* history: attempts whose quarantine did not reach Redis
  forgotten    \* history: those of them whose engine restarted since

redisVars   == <<orderClaim, symbolClaim, unknown>>
localVars   == <<localClaims, localUnknown, open>>
attemptVars == <<stage, epoch, token>>
buyHistory  == <<buys, bought, unacked, abandoned>>
faultHistory == <<stranded, unsaved, forgotten>>
historyVars == <<buyHistory, faultHistory>>
vars == <<now, redisVars, localVars, attemptVars, crashes, historyVars>>

TypeOK ==
  /\ now \in Candles
  /\ orderClaim \in [Candles -> Attempts \union {None}]
  /\ symbolClaim \in Attempts \union {None}
  /\ unknown \in 0 .. MaxCandle
  /\ localClaims \in [Instances -> SUBSET Candles]
  /\ localUnknown \in [Instances -> 0 .. MaxCandle]
  /\ open \in [Instances -> SUBSET Attempts]
  /\ stage \in [Attempts -> Stages]
  /\ epoch \in [Attempts -> 0 .. MaxCandle]
  /\ \A a \in Attempts : stage[a] = "new" \/ epoch[a] \in Candles
  /\ token \subseteq Attempts
  /\ crashes \in 0 .. MaxCrashes
  /\ buys \in [Candles -> Nat]
  /\ bought \subseteq Attempts
  /\ unacked \subseteq Candles
  /\ abandoned \subseteq Candles
  /\ stranded \subseteq Attempts
  /\ forgotten \subseteq unsaved /\ unsaved \subseteq Attempts

Init ==
  /\ now = 1
  /\ orderClaim = [k \in Candles |-> None]
  /\ symbolClaim = None /\ unknown = 0
  /\ localClaims = [i \in Instances |-> {}]
  /\ localUnknown = [i \in Instances |-> 0]
  /\ open = [i \in Instances |-> {}]
  /\ stage = [a \in Attempts |-> "new"]
  /\ epoch = [a \in Attempts |-> 0]
  /\ token = {}
  /\ crashes = 0
  /\ buys = [k \in Candles |-> 0]
  /\ bought = {} /\ unacked = {} /\ abandoned = {}
  /\ stranded = {} /\ unsaved = {} /\ forgotten = {}

-----------------------------------------------------------------------------
(* Reserving *)

Goto(a, next) == stage' = [stage EXCEPT ![a] = next]

\* The finally clause of an attempt that reserved the candle's key locally.
ForgetLocally(a) ==
  localClaims' = [localClaims EXCEPT ![InstanceOf[a]] = @ \ {epoch[a]}]

\* An engine that lost an acknowledgement refuses without asking Redis, for
\* 900 s: the rest of that candle and a part of the next.
Begin(a) ==
  LET lost == localUnknown[InstanceOf[a]] IN
  /\ stage[a] = "new"
  /\ epoch' = [epoch EXCEPT ![a] = now]
  /\ \/ lost # 0 /\ Goto(a, "done")
     \/ lost # now /\ Goto(a, "asking")
  /\ UNCHANGED <<now, redisVars, localVars, token, crashes, historyVars>>

\* The answer to EXISTS, without which the attempt is refused, then the local
\* reservation.  An attempt that finds its key taken is refused, and its
\* finally clause discards the key.
Ask(a) ==
  LET i == InstanceOf[a] IN
  /\ stage[a] = "asking"
  /\ \/ /\ unknown # 0 \/ a \in RedisDown
        /\ Goto(a, "done")
        /\ UNCHANGED localClaims
     \/ /\ unknown = 0
        /\ epoch[a] \in localClaims[i]
        /\ ForgetLocally(a)
        /\ Goto(a, "done")
     \/ /\ unknown = 0
        /\ epoch[a] \notin localClaims[i]
        /\ localClaims' = [localClaims EXCEPT
             ![i] = {k \in @ : k >= epoch[a]} \union {epoch[a]}]
        /\ Goto(a, "claiming")
  /\ UNCHANGED <<now, redisVars, localUnknown, open, epoch, token, crashes,
                 historyVars>>

\* Bug: the reservation overwrites the one it finds (no NX).
ClaimOverwriting(a) ==
  /\ stage[a] = "claiming"
  /\ orderClaim' = [orderClaim EXCEPT ![epoch[a]] = a]
  /\ token' = token \union {a}
  /\ Goto(a, "claimingSymbol")
  /\ UNCHANGED <<now, symbolClaim, unknown, localVars, epoch, crashes,
                 historyVars>>

\* SET NX of the candle's key, with a token of this attempt.
Claim(a) ==
  /\ stage[a] = "claiming"
  /\ IF orderClaim[epoch[a]] = None
     THEN /\ orderClaim' = [orderClaim EXCEPT ![epoch[a]] = a]
          /\ token' = token \union {a}
          /\ Goto(a, "claimingSymbol")
          /\ UNCHANGED localClaims
     ELSE /\ ForgetLocally(a)
          /\ Goto(a, "done")
          /\ UNCHANGED <<orderClaim, token>>
  /\ UNCHANGED <<now, symbolClaim, unknown, localUnknown, open, epoch, crashes,
                 historyVars>>

\* Whether it was executed or not, a SET without an answer gives no token.
ClaimFails(a) ==
  /\ a \in RedisDown /\ stage[a] = "claiming"
  /\ \/ UNCHANGED orderClaim
     \/ /\ orderClaim[epoch[a]] = None
        /\ orderClaim' = [orderClaim EXCEPT ![epoch[a]] = a]
  /\ ForgetLocally(a)
  /\ Goto(a, "done")
  /\ stranded' = stranded \union {a}
  /\ UNCHANGED <<now, symbolClaim, unknown, localUnknown, open, epoch, token,
                 crashes, buyHistory, unsaved, forgotten>>

\* SET NX of the symbol's key; a claim without an open contract of this
\* engine is taken for stale.
ClaimSymbol(a) ==
  /\ stage[a] = "claimingSymbol"
  /\ \/ /\ symbolClaim = None
        /\ symbolClaim' = a
        /\ Goto(a, "ready")
     \/ /\ symbolClaim # None
        /\ open[InstanceOf[a]] = {}
        /\ Goto(a, "stealing")
        /\ UNCHANGED symbolClaim
     \/ /\ symbolClaim # None
        /\ open[InstanceOf[a]] # {}
        /\ Goto(a, "undoing")
        /\ UNCHANGED symbolClaim
  /\ UNCHANGED <<now, orderClaim, unknown, localVars, epoch, token, crashes,
                 historyVars>>

Steal(a) ==
  /\ stage[a] = "stealing"
  /\ symbolClaim' = a
  /\ Goto(a, "ready")
  /\ UNCHANGED <<now, orderClaim, unknown, localVars, epoch, token, crashes,
                 historyVars>>

\* The reservation made before is given back.
SymbolFails(a) ==
  /\ a \in RedisDown /\ stage[a] \in {"claimingSymbol", "stealing"}
  /\ \/ UNCHANGED symbolClaim
     \/ /\ stage[a] = "stealing" \/ symbolClaim = None
        /\ symbolClaim' = a
  /\ Goto(a, "undoing")
  /\ UNCHANGED <<now, orderClaim, unknown, localVars, epoch, token, crashes,
                 historyVars>>

-----------------------------------------------------------------------------
(* Buying *)

\* The signal is checked once more before the order is placed.
Place(a) ==
  /\ stage[a] = "ready"
  /\ Goto(a, IF epoch[a] = now THEN "buying" ELSE "undoing")
  /\ UNCHANGED <<now, redisVars, localVars, epoch, token, crashes, historyVars>>

\* Bug: a refused order keeps its reservations.
RejectKeepingClaims(a) ==
  /\ stage[a] = "buying"
  /\ Goto(a, "done")
  /\ UNCHANGED <<now, redisVars, localVars, epoch, token, crashes, historyVars>>

\* No proposal, a guard on its price or a signal past its window return no
\* contract; a refusal of the broker raises.
Reject(a) ==
  /\ stage[a] = "buying"
  /\ \E next \in {"undoing", "releasing"} : Goto(a, next)
  /\ UNCHANGED <<now, redisVars, localVars, epoch, token, crashes, historyVars>>

\* The buy is sent within the candle's entry window only.
Bought(a) ==
  /\ stage[a] = "buying"
  /\ epoch[a] = now
  /\ buys' = [buys EXCEPT ![now] = @ + 1]
  /\ bought' = bought \union {a}
  /\ open' = [open EXCEPT ![InstanceOf[a]] = @ \union {a}]
  /\ Goto(a, "done")
  /\ UNCHANGED <<now, redisVars, localClaims, localUnknown, epoch, token,
                 crashes, unacked, abandoned, faultHistory>>

\* The outcome of the buy is unknown: the broker may have sold the contract.
OutcomeUnknown(a) ==
  /\ stage[a] = "buying"
  /\ epoch[a] = now
  /\ buys' \in {buys, [buys EXCEPT ![now] = @ + 1]}
  /\ UNCHANGED bought

LoseAck(a) ==
  /\ a \in AcksLost
  /\ OutcomeUnknown(a)
  /\ unacked' = unacked \union {now}
  /\ localUnknown' = [localUnknown EXCEPT ![InstanceOf[a]] = now]
  /\ Goto(a, "quarantining")
  /\ UNCHANGED <<now, redisVars, localClaims, open, epoch, token, crashes,
                 abandoned, faultHistory>>

\* Bug: the quarantine lives in the engine's memory only.
QuarantineLocally(a) ==
  /\ stage[a] = "quarantining"
  /\ Goto(a, "releasing")
  /\ UNCHANGED <<now, redisVars, localVars, epoch, token, crashes, historyVars>>

Quarantine(a) ==
  /\ stage[a] = "quarantining"
  /\ unknown' = now
  /\ Goto(a, "releasing")
  /\ UNCHANGED <<now, orderClaim, symbolClaim, localVars, epoch, token,
                 crashes, historyVars>>

\* What Redis raises is only logged: the local mark stands alone, and the
\* finally clause gives the reservation back all the same.
QuarantineFails(a) ==
  /\ a \in RedisDown /\ stage[a] = "quarantining"
  /\ \/ unknown' = now /\ UNCHANGED unsaved
     \/ unsaved' = unsaved \union {a} /\ UNCHANGED unknown
  /\ Goto(a, "releasing")
  /\ UNCHANGED <<now, orderClaim, symbolClaim, localVars, epoch, token,
                 crashes, buyHistory, stranded, forgotten>>

\* The buy by parameters after an unknown proposal is not wrapped, a cancelled
\* cycle raises what no clause of the attempt names, and an error after the
\* purchase is taken for one before it.
AbandonBuy(a) ==
  /\ a \in BuysAbandoned
  /\ OutcomeUnknown(a)
  /\ abandoned' = abandoned \union {now}
  /\ Goto(a, "releasing")
  /\ UNCHANGED <<now, redisVars, localVars, epoch, token, crashes, unacked,
                 faultHistory>>

-----------------------------------------------------------------------------
(* Releasing *)

\* A branch that gives up undoes its reservations, and the finally clause
\* releases them again; another attempt may have reserved in between.
AfterOrderKey(s)  == IF s = "undoing" THEN "undoingSymbol" ELSE "releasingSymbol"
AfterSymbolKey(s) == IF s = "undoingSymbol" THEN "releasing" ELSE "done"

\* Bug: the release does not compare tokens.
ReleaseAnyOwner(a) ==
  /\ stage[a] \in {"undoing", "releasing"}
  /\ orderClaim' = [orderClaim EXCEPT ![epoch[a]] = None]
  /\ Goto(a, AfterOrderKey(stage[a]))
  /\ UNCHANGED <<now, symbolClaim, unknown, localVars, epoch, token, crashes,
                 historyVars>>

\* Each key is deleted only while it holds this attempt's token.
WithoutOrderKey(a) == IF orderClaim[epoch[a]] = a
                      THEN [orderClaim EXCEPT ![epoch[a]] = None]
                      ELSE orderClaim
WithoutSymbolKey(a) == IF symbolClaim = a THEN None ELSE symbolClaim

Release(a) ==
  /\ stage[a] \in {"undoing", "releasing"}
  /\ orderClaim' = WithoutOrderKey(a)
  /\ Goto(a, AfterOrderKey(stage[a]))
  /\ UNCHANGED <<now, symbolClaim, unknown, localVars, epoch, token, crashes,
                 historyVars>>

ReleaseSymbol(a) ==
  /\ stage[a] \in {"undoingSymbol", "releasingSymbol"}
  /\ symbolClaim' = WithoutSymbolKey(a)
  /\ ForgetLocally(a)
  /\ Goto(a, AfterSymbolKey(stage[a]))
  /\ UNCHANGED <<now, orderClaim, unknown, localUnknown, open, epoch, token,
                 crashes, historyVars>>

\* An error of Redis ends the release, with what was not deleted and the local
\* reservation left; after the one of a branch the finally clause tries again.
ReleaseFails(a) ==
  /\ a \in RedisDown
  /\ \/ /\ stage[a] \in {"undoing", "releasing"}
        /\ orderClaim' \in {orderClaim, WithoutOrderKey(a)}
        /\ UNCHANGED symbolClaim
     \/ /\ stage[a] \in {"undoingSymbol", "releasingSymbol"}
        /\ symbolClaim' \in {symbolClaim, WithoutSymbolKey(a)}
        /\ UNCHANGED orderClaim
  /\ IF stage[a] \in {"undoing", "undoingSymbol"}
     THEN Goto(a, "releasing") /\ UNCHANGED stranded
     ELSE Goto(a, "done") /\ stranded' = stranded \union {a}
  /\ UNCHANGED <<now, unknown, localVars, epoch, token, crashes, buyHistory,
                 unsaved, forgotten>>

\* A settled contract frees the symbol, whoever claims it by then.
Settle(a) ==
  LET i == InstanceOf[a] IN
  /\ a \in open[i]
  /\ open' = [open EXCEPT ![i] = @ \ {a}]
  /\ \/ symbolClaim' = None
     \/ a \in RedisDown /\ UNCHANGED symbolClaim
  /\ UNCHANGED <<now, orderClaim, unknown, localClaims, localUnknown,
                 attemptVars, crashes, historyVars>>

-----------------------------------------------------------------------------
(* Time and crashes *)

NextCandle ==
  /\ now < MaxCandle
  /\ now' = now + 1
  /\ UNCHANGED <<redisVars, localVars, attemptVars, crashes, historyVars>>

ExpireOrderClaim(k) ==
  /\ now > k
  /\ orderClaim[k] # None
  /\ orderClaim' = [orderClaim EXCEPT ![k] = None]
  /\ UNCHANGED <<now, symbolClaim, unknown, localVars, attemptVars, crashes,
                 historyVars>>

ExpireSymbolClaim ==
  /\ symbolClaim # None
  /\ now > epoch[symbolClaim]
  /\ symbolClaim' = None
  /\ UNCHANGED <<now, orderClaim, unknown, localVars, attemptVars, crashes,
                 historyVars>>

ExpireUnknown ==
  /\ unknown # 0 /\ now > unknown
  /\ unknown' = 0
  /\ UNCHANGED <<now, orderClaim, symbolClaim, localVars, attemptVars, crashes,
                 historyVars>>

\* An engine restarts with empty memory: its attempts vanish where they are,
\* a purchase in flight with them, and its open contracts are not restored.
Crash(i) ==
  LET running == {a \in Attempts : InstanceOf[a] = i
                                   /\ stage[a] \notin {"new", "done"}}
      buying  == {a \in running : stage[a] = "buying" /\ epoch[a] = now}
  IN
  /\ crashes < MaxCrashes
  /\ crashes' = crashes + 1
  /\ localClaims' = [localClaims EXCEPT ![i] = {}]
  /\ localUnknown' = [localUnknown EXCEPT ![i] = 0]
  /\ open' = [open EXCEPT ![i] = {}]
  /\ stage' = [a \in Attempts |-> IF a \in running THEN "crashed" ELSE stage[a]]
  /\ IF buying = {}
     THEN UNCHANGED <<buys, unacked>>
     ELSE /\ buys' \in {buys, [buys EXCEPT ![now] = @ + 1]}
          /\ unacked' = unacked \union {now}
  /\ forgotten' = forgotten \union {a \in unsaved : InstanceOf[a] = i}
  /\ UNCHANGED <<now, redisVars, epoch, token, bought, abandoned,
                 stranded, unsaved>>

Next ==
  \/ \E a \in Attempts :
       \/ Begin(a) \/ Ask(a) \/ Claim(a) \/ ClaimSymbol(a) \/ Steal(a)
       \/ Place(a) \/ Reject(a) \/ Bought(a)
       \/ LoseAck(a) \/ Quarantine(a) \/ AbandonBuy(a)
       \/ Release(a) \/ ReleaseSymbol(a) \/ Settle(a)
       \/ ClaimFails(a) \/ SymbolFails(a) \/ QuarantineFails(a) \/ ReleaseFails(a)
  \/ NextCandle \/ ExpireSymbolClaim \/ ExpireUnknown
  \/ \E k \in Candles : ExpireOrderClaim(k)
  \/ \E i \in Instances : Crash(i)

Spec == Init /\ [][Next]_vars

-----------------------------------------------------------------------------
(* Properties *)

\* Candles with a buy that may have been executed unnoticed.
Ambiguous == unacked \union abandoned

\* Attempts that must still own their candle's reservation: those between the
\* claim and the first release, and those whose purchase was confirmed.
Holders == {a \in Attempts :
              \/ stage[a] \in {"claimingSymbol", "stealing", "ready", "buying",
                               "quarantining", "undoing"}
              \/ a \in bought}

\* While its candle lasts, a reservation stays with the attempt that made it,
\* through the releases of other attempts, crashes of engines and settlements;
\* a confirmed purchase keeps it (claim_indicator_order_once and
\* release_unbought_order_claim).
ReservationSurvives ==
  \A a \in Holders : epoch[a] = now => orderClaim[now] = a

\* However attempts of one or several engines overlap, an account buys a
\* symbol at most once per candle, unless a buy of unknown outcome is among
\* the purchases (execute_cluster_orders).
OneBuyPerCandle == \A k \in Candles \ Ambiguous : buys[k] <= 1

\* An attempt that ended without a purchase leaves no reservation behind that
\* would block its candle or its symbol, whatever Redis refused on the way,
\* unless its claim had no answer or its last release failed: then its key
\* stays until it expires (the finally clause of execute_cluster_orders).
NothingLeftReserved ==
  \A a \in Attempts \ (bought \union stranded) : stage[a] = "done" =>
    symbolClaim # a /\ \A k \in Candles : orderClaim[k] # a

\* Whether an attempt that starts now is stopped in Redis.
Guarded == orderClaim[now] # None \/ unknown # 0

\* From the loss of an acknowledgement to the end of its candle, an attempt
\* that starts is stopped: by the reservation, or by the quarantine in Redis,
\* which outlives a restart.  Where Redis did not take the quarantine, nothing
\* stops the other engines, but the engine that lost the acknowledgement still
\* refuses by itself, until it restarts (quarantine_unknown_purchase).
LostAckIsGuarded ==
  now \in unacked => \A i \in Instances :
    \/ Guarded \/ localUnknown[i] = now
    \/ \E a \in unsaved : epoch[a] = now /\ (InstanceOf[a] # i \/ a \in forgotten)

\* After any buy that may have been executed it is stopped in Redis: "Se o `buy` perder o
\* ACK por timeout/desconexao, `unknown_purchase:{conta}:{ativo}` suspende novas
\* compras desse ativo por 900 s, inclusive apos reinicio"
\* (src/docs/engineering-settlement.md:41).
AmbiguousIsGuarded == now \in Ambiguous => Guarded

\* After a buy of unknown outcome the account does not buy the symbol again in
\* the same candle, "resposta ambigua de compra nao libera a reserva na mesma
\* vela" (src/docs/engineering-settlement.md:39).
AmbiguousIsNotBoughtAgain ==
  [][\A k \in Ambiguous : buys'[k] = buys[k]]_vars
=============================================================================
