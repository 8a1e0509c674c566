----------------------------- MODULE RiskLedger -----------------------------
(***************************************************************************)
(* What a session owes: the losses still to recover, the counter of losing *)
(* clusters, the profit of the session, and the stakes they lead to, with  *)
(* the pullback strategy, one strike to the session's target and recovery  *)
(* in steps under a cap.                                                   *)
(*                                                                         *)
(* Stakes are in cents, rates in percent, and profit and losses in         *)
(* hundredths of a cent, as a residual of the payout has four decimals.    *)
(***************************************************************************)
EXTENDS Integers, FiniteSets

CONSTANTS
  MaxContracts,  \* contracts bought in all
  MaxOrders,     \* of one cluster
  MaxSessions,   \* sessions begun after the first
  InitialBanks,  \* balances the first session may start with, in cents
  TargetRate,    \* compounding_rate_daily, in tenths of a percent
  SmallAccount,  \* small_account_threshold, in cents
  SmallTarget,   \* small_account_stop_win, in cents
  Rates,         \* rates the broker quotes, in percent
  PayoutEstimate,\* risk_params.payout_estimate
  StakeMin,      \* in cents
  Downgrades,    \* how far a purchase may stay below the stake asked for
  DustMax        \* dust_pending_clear_max

\* A rate is more than the two points by which the final quote may be lower.
ASSUME RatesAssumption ==
  /\ {MaxContracts, MaxOrders} \subseteq Nat
  /\ Rates \subseteq Nat \ 0 .. 1
  /\ PayoutEstimate \in Nat
  /\ Downgrades \subseteq Nat /\ InitialBanks \subseteq Nat
  /\ {DustMax, StakeMin, TargetRate, SmallAccount, SmallTarget} \subseteq Nat

Contracts == 1 .. MaxContracts

VARIABLES
  bank,      \* session_start_balance
  profit,    \* total_session_profit
  pending,   \* the sum of pending_loss
  linear,    \* consecutive_losses_linear
  placed,    \* orders of the cluster that is being placed
  active,    \* active_contract_ids
  known,     \* contract_to_symbol
  asked,     \* contract_requested_stakes
  paid,      \* contract_stakes
  quoted,    \* the rate each order was sized with
  counted,   \* cluster_results: the contracts in it
  net,       \* cluster_results: their sum
  expected,  \* expected_cluster_settlements
  settled,   \* contracts whose result came: it comes once (Settlement)
  strikes,   \* history: orders sized to reach the target from the present profit
  forgiven,  \* history: losses dropped without a win
  sessions

stakeVars == <<asked, paid, quoted>>
riskVars == <<bank, profit, pending, linear, placed, active, known, stakeVars,
              counted, net, expected, settled, strikes, forgiven, sessions>>

Max2(a, b) == IF a >= b THEN a ELSE b
Min2(a, b) == IF a <= b THEN a ELSE b
CeilDiv(a, b) == (a + b - 1) \div b

RiskTypeOK ==
  /\ {bank, profit, net} \subseteq Int
  /\ {pending, linear, forgiven, sessions} \subseteq Nat
  /\ placed \in 0 .. MaxOrders /\ expected \in 0 .. MaxOrders
  /\ active \subseteq Contracts /\ known \subseteq Contracts
  /\ active \subseteq known
  /\ {asked, paid} \subseteq [Contracts -> Nat]
  /\ quoted \in [Contracts -> Rates \union {0}]
  /\ counted \subseteq Contracts /\ settled \subseteq Contracts
  /\ strikes \subseteq Contracts

RiskInit ==
  /\ bank \in InitialBanks /\ profit = 0
  /\ pending = 0 /\ linear = 0 /\ forgiven = 0
  /\ placed = 0 /\ expected = 0
  /\ active = {} /\ known = {} /\ strikes = {}
  /\ asked = [c \in Contracts |-> 0]
  /\ paid = [c \in Contracts |-> 0]
  /\ quoted = [c \in Contracts |-> 0]
  /\ counted = {} /\ settled = {} /\ net = 0
  /\ sessions = 0

-----------------------------------------------------------------------------
(* The stake *)

\* The target, rounded down to cents, fixed for a session that starts with
\* little, and the tolerance with which it counts.
Target == IF bank < SmallAccount THEN SmallTarget
          ELSE (bank * TargetRate) \div 1000
TargetReached(p) == Target > 0 /\ p >= 95 * Target

Available == bank + profit \div 100
Cap  == (Available * 5) \div 100
Base == Available \div 100

\* Steps in which a loss is recovered without passing the cap.
Steps(loss, rate) ==
  IF Cap > 0 /\ loss > Cap * rate THEN CeilDiv(loss, Cap * rate) ELSE 1

Needed(loss, rate) ==
  IF loss > 0 THEN CeilDiv(loss, Steps(loss, rate) * rate)
  ELSE IF 100 * Target > profit THEN CeilDiv(100 * Target - profit, rate)
  ELSE 0

WantedStake(loss, rate) == Max2(Max2(Base, StakeMin), Needed(loss, rate))

Stake(loss, rate) == Min2(Cap, WantedStake(loss, rate))

\* What the next order may recover: nothing while contracts of the cluster are
\* open, whose claim, or whose unknown share, stands in the way, nor when
\* another engine of the account holds the claim.
Recoverable == IF active = {} THEN {pending, 0} ELSE {0}

\* An order is one step: RecoveryClaim has the steps in which it is placed.
Order(c, rate, less) ==
  \E loss \in Recoverable :
    /\ paid[c] = 0 /\ c \notin settled
    /\ \A d \in 1 .. c - 1 : paid[d] # 0 \/ d \in settled
    /\ placed < MaxOrders
    /\ placed = 0 => active = {}
    /\ ~TargetReached(profit)
    /\ Cap >= StakeMin /\ Stake(loss, rate) > less
    /\ placed' = placed + 1
    /\ active' = active \union {c} /\ known' = known \union {c}
    /\ asked' = [asked EXCEPT ![c] = Stake(loss, rate)]
    /\ paid' = [paid EXCEPT ![c] = Stake(loss, rate) - less]
    /\ quoted' = [quoted EXCEPT ![c] = rate]
    /\ strikes' = IF pending = 0 /\ less = 0 /\ WantedStake(loss, rate) <= Cap
                  THEN strikes \union {c} ELSE strikes
    /\ UNCHANGED <<bank, profit, pending, linear, counted, net, expected, settled,
                   forgiven, sessions>>

\* begin_cluster, after the orders were placed and maybe settled.
BeginCluster ==
  /\ placed > 0
  /\ expected' = placed
  /\ counted' = {} /\ net' = 0
  /\ placed' = 0
  /\ UNCHANGED <<bank, profit, pending, linear, active, known, stakeVars, settled,
                 strikes, forgiven, sessions>>

-----------------------------------------------------------------------------
(* A result *)

\* Bug: the final quote is not compared with the one the order was sized with.
ProfitsUnchecked(c) == {100 * CeilDiv((quoted[c] - 12) * paid[c], 100),
                        100 * ((quoted[c] * paid[c]) \div 100)}

\* A final quote of more than two points below the one used is refused; the
\* lowest profit that passes, and the one that was quoted.
Profits(c) == {100 * CeilDiv((quoted[c] - 2) * paid[c], 100),
               100 * ((quoted[c] * paid[c]) \div 100)}

\* Bug: the loss replaces the losses before it.
LastLossOnly(c) == 100 * asked[c]

\* What the result leaves of the loss before the cluster is looked at.
AddLoss(c) == pending + 100 * asked[c]

PendingAfterLoss(c) == AddLoss(c)

PendingAfterWin(c, gain) ==
  LET recovers == Max2(0, gain - 100 * (asked[c] - paid[c])) IN
  Max2(0, pending - recovers)

\* The difference between the win and the estimated payout, if it is at most
\* ten cents; it is taken off the loss once more, or put on it if the symbol
\* has one.
Residual(c, gain) ==
  LET r == gain - PayoutEstimate * paid[c] IN
  IF -1000 <= r /\ r <= 1000 /\ gain > 0 THEN r ELSE 0

\* The symbol of the contract has the loss, or another one has.
Adjusted(loss, r) == {loss, IF loss = 0 THEN 0 ELSE Max2(0, loss - r)}

Dust(loss) == 0 < loss /\ loss <= DustMax

\* The counter after a cluster.  A winning one takes it back by one.
Retract(n) == IF n = 0 THEN 0 ELSE Max2(1, n - 1)

LinearAfter(loss, sum) ==
  LET n == IF Dust(loss) THEN 0 ELSE linear IN
  IF sum < 0 THEN n + 1
  ELSE IF loss > 0 /\ ~Dust(loss) THEN Retract(n)
  ELSE 0

\* The cluster ends with its last expected or its last open result; whatever
\* is open then is forgotten.
EndCluster(loss, sum) ==
  /\ linear' = LinearAfter(loss, sum)
  /\ pending' = IF Dust(loss) THEN 0 ELSE loss
  /\ counted' = {} /\ net' = 0
  /\ active' = {} /\ known' = {}
  /\ expected' = 0

GoOn(c, loss, sum) ==
  /\ pending' = loss
  /\ counted' = counted \union {c} /\ net' = sum
  /\ active' = active \ {c}
  /\ UNCHANGED <<linear, known, expected>>

\* Registers the result of a contract that is tracked.
Register(c, amount, loss) ==
  LET done == \/ expected > 0 /\ Cardinality(counted \union {c}) >= expected
              \/ active \ {c} = {} IN
  /\ c \in known \ settled
  /\ settled' = settled \union {c}
  /\ profit' = profit + amount
  /\ strikes' = {}
  /\ asked' = [asked EXCEPT ![c] = 0]
  /\ paid' = [paid EXCEPT ![c] = 0]
  /\ quoted' = [quoted EXCEPT ![c] = 0]
  /\ IF done THEN EndCluster(loss, net + amount) ELSE GoOn(c, loss, net + amount)
  /\ UNCHANGED <<bank, placed, sessions>>

Lose(c) ==
  LET loss == PendingAfterLoss(c) IN
  /\ Register(c, -100 * paid[c], loss)
  /\ forgiven' = forgiven + loss - pending'

Win(c, gain) ==
  LET left == PendingAfterWin(c, gain) IN
  \E loss \in Adjusted(left, Residual(c, gain)) :
    /\ Register(c, gain, loss)
    /\ forgiven' = forgiven + Max2(0, left - loss) + (loss - pending')

\* A process that starts again begins a session with the balance it finds;
\* the losses it had restored are cleared.
NewSession ==
  /\ sessions < MaxSessions
  /\ sessions' = sessions + 1
  /\ bank' = Available
  /\ profit' = 0 /\ pending' = 0 /\ linear' = 0 /\ forgiven' = 0
  /\ active' = {} /\ known' = {} /\ strikes' = {}
  /\ counted' = {} /\ net' = 0 /\ expected' = 0 /\ placed' = 0
  /\ UNCHANGED <<asked, paid, quoted, settled>>

RiskNext ==
  \/ \E c \in Contracts, rate \in Rates, less \in Downgrades : Order(c, rate, less)
  \/ BeginCluster
  \/ \E c \in Contracts : Lose(c) \/ \E gain \in Profits(c) : Win(c, gain)
  \/ NewSession

RiskSpec == RiskInit /\ [][RiskNext]_riskVars

-----------------------------------------------------------------------------
(* Properties *)

\* What the session is behind is still to be recovered, except for the dust
\* and the residuals the code drops: no win is counted against more than it
\* brought, and no order of clusters, downgrades and late results hides a loss
\* (apply_contract_settlement_result).
LossesAreCarried == pending + forgiven + profit >= 0

\* With nothing to recover, an order sized to meet the target in one strike, and
\* not held back by the cap, leaves when it wins no more missing than the two
\* points of its stake by which the final quote may be lower, or less than a
\* cent; and the session counts as won, whatever the roundings, if its stake is
\* not above two and a half targets (pullback_stake, is_stop_win_reached).
StrikeMeetsTarget ==
  [][\A c \in strikes : c \in settled' \ settled /\ profit' > profit =>
       /\ 100 * Target - profit' <= Max2(2 * paid[c], 99)
       /\ 2 * paid[c] <= 5 * Target => TargetReached(profit')]_riskVars
=============================================================================
