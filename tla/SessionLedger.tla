---------------------------- MODULE SessionLedger ----------------------------
(***************************************************************************)
(* The ledger of a session in memory and in Redis.  A settlement books its *)
(* result and saves the ledger under the state lock, and so does the main  *)
(* loop now and then; on a reconnection the main loop restores the ledger  *)
(* from Redis without the lock, key by key, and fetches the balance.       *)
(*                                                                         *)
(* A total is the set of the results it takes account of.  The module is   *)
(* one life of the process, which begins with an empty ledger and with     *)
(* what earlier sessions left in Redis; a restart is another life.         *)
(*                                                                         *)
(* An action is the code between two awaits that other tasks can disturb.  *)
(***************************************************************************)
EXTENDS Naturals

CONSTANTS
  Results,   \* contracts, by their results
  Past,      \* those of earlier sessions
  NoResult,  \* no contract in hand
  MaxOutages \* losses of the connection considered

ASSUME PastAssumption == Past \subseteq Results /\ NoResult \notin Results

Live == Results \ Past
Writers == {"settler", "main"}
Ledgers == [profit : SUBSET Results, pending : SUBSET Results, linear : SUBSET Results]

VARIABLES
  online,    \* ws.is_running
  due,       \* contracts the broker settled
  booked,    \* contracts this session booked
  ledger,    \* total_session_profit, pending_loss, consecutive_losses_linear
  credit,    \* how often state.balance counts each result
  stateLock, \* who holds _state_lock
  settler,   \* the settlement: idle, started, booked, writing
  hand,      \* its contract
  main,      \* the main loop: idle, writing, reading, resuming, connecting
  captured,  \* the ledger each writer is about to save
  stored,    \* state:snapshot, with state:pending_loss
  keyed,     \* the counter has its own key
  loaded,    \* the snapshot the restore read
  outages,
  saved,     \* history: results that were saved
  exposed,   \* history: results not yet saved when a restore began, or booked in it
  torn,      \* history: something was booked or saved during a restore
  early      \* history: results in a fetched balance before they were booked

memoryVars == <<booked, ledger, credit>>
storeVars  == <<stored, keyed, saved>>
taskVars   == <<stateLock, settler, hand, captured>>
witnessVars == <<exposed, torn, early>>
ledgerVars == <<online, due, memoryVars, storeVars, taskVars, main, loaded,
                outages, witnessVars>>

LedgerTypeOK ==
  /\ online \in BOOLEAN /\ keyed \in BOOLEAN /\ torn \in BOOLEAN
  /\ due \subseteq Live /\ booked \subseteq due
  /\ {ledger, stored, loaded} \subseteq Ledgers
  /\ credit \in [Results -> 0 .. 2]
  /\ stateLock \in Writers \union {"free"}
  /\ settler \in {"idle", "started", "booked", "writing"}
  /\ hand \in Live \union {NoResult}
  /\ main \in {"idle", "writing", "reading", "resuming", "connecting"}
  /\ captured \in [Writers -> Ledgers]
  /\ {saved, exposed, early} \subseteq SUBSET Results
  /\ outages \in Nat

Even(s) == [profit |-> s, pending |-> s, linear |-> s]

\* The first restore is undone by the reset of the new session.
LedgerInit ==
  /\ online = TRUE
  /\ due = {} /\ booked = {}
  /\ ledger = Even({})
  /\ credit = [c \in Results |-> 0]
  /\ stateLock = "free" /\ settler = "idle" /\ hand = NoResult /\ main = "idle"
  /\ captured = [w \in Writers |-> Even({})]
  /\ stored = Even(Past)
  /\ keyed \in BOOLEAN
  /\ loaded = Even({})
  /\ outages = 0
  /\ saved = {} /\ exposed = {} /\ torn = FALSE /\ early = {}

Restoring == main \in {"reading", "resuming"}

\* The broker's balance.
FetchBalance ==
  /\ credit' = [c \in Results |-> IF c \in due THEN 1 ELSE 0]
  /\ early' = early \union (due \ booked)

-----------------------------------------------------------------------------
(* Settlements *)

SettleAtBroker(c) ==
  /\ due' = due \union {c}
  /\ UNCHANGED <<online, memoryVars, storeVars, taskVars, main, loaded, outages,
                 witnessVars>>

\* Bug: a contract that was booked is settled again.
StartAgain(c) ==
  /\ online /\ settler = "idle"
  /\ c \in due
  /\ settler' = "started" /\ hand' = c
  /\ UNCHANGED <<online, due, memoryVars, storeVars, stateLock, captured, main,
                 loaded, outages, witnessVars>>

\* A settlement begins while the broker is online, once per contract.  That of
\* a contract bought over REST has fetched the balance first.
Start(c) ==
  /\ online /\ settler = "idle"
  /\ c \in due \ booked
  /\ settler' = "started" /\ hand' = c
  /\ FetchBalance \/ UNCHANGED <<credit, early>>
  /\ UNCHANGED <<online, due, booked, ledger, storeVars, stateLock, captured, main,
                 loaded, outages, exposed, torn>>

\* The balance adds the profit; balance_after is taken only if it says the
\* same.
Book ==
  /\ settler = "started"
  /\ stateLock = "free"
  /\ stateLock' = "settler"
  /\ settler' = "booked"
  /\ booked' = booked \union {hand}
  /\ ledger' = [profit  |-> ledger.profit \union {hand},
                pending |-> ledger.pending \union {hand},
                linear  |-> ledger.linear \union {hand}]
  /\ credit' = [credit EXCEPT ![hand] = @ + 1]
  /\ torn' = (torn \/ Restoring)
  /\ exposed' = IF Restoring THEN exposed \union {hand} ELSE exposed
  /\ UNCHANGED <<online, due, storeVars, hand, captured, main, loaded, outages, early>>

Capture ==
  /\ settler = "booked"
  /\ settler' = "writing"
  /\ captured' = [captured EXCEPT !["settler"] = ledger]
  /\ UNCHANGED <<online, due, memoryVars, storeVars, stateLock, hand, main, loaded,
                 outages, witnessVars>>

-----------------------------------------------------------------------------
(* Saving *)

\* Bug: the main loop saves without the lock.
CaptureUnlocked ==
  /\ online /\ main = "idle"
  /\ main' = "writing"
  /\ captured' = [captured EXCEPT !["main"] = ledger]
  /\ UNCHANGED <<online, due, memoryVars, storeVars, stateLock, settler, hand, loaded,
                 outages, witnessVars>>

CaptureInLoop ==
  /\ online /\ main = "idle"
  /\ stateLock = "free"
  /\ stateLock' = "main"
  /\ main' = "writing"
  /\ captured' = [captured EXCEPT !["main"] = ledger]
  /\ UNCHANGED <<online, due, memoryVars, storeVars, settler, hand, loaded, outages,
                 witnessVars>>

\* Bug: the losses are written by another command, which fails.
BundleHalf(w) ==
  /\ stored' = [captured[w] EXCEPT !.pending = stored.pending]
  /\ keyed' = TRUE
  /\ saved' = saved \union captured[w].profit

\* One transaction for the snapshot, the losses and the counter's key.
Bundle(w) ==
  /\ stored' = captured[w]
  /\ keyed' = TRUE
  /\ saved' = saved \union captured[w].profit

EndWriting(w) ==
  \/ /\ w = "settler" /\ settler = "writing"
     /\ settler' = "idle" /\ hand' = NoResult
     /\ UNCHANGED main
  \/ /\ w = "main" /\ main = "writing"
     /\ main' = "idle"
     /\ UNCHANGED <<settler, hand>>

Write(w) ==
  /\ EndWriting(w)
  /\ Bundle(w)
  /\ stateLock' = "free"
  /\ torn' = (torn \/ Restoring)
  /\ UNCHANGED <<online, due, memoryVars, captured, loaded, outages, exposed, early>>

\* Redis fails: the result stays booked and unsaved.
WriteFails(w) ==
  /\ EndWriting(w)
  /\ stateLock' = "free"
  /\ UNCHANGED <<online, due, memoryVars, storeVars, captured, loaded, outages,
                 witnessVars>>

-----------------------------------------------------------------------------
(* Reconnecting *)

LoseConnection ==
  /\ online
  /\ outages < MaxOutages
  /\ online' = FALSE
  /\ outages' = outages + 1
  /\ UNCHANGED <<due, memoryVars, storeVars, taskVars, main, loaded, witnessVars>>

LoadSnapshot ==
  /\ ~online /\ main = "idle"
  /\ main' = "reading"
  /\ loaded' = stored
  /\ exposed' = exposed \union (booked \ saved)
  /\ UNCHANGED <<online, due, memoryVars, storeVars, taskVars, outages, torn, early>>

\* The losses are read from their own key, or are those of the snapshot if it
\* is empty; then the ledger is overwritten.
ApplySnapshot ==
  /\ main = "reading"
  /\ main' = "resuming"
  /\ \E losses \in {stored.pending, loaded.pending} :
       ledger' = [profit |-> loaded.profit, pending |-> losses, linear |-> loaded.linear]
  /\ UNCHANGED <<online, due, booked, credit, storeVars, taskVars, loaded, outages,
                 witnessVars>>

\* The counter is read from its own key.
ApplyCounter ==
  /\ main = "resuming"
  /\ main' = "connecting"
  /\ ledger' = [profit |-> ledger.profit, pending |-> ledger.pending,
                linear |-> IF keyed THEN stored.linear ELSE ledger.linear]
  /\ UNCHANGED <<online, due, booked, credit, storeVars, taskVars, loaded, outages,
                 witnessVars>>

\* Redis fails while it restores.
RestoreFails ==
  /\ main = "reading"
  /\ main' = "idle"
  /\ UNCHANGED <<online, due, memoryVars, storeVars, taskVars, loaded, outages,
                 witnessVars>>

\* The balance is fetched; the handshake succeeds or the loop tries again.
Connect ==
  /\ main = "connecting"
  /\ main' = "idle"
  /\ FetchBalance
  /\ online' \in BOOLEAN
  /\ UNCHANGED <<due, booked, ledger, storeVars, taskVars, loaded, outages, exposed,
                 torn>>

LedgerNext ==
  \/ \E c \in Live : SettleAtBroker(c) \/ Start(c)
  \/ Book \/ Capture \/ CaptureInLoop
  \/ \E w \in Writers : Write(w) \/ WriteFails(w)
  \/ LoseConnection \/ LoadSnapshot \/ ApplySnapshot \/ ApplyCounter \/ RestoreFails
  \/ Connect

LedgerSpec == LedgerInit /\ [][LedgerNext]_ledgerVars

-----------------------------------------------------------------------------
(* Properties *)

\* A booked result stays in the ledger, whatever restores and saves interleave,
\* unless a restore began before it was saved (restore_orchestrator_state,
\* persist_full_state_unlocked).
ResultsSurvive ==
  \A c \in booked \ exposed :
    c \in ledger.profit /\ c \in ledger.pending /\ c \in ledger.linear

\* The profit, the losses and the counter take account of the same results,
\* unless a settlement went on during a restore, which reads them one by one.
LedgerAgrees == ~torn => ledger = Even(ledger.profit)

\* The balance counts a result once, unless it was fetched between the
\* broker's settlement and the booking (process_contract_outcome).
BalanceCountsOnce ==
  \A c \in booked \ early : credit[c] = 1

\* "Restart manual | Nova sessão independente com novo saldo e nova meta"
\* (medallion.md:503): no result of an earlier session is in the ledger.
SessionIsIndependent == ledger.profit \intersect Past = {}
=============================================================================
