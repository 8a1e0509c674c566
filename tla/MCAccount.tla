------------------------------ MODULE MCAccount ------------------------------
\* What the engines keep of an account (the reservation of a candle, that of a
\* loss, what the session owes, the ledger in memory and in Redis), the evidence
\* of a setup version in the database, the way from a verdict to a purchase, and
\* the requests over a connection.  The seven share no state: a behaviour is one
\* of a single part.
EXTENDS MCOrderClaims, RecoveryClaim, RiskLedger, SessionLedger, PilotEvidence,
        SetupOrders, Requests

VARIABLE part

accountVars == <<vars, claimVars, riskVars, ledgerVars, pilotVars, setupVars,
                 requestVars, part>>

MCOrders == {<<i1, 1>>, <<i1, 2>>, <<i2, 1>>}

AccountInit ==
  /\ Init /\ ClaimInit /\ RiskInit /\ LedgerInit /\ PilotInit /\ SetupInit
  /\ RequestInit
  /\ part \in {"candle", "loss", "risk", "ledger", "pilot", "orders", "requests"}
  /\ part # "ledger" => keyed
  /\ part # "risk" => bank = 10000

AccountNext ==
  /\ \/ /\ part = "candle" /\ Next
        /\ UNCHANGED <<claimVars, riskVars, ledgerVars, pilotVars, setupVars, requestVars>>
     \/ /\ part = "loss" /\ ClaimNext
        /\ UNCHANGED <<vars, riskVars, ledgerVars, pilotVars, setupVars, requestVars>>
     \/ /\ part = "risk" /\ RiskNext
        /\ UNCHANGED <<vars, claimVars, ledgerVars, pilotVars, setupVars, requestVars>>
     \/ /\ part = "ledger" /\ LedgerNext
        /\ UNCHANGED <<vars, claimVars, riskVars, pilotVars, setupVars, requestVars>>
     \/ /\ part = "pilot" /\ PilotNext
        /\ UNCHANGED <<vars, claimVars, riskVars, ledgerVars, setupVars, requestVars>>
     \/ /\ part = "orders" /\ SetupNext
        /\ UNCHANGED <<vars, claimVars, riskVars, ledgerVars, pilotVars, requestVars>>
     \/ /\ part = "requests" /\ RequestNext
        /\ UNCHANGED <<vars, claimVars, riskVars, ledgerVars, pilotVars, setupVars>>
  /\ UNCHANGED part

AccountSpec == AccountInit /\ [][AccountNext]_accountVars
=============================================================================
