--------------------------- MODULE ContractLedger ---------------------------
(***************************************************************************)
(* What the CONTRACT bucket promises, whatever requests, failures and      *)
(* restarts go on around it.  A hash is without a contract; then it has    *)
(* one, for good, with an audit count that is a power of two; then it also *)
(* has an audit tree with exactly that many leaves, and never loses it.    *)
(***************************************************************************)
EXTENDS Naturals

CONSTANTS Hashes, AuditCounts

VARIABLE ledger    \* hash -> [count, leaves]; a count of 0: no contract

LedgerPowerOfTwo(n) == n # 0 /\ \E k \in 0..n : n = 2^k

LedgerInit == ledger = [h \in Hashes |-> [count |-> 0, leaves |-> 0]]

\* farmer.go:379-387: the contract of an OFFER is saved if there is none yet.
Sign(h) ==
  /\ ledger[h].count = 0
  /\ \E n \in AuditCounts :
       /\ LedgerPowerOfTwo(n)
       /\ ledger' = [ledger EXCEPT ![h] = [count |-> n, leaves |-> 0]]

\* farmer.go:615-617 and 717-719: the trees of a CONSIGN or MIRROR are saved.
Attach(h) ==
  /\ ledger[h].count # 0
  /\ ledger' = [ledger EXCEPT ![h] =
                 [count |-> ledger[h].count, leaves |-> ledger[h].count]]

LedgerNext == \E h \in Hashes : Sign(h) \/ Attach(h)

LedgerSpec == LedgerInit /\ [][LedgerNext]_ledger
=============================================================================
