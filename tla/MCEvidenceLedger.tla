-------------------------- MODULE MCEvidenceLedger --------------------------
(* EvidenceLedger for TLC: two processes, two transactions. *)
EXTENDS EvidenceLedger

CONSTANTS p1, p2, t1, t2

MCProcess == {p1, p2}
MCTxn == {t1, t2}
MCTypes == {"TransactionStarted", "LeaseAcquired", "TransactionBlocked",
            "LeaseReleased"}
=============================================================================
