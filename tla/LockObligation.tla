---------------------------- MODULE LockObligation ----------------------------
(***************************************************************************)
(* What the lock lifecycle promises of the accounts of the mail system,    *)
(* without Redis, queues, tasks or time.  An account is locked only when   *)
(* somebody has undertaken to unlock it.  That duty may be taken up again, *)
(* and it may change hands, but it is never lost on the way: it ends with  *)
(* the unlock, or it is given up for a cause that stays on record until    *)
(* the account is unlocked.  Nobody unlocks an account without the duty.   *)
(* LockLifecycle implements it.                                            *)
(***************************************************************************)
CONSTANTS
    Emails,
    Causes          \* why the duty to unlock may be dropped

VARIABLE account    \* per account: is it locked, is its unlock owed, and why
                    \* the duty may have been dropped since the last unlock

Accounts == [locked : BOOLEAN, owed : BOOLEAN, lapse : SUBSET Causes]

Init == account = [e \in Emails |-> [locked |-> FALSE, owed |-> FALSE, lapse |-> {}]]

(* What may become of an account a, which is b afterwards.                 *)
Undertaken(a, b) == b = [a EXCEPT !.owed = TRUE]

Locked(a, b) ==
    /\ a.owed \/ a.lapse # {}
    /\ b = [a EXCEPT !.locked = TRUE]

(* A newer lock may be on its way, with a duty that this unlock has met.   *)
Unlocked(a, b) ==
    /\ a.owed
    /\ ~b.locked /\ b.lapse \in {{}, {"overtaken"}}

(* Others may still have the duty.  An unlock that failed may have unlocked*)
(* the account.                                                            *)
GivenUp(a, b) ==
    /\ a.owed
    /\ \E cause \in Causes \ {"overtaken"} :
          /\ b.lapse = a.lapse \cup {cause}
          /\ b.locked # a.locked => ~b.locked /\ cause = "failed"

Step(a, b) == b = a \/ Undertaken(a, b) \/ Locked(a, b) \/ Unlocked(a, b) \/ GivenUp(a, b)

(* A crash gives up the unlocks of several accounts at once.               *)
Next ==
    /\ account' \in [Emails -> Accounts]
    /\ \A e \in Emails : Step(account[e], account'[e])

Spec == Init /\ [][Next]_account
=============================================================================
