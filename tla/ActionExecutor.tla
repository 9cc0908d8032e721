---------------------------- MODULE ActionExecutor ----------------------------
(***************************************************************************)
(* What the asynchronous action manager promises to those who use it (the  *)
(* policy handler, the management service and a reload), without queue,    *)
(* workers or providers: it accepts actions while it is open, owes a       *)
(* bounded number of them at a time, brings each to an end once, and a     *)
(* call of close that returns leaves nothing owed and nothing to come.     *)
(* ActionManager implements it.                                            *)
(***************************************************************************)
EXTENDS Integers, Sequences, FiniteSets

CONSTANTS Actions, Accounts, Closers, Capacity

VARIABLES
    accepted,       \* the actions accepted, in order
    over,           \* the numbers of those that have come to their end
    account,        \* what the providers have made of each account
    open,
    returned        \* the calls of close that have returned

Numbers == 1 .. Len(accepted)
Owed == Numbers \ over
CarriedOut(n) == [account EXCEPT ![accepted[n].email] = accepted[n].kind]

Init ==
    /\ accepted = << >> /\ over = {} /\ open = TRUE /\ returned = {}
    /\ account = [e \in Accounts |-> "unlock"]

Accept(a) ==
    /\ open
    /\ Cardinality(Owed) < Capacity
    /\ accepted' = Append(accepted, a)
    /\ UNCHANGED <<over, account, open, returned>>

(* An attempt that is not the last, or a request that was given up and     *)
(* that its server carries out after all.                                  *)
Effect(n) ==
    /\ n \in Numbers
    /\ account' = CarriedOut(n)
    /\ UNCHANGED <<accepted, over, open, returned>>

Finish(n) ==
    /\ n \in Owed
    /\ over' = over \cup {n}
    /\ account' \in {account, CarriedOut(n)}
    /\ UNCHANGED <<accepted, open, returned>>

Shut ==
    /\ open' = FALSE
    /\ UNCHANGED <<accepted, over, account, returned>>

Report(c) ==
    /\ ~open /\ Owed = {}
    /\ returned' = returned \cup {c}
    /\ UNCHANGED <<accepted, over, account, open>>

Next ==
    \/ \E a \in Actions : Accept(a)
    \/ \E n \in Numbers : Effect(n) \/ Finish(n)
    \/ Shut
    \/ \E c \in Closers : Report(c)

vars == <<accepted, over, account, open, returned>>

Spec == Init /\ [][Next]_vars
=============================================================================
