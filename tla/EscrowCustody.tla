---------------------------- MODULE EscrowCustody ----------------------------
(***************************************************************************)
(* What the escrow contract promises about money, and nothing else: every  *)
(* job is a pot.  A pot is filled once, is only ever emptied, and what     *)
(* leaves it goes to one of the two parties of the job.  How a payment is  *)
(* authorised (client, admin, timeouts) is left to the detailed module     *)
(* Escrow, which implements this one.                                      *)
(***************************************************************************)
EXTENDS Integers

CONSTANT JobIds

VARIABLES
    deposited,  \* [JobIds -> Nat]  what the client put in; 0: no such job yet
    pot,        \* [JobIds -> Nat]  what is still held for the job
    toClient,   \* [JobIds -> Nat]  what the client got back
    toFreelancer, \* [JobIds -> Nat]  what the freelancer received
    closed      \* SUBSET JobIds    jobs nothing can be paid from any more

vars == <<deposited, pot, toClient, toFreelancer, closed>>

Init ==
    /\ deposited = [j \in JobIds |-> 0]
    /\ pot = [j \in JobIds |-> 0]
    /\ toClient = [j \in JobIds |-> 0]
    /\ toFreelancer = [j \in JobIds |-> 0]
    /\ closed = {}

\* A pot is filled exactly once.
Fill(j) ==
    /\ deposited[j] = 0
    /\ deposited'[j] \in Nat \ {0}
    /\ deposited' = [deposited EXCEPT ![j] = deposited'[j]]
    /\ pot' = [pot EXCEPT ![j] = deposited'[j]]
    /\ UNCHANGED <<toClient, toFreelancer, closed>>

\* Something is paid out of an open pot, c to the client and f to the
\* freelancer, and the job closes exactly when its pot is empty.
Pay(j, c, f) ==
    /\ j \notin closed
    /\ c + f \in 1 .. pot[j]
    /\ pot' = [pot EXCEPT ![j] = @ - (c + f)]
    /\ toClient' = [toClient EXCEPT ![j] = @ + c]
    /\ toFreelancer' = [toFreelancer EXCEPT ![j] = @ + f]
    /\ closed' = IF c + f = pot[j] THEN closed \union {j} ELSE closed
    /\ UNCHANGED deposited

Next ==
    \E j \in JobIds :
        \/ Fill(j)
        \/ \E c, f \in 0 .. pot[j] : Pay(j, c, f)

Spec == Init /\ [][Next]_vars
=============================================================================
