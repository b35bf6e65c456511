------------------------------ MODULE BidEscrow ------------------------------
(***************************************************************************)
(* What the round program promises to those who bid: an escrow that either *)
(* gives a user everything held for that user, or, once and as a whole,    *)
(* releases everything that is held.  Nothing else happens to a bid: it is *)
(* not split, not paid to another user, not kept.                          *)
(***************************************************************************)
EXTENDS Integers

CONSTANTS
    Users,
    Funds,          \* what each user has to begin with
    Total(_, _)     \* Total(f, S): the sum of f over S

VARIABLES
    phase,      \* "open", or "released" until the escrow is used again
    held,       \* what is held for each user
    own,        \* what each user has outside
    released    \* what has been paid out, over all uses of the escrow

escrow == <<phase, held, own, released>>

Init ==
    /\ phase = "open"
    /\ held = [u \in Users |-> 0]
    /\ own = [u \in Users |-> Funds]
    /\ released = 0

Deposit(u) ==
    /\ phase = "open"
    /\ \E amount \in 1 .. own[u] :
         /\ own' = [own EXCEPT ![u] = @ - amount]
         /\ held' = [held EXCEPT ![u] = @ + amount]
    /\ UNCHANGED <<phase, released>>

Refund(u) ==
    /\ phase = "open"
    /\ own' = [own EXCEPT ![u] = @ + held[u]]
    /\ held' = [held EXCEPT ![u] = 0]
    /\ UNCHANGED <<phase, released>>

Release ==
    /\ phase = "open"
    /\ phase' = "released"
    /\ released' = released + Total(held, Users)
    /\ held' = [u \in Users |-> 0]
    /\ UNCHANGED own

Reopen ==
    /\ phase = "released"
    /\ phase' = "open"
    /\ UNCHANGED <<held, own, released>>

Next == (\E u \in Users : Deposit(u) \/ Refund(u)) \/ Release \/ Reopen

Spec == Init /\ [][Next]_escrow
=============================================================================
