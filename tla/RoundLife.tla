------------------------------ MODULE RoundLife ------------------------------
(***************************************************************************)
(* What a round promises to the programs that create rounds and read them: *)
(* how its status, the offer it records and the offer it holds may change. *)
(* Bids, vouchers and the clock are left out.  MCRound checks that Round   *)
(* keeps the promise; Human is composed with it instead of Round.          *)
(***************************************************************************)
EXTENDS Integers

\* The life of a round address: status, total_offer and the offer wallet.
Lives ==
    [status : {"Absent", "Pending", "Reconciliation", "Accepted", "Rejected"},
     total_offer : Nat, held : Nat]

Gone == [status |-> "Absent", total_offer |-> 0, held |-> 0]

Opened(offer) == [status |-> "Pending", total_offer |-> offer, held |-> offer]

\* The heir accepts, with or without a reconciliation, or rejects.
Decisions(l) ==
    {d \in {[l EXCEPT !.status = "Accepted"],
            [l EXCEPT !.status = "Reconciliation"],
            [status |-> "Rejected", total_offer |-> l.total_offer, held |-> 0]} :
        l.status = "Pending"}

Reconciled(l) ==
    {d \in {[l EXCEPT !.status = "Accepted"]} : l.status = "Reconciliation"}

\* Users redeem only from an accepted round; lots says in which amounts.
Redeemed(l, lots) ==
    {[l EXCEPT !.held = @ - lot] :
        lot \in {k \in lots : l.status = "Accepted" /\ k <= l.held}}

\* A round is cancelled or closed, and its address may be used again; not while
\* it is reconciled.
Closed(l) ==
    {d \in {Gone} : l.status \in {"Pending", "Accepted", "Rejected"}}

\* What may become of a round that exists.
Successors(l, lots) ==
    Decisions(l) \cup Reconciled(l) \cup Redeemed(l, lots) \cup Closed(l)

\* What a step from l to d returns to the wallet the offer came from.
Returned(l, d) == IF d.status \in {"Rejected", "Absent"} THEN l.held ELSE 0
=============================================================================
