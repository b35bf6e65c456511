--------------------------- MODULE RoundRefinement ---------------------------
(***************************************************************************)
(* A round whose bids are wrapped SOL implements the escrow of BidEscrow.  *)
(* (A round of another token does not: there a bid made in the very second *)
(* bidding ends can follow the acceptance, and is neither refunded nor     *)
(* released.)                                                              *)
(***************************************************************************)
EXTENDS Round

\* The bids have been released: the round is accepted, reconciled or not.
Decided == round.status \in {"Accepted", "Reconciliation"}

\* A voucher of a decided round is a claim on the offer, no longer a bid held.
Escrow == INSTANCE BidEscrow
    WITH Funds    <- BidFunds,
         phase    <- IF Decided THEN "released" ELSE "open",
         held     <- [u \in Users |-> IF Decided THEN 0 ELSE amount_contributed[u]],
         own      <- user_bid,
         released <- recipient

\* Every step of the program is a deposit, a full refund to the same user, the
\* release of all bids at once, the reuse of the address, or invisible to those
\* who bid; closing accounts and legacy rounds included.
ImplementsEscrow == Escrow!Spec

-----------------------------------------------------------------------------
(* The program, whatever its mints, keeps what RoundLife promises to the    *)
(* programs that open a round and read it later.                            *)

Life == INSTANCE RoundLife

\* The round as those programs see it, and the offer tokens outside it.
AsLife ==
    [status |-> round.status, total_offer |-> round.total_offer, held |-> offer_wallet]
NotOffered == return_wallets["source"] + return_wallets["heir_ata"]

\* A step that shows opens a round at an unused address, or is one RoundLife
\* lists; total_offer stays what was offered, the offer is paid out only once
\* the round is accepted, and what a rejected or closed round still holds goes
\* back, all of it.
RoundLifeKept ==
    [][ AsLife' # AsLife =>
          \/ /\ AsLife = Life!Gone
             /\ AsLife' = Life!Opened(offer_wallet')
             /\ NotOffered' = NotOffered - offer_wallet'
          \/ /\ AsLife' \in Life!Successors(AsLife, 1 .. offer_wallet)
             /\ NotOffered' = NotOffered + Life!Returned(AsLife, AsLife') ]_vars
=============================================================================
