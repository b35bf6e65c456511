-------------------------- MODULE RoyaltyRefinement --------------------------
(***************************************************************************)
(* The royalty program, which distributes over several transactions and    *)
(* keeps only counters, implements the drops of Drop.                      *)
(***************************************************************************)
EXTENDS Royalty

\* What a user was given is in the voucher or has been claimed.
Drops == INSTANCE Drop
    WITH Amounts <- 0 .. MaxReceived,
         Share   <- share,
         stake   <- balance,
         total   <- tokens_held,
         holders <- vouchers,
         due     <- IF distributing THEN vouchers \ Seen ELSE {},
         amount  <- distribute_amount,
         earned  <- [u \in Users |-> voucher_lamports[u] + user_lamports[u]]

\* Every step of the program gives some users who have nothing of this drop yet
\* their share of the amount fixed at its start, by a total fixed then too, or
\* moves stakes between drops, or takes from a stake through another state, or
\* is invisible to those who stake: claims, votes, fees, receipts, and tokens
\* sent past deposit included.
ImplementsDrop == Drops!Spec
=============================================================================
