-------------------------------- MODULE Drop --------------------------------
(***************************************************************************)
(* What the royalty program promises to those who stake: a drop shares one *)
(* amount by one total, both fixed when it begins, and gives everybody the *)
(* share of the whole exactly once, in any order and any number at a time. *)
(* Until the last one has it nobody joins, no stake grows and no other     *)
(* drop begins.  (A stake may shrink, through a state that is not its own; *)
(* its share shrinks with it, the others' do not change.)                  *)
(***************************************************************************)
EXTENDS Integers

CONSTANTS
    Users,
    Amounts,        \* what a drop may share out
    Share(_, _, _)  \* Share(stake, total, amount): the part of the amount

VARIABLES
    stake,      \* of each user
    total,      \* the whole that a stake is a part of
    holders,    \* who takes part in a drop
    due,        \* who is still to be given a share; nobody between drops
    amount,     \* of the drop, 0 between drops
    earned      \* what each user was given, over all drops

drop == <<stake, total, holders, due, amount, earned>>

Init ==
    /\ stake = [u \in Users |-> 0]
    /\ total = 0
    /\ holders = {}
    /\ due = {}
    /\ amount = 0
    /\ earned = [u \in Users |-> 0]

\* Stakes change, and somebody may be new; nobody leaves, even with nothing.
Move ==
    /\ due = {}
    /\ stake' \in [Users -> Nat]
    /\ total' \in Nat
    /\ holders \subseteq holders' /\ holders' \subseteq Users
    /\ UNCHANGED <<due, amount, earned>>

\* A stake shrinks while the drop goes on.
Shrink ==
    /\ due # {}
    /\ stake' \in [Users -> Nat]
    /\ \A u \in Users : stake'[u] <= stake[u]
    /\ UNCHANGED <<total, holders, due, amount, earned>>

\* Some of the users in from get their share of what is shared out.
Give(from, what) ==
    /\ \E paid \in SUBSET from :
         /\ due' = from \ paid
         /\ earned' = [u \in Users |->
              IF u \in paid
              THEN earned[u] + Share(stake[u], total, what)
              ELSE earned[u]]
    /\ amount' = IF due' = {} THEN 0 ELSE what
    /\ UNCHANGED <<stake, total, holders>>

Begin == due = {} /\ \E what \in Amounts : Give(holders, what)

Continue == due # {} /\ Give(due, amount)

Next == Move \/ Shrink \/ Begin \/ Continue

Spec == Init /\ [][Next]_drop
=============================================================================
