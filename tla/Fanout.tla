------------------------------- MODULE Fanout -------------------------------
(***************************************************************************)
(* The fanout program (fanout/src/lib.rs, fanout/src/state.rs): an account *)
(* with a list of members, fixed for good when it is initialized.  Anybody *)
(* may have all the lamports it has received paid to the members, each by  *)
(* its share; all members are paid in one transaction, or none.            *)
(***************************************************************************)
EXTENDS PreciseNumber, UnitSum, Sequences

CONSTANTS
    Addresses,      \* the addresses a member may be given
    fanout_addr,    \* the address of the fanout account itself
    Shares,         \* bound: the shares a member may be given
    MaxLen,         \* bound: the length of the lists given to initialize
    BasisPoints,    \* 10_000
    MaxMembers,     \* 10
    Receipts,       \* bound: the amounts of lamports that arrive
    MaxReceived     \* bound: all that arrives

ASSUME ConstantsAssumption ==
    /\ IsFiniteSet(Addresses)
    /\ Shares \subseteq Nat /\ Receipts \subseteq Nat
    /\ MaxLen \in Nat /\ MaxMembers \in Nat /\ MaxReceived \in Nat
    /\ BasisPoints \in Nat \ {0}

VARIABLES
    members,        \* the Fanout account's list, <<>> before initialize
    distributed,    \* its statistics
    lamports,       \* of the account, above its rent minimum
    paid,           \* what each address has been paid
    received        \* all the lamports that ever arrived

vars == <<members, distributed, lamports, paid, received>>

\* Member, and the lists of them that may be given to initialize.
Member == [address : Addresses, share : Shares]
MemberLists == UNION {[1 .. n -> Member] : n \in 0 .. MaxLen}

-----------------------------------------------------------------------------
(* Fanout::calculate_split.                                                 *)

Listed(ms) == {ms[i].address : i \in DOMAIN ms}

\* The HashMap keeps the share that was inserted last.
share_of(ms, a) ==
    LET places == {i \in DOMAIN ms : ms[i].address = a}
    IN  ms[CHOOSE i \in places : \A j \in places : j <= i].share

\* Variant: rounded down.
share_amount_floor(share, amount) ==
    checked_div(checked_mul(new(share), new(amount)), new(BasisPoints)) \div ONE

\* amount * share / 10000
share_amount(share, amount) ==
    to_imprecise(checked_div(checked_mul(new(share), new(amount)), new(BasisPoints)))

\* The shares as rounded, which need not add up to the amount.
rounded(ms, amount) == [a \in Listed(ms) |-> share_amount(share_of(ms, a), amount)]

\* What the rounded shares fall short of the amount, negative if they exceed it.
diff(ms, amount) == amount - Total(rounded(ms, amount), Listed(ms))

\* The difference goes to the first member.
split(ms, amount) == [rounded(ms, amount) EXCEPT ![ms[1].address] = @ + diff(ms, amount)]

\* Variant: shares that do not add up are an error.
split_exact(ms, amount) == diff(ms, amount) = 0

\* calculate_split has a value: the first member's part is not negative.
split_ok(ms, amount) == split(ms, amount)[ms[1].address] >= 0

-----------------------------------------------------------------------------
\* The checks of initialize: 1 to 10 members, every share within bounds, all
\* of them together the whole.
members_valid(ms) ==
    /\ Len(ms) \in 1 .. MaxMembers
    /\ \A i \in DOMAIN ms : ms[i].share \in 1 .. BasisPoints
    /\ Total([i \in DOMAIN ms |-> ms[i].share], DOMAIN ms) = BasisPoints

\* #[account(zero)]: only once.
initialize ==
    /\ members = <<>>
    /\ \E ms \in MemberLists : members_valid(ms) /\ members' = ms
    /\ distributed' = 0
    /\ UNCHANGED <<lamports, paid, received>>

\* Variant: some members may be left for later.
accounts_some(accounts) == accounts \subseteq Listed(members)

\* The accounts to be paid: members all (the HashMap is indexed by the key),
\* each once, as many as the list has entries.  The lamports of the fanout
\* account are borrowed, so it cannot be one of them.
accounts_ok(accounts) ==
    /\ accounts \subseteq Listed(members)
    /\ fanout_addr \notin accounts
    /\ Cardinality(accounts) = Len(members)

\* Everything is paid out, or nothing happens.
distribute(accounts) ==
    LET part == split(members, lamports)
        out  == Total([a \in accounts |-> part[a]], accounts)
    IN  /\ members # <<>>
        /\ accounts_ok(accounts)
        /\ split_ok(members, lamports)
        /\ lamports >= out
        /\ lamports' = lamports - out
        /\ paid' = [a \in Addresses |-> IF a \in accounts THEN paid[a] + part[a] ELSE paid[a]]
        /\ distributed' = distributed + out
        /\ UNCHANGED <<members, received>>

\* External: royalties arrive.
Receive(amount) ==
    /\ received + amount <= MaxReceived
    /\ received' = received + amount
    /\ lamports' = lamports + amount
    /\ UNCHANGED <<members, distributed, paid>>

-----------------------------------------------------------------------------
Init ==
    /\ members = <<>>
    /\ distributed = 0
    /\ lamports = 0
    /\ paid = [a \in Addresses |-> 0]
    /\ received = 0

Next ==
    \/ initialize
    \/ \E accounts \in SUBSET Addresses : distribute(accounts)
    \/ \E amount \in Receipts : Receive(amount)

Spec == Init /\ [][Next]_vars

\* distribute asks for no signature: anybody sends it.
DistributeSpec == Spec /\ WF_vars(\E accounts \in SUBSET Addresses : distribute(accounts))

-----------------------------------------------------------------------------
(* Properties.                                                              *)

\* Amounts are natural numbers: nobody's part of a distribution, and not what
\* is left of the account, is below zero.
TypeOK ==
    /\ members \in Seq(Member)
    /\ distributed \in Nat /\ lamports \in Nat /\ received \in Nat
    /\ paid \in [Addresses -> Nat]

\* A distribution leaves nothing behind, whatever rounding does to the shares.
PaysAll == distributed' # distributed => lamports' = 0
NothingLeft == [][PaysAll]_vars

\* The members of a list without duplicates are paid by their shares: all but
\* the first within half a lamport, the first within half for each of them.
Distance(a, b) == IF a > b THEN a - b ELSE b - a
FairParts ==
    LET n == Len(members)
        part == split(members, lamports)
        off(i) == Distance(BasisPoints * part[members[i].address], lamports * members[i].share)
    IN  Cardinality(Listed(members)) = n =>
            \A i \in 1 .. n : 2 * off(i) <= BasisPoints * (IF i = 1 THEN n ELSE 1)

\* A list of different members, none of them the fanout account, is paid once
\* the smallest possible share is worth a lamport for each member.
Payable == fanout_addr \notin Listed(members) /\ Cardinality(Listed(members)) = Len(members)
MembersPaid ==
    members # <<>> /\ Payable /\ lamports >= BasisPoints * Len(members) ~> lamports = 0
=============================================================================
