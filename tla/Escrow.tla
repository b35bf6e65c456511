------------------------------- MODULE Escrow -------------------------------
(***************************************************************************)
(* The escrow program (escrow/src/lib.rs): the author of a request puts    *)
(* tokens in a wallet; the destination accepts them or declines, and the   *)
(* author may cancel meanwhile.                                            *)
(*                                                                         *)
(* A state account has a length, chosen by who allocates it, and holds the *)
(* serialised State, whose length depends on the kind of request.  A State *)
(* is read back with try_from_slice, which wants the two to be equal.      *)
(* Requests that collect contributions (Unfunded) are shorter than any     *)
(* account create accepts: UnfundedNeverLoads.  So contribute, refund, the *)
(* expiry and the branches of accept and decline for such requests are     *)
(* never reached, and there are no actions for them.                       *)
(*                                                                         *)
(* A wallet of wrapped SOL is paid out by closing it, and another one by a *)
(* transfer, with the same net effect; rent is left out.  Whoever is paid  *)
(* has a wallet to be paid to.                                             *)
(***************************************************************************)
EXTENDS Integers

CONSTANTS
    States,         \* the addresses of state accounts
    Wallets,        \* the addresses of token wallets
    People,         \* authors and destinations
    NoOne,          \* the default Pubkey
    Sizes,          \* bound: the lengths accounts are allocated with
    Amounts,        \* bound: the amounts that are put in a wallet
    Supply          \* bound: all the tokens there are

ASSUME ConstantsAssumption ==
    /\ NoOne \notin People \cup Wallets
    /\ Sizes \subseteq Nat \ {0}
    /\ Amounts \subseteq Nat
    /\ Supply \in Nat

VARIABLES
    data_len,       \* of each state account, 0 without one
    request,        \* what the bytes of each state account say
    wallets,        \* the wallets that exist
    authority,      \* the state whose derived authority owns the wallet
    amount,         \* the tokens of each wallet
    paid,           \* what each person has been paid
    supply          \* the tokens not put in any wallet yet

accounts == <<data_len, request>>
holdings == <<wallets, amount, paid>>
vars == <<accounts, holdings, authority, supply>>

-----------------------------------------------------------------------------
RequestStatus == {"Unitialized", "Open", "Declined", "Accepted"}

\* UnfundedUntil is an unfunded request with a deadline.
Kinds == {"Funded", "Unfunded", "UnfundedUntil"}

\* The fields of State that are read.
State ==
    [status : RequestStatus, kind : Kinds,
     wallet : Wallets \cup {NoOne},
     author : People \cup {NoOne}, destination : People \cup {NoOne}]

\* What zero bytes say.
Zeroed ==
    [status |-> "Unitialized", kind |-> "Funded",
     wallet |-> NoOne, author |-> NoOne, destination |-> NoOne]

NewState(kind, w, author, destination) ==
    [status |-> "Open", kind |-> kind,
     wallet |-> w, author |-> author, destination |-> destination]

STATE_SIZE == 138

\* The length of a serialised State: 106 bytes, and those of the request.
serialized_len(r) ==
    CASE r.kind = "Funded" -> 138
      [] r.kind = "Unfunded" -> 123
      [] r.kind = "UnfundedUntil" -> 131

\* try_from_slice reads a State, and no byte is left.
loads(s) == data_len[s] = serialized_len(request[s])

\* State::is_open, of a state that next_state_account returns.
is_open(s) == loads(s) /\ request[s].status = "Open"

\* State::is_funded
is_funded(s) == request[s].kind = "Funded"

-----------------------------------------------------------------------------
\* Variant: any wallet of the program will do.
owned_by_program(s, w) == w \in wallets

\* next_owned_token_wallet
owned(s, w) == w \in wallets /\ authority[w] = s

\* Variant: any request is written over.
write_state_always(s, state) ==
    /\ data_len[s] >= STATE_SIZE
    /\ request' = [request EXCEPT ![s] = state]
    /\ UNCHANGED data_len

\* Variant: an account need only hold the smallest State.
write_state_short(s, state) ==
    /\ data_len[s] >= 123
    /\ ~(loads(s) /\ request[s].status # "Unitialized")
    /\ request' = [request EXCEPT ![s] = state]
    /\ UNCHANGED data_len

\* The account is long enough, and no State can be read from it but one that
\* is not initialized.
write_state(s, state) ==
    /\ data_len[s] >= STATE_SIZE
    /\ ~(loads(s) /\ request[s].status # "Unitialized")
    /\ request' = [request EXCEPT ![s] = state]
    /\ UNCHANGED data_len

\* Funded requests have funds, and no others.
funds_ok(kind, w) == (kind = "Funded") = (amount[w] # 0)

process_create(s, kind, w, author, destination) ==
    /\ owned(s, w)
    /\ funds_ok(kind, w)
    /\ write_state(s, NewState(kind, w, author, destination))
    /\ UNCHANGED <<holdings, authority, supply>>

\* Variant: the request is still open when it is erased.
declined_late == "Open"

\* What cancel and decline set the status to.
declined == "Declined"

\* A request that is erased is not open.  Without lamports its account is gone.
erase_state(s, status) ==
    /\ status # "Open"
    /\ request' = [request EXCEPT ![s] = Zeroed]
    /\ data_len' = [data_len EXCEPT ![s] = 0]

\* Variant: the wallet is debited by the transfer, and again when it is closed.
pay_and_close_twice(s, w, person) ==
    /\ w \in wallets /\ authority[w] = s
    /\ paid' = [paid EXCEPT ![person] = @ + amount[w]]
    /\ amount' = [amount EXCEPT ![w] = @ - amount[w] - amount[w]]
    /\ wallets' = wallets \ {w}

\* All that the wallet holds is paid, and the wallet closed, signed for by the
\* derived authority of s.
pay_and_close(s, w, person) ==
    /\ w \in wallets /\ authority[w] = s
    /\ paid' = [paid EXCEPT ![person] = @ + amount[w]]
    /\ amount' = [amount EXCEPT ![w] = 0]
    /\ wallets' = wallets \ {w}

\* Signed by the destination.
process_accept(s) ==
    /\ is_open(s) /\ is_funded(s)
    /\ amount[request[s].wallet] # 0
    /\ pay_and_close(s, request[s].wallet, request[s].destination)
    /\ erase_state(s, "Accepted")
    /\ UNCHANGED <<authority, supply>>

\* Signed by the author.
process_cancel(s) ==
    /\ is_open(s) /\ is_funded(s)
    /\ pay_and_close(s, request[s].wallet, request[s].author)
    /\ erase_state(s, declined)
    /\ UNCHANGED <<authority, supply>>

\* Signed by the destination.
process_decline(s) ==
    /\ is_open(s) /\ is_funded(s)
    /\ pay_and_close(s, request[s].wallet, request[s].author)
    /\ erase_state(s, declined)
    /\ UNCHANGED <<authority, supply>>

-----------------------------------------------------------------------------
(* The environment.                                                         *)

\* External: a state account is allocated, full of zeros.
CreateAccount(s, size) ==
    /\ data_len[s] = 0
    /\ data_len' = [data_len EXCEPT ![s] = size]
    /\ UNCHANGED <<request, holdings, authority, supply>>

\* External: a wallet owned by the derived authority of s is opened.
OpenWallet(w, s) ==
    /\ w \notin wallets
    /\ wallets' = wallets \cup {w}
    /\ authority' = [authority EXCEPT ![w] = s]
    /\ UNCHANGED <<accounts, amount, paid, supply>>

\* External: tokens are sent to a wallet, before its request is created or after.
Fund(w, a) ==
    /\ w \in wallets
    /\ a <= supply
    /\ amount' = [amount EXCEPT ![w] = @ + a]
    /\ supply' = supply - a
    /\ UNCHANGED <<accounts, wallets, paid, authority>>

-----------------------------------------------------------------------------
Init ==
    /\ data_len = [s \in States |-> 0]
    /\ request = [s \in States |-> Zeroed]
    /\ wallets = {}
    /\ authority \in [Wallets -> States]
    /\ amount = [w \in Wallets |-> 0]
    /\ paid = [p \in People |-> 0]
    /\ supply = Supply

Next ==
    \/ \E s \in States, w \in Wallets, kind \in Kinds, author, destination \in People :
         process_create(s, kind, w, author, destination)
    \/ \E s \in States : process_accept(s)
    \/ \E s \in States : process_cancel(s)
    \/ \E s \in States : process_decline(s)
    \/ \E s \in States, size \in Sizes : CreateAccount(s, size)
    \/ \E w \in Wallets, s \in States : OpenWallet(w, s)
    \/ \E w \in Wallets, a \in Amounts : Fund(w, a)

Spec == Init /\ [][Next]_vars

\* An author who wants the tokens back sends cancel.
CancelSpec == Spec /\ \A s \in States : WF_vars(process_cancel(s))

-----------------------------------------------------------------------------
(* Properties.                                                              *)

\* Amounts are natural numbers, and a state account says what State can.
TypeOK ==
    /\ data_len \in [States -> Nat]
    /\ request \in [States -> State]
    /\ wallets \subseteq Wallets
    /\ authority \in [Wallets -> States]
    /\ amount \in [Wallets -> Nat]
    /\ paid \in [People -> Nat]
    /\ supply \in Nat

\* An open request has its wallet, with tokens in it, and no other open request
\* has the same one: each of accept, cancel and decline finds what it pays.
RequestsBacked ==
    \A s \in States : is_open(s) =>
        /\ request[s].wallet \in wallets
        /\ amount[request[s].wallet] > 0
        /\ \A t \in States \ {s} : is_open(t) => request[t].wallet # request[s].wallet

\* No request that collects contributions can be loaded by an instruction, which
\* is why contribute and refund have no actions here.
UnfundedNeverLoads ==
    \A s \in States : loads(s) => request[s].kind = "Funded"

\* An open request stays as it is until it ends, and it ends with all that is in
\* its wallet, later gifts included, paid to its destination or its author; no
\* other person and no other wallet is touched in that step.
EndsPaid(s) ==
    LET r == request[s] IN
    is_open(s) =>
        \/ UNCHANGED <<data_len[s], request[s]>>
        \/ /\ request'[s] = Zeroed
           /\ r.wallet \notin wallets'
           /\ amount' = [amount EXCEPT ![r.wallet] = 0]
           /\ \E p \in {r.destination, r.author} :
                paid' = [paid EXCEPT ![p] = @ + amount[r.wallet]]
RequestsEndPaid == [][\A s \in States : EndsPaid(s)]_vars

\* The author gets the tokens of an open request back, unless the destination
\* accepted them first.
AuthorNotStuck == \A s \in States : is_open(s) ~> ~is_open(s)
=============================================================================
