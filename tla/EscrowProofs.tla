---------------------------- MODULE EscrowProofs ----------------------------
(***************************************************************************)
(* Proofs about the escrow program, for all sets of accounts, wallets and  *)
(* people, and all lengths and amounts.                                    *)
(***************************************************************************)
EXTENDS Escrow, TLAPS

-----------------------------------------------------------------------------
(* Types, and the length of what has been written.                          *)

\* A State is only written to an account that is long enough.
Sized == \A s \in States : request[s] = Zeroed \/ data_len[s] >= STATE_SIZE

\* An open request is one with a wallet and people.
Named ==
    \A s \in States : request[s] # Zeroed =>
        /\ request[s].wallet \in Wallets
        /\ request[s].author \in People /\ request[s].destination \in People

SizeInv == TypeOK /\ Sized /\ Named

\* Zero bytes are a State.
LEMMA ZeroedType == Zeroed \in State /\ Zeroed.status = "Unitialized" /\ Zeroed.kind = "Funded"
BY DEF Zeroed, State, RequestStatus, Kinds

\* What create writes is an open State with a wallet and people.
LEMMA NewStateType ==
    ASSUME NEW kind \in Kinds, NEW w \in Wallets, NEW a \in People, NEW d \in People
    PROVE  LET r == NewState(kind, w, a, d) IN
           /\ r \in State /\ r.status = "Open" /\ r.kind = kind
           /\ r.wallet = w /\ r.author = a /\ r.destination = d
BY DEF NewState, State, RequestStatus

\* A request that is open is not erased.
LEMMA OpenNotZeroed ==
    ASSUME NEW s \in States, is_open(s)
    PROVE  request[s] # Zeroed
BY ZeroedType DEF is_open

\* The initial states.
LEMMA SizeInit == Init => SizeInv
<1> SUFFICES ASSUME Init PROVE SizeInv
  OBVIOUS
<1>1. TypeOK
  BY ZeroedType, ConstantsAssumption DEF Init, TypeOK
<1>2. Sized /\ Named
  BY DEF Init, Sized, Named
<1> QED
  BY <1>1, <1>2 DEF SizeInv

\* Ending a request keeps the types.
LEMMA SizeEnd ==
    ASSUME SizeInv, NEW s \in States, is_open(s), NEW person \in People, NEW status,
           pay_and_close(s, request[s].wallet, person), erase_state(s, status),
           UNCHANGED <<authority, supply>>
    PROVE  SizeInv'
<1>1. request[s].wallet \in Wallets
  BY OpenNotZeroed DEF SizeInv, Named
<1>2. TypeOK'
  BY <1>1, ZeroedType DEF SizeInv, TypeOK, pay_and_close, erase_state
<1>3. Sized'
  BY DEF SizeInv, TypeOK, Sized, erase_state
<1>4. Named'
  BY DEF SizeInv, TypeOK, Named, erase_state
<1> QED
  BY <1>2, <1>3, <1>4 DEF SizeInv

\* Every step keeps the types, and writes a State only where it fits.
LEMMA SizeStep == SizeInv /\ [Next]_vars => SizeInv'
<1> SUFFICES ASSUME SizeInv, [Next]_vars PROVE SizeInv'
  OBVIOUS
<1>1. ASSUME NEW s \in States, NEW w \in Wallets, NEW kind \in Kinds,
             NEW author \in People, NEW destination \in People,
             process_create(s, kind, w, author, destination)
      PROVE  SizeInv'
  <2> DEFINE r == NewState(kind, w, author, destination)
  <2>1. /\ r \in State
        /\ r.wallet \in Wallets /\ r.author \in People /\ r.destination \in People
    BY NewStateType
  <2>2. /\ request' = [request EXCEPT ![s] = r]
        /\ data_len[s] >= STATE_SIZE
        /\ UNCHANGED <<data_len, holdings, authority, supply>>
    BY <1>1 DEF process_create, write_state
  <2> HIDE DEF r
  <2>3. TypeOK'
    BY <2>1, <2>2 DEF SizeInv, TypeOK, holdings
  <2>4. Sized' /\ Named'
    BY <2>1, <2>2 DEF SizeInv, TypeOK, Sized, Named
  <2> QED
    BY <2>3, <2>4 DEF SizeInv
<1>2. ASSUME NEW s \in States, process_accept(s) PROVE SizeInv'
  <2>1. request[s].destination \in People
    BY <1>2, OpenNotZeroed DEF process_accept, SizeInv, Named
  <2> QED
    BY <1>2, <2>1, SizeEnd DEF process_accept
<1>3. ASSUME NEW s \in States, process_cancel(s) \/ process_decline(s) PROVE SizeInv'
  <2>1. request[s].author \in People
    BY <1>3, OpenNotZeroed DEF process_cancel, process_decline, SizeInv, Named
  <2> QED
    BY <1>3, <2>1, SizeEnd DEF process_cancel, process_decline
<1>4. ASSUME NEW s \in States, NEW size \in Sizes, CreateAccount(s, size) PROVE SizeInv'
  <2>1. TypeOK'
    BY <1>4, ConstantsAssumption DEF CreateAccount, SizeInv, TypeOK, holdings
  <2>2. Sized' /\ Named'
    BY <1>4, ConstantsAssumption DEF CreateAccount, SizeInv, TypeOK, Sized, Named, STATE_SIZE
  <2> QED
    BY <2>1, <2>2 DEF SizeInv
<1>5. ASSUME NEW w \in Wallets, NEW s \in States, OpenWallet(w, s) PROVE SizeInv'
  BY <1>5 DEF OpenWallet, SizeInv, TypeOK, Sized, Named, accounts
<1>6. ASSUME NEW w \in Wallets, NEW a \in Amounts, Fund(w, a) PROVE SizeInv'
  BY <1>6, ConstantsAssumption DEF Fund, SizeInv, TypeOK, Sized, Named, accounts
<1>7. CASE UNCHANGED vars
  BY <1>7 DEF vars, SizeInv, TypeOK, Sized, Named, accounts, holdings
<1> QED
  BY <1>1, <1>2, <1>3, <1>4, <1>5, <1>6, <1>7 DEF Next

\* The types hold always, with the lengths.
LEMMA SizeAlways == Spec => []SizeInv
BY SizeInit, SizeStep, PTL DEF Spec

\* No amount of the escrow program goes below zero, and a state account says
\* what a State can.
THEOREM TypeCorrect == Spec => []TypeOK
<1>1. SizeInv => TypeOK
  BY DEF SizeInv
<1> QED
  BY <1>1, SizeAlways, PTL

\* The lengths and types say which requests load.
LEMMA SizeLoads == SizeInv => UnfundedNeverLoads
<1> SUFFICES ASSUME SizeInv, NEW s \in States, loads(s), request[s].kind # "Funded"
             PROVE  FALSE
  BY DEF UnfundedNeverLoads
<1>1. request[s].kind \in {"Unfunded", "UnfundedUntil"}
  BY DEF SizeInv, TypeOK, State, Kinds
<1>2. serialized_len(request[s]) \in {123, 131}
  BY <1>1 DEF serialized_len
<1>3. data_len[s] >= 138
  BY ZeroedType DEF SizeInv, Sized, STATE_SIZE
<1> QED
  BY <1>2, <1>3 DEF loads

\* A request that collects contributions is shorter than its account, and is
\* never loaded.
THEOREM UnfundedUnreachable == Spec => []UnfundedNeverLoads
BY SizeLoads, SizeAlways, PTL

-----------------------------------------------------------------------------
(* The wallets of open requests.  That two requests do not share one is not *)
(* inductive; that the wallet is owned by the request's own authority is.   *)

OwnWallets ==
    \A s \in States : is_open(s) =>
        /\ request[s].wallet \in wallets
        /\ authority[request[s].wallet] = s
        /\ amount[request[s].wallet] > 0

BackedInv == SizeInv /\ UnfundedNeverLoads /\ OwnWallets

\* A request that does not change, with its wallet, stays as it was.
LEMMA WalletKept ==
    ASSUME NEW s \in States, OwnWallets,
           data_len'[s] = data_len[s], request'[s] = request[s],
           is_open(s) => /\ request[s].wallet \in wallets'
                         /\ authority'[request[s].wallet] = authority[request[s].wallet]
                         /\ amount'[request[s].wallet] >= amount[request[s].wallet],
           \A w \in Wallets : amount[w] \in Nat /\ amount'[w] \in Nat,
           is_open(s) => request[s].wallet \in Wallets
    PROVE  is_open(s)' => /\ request'[s].wallet \in wallets'
                          /\ authority'[request'[s].wallet] = s
                          /\ amount'[request'[s].wallet] > 0
<1> SUFFICES ASSUME is_open(s)'
             PROVE  /\ request[s].wallet \in wallets'
                    /\ authority'[request[s].wallet] = s
                    /\ amount'[request[s].wallet] > 0
  OBVIOUS
<1>1. is_open(s)
  BY DEF is_open, loads, serialized_len
<1> QED
  BY <1>1 DEF OwnWallets

\* Ending a request leaves the other ones their wallets.
LEMMA OwnEnd ==
    ASSUME BackedInv, TypeOK', NEW s \in States, is_open(s), NEW person, NEW status,
           pay_and_close(s, request[s].wallet, person), erase_state(s, status),
           UNCHANGED <<authority, supply>>
    PROVE  OwnWallets'
<1> DEFINE Own(t) == /\ request'[t].wallet \in wallets'
                     /\ authority'[request'[t].wallet] = t
                     /\ amount'[request'[t].wallet] > 0
<1>1. ASSUME NEW t \in States, t # s PROVE is_open(t)' => Own(t)
  <2>1. data_len'[t] = data_len[t] /\ request'[t] = request[t]
    BY <1>1 DEF erase_state, BackedInv, SizeInv, TypeOK
  <2>2. is_open(t) => request[t].wallet # request[s].wallet
    BY <1>1 DEF BackedInv, OwnWallets
  <2>3. is_open(t) => request[t].wallet \in wallets /\ request[t].wallet \in Wallets
    BY DEF BackedInv, OwnWallets, SizeInv, TypeOK
  <2>4. is_open(t) => /\ request[t].wallet \in wallets'
                      /\ authority'[request[t].wallet] = authority[request[t].wallet]
                      /\ amount'[request[t].wallet] >= amount[request[t].wallet]
    BY <2>2, <2>3 DEF pay_and_close, BackedInv, SizeInv, TypeOK
  <2>5. \A w \in Wallets : amount[w] \in Nat /\ amount'[w] \in Nat
    BY DEF BackedInv, SizeInv, TypeOK
  <2> QED
    BY <2>1, <2>3, <2>4, <2>5, WalletKept DEF BackedInv
<1>2. ~is_open(s)'
  <2>1. request'[s] = Zeroed
    BY DEF erase_state, BackedInv, SizeInv, TypeOK
  <2> QED
    BY <2>1, ZeroedType DEF is_open
<1> QED
  BY <1>1, <1>2 DEF OwnWallets

\* Creating a request gives it a wallet of its own, with tokens.
LEMMA OwnCreate ==
    ASSUME BackedInv, SizeInv', UnfundedNeverLoads',
           NEW s \in States, NEW w \in Wallets, NEW kind \in Kinds,
           NEW author \in People, NEW destination \in People,
           process_create(s, kind, w, author, destination)
    PROVE  OwnWallets'
<1> DEFINE r == NewState(kind, w, author, destination)
<1>1. r.kind = kind /\ r.wallet = w
  BY NewStateType
<1>2. /\ request' = [request EXCEPT ![s] = r]
      /\ owned(s, w) /\ funds_ok(kind, w)
      /\ UNCHANGED <<data_len, wallets, amount, authority>>
  BY DEF process_create, write_state, holdings
<1> HIDE DEF r
<1>3. request'[s] = r
  BY <1>2 DEF BackedInv, SizeInv, TypeOK
<1>4. is_open(s)' => kind = "Funded"
  BY <1>1, <1>3 DEF UnfundedNeverLoads, is_open
<1>5. kind = "Funded" => amount[w] > 0
  BY <1>2 DEF funds_ok, BackedInv, SizeInv, TypeOK
<1>6. is_open(s)' => /\ request'[s].wallet \in wallets'
                     /\ authority'[request'[s].wallet] = s
                     /\ amount'[request'[s].wallet] > 0
  BY <1>1, <1>2, <1>3, <1>4, <1>5 DEF owned
<1>7. ASSUME NEW t \in States, t # s
      PROVE  is_open(t)' => /\ request'[t].wallet \in wallets'
                            /\ authority'[request'[t].wallet] = t
                            /\ amount'[request'[t].wallet] > 0
  <2>1. request'[t] = request[t] /\ data_len'[t] = data_len[t]
    BY <1>2, <1>7 DEF BackedInv, SizeInv, TypeOK
  <2>2. is_open(t)' => is_open(t)
    BY <2>1 DEF is_open, loads, serialized_len
  <2> QED
    BY <1>2, <2>1, <2>2 DEF BackedInv, OwnWallets
<1> QED
  BY <1>6, <1>7 DEF OwnWallets

\* Every step leaves every open request its own wallet, with tokens.
LEMMA BackedStep == BackedInv /\ [Next]_vars => BackedInv'
<1> SUFFICES ASSUME BackedInv, [Next]_vars PROVE BackedInv'
  OBVIOUS
<1>1. SizeInv'
  BY SizeStep DEF BackedInv
<1>2. UnfundedNeverLoads'
  <2>1. SizeInv' => UnfundedNeverLoads'
    BY SizeLoads, PTL
  <2> QED
    BY <1>1, <2>1
<1>3. TypeOK /\ TypeOK'
  BY <1>1 DEF BackedInv, SizeInv
<1>4. \A w \in Wallets : amount[w] \in Nat /\ amount'[w] \in Nat
  BY <1>3 DEF TypeOK
<1>5. \A s \in States : is_open(s) => request[s].wallet \in wallets /\ request[s].wallet \in Wallets
  BY <1>3 DEF BackedInv, OwnWallets, TypeOK
<1>6. OwnWallets'
  <2>1. ASSUME NEW s \in States, NEW w \in Wallets, NEW kind \in Kinds,
               NEW author \in People, NEW destination \in People,
               process_create(s, kind, w, author, destination)
        PROVE  OwnWallets'
    BY <1>1, <1>2, <2>1, OwnCreate
  <2>2. ASSUME NEW s \in States, process_accept(s) PROVE OwnWallets'
    BY <1>3, <2>2, OwnEnd DEF process_accept
  <2>3. ASSUME NEW s \in States, process_cancel(s) \/ process_decline(s) PROVE OwnWallets'
    BY <1>3, <2>3, OwnEnd DEF process_cancel, process_decline
  <2>4. ASSUME NEW s \in States, NEW size \in Sizes, CreateAccount(s, size) PROVE OwnWallets'
    <3>1. request[s] = Zeroed
      BY <1>3, <2>4 DEF CreateAccount, BackedInv, SizeInv, Sized, STATE_SIZE, TypeOK
    <3>2. ~is_open(s)'
      BY <2>4, <3>1, ZeroedType DEF CreateAccount, is_open
    <3>3. ASSUME NEW t \in States, t # s PROVE is_open(t)' => is_open(t)
      BY <1>3, <2>4, <3>3 DEF CreateAccount, is_open, loads, serialized_len, TypeOK
    <3> QED
      BY <2>4, <3>2, <3>3 DEF CreateAccount, holdings, BackedInv, OwnWallets
  <2>5. ASSUME NEW w \in Wallets, NEW s \in States, OpenWallet(w, s) PROVE OwnWallets'
    <3>1. \A t \in States : is_open(t)' => is_open(t)
      BY <2>5 DEF OpenWallet, accounts, is_open, loads, serialized_len
    <3> QED
      BY <1>3, <1>5, <2>5, <3>1 DEF OpenWallet, accounts, BackedInv, OwnWallets, TypeOK
  <2>6. ASSUME NEW w \in Wallets, NEW a \in Amounts, Fund(w, a) PROVE OwnWallets'
    <3>1. \A t \in States : is_open(t)' => is_open(t)
      BY <2>6 DEF Fund, accounts, is_open, loads, serialized_len
    <3>2. \A v \in Wallets : amount'[v] >= amount[v]
      BY <1>3, <2>6, ConstantsAssumption DEF Fund, TypeOK
    <3>3. wallets' = wallets /\ authority' = authority /\ request' = request
      BY <2>6 DEF Fund, accounts
    <3> QED
      BY <1>4, <1>5, <3>1, <3>2, <3>3 DEF BackedInv, OwnWallets
  <2>7. CASE UNCHANGED vars
    BY <2>7 DEF vars, accounts, holdings, BackedInv, OwnWallets, is_open, loads, serialized_len
  <2> QED
    BY <2>1, <2>2, <2>3, <2>4, <2>5, <2>6, <2>7 DEF Next
<1> QED
  BY <1>1, <1>2, <1>6 DEF BackedInv

\* No request is open to begin with.
LEMMA BackedInit == Init => BackedInv
<1> SUFFICES ASSUME Init PROVE BackedInv
  OBVIOUS
<1>1. SizeInv /\ UnfundedNeverLoads
  BY SizeInit, SizeLoads
<1>2. OwnWallets
  BY ZeroedType DEF Init, OwnWallets, is_open
<1> QED
  BY <1>1, <1>2 DEF BackedInv

\* An open request has tokens in a wallet that no other open request has.
THEOREM AlwaysBacked == Spec => []RequestsBacked
<1>1. BackedInv => RequestsBacked
  BY DEF BackedInv, OwnWallets, RequestsBacked
<1> QED
  BY <1>1, BackedInit, BackedStep, PTL DEF Spec

-----------------------------------------------------------------------------
(* How requests end.                                                        *)

\* A step that ends request t ends it paid, and leaves every other one as it is.
LEMMA EndPays ==
    ASSUME TypeOK, NEW s \in States, NEW t \in States, NEW status,
           NEW person \in {request[t].destination, request[t].author},
           pay_and_close(t, request[t].wallet, person), erase_state(t, status)
    PROVE  EndsPaid(s)
<1>1. CASE s # t
  <2>1. UNCHANGED <<data_len[s], request[s]>>
    BY <1>1 DEF erase_state, TypeOK
  <2> QED
    BY <2>1 DEF EndsPaid
<1>2. CASE s = t
  <2>1. request'[s] = Zeroed
    BY <1>2 DEF erase_state, TypeOK
  <2>2. /\ request[s].wallet \notin wallets'
        /\ amount' = [amount EXCEPT ![request[s].wallet] = 0]
        /\ paid' = [paid EXCEPT ![person] = @ + amount[request[s].wallet]]
    BY <1>2 DEF pay_and_close
  <2> QED
    BY <1>2, <2>1, <2>2 DEF EndsPaid
<1> QED
  BY <1>1, <1>2

\* Every step leaves an open request as it is, or ends it paid.
LEMMA StepEndsPaid == BackedInv /\ [Next]_vars => \A s \in States : EndsPaid(s)
<1> SUFFICES ASSUME BackedInv, [Next]_vars, NEW s \in States PROVE EndsPaid(s)
  OBVIOUS
<1>1. TypeOK
  BY DEF BackedInv, SizeInv
<1>2. ASSUME NEW t \in States, NEW w \in Wallets, NEW kind \in Kinds,
             NEW author \in People, NEW destination \in People,
             process_create(t, kind, w, author, destination)
      PROVE  EndsPaid(s)
  <2>1. is_open(s) => s # t
    BY <1>2 DEF process_create, write_state, is_open
  <2>2. is_open(s) => UNCHANGED <<data_len[s], request[s]>>
    BY <1>1, <1>2, <2>1 DEF process_create, write_state, TypeOK
  <2> QED
    BY <2>2 DEF EndsPaid
<1>3. ASSUME NEW t \in States, process_accept(t) PROVE EndsPaid(s)
  BY <1>1, <1>3, EndPays DEF process_accept
<1>4. ASSUME NEW t \in States, process_cancel(t) \/ process_decline(t) PROVE EndsPaid(s)
  BY <1>1, <1>4, EndPays DEF process_cancel, process_decline
<1>5. ASSUME NEW t \in States, NEW size \in Sizes, CreateAccount(t, size) PROVE EndsPaid(s)
  <2>1. is_open(s) => data_len[s] # 0
    <3>1. is_open(s) => request[s] # Zeroed
      BY OpenNotZeroed
    <3> QED
      BY <1>1, <3>1 DEF BackedInv, SizeInv, Sized, STATE_SIZE, TypeOK
  <2>2. is_open(s) => UNCHANGED <<data_len[s], request[s]>>
    BY <1>1, <1>5, <2>1 DEF CreateAccount, TypeOK
  <2> QED
    BY <2>2 DEF EndsPaid
<1>6. ASSUME UNCHANGED accounts PROVE EndsPaid(s)
  BY <1>6 DEF accounts, EndsPaid
<1> QED
  BY <1>2, <1>3, <1>4, <1>5, <1>6 DEF Next, vars, OpenWallet, Fund

\* An open request ends only with its whole wallet paid to its destination or its
\* author, by accept, cancel or decline, whatever else is sent meanwhile.
THEOREM AlwaysEndPaid == Spec => RequestsEndPaid
BY BackedInit, BackedStep, StepEndsPaid, PTL DEF Spec, RequestsEndPaid
=============================================================================
