---------------------------- MODULE FanoutProofs ----------------------------
(***************************************************************************)
(* Theorems about Fanout, for all lists of members and all amounts.        *)
(***************************************************************************)
EXTENDS Fanout, ArithmeticTheorems

USE DEF None

-----------------------------------------------------------------------------
(* The split.                                                               *)

\* Places in a list have a last one: the one with the fewest places after it.
LEMMA LastPlace ==
    ASSUME NEW n \in Nat, NEW T \in SUBSET (1 .. n), T # {}
    PROVE  \E i \in T : \A j \in T : j <= i
<1> DEFINE After(i) == {j \in T : j > i}
           Afters == {After(i) : i \in T}
           R == StrictSubsetOrdering(T)
<1>1. IsFiniteSet(T)
  <2>1. IsFiniteSet(1 .. n)
    BY FS_Interval
  <2> QED
    BY <2>1, FS_Subset
<1>2. IsWellFoundedOn(R, SUBSET T)
  BY <1>1, FS_StrictSubsetOrderingWellFounded, FS_FiniteSubsetsOfFinite
<1>3. Afters \subseteq SUBSET T /\ Afters # {}
  OBVIOUS
<1>4. PICK A \in Afters : \A B \in Afters : ~ (<<B, A>> \in R)
  <2> HIDE DEF Afters, R
  <2> QED
    BY <1>2, <1>3, WFMin
<1>5. PICK i \in T : A = After(i)
  OBVIOUS
<1>6. ASSUME NEW j \in T, j > i PROVE FALSE
  <2>1. i \in Int /\ j \in Int /\ \A k \in T : k \in Int
    OBVIOUS
  <2>2. After(j) \subseteq After(i) /\ j \in After(i) /\ j \notin After(j)
    <3>1. \A k \in T : k > j => k > i
      BY <1>6, <2>1
    <3>2. ~ (j > j)
      BY <2>1
    <3> QED
      BY <1>6, <3>1, <3>2
  <2>3. After(j) # After(i) /\ After(j) \in SUBSET T /\ After(i) \in SUBSET T
    BY <2>2
  <2>4. <<After(j), After(i)>> \in R
    <3> HIDE DEF After
    <3> QED
      BY <2>2, <2>3 DEF StrictSubsetOrdering
  <2>5. After(j) \in Afters
    OBVIOUS
  <2> QED
    BY <1>4, <1>5, <2>4, <2>5
<1>7. i \in Int /\ \A k \in T : k \in Int
  OBVIOUS
<1> QED
  BY <1>6, <1>7

\* Every address of a list has a share.
LEMMA ShareOfType ==
    ASSUME NEW ms \in Seq(Member), NEW a \in Listed(ms)
    PROVE  share_of(ms, a) \in Nat
<1> DEFINE places == {i \in DOMAIN ms : ms[i].address = a}
           last == CHOOSE i \in places : \A j \in places : j <= i
<1>1. Len(ms) \in Nat /\ DOMAIN ms = 1 .. Len(ms) /\ \A i \in DOMAIN ms : ms[i] \in Member
  OBVIOUS
<1>2. places \in SUBSET (1 .. Len(ms)) /\ places # {}
  BY <1>1 DEF Listed
<1>3. \E i \in places : \A j \in places : j <= i
  BY <1>1, <1>2, LastPlace
<1>4. last \in places
  BY <1>3
<1>5. ms[last].share \in Shares
  BY <1>1, <1>4 DEF Member
<1> QED
  BY <1>5, ConstantsAssumption DEF share_of

\* A share of an amount is a natural number.
LEMMA ShareAmountType ==
    ASSUME NEW share \in Nat, NEW amount \in Nat
    PROVE  share_amount(share, amount) \in Nat
<1>1. new(share) \in Nat /\ new(amount) \in Nat /\ new(BasisPoints) \in Nat
      /\ new(BasisPoints) # 0
  BY NewNat, ConstantsAssumption
<1>2. checked_mul(new(share), new(amount)) \in Nat
  BY <1>1, CheckedMulNat
<1>3. checked_div(checked_mul(new(share), new(amount)), new(BasisPoints)) \in Nat
  BY <1>1, <1>2, CheckedDivNat
<1> QED
  BY <1>3, ToImpreciseNat DEF share_amount

\* The addresses of a list: at most as many as it has entries.
LEMMA ListedFinite ==
    ASSUME NEW ms \in Seq(Member)
    PROVE  /\ IsFiniteSet(Listed(ms)) /\ Cardinality(Listed(ms)) <= Len(ms)
           /\ Cardinality(Listed(ms)) \in Nat
           /\ Listed(ms) \subseteq Addresses
<1> DEFINE f == [i \in 1 .. Len(ms) |-> ms[i].address]
<1>1. Len(ms) \in Nat /\ DOMAIN ms = 1 .. Len(ms) /\ \A i \in DOMAIN ms : ms[i] \in Member
  OBVIOUS
<1>2. f \in Surjection(1 .. Len(ms), Listed(ms))
  BY <1>1 DEF Surjection, Listed
<1>3. IsFiniteSet(1 .. Len(ms)) /\ Cardinality(1 .. Len(ms)) = Len(ms)
  BY <1>1, FS_Interval
<1>4. IsFiniteSet(Listed(ms)) /\ Cardinality(Listed(ms)) <= Cardinality(1 .. Len(ms))
  BY <1>2, <1>3, FS_Surjection
<1>5. Listed(ms) \subseteq Addresses
  BY <1>1 DEF Listed, Member
<1> QED
  BY <1>3, <1>4, <1>5, FS_CardinalityType

\* The rounded shares, and the difference.
LEMMA RoundedType ==
    ASSUME NEW ms \in Seq(Member), NEW amount \in Nat
    PROVE  /\ rounded(ms, amount) \in [Listed(ms) -> Nat]
           /\ Total(rounded(ms, amount), Listed(ms)) \in Nat
           /\ diff(ms, amount) \in Int
<1>1. \A a \in Listed(ms) : share_amount(share_of(ms, a), amount) \in Nat
  BY ShareOfType, ShareAmountType
<1>2. rounded(ms, amount) \in [Listed(ms) -> Nat]
  BY <1>1 DEF rounded
<1>3. Total(rounded(ms, amount), Listed(ms)) \in Nat
  BY <1>2, ListedFinite, TotalType
<1> QED
  BY <1>2, <1>3 DEF diff

\* A split, where there is one, is of natural numbers that add up to the amount.
LEMMA SplitTotal ==
    ASSUME NEW ms \in Seq(Member), ms # <<>>, NEW amount \in Nat, split_ok(ms, amount)
    PROVE  /\ split(ms, amount) \in [Listed(ms) -> Nat]
           /\ Total(split(ms, amount), Listed(ms)) = amount
<1> DEFINE f == rounded(ms, amount)
           h == split(ms, amount)
           S == Listed(ms)
           x == ms[1].address
           d == diff(ms, amount)
<1>1. f \in [S -> Nat] /\ Total(f, S) \in Nat /\ d \in Int
  BY RoundedType
<1>2. x \in S
  <2>1. 1 \in DOMAIN ms
    OBVIOUS
  <2> QED
    BY <2>1 DEF Listed
<1>3. h = [f EXCEPT ![x] = f[x] + d]
  BY DEF split
<1>4. h[x] >= 0
  BY DEF split_ok
<1>5. d = amount - Total(f, S)
  BY DEF diff
<1>6. IsFiniteSet(S)
  BY ListedFinite
<1> HIDE DEF f, h, S, x, d
<1>7. h[x] = f[x] + d /\ f[x] \in Nat
  BY <1>1, <1>2, <1>3
<1>8. h[x] \in Nat
  BY <1>1, <1>4, <1>7
<1>9. h \in [S -> Nat] /\ \A y \in S \ {x} : h[y] = f[y]
  BY <1>1, <1>2, <1>3, <1>7, <1>8
<1>10. Total(h, S) = Total(f, S) - f[x] + h[x]
  BY <1>1, <1>2, <1>6, <1>9, TotalUpdate
<1>11. Total(h, S) = amount
  BY <1>1, <1>5, <1>7, <1>10
<1> QED
  BY <1>9, <1>11 DEF h, S

-----------------------------------------------------------------------------
\* A distribution pays every listed address, and so all there is.
LEMMA DistributeAll ==
    ASSUME TypeOK, NEW accounts \in SUBSET Addresses, distribute(accounts)
    PROVE  /\ lamports' = 0
           /\ distributed' = distributed + lamports
           /\ paid' \in [Addresses -> Nat]
           /\ members' = members /\ received' = received
<1> DEFINE part == split(members, lamports)
           S == Listed(members)
           sent == [a \in accounts |-> part[a]]
<1>1. members \in Seq(Member) /\ members # <<>> /\ lamports \in Nat /\ distributed \in Nat
      /\ split_ok(members, lamports) /\ paid \in [Addresses -> Nat]
  BY DEF TypeOK, distribute
<1>2. part \in [S -> Nat] /\ Total(part, S) = lamports
  BY <1>1, SplitTotal
<1>3. accounts = S
  <2>1. accounts \in SUBSET S /\ Cardinality(accounts) = Len(members)
    BY DEF distribute, accounts_ok
  <2>2. /\ IsFiniteSet(S) /\ Cardinality(S) <= Len(members) /\ Cardinality(S) \in Nat
        /\ Len(members) \in Nat
    BY <1>1, ListedFinite
  <2>3. Cardinality(accounts) <= Cardinality(S)
    BY <2>1, <2>2, FS_Subset
  <2>4. Cardinality(accounts) = Cardinality(S)
    BY <2>1, <2>2, <2>3
  <2> HIDE DEF S
  <2> QED
    BY <2>1, <2>2, <2>4, FS_Subset
<1>4. /\ lamports' = lamports - Total(sent, accounts)
      /\ distributed' = distributed + Total(sent, accounts)
      /\ paid' = [a \in Addresses |-> IF a \in accounts THEN paid[a] + part[a] ELSE paid[a]]
      /\ members' = members /\ received' = received
  BY DEF distribute
<1> HIDE DEF part, S
<1>5. sent = part
  BY <1>2, <1>3
<1>6. Total(sent, accounts) = lamports
  BY <1>2, <1>3, <1>5
<1>7. \A a \in accounts : part[a] \in Nat
  BY <1>2, <1>3
<1>8. paid' \in [Addresses -> Nat]
  BY <1>1, <1>4, <1>7
<1> QED
  BY <1>1, <1>4, <1>6, <1>8

\* Every step keeps the types.
LEMMA TypeStep == TypeOK /\ [Next]_vars => TypeOK'
<1> SUFFICES ASSUME TypeOK, [Next]_vars PROVE TypeOK'
  OBVIOUS
<1>1. ASSUME initialize PROVE TypeOK'
  <2>0. PICK ms \in MemberLists : members' = ms
    BY <1>1 DEF initialize
  <2>1. PICK n \in 0 .. MaxLen : ms \in [1 .. n -> Member]
    BY DEF MemberLists
  <2>2. n \in Nat
    BY ConstantsAssumption
  <2>3. ms \in Seq(Member)
    BY <2>1, <2>2
  <2> QED
    BY <1>1, <2>0, <2>3 DEF initialize, TypeOK
<1>2. ASSUME NEW accounts \in SUBSET Addresses, distribute(accounts) PROVE TypeOK'
  BY <1>2, DistributeAll DEF TypeOK
<1>3. ASSUME NEW amount \in Receipts, Receive(amount) PROVE TypeOK'
  BY <1>3, ConstantsAssumption DEF Receive, TypeOK
<1>4. CASE UNCHANGED vars
  BY <1>4 DEF vars, TypeOK
<1> QED
  BY <1>1, <1>2, <1>3, <1>4 DEF Next

\* The account is empty to begin with.
LEMMA TypeInit == Init => TypeOK
BY DEF Init, TypeOK

\* Nobody is paid a negative amount, and the account never lacks what it pays.
THEOREM TypeCorrect == Spec => []TypeOK
BY TypeInit, TypeStep, PTL DEF Spec

\* Nothing has been distributed before there are members; initialize, which
\* sets distributed to 0, therefore does not change it.
Fresh == members = <<>> => distributed = 0

\* Only a distribution changes what has been distributed.
LEMMA PaysAllStep ==
    TypeOK /\ Fresh /\ [Next]_vars => Fresh' /\ [PaysAll]_vars
<1> SUFFICES ASSUME TypeOK, Fresh, [Next]_vars PROVE Fresh' /\ [PaysAll]_vars
  OBVIOUS
<1>1. ASSUME initialize PROVE Fresh' /\ PaysAll
  BY <1>1 DEF initialize, Fresh, PaysAll
<1>2. ASSUME NEW accounts \in SUBSET Addresses, distribute(accounts) PROVE Fresh' /\ PaysAll
  <2>1. members # <<>> /\ members' = members /\ lamports' = 0
    BY <1>2, DistributeAll DEF distribute
  <2> QED
    BY <2>1 DEF Fresh, PaysAll
<1>3. ASSUME NEW amount \in Receipts, Receive(amount) PROVE Fresh' /\ PaysAll
  BY <1>3 DEF Receive, Fresh, PaysAll
<1>4. CASE UNCHANGED vars
  BY <1>4 DEF vars, Fresh
<1> QED
  BY <1>1, <1>2, <1>3, <1>4 DEF Next

\* Every distribution pays out all the lamports of the account.
THEOREM NothingStays == Spec => NothingLeft
<1>1. Init => Fresh
  BY DEF Init, Fresh
<1> QED
  BY <1>1, TypeCorrect, PaysAllStep, PTL DEF Spec, NothingLeft

-----------------------------------------------------------------------------
(* Fair parts.  Every rounded share is within half a lamport of the exact   *)
(* one, and the exact ones add up to the amount because the shares add up   *)
(* to the whole; what the first member is given is the rest, so it is off   *)
(* by what the others are off together.                                     *)

\* A list has as many places as it is long.
LEMMA PlacesCount ==
    ASSUME NEW n \in Nat PROVE IsFiniteSet(1 .. n) /\ Cardinality(1 .. n) = n
<1>0. 1 \in Int /\ n \in Int
  OBVIOUS
<1>1. /\ IsFiniteSet(1 .. n)
      /\ Cardinality(1 .. n) = IF 1 > n THEN 0 ELSE n - 1 + 1
  BY <1>0, FS_Interval, Zenon
<1> QED
  BY <1>1

\* Without duplicates the places of a list are its addresses, and the HashMap
\* keeps every share.
LEMMA NoDuplicates ==
    ASSUME NEW ms \in Seq(Member), Cardinality(Listed(ms)) = Len(ms)
    PROVE  /\ [i \in DOMAIN ms |-> ms[i].address] \in Bijection(DOMAIN ms, Listed(ms))
           /\ \A i \in DOMAIN ms : share_of(ms, ms[i].address) = ms[i].share
<1> DEFINE f == [i \in DOMAIN ms |-> ms[i].address]
<1>1. Len(ms) \in Nat /\ DOMAIN ms = 1 .. Len(ms)
  OBVIOUS
<1>2. f \in Surjection(DOMAIN ms, Listed(ms))
  BY DEF Surjection, Listed
<1>3. IsFiniteSet(DOMAIN ms) /\ Cardinality(DOMAIN ms) = Len(ms)
  <2> HIDE DEF f
  <2> QED
    BY <1>1, PlacesCount
<1>4. f \in Injection(DOMAIN ms, Listed(ms))
  <2> HIDE DEF f
  <2> QED
    BY <1>2, <1>3, FS_Surjection
<1>5. \A i, j \in DOMAIN ms : ms[i].address = ms[j].address => i = j
  BY <1>4 DEF Injection, IsInjective
<1>6. ASSUME NEW i \in DOMAIN ms PROVE share_of(ms, ms[i].address) = ms[i].share
  <2> DEFINE places == {j \in DOMAIN ms : ms[j].address = ms[i].address}
             last == CHOOSE j \in places : \A k \in places : k <= j
  <2>1. places = {i} /\ i <= i
    BY <1>1, <1>5
  <2>2. last = i
    BY <2>1
  <2> QED
    BY <2>2 DEF share_of
<1> QED
  BY <1>2, <1>4, <1>6 DEF Bijection

\* The shares of different members are the whole.
LEMMA SharesWhole ==
    ASSUME NEW ms \in Seq(Member), members_valid(ms), Cardinality(Listed(ms)) = Len(ms)
    PROVE  LET h == [a \in Listed(ms) |-> share_of(ms, a)]
           IN  h \in [Listed(ms) -> Nat] /\ Total(h, Listed(ms)) = BasisPoints
<1> DEFINE S == Listed(ms)
           h == [a \in S |-> share_of(ms, a)]
           f == [i \in DOMAIN ms |-> ms[i].address]
<1>1. h \in [S -> Nat] /\ IsFiniteSet(S)
  BY ShareOfType, ListedFinite
<1>2. f \in Bijection(DOMAIN ms, S) /\ \A i \in DOMAIN ms : f[i] \in S
  BY NoDuplicates DEF Listed
<1>3. \A i \in DOMAIN ms : h[f[i]] = ms[i].share
  BY <1>2, NoDuplicates
<1> HIDE DEF S, h, f
<1>4. Total([i \in DOMAIN ms |-> h[f[i]]], DOMAIN ms) = Total(h, S)
  BY <1>1, <1>2, TotalReindex
<1>5. [i \in DOMAIN ms |-> h[f[i]]] = [i \in DOMAIN ms |-> ms[i].share]
  BY <1>3
<1>6. Total([i \in DOMAIN ms |-> ms[i].share], DOMAIN ms) = BasisPoints
  BY DEF members_valid
<1>7. Total(h, S) = BasisPoints
  BY <1>4, <1>5, <1>6
<1> QED
  BY <1>1, <1>7 DEF h, S

\* A rounded share is within half a lamport, provided half a unit of precision
\* is a whole number of them, as it is in spl_math.
LEMMA ShareAmountBounds ==
    ASSUME ONE % 2 = 0, NEW share \in Nat, NEW amount \in Nat
    PROVE  /\ share_amount(share, amount) \in Nat
           /\ (2 * BasisPoints) * share_amount(share, amount)
                <= (2 * amount) * share + BasisPoints
           /\ (2 * amount) * share
                <= (2 * BasisPoints) * share_amount(share, amount) + BasisPoints
BY ConstantsAssumption, AmountThenShare DEF share_amount

\* Any member but the first is given the rounded share.
LEMMA OtherPart ==
    ASSUME ONE % 2 = 0, NEW r \in Nat, NEW b \in Nat, NEW amount \in Nat, r = share_amount(b, amount)
    PROVE  2 * Distance(BasisPoints * r, amount * b) <= BasisPoints
<1> DEFINE P == BasisPoints * r
           Q == amount * b
<1>1. BasisPoints \in Nat
  BY ConstantsAssumption
<1>2. P \in Nat /\ Q \in Nat
  BY <1>1, MulNat
<1>3. (2 * BasisPoints) * r = 2 * P /\ (2 * amount) * b = 2 * Q
  BY <1>1
<1>4. 2 * P <= 2 * Q + BasisPoints /\ 2 * Q <= 2 * P + BasisPoints
  BY <1>3, ShareAmountBounds
<1> HIDE DEF P, Q
<1>5. 2 * Distance(P, Q) <= BasisPoints
  BY <1>1, <1>2, <1>4 DEF Distance
<1> QED
  BY <1>5 DEF P, Q

\* What the first member is off, from what the others are off together.
LEMMA RestDistance ==
    ASSUME NEW B \in Nat, NEW amount \in Nat, NEW F \in Nat, NEW H \in Nat, NEW n \in Nat,
           (2 * B) * F <= (2 * amount) * H + B * n,
           (2 * amount) * H <= (2 * B) * F + B * n
    PROVE  2 * Distance(B * (amount - F), amount * (B - H)) <= B * (n + 1)
<1> DEFINE P == B * F
           Q == amount * H
           M == B * n
           W == B * amount
<1>0. B * (n + 1) = M + B
  OBVIOUS
<1>1. P \in Nat /\ Q \in Nat /\ M \in Nat /\ W \in Nat
  BY MulNat
<1>2. (2 * B) * F = 2 * P /\ (2 * amount) * H = 2 * Q
  OBVIOUS
<1>3. 2 * P <= 2 * Q + M /\ 2 * Q <= 2 * P + M
  BY <1>2
<1>4. B * (amount - F) = W - P /\ amount * (B - H) = W - Q
  OBVIOUS
<1> HIDE DEF P, Q, M, W
<1>5. 2 * Distance(W - P, W - Q) <= M + B
  BY <1>1, <1>3 DEF Distance
<1> QED
  BY <1>0, <1>4, <1>5

\* The first member is given what the others leave.
LEMMA FirstPart ==
    ASSUME ONE % 2 = 0, NEW ms \in Seq(Member), ms # <<>>, members_valid(ms),
           Cardinality(Listed(ms)) = Len(ms), NEW amount \in Nat
    PROVE  2 * Distance(BasisPoints * split(ms, amount)[ms[1].address],
                        amount * share_of(ms, ms[1].address)) <= BasisPoints * Len(ms)
<1> DEFINE S == Listed(ms)
           x == ms[1].address
           R == S \ {x}
           f == rounded(ms, amount)
           h == [a \in S |-> share_of(ms, a)]
           n == Cardinality(R)
<1>1. /\ f \in [S -> Nat] /\ h \in [S -> Nat] /\ IsFiniteSet(S)
      /\ Total(h, S) = BasisPoints /\ BasisPoints \in Nat
  BY RoundedType, SharesWhole, ListedFinite, ConstantsAssumption
<1>2. x \in S
  <2>1. 1 \in DOMAIN ms
    OBVIOUS
  <2> QED
    BY <2>1 DEF Listed
<1>3. split(ms, amount)[x] = f[x] + (amount - Total(f, S))
  BY <1>1, <1>2 DEF split, diff
<1>4. share_of(ms, x) = h[x]
  BY <1>2
<1>5. ASSUME NEW a \in R
      PROVE  /\ (2 * BasisPoints) * f[a] <= (2 * amount) * h[a] + BasisPoints
             /\ (2 * amount) * h[a] <= (2 * BasisPoints) * f[a] + BasisPoints
  <2>1. f[a] = share_amount(h[a], amount) /\ h[a] \in Nat
    BY <1>1 DEF rounded
  <2> HIDE DEF f, h
  <2> QED
    BY <2>1, ShareAmountBounds
<1>6. n + 1 = Len(ms) /\ n \in Nat /\ IsFiniteSet(R)
  <2>1. Cardinality(S) = Len(ms) /\ Len(ms) \in Nat
    OBVIOUS
  <2> HIDE DEF S, x
  <2>2. IsFiniteSet(R) /\ Cardinality(R) = Cardinality(S) - 1
    BY <1>1, <1>2, FS_RemoveElement
  <2>3. Cardinality(R) \in Nat
    BY <2>2, FS_CardinalityType
  <2> QED
    BY <2>1, <2>2, <2>3
<1> HIDE DEF S, f, h, n
<1>7. /\ Total(f, S) = Total(f, R) + f[x] /\ Total(h, S) = Total(h, R) + h[x]
      /\ Total(f, R) \in Nat /\ Total(h, R) \in Nat
  BY <1>1, <1>2, TotalSplit, TotalPart
<1>8. /\ (2 * BasisPoints) * Total(f, R) <= (2 * amount) * Total(h, R) + BasisPoints * n
      /\ (2 * amount) * Total(h, R) <= (2 * BasisPoints) * Total(f, R) + BasisPoints * n
  <2> DEFINE fR == [a \in R |-> f[a]]
             hR == [a \in R |-> h[a]]
  <2>1. fR \in [R -> Nat] /\ hR \in [R -> Nat]
    BY <1>1
  <2>2. Total(fR, R) = Total(f, R) /\ Total(hR, R) = Total(h, R)
    BY DEF Total, Units
  <2>3. \A a \in R : /\ (2 * BasisPoints) * fR[a] <= (2 * amount) * hR[a] + BasisPoints
                     /\ (2 * amount) * hR[a] <= (2 * BasisPoints) * fR[a] + BasisPoints
    BY <1>5
  <2>4. 2 * BasisPoints \in Nat /\ 2 * amount \in Nat
    BY <1>1
  <2> HIDE DEF fR, hR, R
  <2>5. (2 * BasisPoints) * Total(fR, R)
          <= (2 * amount) * Total(hR, R) + BasisPoints * Cardinality(R)
    BY <1>1, <1>6, <2>1, <2>3, <2>4, TotalLinear
  <2>6. (2 * amount) * Total(hR, R)
          <= (2 * BasisPoints) * Total(fR, R) + BasisPoints * Cardinality(R)
    BY <1>1, <1>6, <2>1, <2>3, <2>4, TotalLinear
  <2> QED
    BY <2>2, <2>5, <2>6 DEF n
<1> HIDE DEF R, x
<1>9. split(ms, amount)[x] = amount - Total(f, R) /\ h[x] = BasisPoints - Total(h, R)
  BY <1>1, <1>2, <1>3, <1>7
<1>10. 2 * Distance(BasisPoints * (amount - Total(f, R)), amount * (BasisPoints - Total(h, R)))
         <= BasisPoints * (n + 1)
  BY <1>1, <1>6, <1>7, <1>8, RestDistance
<1>11. 2 * Distance(BasisPoints * split(ms, amount)[x], amount * share_of(ms, x))
         <= BasisPoints * Len(ms)
  BY <1>4, <1>6, <1>9, <1>10
<1> QED
  BY <1>11 DEF x

\* The list was checked when it was stored.
ValidMembers == members = <<>> \/ members_valid(members)

\* Only initialize writes the list.
LEMMA ValidStep == ValidMembers /\ [Next]_vars => ValidMembers'
<1> SUFFICES ASSUME ValidMembers, [Next]_vars PROVE ValidMembers'
  OBVIOUS
<1>1. CASE initialize
  <2>1. PICK ms \in MemberLists : members_valid(ms) /\ members' = ms
    BY <1>1 DEF initialize
  <2> QED
    BY <2>1 DEF ValidMembers
<1>2. CASE members' = members
  BY <1>2 DEF ValidMembers
<1> QED
  BY <1>1, <1>2 DEF Next, distribute, Receive, vars

\* Each member is paid by its share, as near as whole lamports allow, and the
\* member that gets the difference of calculate_split is off by no more than
\* the rounding of the others.  (In spl_math ONE is 10^12, which is even.)
THEOREM PartsStayFair == ASSUME ONE % 2 = 0 PROVE Spec => []FairParts
<1>1. Init => ValidMembers
  BY DEF Init, ValidMembers
<1>2. ASSUME TypeOK, ValidMembers PROVE FairParts
  <2> SUFFICES ASSUME Cardinality(Listed(members)) = Len(members), NEW i \in 1 .. Len(members)
               PROVE  2 * Distance(BasisPoints * split(members, lamports)[members[i].address],
                                   lamports * members[i].share)
                        <= BasisPoints * (IF i = 1 THEN Len(members) ELSE 1)
    BY DEF FairParts
  <2>1. /\ members \in Seq(Member) /\ lamports \in Nat /\ Len(members) \in Nat
        /\ i \in DOMAIN members /\ members # <<>>
    BY <1>2 DEF TypeOK
  <2>2. members_valid(members)
    BY <1>2, <2>1 DEF ValidMembers
  <2>3. share_of(members, members[i].address) = members[i].share
    BY <2>1, NoDuplicates
  <2>4. CASE i = 1
    BY <2>1, <2>2, <2>3, <2>4, FirstPart
  <2>5. CASE i # 1
    <3> DEFINE a == members[i].address
               r == share_amount(members[i].share, lamports)
    <3>1. a # members[1].address /\ a \in Listed(members)
      <4> DEFINE f == [j \in DOMAIN members |-> members[j].address]
      <4>1. f \in Bijection(DOMAIN members, Listed(members))
        BY <2>1, NoDuplicates
      <4>2. 1 \in DOMAIN members
        BY <2>1
      <4>3. f[i] # f[1]
        <5> HIDE DEF f
        <5> QED
          BY <2>1, <2>5, <4>1, <4>2 DEF Bijection, Injection, IsInjective
      <4>4. a \in Listed(members)
        BY <2>1 DEF Listed
      <4> QED
        BY <2>1, <4>2, <4>3, <4>4
    <3>2. split(members, lamports)[a] = r
      BY <2>3, <3>1 DEF split, rounded
    <3>3. members[i].share \in Nat
      <4>1. members[i] \in Member
        BY <2>1
      <4> QED
        BY <4>1, ConstantsAssumption DEF Member
    <3>4. r \in Nat
      BY <2>1, <3>3, ShareAmountType
    <3>5. 2 * Distance(BasisPoints * r, lamports * members[i].share) <= BasisPoints
      BY <2>1, <3>3, <3>4, OtherPart
    <3> HIDE DEF a, r
    <3> QED
      BY <2>5, <3>2, <3>5, ConstantsAssumption DEF a
  <2> QED
    BY <2>4, <2>5
<1> QED
  BY <1>1, <1>2, ValidStep, TypeCorrect, PTL DEF Spec
=============================================================================
