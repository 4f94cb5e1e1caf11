---------------------------- MODULE BillingProofs ----------------------------
(* What Billing guarantees for every number of users, requests, payments   *)
(* and connections, every price and every number of repeated webhooks.     *)
EXTENDS Billing, TotalsProofs

USE DEF Open, Phase

LEMMA EventParts ==
    ASSUME NEW e \in Event
    PROVE  e[1] \in Payment /\ e[2] \in Kind(e[1]) /\ e = <<e[1], e[2]>>
  BY DEF Event

LEMMA EventOf ==
    ASSUME NEW p \in Payment, NEW k \in Kind(p)
    PROVE  <<p, k>> \in Event
  BY DEF Event

(* Every variable keeps its type; in particular the stored cost of a task  *)
(* stays in the range of prices and no task is refunded more often than    *)
(* the bound says.                                                         *)
THEOREM BillingTypeCorrect == Spec => []TypeOK
<1>1. Init => TypeOK
  BY BillingAssumption DEF Init, TypeOK
<1>2. TypeOK /\ [Next]_vars => TypeOK'
  <2> SUFFICES ASSUME TypeOK, [Next]_vars PROVE TypeOK'
    OBVIOUS
  <2> USE BillingAssumption DEF TypeOK, requestVars, paymentVars
  <2>1. ASSUME NEW r \in Request, Authenticate(r) PROVE TypeOK'
    BY <2>1 DEF Authenticate, MoveTo
  <2>2. ASSUME NEW r \in Request, Admit(r) PROVE TypeOK'
    BY <2>2 DEF Admit, MoveTo, Close
  <2>3. ASSUME NEW r \in Request, Charge(r) PROVE TypeOK'
    BY <2>3 DEF Charge, MoveTo
  <2>4. ASSUME NEW r \in Request, CommitCharge(r) PROVE TypeOK'
    BY <2>4 DEF CommitCharge, MoveTo, Close
  <2>5. ASSUME NEW r \in Request, Rollback(r) PROVE TypeOK'
    BY <2>5 DEF Rollback, MoveTo, Close
  <2>6. ASSUME NEW r \in Request, RefundBalance(r) PROVE TypeOK'
    BY <2>6 DEF RefundBalance, UpdateBalance
  <2>7. ASSUME NEW p \in Payment, Pay(p) PROVE TypeOK'
    BY <2>7 DEF Pay
  <2>8. ASSUME NEW e \in Event, Repeat(e) PROVE TypeOK'
    BY <2>8 DEF Repeat
  <2>9. ASSUME NEW e \in Event, HandleEvent(e) PROVE TypeOK'
    BY <2>9, EventParts DEF HandleEvent, TopUp, UpdateBalance
  <2>10. CASE SetPrice
    BY <2>10 DEF SetPrice
  <2>11. CASE UNCHANGED vars
    BY <2>11 DEF vars
  <2> QED
    BY <2>1, <2>2, <2>3, <2>4, <2>5, <2>6, <2>7, <2>8, <2>9, <2>10, <2>11 DEF Next
<1> QED
  BY <1>1, <1>2, PTL DEF Spec

-----------------------------------------------------------------------------
(* Credits                                                                 *)

CreditInv ==
    /\ CreditedPerDelivery
    /\ \A e \in Event : event[e] = "none" => repeats[e] = 0

LEMMA CreditInvHolds == Spec => []CreditInv
<1>1. Init => CreditInv
  BY EventOf DEF Init, CreditInv, CreditedPerDelivery, Handled, Kind
<1>2. TypeOK /\ CreditInv /\ [Next]_vars => CreditInv'
  <2> SUFFICES ASSUME TypeOK, CreditInv, [Next]_vars PROVE CreditInv'
    OBVIOUS
  <2> DEFINE Crediting(p) == <<p, IF p \in Direct THEN "payment" ELSE "checkout">>
  <2>a. \A p \in Payment : Crediting(p) \in Event
    BY EventOf DEF Kind
  <2> USE DEF CreditInv, CreditedPerDelivery, Handled
  <2>1. CASE UNCHANGED paymentVars
    BY <2>1 DEF paymentVars
  <2>2. ASSUME NEW p \in Payment, Pay(p) PROVE CreditInv'
    BY <2>2, <2>a, EventParts DEF Pay, TypeOK, Kind
  <2>3. ASSUME NEW e \in Event, Repeat(e) PROVE CreditInv'
    BY <2>3, <2>a DEF Repeat, TypeOK
  <2>4. ASSUME NEW e \in Event, HandleEvent(e) PROVE CreditInv'
    <3>1. \A p \in Payment : Credited(Crediting(p))
      BY DEF Credited
    <3>2. Credited(e) => e = Crediting(e[1])
      BY EventParts DEF Credited, Kind
    <3>3. e[1] \in Payment
      BY EventParts
    <3> QED
      BY <2>4, <2>a, <3>1, <3>2, <3>3 DEF HandleEvent, TopUp, TypeOK
  <2> QED
    BY <2>1, <2>2, <2>3, <2>4 DEF Next, vars, Authenticate, Admit, Charge, CommitCharge,
       Rollback, RefundBalance, SetPrice
<1> QED
  BY <1>1, <1>2, BillingTypeCorrect, PTL DEF Spec

(* However deliveries repeat and interleave, a payment is credited exactly *)
(* once per handled delivery of one of its events (stripe_service credits  *)
(* the session, never the intent of the same checkout).                    *)
THEOREM CreditedPerDeliveryHolds == Spec => []CreditedPerDelivery
<1>1. CreditInv => CreditedPerDelivery
  BY DEF CreditInv
<1> QED
  BY <1>1, CreditInvHolds, PTL

-----------------------------------------------------------------------------
(* Overdrafts                                                              *)

(* What request r may still charge: one element per token it saw.          *)
Claim(r) == {r} \X {i \in 1..MaxPrice : i <= seen[r]}
Owed(u) == UNION {Claim(r) : r \in InFlightOf(u)}

(* The balance of u, and the credit line of the bound, cover all of it.    *)
Covered(u) == balance[u] + (PoolSize - 1) * MaxPrice >= Cardinality(Owed(u))

(* The inductive strengthening of OverdraftBounded: connections are        *)
(* limited, a request charges no more than it saw, and the row lock keeps  *)
(* `after' up to date.                                                     *)
BillingInv ==
    /\ Cardinality(InFlight) <= PoolSize
    /\ \A r \in Request : phase[r] \in {"admitted", "charging"} => cost[r] <= seen[r]
    /\ \A r \in Request :
          phase[r] = "charging" => after[r] = balance[Owner[r]] - cost[r]
    /\ \A r, q \in Request :
          phase[r] = "charging" /\ phase[q] = "charging" /\ Owner[r] = Owner[q] => r = q
    /\ \A u \in User : Covered(u)

LEMMA Column ==
    ASSUME NEW x, NEW n \in Nat
    PROVE  IsFiniteSet({x} \X (1..n)) /\ Cardinality({x} \X (1..n)) = n
<1>1. IsFiniteSet(1..n) /\ Cardinality(1..n) = n
  BY FS_Interval
<1>2. IsFiniteSet({x}) /\ Cardinality({x}) = 1
  BY FS_Singleton
<1>3. /\ IsFiniteSet({x} \X (1..n))
      /\ Cardinality({x} \X (1..n)) = Cardinality({x}) * Cardinality(1..n)
  BY <1>1, <1>2, FS_Product
<1> QED
  BY <1>1, <1>2, <1>3

LEMMA UnionBound ==
    ASSUME NEW S, IsFiniteSet(S), NEW T, IsFiniteSet(T)
    PROVE  /\ IsFiniteSet(S \cup T)
           /\ Cardinality(S \cup T) <= Cardinality(S) + Cardinality(T)
<1>1. IsFiniteSet(S \cap T)
  BY FS_Intersection
<1>2. Cardinality(S \cap T) \in Nat
  BY <1>1, FS_CardinalityType
<1>3. Cardinality(S) \in Nat /\ Cardinality(T) \in Nat
  BY FS_CardinalityType
<1>4. /\ IsFiniteSet(S \cup T)
      /\ Cardinality(S \cup T) = Cardinality(S) + Cardinality(T) - Cardinality(S \cap T)
  BY FS_Union
<1> QED
  BY <1>2, <1>3, <1>4

LEMMA Without ==
    ASSUME NEW S, IsFiniteSet(S), NEW T, T \subseteq S
    PROVE  /\ IsFiniteSet(S \ T)
           /\ Cardinality(S \ T) = Cardinality(S) - Cardinality(T)
<1>1. S \cap T = T
  OBVIOUS
<1> QED
  BY <1>1, FS_Difference

LEMMA FiniteOwed ==
    ASSUME NEW u
    PROVE  /\ Owed(u) \subseteq InFlight \X (1..MaxPrice)
           /\ InFlight \subseteq Request
           /\ IsFiniteSet(InFlight) /\ Cardinality(InFlight) \in Nat
           /\ IsFiniteSet(InFlight \X (1..MaxPrice))
           /\ Cardinality(InFlight \X (1..MaxPrice)) = Cardinality(InFlight) * MaxPrice
           /\ IsFiniteSet(Owed(u)) /\ Cardinality(Owed(u)) \in Nat
<1>1. Owed(u) \subseteq InFlight \X (1..MaxPrice)
  BY DEF Owed, Claim, InFlightOf
<1>2. IsFiniteSet(InFlight) /\ InFlight \subseteq Request
  BY FS_Subset, BillingAssumption DEF InFlight
<1>3. IsFiniteSet(1..MaxPrice) /\ Cardinality(1..MaxPrice) = MaxPrice
  BY FS_Interval, BillingAssumption
<1>4. /\ IsFiniteSet(InFlight \X (1..MaxPrice))
      /\ Cardinality(InFlight \X (1..MaxPrice)) = Cardinality(InFlight) * MaxPrice
  BY <1>2, <1>3, FS_Product
<1>5. IsFiniteSet(Owed(u))
  BY <1>1, <1>4, FS_Subset
<1> QED
  BY <1>1, <1>2, <1>4, <1>5, FS_CardinalityType

(* A balance that does not fall, and requests that claim no more.          *)
LEMMA StillCovered ==
    ASSUME TypeOK, TypeOK', NEW u \in User, Covered(u),
           balance'[u] >= balance[u], Owed(u)' \subseteq Owed(u)
    PROVE  Covered(u)'
<1>1. IsFiniteSet(Owed(u)') /\ Cardinality(Owed(u)') <= Cardinality(Owed(u))
  BY FiniteOwed, FS_Subset
<1>2. Cardinality(Owed(u)) \in Nat /\ Cardinality(Owed(u)') \in Nat
  BY <1>1, FiniteOwed, FS_CardinalityType
<1>3. (PoolSize - 1) * MaxPrice \in Int /\ balance[u] \in Int /\ balance'[u] \in Int
  BY BillingAssumption DEF TypeOK
<1> QED
  BY <1>1, <1>2, <1>3 DEF Covered

(* A new request claims what it sees, while at most PoolSize - 1 others    *)
(* claim the highest price.                                                *)
LEMMA AuthenticateCovered ==
    ASSUME TypeOK, TypeOK', BillingInv, NEW r \in Request, Authenticate(r)
    PROVE  Covered(Owner[r])'
<1> DEFINE u == Owner[r]
<1> DEFINE S == InFlight \X (1..MaxPrice)
<1> DEFINE T == {r} \X (1..balance[u])
<1> USE BillingAssumption
<1>1. u \in User /\ balance[u] \in Int /\ balance' = balance
  BY DEF TypeOK, Authenticate
<1>2. Owed(u)' \subseteq Owed(u) \cup T
  BY DEF Owed, Claim, InFlightOf, InFlight, Authenticate, MoveTo, TypeOK
<1>3. CASE balance[u] < 0
  <2>1. T = {}
    BY <1>1, <1>3
  <2> QED
    BY <1>1, <1>2, <2>1, StillCovered DEF BillingInv
<1>4. CASE balance[u] >= 0
  <2>1. IsFiniteSet(T) /\ Cardinality(T) = balance[u]
    <3>1. balance[u] \in Nat
      BY <1>1, <1>4
    <3> QED
      BY <3>1, Column
  <2>2. IsFiniteSet(S) /\ Cardinality(S) = Cardinality(InFlight) * MaxPrice
    BY FiniteOwed
  <2>3. Owed(u)' \subseteq S \cup T
    BY <1>2, FiniteOwed
  <2>4. /\ IsFiniteSet(S \cup T)
        /\ Cardinality(S \cup T) <= Cardinality(S) + Cardinality(T)
    BY <2>1, <2>2, UnionBound
  <2>5. /\ Cardinality(Owed(u)') \in Nat
        /\ Cardinality(Owed(u)') <= Cardinality(S) + Cardinality(T)
    BY <2>1, <2>2, <2>3, <2>4, FS_Subset, FS_CardinalityType
  <2>6. Cardinality(InFlight) * MaxPrice <= (PoolSize - 1) * MaxPrice
    <3>1. /\ Cardinality(InFlight) \in Nat
          /\ Cardinality(InFlight) <= PoolSize - 1
      BY FiniteOwed DEF Authenticate
    <3>2. ASSUME NEW a \in Nat, NEW b \in Nat, NEW c \in Nat, a <= b PROVE a * c <= b * c
      BY <3>2
    <3> QED
      BY <3>1, <3>2
  <2>7. Cardinality(InFlight) * MaxPrice \in Int /\ (PoolSize - 1) * MaxPrice \in Int
    BY FiniteOwed
  <2> HIDE DEF S, T
  <2> QED
    BY <1>1, <2>1, <2>2, <2>5, <2>6, <2>7 DEF Covered
<1> QED
  BY <1>1, <1>3, <1>4

(* A charge is taken from the claim of its own request.                    *)
LEMMA CommitChargeCovered ==
    ASSUME TypeOK, TypeOK', BillingInv, NEW r \in Request, CommitCharge(r)
    PROVE  Covered(Owner[r])'
<1> DEFINE u == Owner[r]
<1> DEFINE T == {r} \X (1..cost[r])
<1> USE BillingAssumption
<1>1. u \in User /\ balance[u] \in Int /\ cost[r] \in 0..MaxPrice
  BY DEF TypeOK
<1>2. balance'[u] = balance[u] - cost[r]
  BY <1>1 DEF CommitCharge, BillingInv, TypeOK
<1>3. T \subseteq Owed(u)
  <2>1. T \subseteq Claim(r)
    BY <1>1 DEF Claim, CommitCharge, BillingInv, TypeOK
  <2>2. r \in InFlightOf(u)
    BY DEF InFlightOf, InFlight, CommitCharge
  <2> QED
    BY <2>1, <2>2 DEF Owed
<1>4. Owed(u)' \subseteq Owed(u) \ T
  BY DEF Owed, Claim, InFlightOf, InFlight, CommitCharge, Close, MoveTo, TypeOK
<1>5. Cardinality(T) = cost[r]
  <2>1. cost[r] \in Nat
    BY <1>1
  <2> QED
    BY <2>1, Column
<1>6. /\ IsFiniteSet(Owed(u) \ T)
      /\ Cardinality(Owed(u) \ T) = Cardinality(Owed(u)) - cost[r]
  <2> HIDE DEF T
  <2> QED
    BY <1>3, <1>5, FiniteOwed, Without
<1>7. /\ Cardinality(Owed(u)') \in Nat
      /\ Cardinality(Owed(u)') <= Cardinality(Owed(u)) - cost[r]
  BY <1>4, <1>6, FS_Subset, FS_CardinalityType
<1>8. (PoolSize - 1) * MaxPrice \in Int /\ Cardinality(Owed(u)) \in Nat
  BY FiniteOwed
<1>9. Covered(u)
  BY <1>1 DEF BillingInv
<1> QED
  BY <1>1, <1>2, <1>7, <1>8, <1>9 DEF Covered

(* What an action does that opens no request: fewer requests are open, and *)
(* each claims at most what it claimed.                                    *)
LEMMA NoNewClaims ==
    ASSUME TypeOK, TypeOK', BillingInv,
           \A r \in Request :
              phase'[r] \in Open => phase[r] \in Open /\ seen'[r] = seen[r]
    PROVE  /\ Cardinality(InFlight') <= PoolSize
           /\ \A u \in User : balance'[u] >= balance[u] => Covered(u)'
<1>1. InFlight' \subseteq InFlight
  BY DEF InFlight
<1>2. Cardinality(InFlight') <= PoolSize
  <2>1. /\ IsFiniteSet(InFlight) /\ Cardinality(InFlight) \in Nat
        /\ Cardinality(InFlight) <= PoolSize
    BY FiniteOwed DEF BillingInv
  <2>2. /\ IsFiniteSet(InFlight') /\ Cardinality(InFlight') <= Cardinality(InFlight)
    BY <1>1, <2>1, FS_Subset
  <2>3. Cardinality(InFlight') \in Nat
    BY <2>2, FS_CardinalityType
  <2> QED
    BY <2>1, <2>2, <2>3, BillingAssumption
<1>3. ASSUME NEW u \in User, balance'[u] >= balance[u] PROVE Covered(u)'
  <2>1. Owed(u)' \subseteq Owed(u)
    BY DEF Owed, Claim, InFlightOf, InFlight
  <2> QED
    BY <1>3, <2>1, StillCovered DEF BillingInv
<1> QED
  BY <1>2, <1>3

(* The same for the actions that leave the requests alone.  A balance      *)
(* grows only while no charge on it is uncommitted.                        *)
LEMMA TopUpKeeps ==
    ASSUME TypeOK, TypeOK', BillingInv, UNCHANGED requestVars,
           \A u \in User : \/ balance'[u] = balance[u]
                           \/ balance'[u] >= balance[u] /\ ~Locked(u)
    PROVE  BillingInv'
<1> USE DEF requestVars
<1>1. /\ Cardinality(InFlight') <= PoolSize
      /\ \A u \in User : balance'[u] >= balance[u] => Covered(u)'
  BY NoNewClaims
<1>2. \A u \in User : balance'[u] >= balance[u]
  BY DEF TypeOK
<1>3. \A r \in Request :
          phase[r] = "charging" => balance'[Owner[r]] = balance[Owner[r]]
  BY BillingAssumption DEF Locked, InFlightOf, InFlight
<1> QED
  BY <1>1, <1>2, <1>3 DEF BillingInv

LEMMA UpdateBalanceRaises ==
    ASSUME TypeOK, NEW v \in User, NEW d \in Nat, UpdateBalance(v, d)
    PROVE  \A u \in User : \/ balance'[u] = balance[u]
                           \/ balance'[u] >= balance[u] /\ ~Locked(u)
  BY DEF TypeOK, UpdateBalance

LEMMA BillingInvHolds == Spec => [](TypeOK /\ BillingInv)
<1> USE BillingAssumption
<1>1. Init => BillingInv
  <2> SUFFICES ASSUME Init PROVE BillingInv
    OBVIOUS
  <2>1. InFlight = {}
    BY DEF Init, InFlight
  <2>2. Cardinality(InFlight) = 0
    BY <2>1, FS_EmptySet
  <2>3. ASSUME NEW u \in User PROVE Covered(u)
    <3>1. Owed(u) = {}
      BY <2>1 DEF Owed, InFlightOf
    <3>2. Cardinality(Owed(u)) = 0 /\ balance[u] = 0
      BY <3>1, FS_EmptySet DEF Init
    <3>3. ASSUME NEW a \in Nat, NEW b \in Nat PROVE a * b >= 0
      BY <3>3
    <3>4. PoolSize - 1 \in Nat
      OBVIOUS
    <3>5. (PoolSize - 1) * MaxPrice >= 0 /\ (PoolSize - 1) * MaxPrice \in Int
      BY <3>3, <3>4
    <3> QED
      BY <3>2, <3>5 DEF Covered
  <2> QED
    BY <2>2, <2>3 DEF Init, BillingInv
<1>2. TypeOK /\ TypeOK' /\ BillingInv /\ [Next]_vars => BillingInv'
  <2> SUFFICES ASSUME TypeOK, TypeOK', BillingInv, [Next]_vars PROVE BillingInv'
    OBVIOUS
  <2>1. ASSUME NEW r \in Request, Authenticate(r) PROVE BillingInv'
    <3>1. Cardinality(InFlight') <= PoolSize
      <4>1. InFlight' = InFlight \cup {r}
        BY <2>1 DEF InFlight, Authenticate, MoveTo, TypeOK
      <4>2. IsFiniteSet(InFlight) /\ Cardinality(InFlight) \in Nat
        BY FiniteOwed
      <4>3. Cardinality(InFlight') <= Cardinality(InFlight) + 1
        <5>1. Cardinality(InFlight \cup {r})
                = IF r \in InFlight THEN Cardinality(InFlight) ELSE Cardinality(InFlight) + 1
          BY <4>2, FS_AddElement
        <5> QED
          BY <4>1, <4>2, <5>1
      <4>4. IsFiniteSet(InFlight') /\ Cardinality(InFlight') \in Nat
        BY <4>1, <4>2, FS_AddElement, FS_CardinalityType
      <4> QED
        BY <2>1, <4>2, <4>3, <4>4 DEF Authenticate
    <3>2. ASSUME NEW u \in User PROVE Covered(u)'
      <4>1. CASE u = Owner[r]
        BY <2>1, <4>1, AuthenticateCovered
      <4>2. CASE u # Owner[r]
        <5>1. Owed(u)' \subseteq Owed(u)
          BY <2>1, <4>2 DEF Owed, Claim, InFlightOf, InFlight, Authenticate, MoveTo, TypeOK
        <5>2. balance'[u] >= balance[u]
          BY <2>1 DEF Authenticate, TypeOK
        <5> QED
          BY <5>1, <5>2, StillCovered DEF BillingInv
      <4> QED
        BY <4>1, <4>2
    <3> QED
      BY <2>1, <3>1, <3>2 DEF Authenticate, MoveTo, TypeOK, BillingInv
  <2>2. ASSUME NEW r \in Request, Admit(r) PROVE BillingInv'
    <3>1. /\ Cardinality(InFlight') <= PoolSize
          /\ \A u \in User : balance'[u] >= balance[u] => Covered(u)'
      BY <2>2, NoNewClaims DEF Admit, MoveTo, Close, TypeOK
    <3>2. price \in Int
      BY DEF TypeOK
    <3>3. /\ balance' = balance /\ after'[r] \in Int
          /\ phase'[r] # "charging" /\ (phase'[r] = "admitted" => cost'[r] <= seen'[r])
          /\ \A q \in Request \ {r} : /\ phase'[q] = phase[q] /\ cost'[q] = cost[q]
                                     /\ seen'[q] = seen[q] /\ after'[q] = after[q]
      BY <2>2, <3>2 DEF Admit, MoveTo, Close, TypeOK
    <3>4. \A u \in User : balance'[u] >= balance[u]
      BY <3>3 DEF TypeOK
    <3>5. \A q \in Request : phase'[q] = "charging" => q # r /\ phase[q] = "charging"
      BY <3>3
    <3>6. \A q \in Request : phase'[q] \in {"admitted", "charging"} => cost'[q] <= seen'[q]
      BY <3>3 DEF BillingInv
    <3> QED
      BY <3>1, <3>3, <3>4, <3>5, <3>6 DEF BillingInv
  <2>3. ASSUME NEW r \in Request, Charge(r) PROVE BillingInv'
    <3>1. /\ Cardinality(InFlight') <= PoolSize
          /\ \A u \in User : balance'[u] >= balance[u] => Covered(u)'
      BY <2>3, NoNewClaims DEF Charge, MoveTo, TypeOK
    <3>2. \A q \in Request : phase[q] = "charging" => Owner[q] # Owner[r]
      BY <2>3 DEF Charge, Locked, InFlightOf, InFlight
    <3> QED
      BY <2>3, <3>1, <3>2 DEF Charge, MoveTo, TypeOK, BillingInv
  <2>4. ASSUME NEW r \in Request, CommitCharge(r) PROVE BillingInv'
    <3>1. /\ Cardinality(InFlight') <= PoolSize
          /\ \A u \in User : balance'[u] >= balance[u] => Covered(u)'
      BY <2>4, NoNewClaims DEF CommitCharge, MoveTo, Close, TypeOK
    <3>2. \A u \in User : u # Owner[r] => balance'[u] >= balance[u]
      BY <2>4 DEF CommitCharge, TypeOK
    <3>3. \A u \in User : Covered(u)'
      BY <2>4, <3>1, <3>2, CommitChargeCovered
    <3> QED
      BY <2>4, <3>1, <3>3 DEF CommitCharge, MoveTo, Close, TypeOK, BillingInv
  <2>5. ASSUME NEW r \in Request, Rollback(r) PROVE BillingInv'
    <3>1. /\ Cardinality(InFlight') <= PoolSize
          /\ \A u \in User : balance'[u] >= balance[u] => Covered(u)'
      BY <2>5, NoNewClaims DEF Rollback, MoveTo, Close, TypeOK
    <3> QED
      BY <2>5, <3>1 DEF Rollback, MoveTo, Close, TypeOK, BillingInv
  <2>6. ASSUME NEW r \in Request, RefundBalance(r) PROVE BillingInv'
    BY <2>6, UpdateBalanceRaises, TopUpKeeps DEF RefundBalance, TypeOK
  <2>7. ASSUME NEW e \in Event, HandleEvent(e) PROVE BillingInv'
    <3>1. Payer[e[1]] \in User /\ amount[e[1]] \in Nat
      BY EventParts DEF TypeOK
    <3> QED
      BY <2>7, <3>1, UpdateBalanceRaises, TopUpKeeps DEF HandleEvent, TopUp
  <2>8. CASE UNCHANGED <<balance, requestVars>>
    BY <2>8, TopUpKeeps
  <2> QED
    BY <2>1, <2>2, <2>3, <2>4, <2>5, <2>6, <2>7, <2>8
       DEF Next, vars, Pay, Repeat, SetPrice
<1> QED
  BY <1>1, <1>2, BillingTypeCorrect, PTL DEF Spec

(* However many requests pass the balance check on one snapshot (the check *)
(* of create_generation_task and the one of charge_balance read the same   *)
(* object), no balance falls below zero by more than PoolSize - 1 times    *)
(* the highest price.                                                      *)
THEOREM OverdraftIsBounded == Spec => []OverdraftBounded
<1>1. TypeOK /\ BillingInv => OverdraftBounded
  <2> SUFFICES ASSUME TypeOK, BillingInv, NEW u \in User
               PROVE  balance[u] >= -((PoolSize - 1) * MaxPrice)
    BY DEF OverdraftBounded
  <2>1. Covered(u) /\ Cardinality(Owed(u)) \in Nat
    BY FiniteOwed DEF BillingInv
  <2>2. balance[u] \in Int /\ (PoolSize - 1) * MaxPrice \in Int
    BY BillingAssumption DEF TypeOK
  <2> QED
    BY <2>1, <2>2 DEF Covered
<1> QED
  BY <1>1, BillingInvHolds, PTL

-----------------------------------------------------------------------------
(* The ledger                                                              *)

Sound(u) ==
    /\ IsFiniteSet(Tokens(Spent(u)))
    /\ IsFiniteSet(Tokens(Bought(u)))
    /\ IsFiniteSet(Tokens(Refunded(u)))
    /\ balance[u] + Total(Spent(u)) = Total(Bought(u)) + Total(Refunded(u))

(* The inductive strengthening of LedgerBalances: only a task that was     *)
(* charged is refunded, so that its cost does not change any more.         *)
LedgerInv ==
    /\ \A r \in Request : phase[r] # "charged" => refunds[r] = 0
    /\ \A u \in User : Sound(u)

LEMMA Products ==
    ASSUME NEW S, NEW O, NEW u, NEW f \in [S -> Nat], NEW g \in [S -> Nat]
    PROVE  [x \in S |-> IF O[x] = u THEN f[x] * g[x] ELSE 0] \in [S -> Nat]
<1>1. \A a, b \in Nat : a * b \in Nat
  OBVIOUS
<1>2. \A x \in S : f[x] * g[x] \in Nat
  BY <1>1
<1> QED
  BY <1>2

LEMMA LedgerType ==
    ASSUME TypeOK, NEW u
    PROVE  /\ Spent(u) \in [Request -> Nat]
           /\ Refunded(u) \in [Request -> Nat]
           /\ Bought(u) \in [Payment -> Nat]
<1>1. /\ cost \in [Request -> Nat] /\ refunds \in [Request -> Nat]
      /\ amount \in [Payment -> Nat] /\ credits \in [Payment -> Nat]
  BY BillingAssumption DEF TypeOK
<1>2. Spent(u) \in [Request -> Nat]
  BY <1>1 DEF Spent
<1>3. Refunded(u) \in [Request -> Nat]
  BY <1>1, Products DEF Refunded
<1>4. Bought(u) \in [Payment -> Nat]
  BY <1>1, Products DEF Bought
<1> QED
  BY <1>2, <1>3, <1>4

LEMMA LedgerTypeNext ==
    ASSUME TypeOK', NEW u
    PROVE  /\ Spent(u)' \in [Request -> Nat]
           /\ Refunded(u)' \in [Request -> Nat]
           /\ Bought(u)' \in [Payment -> Nat]
<1>1. /\ cost' \in [Request -> Nat] /\ refunds' \in [Request -> Nat]
      /\ amount' \in [Payment -> Nat] /\ credits' \in [Payment -> Nat]
  BY BillingAssumption DEF TypeOK
<1>2. Spent(u)' \in [Request -> Nat]
  BY <1>1 DEF Spent
<1>3. Refunded(u)' \in [Request -> Nat]
  BY <1>1, Products DEF Refunded
<1>4. Bought(u)' \in [Payment -> Nat]
  BY <1>1, Products DEF Bought
<1> QED
  BY <1>2, <1>3, <1>4

(* What stays balanced without a booking ...                               *)
LEMMA NothingBooked ==
    ASSUME NEW u \in User, Sound(u), balance'[u] = balance[u],
           Spent(u)' = Spent(u), Bought(u)' = Bought(u), Refunded(u)' = Refunded(u)
    PROVE  Sound(u)'
  BY DEF Sound, Total, Tokens

(* ... and with one: the charge of a request, ...                          *)
LEMMA ChargeBooked ==
    ASSUME TypeOK, TypeOK', BillingInv, LedgerInv, NEW r \in Request, CommitCharge(r),
           NEW u \in User
    PROVE  Sound(u)'
<1> USE BillingAssumption
<1>1. /\ Sound(u) /\ cost[r] \in Nat /\ phase[r] = "charging"
      /\ balance[u] \in Int /\ balance' = [balance EXCEPT ![Owner[r]] = @ - cost[r]]
  <2>1. after[r] = balance[Owner[r]] - cost[r]
    BY DEF BillingInv, CommitCharge
  <2> QED
    BY <2>1 DEF LedgerInv, CommitCharge, TypeOK
<1>2. Bought(u)' = Bought(u) /\ Refunded(u)' = Refunded(u)
  BY DEF CommitCharge, Bought, Refunded, paymentVars
<1>3. /\ Spent(u)'[r] = IF Owner[r] = u THEN cost[r] ELSE 0
      /\ Spent(u)[r] = 0
      /\ \A q \in Request \ {r} : Spent(u)'[q] = Spent(u)[q]
  BY <1>1 DEF CommitCharge, Close, MoveTo, Spent, TypeOK
<1>4. /\ Spent(u) \in [Request -> Nat] /\ Spent(u)' \in [Request -> Nat]
  BY LedgerType, LedgerTypeNext
<1>5. CASE Owner[r] = u
  <2>1. /\ IsFiniteSet(Tokens(Spent(u)'))
        /\ Total(Spent(u)') = Total(Spent(u)) + cost[r]
    <3>1. Spent(u)'[r] = Spent(u)[r] + cost[r]
      BY <1>1, <1>3, <1>5
    <3> HIDE DEF Spent
    <3> QED
      BY <1>1, <1>3, <1>4, <3>1, TotalGrows DEF Sound
  <2>2. balance'[u] = balance[u] - cost[r]
    BY <1>1, <1>5 DEF TypeOK
  <2>3. /\ Total(Spent(u)) \in Nat /\ Total(Bought(u)) \in Nat
        /\ Total(Refunded(u)) \in Nat
    BY <1>1, TotalType DEF Sound
  <2> QED
    BY <1>1, <1>2, <2>1, <2>2, <2>3 DEF Sound, Total, Tokens
<1>6. CASE Owner[r] # u
  <2>1. Spent(u)' = Spent(u)
    BY <1>3, <1>4, <1>6
  <2>2. balance'[u] = balance[u]
    BY <1>1, <1>6 DEF TypeOK
  <2> QED
    BY <1>1, <1>2, <2>1, <2>2, NothingBooked
<1> QED
  BY <1>5, <1>6

(* ... its refund, at the price that was charged, ...                      *)
LEMMA RefundBooked ==
    ASSUME TypeOK, TypeOK', LedgerInv, NEW r \in Request, RefundBalance(r),
           NEW u \in User
    PROVE  Sound(u)'
<1> USE BillingAssumption
<1>1. /\ Sound(u) /\ cost[r] \in Nat /\ refunds[r] \in Nat
      /\ balance[u] \in Int /\ balance' = [balance EXCEPT ![Owner[r]] = @ + cost[r]]
      /\ refunds' = [refunds EXCEPT ![r] = @ + 1] /\ cost' = cost
  BY DEF LedgerInv, RefundBalance, UpdateBalance, TypeOK, requestVars
<1>2. Bought(u)' = Bought(u) /\ Spent(u)' = Spent(u)
  BY DEF RefundBalance, Bought, Spent, paymentVars, requestVars
<1>3. /\ Refunded(u)'[r] = IF Owner[r] = u THEN (refunds[r] + 1) * cost[r] ELSE 0
      /\ Refunded(u)[r] = IF Owner[r] = u THEN refunds[r] * cost[r] ELSE 0
      /\ \A q \in Request \ {r} : Refunded(u)'[q] = Refunded(u)[q]
  BY <1>1 DEF Refunded, TypeOK
<1>4. Refunded(u) \in [Request -> Nat] /\ Refunded(u)' \in [Request -> Nat]
  BY LedgerType, LedgerTypeNext
<1>5. CASE Owner[r] = u
  <2>1. /\ IsFiniteSet(Tokens(Refunded(u)'))
        /\ Total(Refunded(u)') = Total(Refunded(u)) + cost[r]
    <3>1. (refunds[r] + 1) * cost[r] = refunds[r] * cost[r] + cost[r]
      BY <1>1
    <3>2. Refunded(u)'[r] = Refunded(u)[r] + cost[r]
      BY <1>3, <1>5, <3>1
    <3> QED
      BY <1>1, <1>3, <1>4, <3>2, TotalGrows DEF Sound
  <2>2. balance'[u] = balance[u] + cost[r]
    BY <1>1, <1>5 DEF TypeOK
  <2>3. /\ Total(Spent(u)) \in Nat /\ Total(Bought(u)) \in Nat
        /\ Total(Refunded(u)) \in Nat
    BY <1>1, TotalType DEF Sound
  <2> QED
    BY <1>1, <1>2, <2>1, <2>2, <2>3 DEF Sound, Total, Tokens
<1>6. CASE Owner[r] # u
  <2>1. Refunded(u)' = Refunded(u)
    BY <1>3, <1>4, <1>6
  <2>2. balance'[u] = balance[u]
    BY <1>1, <1>6 DEF TypeOK
  <2> QED
    BY <1>1, <1>2, <2>1, <2>2, NothingBooked
<1> QED
  BY <1>5, <1>6

(* ... and a payment that is credited once more.                           *)
LEMMA TopUpBooked ==
    ASSUME TypeOK, TypeOK', LedgerInv, NEW p \in Payment, TopUp(p),
           UNCHANGED <<requestVars, refunds, amount>>, NEW u \in User
    PROVE  Sound(u)'
<1> USE BillingAssumption
<1>1. /\ Sound(u) /\ credits[p] \in Nat /\ amount[p] \in Nat
      /\ balance[u] \in Int /\ balance' = [balance EXCEPT ![Payer[p]] = @ + amount[p]]
      /\ credits' = [credits EXCEPT ![p] = @ + 1] /\ amount' = amount
  BY DEF LedgerInv, TopUp, UpdateBalance, TypeOK
<1>2. Refunded(u)' = Refunded(u) /\ Spent(u)' = Spent(u)
  BY DEF Refunded, Spent, requestVars
<1>3. /\ Bought(u)'[p] = IF Payer[p] = u THEN (credits[p] + 1) * amount[p] ELSE 0
      /\ Bought(u)[p] = IF Payer[p] = u THEN credits[p] * amount[p] ELSE 0
      /\ \A q \in Payment \ {p} : Bought(u)'[q] = Bought(u)[q]
  BY <1>1 DEF Bought, TypeOK
<1>4. Bought(u) \in [Payment -> Nat] /\ Bought(u)' \in [Payment -> Nat]
  BY LedgerType, LedgerTypeNext
<1>5. CASE Payer[p] = u
  <2>1. /\ IsFiniteSet(Tokens(Bought(u)'))
        /\ Total(Bought(u)') = Total(Bought(u)) + amount[p]
    <3>1. (credits[p] + 1) * amount[p] = credits[p] * amount[p] + amount[p]
      BY <1>1
    <3>2. Bought(u)'[p] = Bought(u)[p] + amount[p]
      BY <1>3, <1>5, <3>1
    <3> QED
      BY <1>1, <1>3, <1>4, <3>2, TotalGrows DEF Sound
  <2>2. balance'[u] = balance[u] + amount[p]
    BY <1>1, <1>5 DEF TypeOK
  <2>3. /\ Total(Spent(u)) \in Nat /\ Total(Bought(u)) \in Nat
        /\ Total(Refunded(u)) \in Nat
    BY <1>1, TotalType DEF Sound
  <2> QED
    BY <1>1, <1>2, <2>1, <2>2, <2>3 DEF Sound, Total, Tokens
<1>6. CASE Payer[p] # u
  <2>1. Bought(u)' = Bought(u)
    BY <1>3, <1>4, <1>6
  <2>2. balance'[u] = balance[u]
    BY <1>1, <1>6 DEF TypeOK
  <2> QED
    BY <1>1, <1>2, <2>1, <2>2, NothingBooked
<1> QED
  BY <1>5, <1>6

(* A request that is not charged has spent nothing and been refunded       *)
(* nothing, whatever its cost.                                             *)
LEMMA RequestOpen ==
    ASSUME TypeOK, TypeOK', LedgerInv, NEW r \in Request, phase[r] # "charged",
           phase'[r] # "charged",
           \A q \in Request \ {r} : phase'[q] = phase[q] /\ cost'[q] = cost[q],
           UNCHANGED <<balance, refunds, amount, credits>>
    PROVE  LedgerInv'
<1>1. \A q \in Request : cost[q] \in Int /\ cost'[q] \in Int
  BY BillingAssumption DEF TypeOK
<1>2. refunds[r] = 0
  BY DEF LedgerInv
<1>3. ASSUME NEW u \in User PROVE Sound(u)'
  <2>1. \A q \in Request : Spent(u)'[q] = Spent(u)[q]
    BY DEF Spent
  <2>2. \A q \in Request : refunds'[q] * cost'[q] = refunds[q] * cost[q]
    BY <1>1, <1>2
  <2>3. \A q \in Request : Refunded(u)'[q] = Refunded(u)[q]
    BY <2>2 DEF Refunded
  <2>4. Spent(u)' = Spent(u) /\ Refunded(u)' = Refunded(u)
    BY <2>1, <2>3, LedgerType, LedgerTypeNext
  <2>5. Bought(u)' = Bought(u)
    BY DEF Bought
  <2> QED
    BY <2>4, <2>5, NothingBooked DEF LedgerInv
<1> QED
  BY <1>3 DEF LedgerInv

(* The amount of a payment is fixed before anything is credited for it.    *)
LEMMA PayBooksNothing ==
    ASSUME TypeOK, TypeOK', CreditInv, LedgerInv, NEW p \in Payment, Pay(p)
    PROVE  LedgerInv'
<1>1. credits[p] = 0
  <2> DEFINE k == IF p \in Direct THEN "payment" ELSE "checkout"
  <2>1. k \in Kind(p) /\ <<p, k>> \in Event
    BY EventOf DEF Kind
  <2>2. event[<<p, k>>] = "none" /\ repeats[<<p, k>>] = 0
    BY <2>1 DEF Pay, CreditInv
  <2>3. credits[p] = Handled(<<p, k>>)
    BY DEF CreditInv, CreditedPerDelivery
  <2> QED
    BY <2>2, <2>3 DEF Handled
<1>2. ASSUME NEW u \in User PROVE Sound(u)'
  <2>1. \A q \in Payment : credits'[q] * amount'[q] = credits[q] * amount[q]
    <3>1. amount[p] \in Nat /\ amount'[p] \in Nat
      BY DEF TypeOK
    <3>2. credits' = credits /\ \A q \in Payment \ {p} : amount'[q] = amount[q]
      BY DEF Pay, TypeOK
    <3>3. credits'[p] * amount'[p] = credits[p] * amount[p]
      BY <1>1, <3>1, <3>2
    <3> QED
      BY <3>2, <3>3
  <2>2. Bought(u)' = Bought(u)
    BY <2>1 DEF Bought
  <2>3. Spent(u)' = Spent(u) /\ Refunded(u)' = Refunded(u) /\ balance' = balance
    BY DEF Spent, Refunded, Pay, requestVars
  <2> QED
    BY <2>2, <2>3, NothingBooked DEF LedgerInv
<1> QED
  BY <1>2 DEF LedgerInv, Pay, requestVars

LEMMA LedgerInvHolds == Spec => []LedgerInv
<1>1. Init => LedgerInv
  <2> SUFFICES ASSUME Init PROVE LedgerInv
    OBVIOUS
  <2>1. TypeOK
    BY BillingAssumption DEF Init, TypeOK
  <2>2. ASSUME NEW u \in User PROVE Sound(u)
    <3>1. /\ \A r \in Request : Spent(u)[r] = 0
          /\ \A r \in Request : Refunded(u)[r] = 0
          /\ \A p \in Payment : Bought(u)[p] = 0
      BY DEF Init, Spent, Refunded, Bought
    <3>2. /\ IsFiniteSet(Tokens(Spent(u))) /\ Total(Spent(u)) = 0
          /\ IsFiniteSet(Tokens(Refunded(u))) /\ Total(Refunded(u)) = 0
          /\ IsFiniteSet(Tokens(Bought(u))) /\ Total(Bought(u)) = 0
      BY <2>1, <3>1, LedgerType, TotalOfZeros
    <3>3. balance[u] = 0
      BY DEF Init
    <3> QED
      BY <3>2, <3>3 DEF Sound
  <2> QED
    BY <2>2 DEF Init, LedgerInv
<1>2. TypeOK /\ TypeOK' /\ BillingInv /\ CreditInv /\ LedgerInv /\ [Next]_vars => LedgerInv'
  <2> SUFFICES ASSUME TypeOK, TypeOK', BillingInv, CreditInv, LedgerInv, [Next]_vars
               PROVE  LedgerInv'
    OBVIOUS
  <2>1. ASSUME UNCHANGED <<balance, phase, cost, refunds, amount, credits>> PROVE LedgerInv'
    <3>1. ASSUME NEW u \in User PROVE Sound(u)'
      BY <2>1, NothingBooked DEF LedgerInv, Spent, Refunded, Bought
    <3> QED
      BY <2>1, <3>1 DEF LedgerInv
  <2>2. ASSUME NEW r \in Request, Authenticate(r) \/ Admit(r) \/ Charge(r) \/ Rollback(r)
        PROVE  LedgerInv'
    BY <2>2, RequestOpen
    DEF Authenticate, Admit, Charge, Rollback, Close, MoveTo, TypeOK, paymentVars
  <2>3. ASSUME NEW r \in Request, CommitCharge(r) PROVE LedgerInv'
    <3>1. \A u \in User : Sound(u)'
      BY <2>3, ChargeBooked
    <3> QED
      BY <2>3, <3>1 DEF LedgerInv, CommitCharge, Close, MoveTo, TypeOK
  <2>4. ASSUME NEW r \in Request, RefundBalance(r) PROVE LedgerInv'
    <3>1. \A u \in User : Sound(u)'
      BY <2>4, RefundBooked
    <3> QED
      BY <2>4, <3>1 DEF LedgerInv, RefundBalance, TypeOK, requestVars
  <2>5. ASSUME NEW p \in Payment, Pay(p) PROVE LedgerInv'
    BY <2>5, PayBooksNothing
  <2>6. ASSUME NEW e \in Event, HandleEvent(e) PROVE LedgerInv'
    <3>1. CASE Credited(e) /\ TopUp(e[1])
      <4>1. \A u \in User : Sound(u)'
        BY <2>6, <3>1, EventParts, TopUpBooked DEF HandleEvent
      <4> QED
        BY <2>6, <4>1 DEF LedgerInv, HandleEvent, requestVars
    <3>2. CASE UNCHANGED <<balance, credits>>
      BY <2>1, <2>6, <3>2 DEF HandleEvent, requestVars
    <3> QED
      BY <2>6, <3>1, <3>2 DEF HandleEvent
  <2>7. ASSUME NEW e \in Event, Repeat(e) PROVE LedgerInv'
    BY <2>1, <2>7 DEF Repeat, requestVars
  <2>8. CASE SetPrice \/ UNCHANGED vars
    BY <2>1, <2>8 DEF SetPrice, vars, requestVars, paymentVars
  <2> QED
    BY <2>2, <2>3, <2>4, <2>5, <2>6, <2>7, <2>8 DEF Next
<1> QED
  BY <1>1, <1>2, BillingTypeCorrect, BillingInvHolds, CreditInvHolds, PTL DEF Spec

(* Whatever requests, refunds and payments are interleaved, and however    *)
(* the price changes between a check and a charge, every balance is what   *)
(* its transactions say: charge_balance, refund_balance and topup_balance  *)
(* each write balance and transaction together, and relative to the row.   *)
THEOREM LedgerAlwaysBalances == Spec => []LedgerBalances
<1>1. LedgerInv => LedgerBalances
  BY DEF LedgerInv, Sound, LedgerBalances
<1> QED
  BY <1>1, LedgerInvHolds, PTL

=============================================================================
