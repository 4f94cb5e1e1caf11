---------------------------- MODULE AccountsProofs ----------------------------
(* Theorems about Accounts: registration and checkouts take nothing away   *)
(* from what is proved of Billing, a key that was answered works, and the  *)
(* tokens a checkout has announced are the tokens that are credited.       *)
EXTENDS Accounts, BillingProofs

(* Every behaviour with accounts is a behaviour of Billing: the theorems   *)
(* of BillingProofs hold of it.                                            *)
THEOREM AccountsImplementBilling == AccountsSpec => Spec
<1>1. AccountsInit => Init
  BY DEF AccountsInit
<1>2. [AccountsNext]_allVars => [Next]_vars
  <2> SUFFICES ASSUME [AccountsNext]_allVars PROVE [Next]_vars
    OBVIOUS
  <2>1. CASE AccountStep /\ UNCHANGED vars
    BY <2>1
  <2>2. CASE BillingStep
    BY <2>2 DEF BillingStep, AuthenticateUser, PayFor, HandleUserEvent, Next
  <2>3. CASE UNCHANGED allVars
    BY <2>3 DEF allVars
  <2> QED
    BY <2>1, <2>2, <2>3 DEF AccountsNext
<1> QED
  BY <1>1, <1>2, PTL DEF AccountsSpec, Spec

(* In front of Billing a balance is still never lower than what the        *)
(* requests that hold a connection, save one, can spend.                   *)
THEOREM AccountsOverdraftBounded == AccountsSpec => []OverdraftBounded
  BY AccountsImplementBilling, OverdraftIsBounded, PTL

(* In front of Billing every balance is still what its transactions say.   *)
THEOREM AccountsLedgerBalances == AccountsSpec => []LedgerBalances
  BY AccountsImplementBilling, LedgerAlwaysBalances, PTL

-----------------------------------------------------------------------------
(* Registration                                                            *)

(* Every variable of Accounts keeps its type, along with those of Billing. *)
THEOREM AccountsTypeCorrect == AccountsSpec => []AccountsTypeOK
<1> USE AccountsAssumption
<1>1. AccountsInit => AccountsTypeOK
  BY DEF AccountsInit, AccountsTypeOK
<1>2. AccountsTypeOK /\ [AccountsNext]_allVars => AccountsTypeOK'
  <2> SUFFICES ASSUME AccountsTypeOK, [AccountsNext]_allVars PROVE AccountsTypeOK'
    OBVIOUS
  <2> USE DEF AccountsTypeOK, AdvanceTo
  <2>1. ASSUME NEW g \in Registration, CheckName(g) \/ InsertUser(g) PROVE AccountsTypeOK'
    BY <2>1 DEF CheckName, InsertUser
  <2>2. ASSUME NEW g \in Registration, CommitUser(g) PROVE AccountsTypeOK'
    BY <2>2 DEF CommitUser
  <2>3. ASSUME NEW g \in Registration, RollbackUser(g) \/ Answer(g) PROVE AccountsTypeOK'
    BY <2>3 DEF RollbackUser, Answer
  <2>4. ASSUME NEW p \in Payment, CreateCheckout(p) PROVE AccountsTypeOK'
    BY <2>4 DEF CreateCheckout
  <2>5. CASE UNCHANGED accountVars
    BY <2>5 DEF accountVars
  <2> QED
    BY <2>1, <2>2, <2>3, <2>4, <2>5 DEF AccountsNext, AccountStep, allVars
<1> QED
  BY <1>1, <1>2, PTL DEF AccountsSpec

(* The row of a user belongs to the one registration that created it, and  *)
(* at most one INSERT for a name that is free waits for its COMMIT.        *)
KeyInv ==
    \A g \in Registration :
        /\ register[g] = "inserted" =>
              /\ account[Who[g]] = None
              /\ \A h \in Registration \ {g} : Who[h] = Who[g] => register[h] # "inserted"
        /\ register[g] = "created" => account[Who[g]] = g
        /\ g \in answered => register[g] \in {"inserted", "created", "failed"}

(* A key that was answered opens the account, unless its COMMIT is still   *)
(* to come or has failed: of two registrations of one name one is created. *)
THEOREM AnsweredKeyWorksHolds == AccountsSpec => []AnsweredKeyWorks
<1> USE AccountsAssumption
<1>1. AccountsInit => KeyInv
  BY DEF AccountsInit, KeyInv
<1>2. AccountsTypeOK /\ KeyInv /\ [AccountsNext]_allVars => KeyInv'
  <2> SUFFICES ASSUME AccountsTypeOK, KeyInv, [AccountsNext]_allVars PROVE KeyInv'
    OBVIOUS
  <2> USE DEF AccountsTypeOK, KeyInv, AdvanceTo
  <2>1. ASSUME NEW g \in Registration, CheckName(g) PROVE KeyInv'
    BY <2>1 DEF CheckName
  <2>2. ASSUME NEW g \in Registration, InsertUser(g) PROVE KeyInv'
    BY <2>2 DEF InsertUser, Registered
  <2>3. ASSUME NEW g \in Registration, CommitUser(g) PROVE KeyInv'
    BY <2>3 DEF CommitUser
  <2>4. ASSUME NEW g \in Registration, RollbackUser(g) \/ Answer(g) PROVE KeyInv'
    BY <2>4 DEF RollbackUser, Answer
  <2>5. CASE UNCHANGED <<register, account, answered>>
    BY <2>5
  <2> QED
    BY <2>1, <2>2, <2>3, <2>4, <2>5
    DEF AccountsNext, AccountStep, CreateCheckout, allVars, accountVars
<1>3. AccountsTypeOK /\ KeyInv => AnsweredKeyWorks
  BY DEF AccountsTypeOK, KeyInv, AnsweredKeyWorks
<1> QED
  BY <1>1, <1>2, <1>3, AccountsTypeCorrect, PTL DEF AccountsSpec

-----------------------------------------------------------------------------
(* Checkouts                                                               *)

(* The two truncations of create_checkout and the exact conversion back.   *)
LEMMA Truncation ==
    ASSUME NEW u \in Nat
    PROVE  /\ CentsToTokens(Cents(u)) < 100 * Announced(u) + 100
           /\ 100 * Announced(u) < CentsToTokens(Cents(u)) + TokensPerDollar
<1> DEFINE T == TokensPerDollar
           c == u \div 10
           d == u - 10 * c
           A == (u * T) \div 1000
<1>1. T \in Nat /\ T > 0
  BY AccountsAssumption
<1>2. c \in Nat /\ d \in 0..9 /\ u = 10 * c + d
  OBVIOUS
<1>3. u * T \in Nat /\ c * T \in Nat /\ d * T \in Nat
  BY <1>1, <1>2
<1>4. A \in Int /\ 1000 * A <= u * T /\ u * T < 1000 * A + 1000
  BY <1>3
<1>5. u * T = 10 * (c * T) + d * T
  BY <1>1, <1>2
<1>6. 0 <= d * T /\ d * T <= 9 * T
  BY <1>1, <1>2
<1>7. CentsToTokens(Cents(u)) = c * T /\ Announced(u) = A
  BY DEF CentsToTokens, Cents, Announced
<1> HIDE DEF A, c, d, T
<1>8. c * T < 100 * A + 100 /\ 100 * A < c * T + T
  BY <1>1, <1>3, <1>4, <1>5, <1>6
<1> QED
  BY <1>7, <1>8 DEF T

(* A checkout that was paid was opened, and what it buys is what its cents *)
(* are worth.                                                              *)
QuoteInv ==
    \A p \in Payment \ Direct :
        /\ credits[p] > 0 => event[<<p, "checkout">>] # "none"
        /\ event[<<p, "checkout">>] # "none" =>
              usd[p] \in Usd /\ amount[p] = CentsToTokens(Cents(usd[p]))

(* What is credited differs from what was announced by less than a token   *)
(* and less than the tokens of a cent.                                     *)
THEOREM QuoteKeptHolds == AccountsSpec => []QuoteKept
<1> USE AccountsAssumption, BillingAssumption
<1>1. AccountsInit => QuoteInv
  <2> SUFFICES ASSUME AccountsInit PROVE QuoteInv
    OBVIOUS
  <2>1. ASSUME NEW p \in Payment \ Direct
        PROVE  ~(credits[p] > 0) /\ event[<<p, "checkout">>] = "none"
    <3>1. <<p, "checkout">> \in Event
      BY DEF Event, Kind
    <3> QED
      BY <3>1 DEF AccountsInit, Init
  <2> QED
    BY <2>1 DEF QuoteInv
<1>2. TypeOK /\ AccountsTypeOK /\ QuoteInv /\ [AccountsNext]_allVars => QuoteInv'
  <2> SUFFICES ASSUME TypeOK, AccountsTypeOK, QuoteInv, [AccountsNext]_allVars,
                      NEW p \in Payment \ Direct
               PROVE  /\ credits'[p] > 0 => event'[<<p, "checkout">>] # "none"
                      /\ event'[<<p, "checkout">>] # "none" =>
                            usd'[p] \in Usd /\ amount'[p] = CentsToTokens(Cents(usd'[p]))
    BY DEF QuoteInv
  <2>a. /\ credits \in [Payment -> Nat] /\ amount \in [Payment -> Nat]
        /\ event \in [Event -> {"none", "sent", "done"}]
        /\ usd \in [Payment -> Usd \cup {0}]
    BY DEF TypeOK, AccountsTypeOK
  <2>b. <<p, "checkout">> \in Event /\ "checkout" \in Kind(p)
    BY DEF Event, Kind
  <2>c. /\ credits[p] > 0 => event[<<p, "checkout">>] # "none"
        /\ event[<<p, "checkout">>] # "none" =>
              usd[p] \in Usd /\ amount[p] = CentsToTokens(Cents(usd[p]))
    BY DEF QuoteInv
  <2>1. ASSUME NEW q \in Payment, PayFor(q), UNCHANGED usd
        PROVE  /\ credits' = credits
               /\ event'[<<p, "checkout">>] # "none" =>
                     usd[p] \in Usd /\ amount'[p] = CentsToTokens(Cents(usd[p]))
               /\ event[<<p, "checkout">>] # "none" => event'[<<p, "checkout">>] # "none"
    <3>1. CASE q = p
      BY <2>1, <3>1, <2>a, <2>b DEF PayFor, Pay
    <3>2. CASE q # p
      BY <2>1, <3>2, <2>a, <2>b, <2>c DEF PayFor, Pay
    <3> QED
      BY <3>1, <3>2
  <2>2. ASSUME NEW e \in Event, Repeat(e) \/ HandleUserEvent(e), UNCHANGED usd
        PROVE  /\ amount' = amount
               /\ event'[<<p, "checkout">>] = "none" <=> event[<<p, "checkout">>] = "none"
               /\ credits'[p] > 0 => event[<<p, "checkout">>] # "none"
    <3>1. CASE Repeat(e)
      BY <3>1, <2>a, <2>b, <2>c DEF Repeat
    <3>2. CASE HandleEvent(e)
      <4>1. /\ event[e] = "sent"
            /\ event' = [event EXCEPT ![e] = "done"]
            /\ amount' = amount
            /\ credits' = credits \/ (Credited(e) /\ credits' = [credits EXCEPT ![e[1]] = @ + 1])
        BY <3>2 DEF HandleEvent, TopUp
      <4>2. Credited(e) /\ e[1] = p => e = <<p, "checkout">>
        BY DEF Event, Kind, Credited
      <4> QED
        BY <4>1, <4>2, <2>a, <2>b, <2>c
    <3> QED
      BY <2>2, <3>1, <3>2 DEF HandleUserEvent
  <2>3. ASSUME NEW q \in Payment, CreateCheckout(q), UNCHANGED vars
        PROVE  event[<<p, "checkout">>] # "none" => usd'[p] = usd[p]
    <3>1. usd[p] \in Usd => usd[p] # 0
      OBVIOUS
    <3> QED
      BY <2>3, <3>1, <2>a, <2>c DEF CreateCheckout
  <2>4. CASE UNCHANGED <<credits, event, amount, usd>>
    BY <2>4, <2>c
  <2>5. CASE AccountStep /\ UNCHANGED vars
    BY <2>3, <2>4, <2>5, <2>c DEF AccountStep, CheckName, InsertUser, CommitUser, RollbackUser,
           Answer, vars, paymentVars
  <2>6. CASE BillingStep /\ UNCHANGED accountVars
    BY <2>1, <2>2, <2>4, <2>6, <2>c DEF BillingStep, AuthenticateUser, Authenticate, Admit, Charge,
           CommitCharge, Rollback, RefundBalance, SetPrice, accountVars, paymentVars
  <2>7. CASE UNCHANGED allVars
    BY <2>4, <2>7 DEF allVars, vars, accountVars, paymentVars
  <2> QED
    BY <2>5, <2>6, <2>7 DEF AccountsNext
<1>3. AccountsTypeOK /\ QuoteInv => QuoteKept
  <2> SUFFICES ASSUME QuoteInv, NEW p \in Payment \ Direct, credits[p] > 0
               PROVE  /\ amount[p] < 100 * Announced(usd[p]) + 100
                      /\ 100 * Announced(usd[p]) < amount[p] + TokensPerDollar
    BY DEF QuoteKept
  <2>1. usd[p] \in Nat /\ amount[p] = CentsToTokens(Cents(usd[p]))
    BY DEF QuoteInv
  <2> QED
    BY <2>1, Truncation
<1>4. AccountsSpec => []TypeOK
  BY AccountsImplementBilling, BillingTypeCorrect, PTL
<1> QED
  BY <1>1, <1>2, <1>3, <1>4, AccountsTypeCorrect, PTL DEF AccountsSpec

=============================================================================
