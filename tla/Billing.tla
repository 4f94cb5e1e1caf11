-------------------------------- MODULE Billing --------------------------------
(***************************************************************************)
(* The tokens of the users: what the HTTP requests that create tasks, the  *)
(* refunds, the payment webhooks and the price list do to users.balance    *)
(* and to the transactions table.                                          *)
(*                                                                         *)
(* A create request reads the user's row when it authenticates.  The       *)
(* session keeps that object, so the two balance checks of the code        *)
(* (create_generation_task and charge_balance) compare the price with this *)
(* one snapshot.  The UPDATE itself computes the new balance from the row, *)
(* and holds the row's lock until the COMMIT.                              *)
(***************************************************************************)
EXTENDS Totals

CONSTANTS
    User,
    Request,        \* requests that create a task (and the task they create)
    Owner,          \* the user a request authenticates as
    PoolSize,       \* database connections: pool_size + max_overflow
    Price,          \* the prices the admin may set, in hundredths of a token
    MaxPrice,       \* the largest of them
    MaxRefunds,     \* how often one task can be refunded, see Generation
    Payment,        \* payments made by users
    Payer,          \* the user a payment is for
    Amounts,        \* what a payment may buy, in hundredths of a token
    Direct,         \* payments that one event announces: POST /webhooks/payment,
                    \* or a payment intent that carries the user's id itself
    MaxRepeats      \* bound: repeated deliveries of one webhook

ASSUME BillingAssumption ==
    /\ IsFiniteSet(Request)
    /\ Owner \in [Request -> User]
    /\ PoolSize \in Nat \ {0}
    /\ MaxPrice \in Nat
    /\ Price \subseteq 0..MaxPrice
    /\ MaxRefunds \in Nat
    /\ Payer \in [Payment -> User]
    /\ Amounts \subseteq Nat
    /\ Direct \subseteq Payment
    /\ MaxRepeats \in Nat

VARIABLES
    balance,    \* users.balance, committed
    price,      \* generation_prices.cost, of the one type that is modelled
    phase,      \* how far a request is
    seen,       \* the balance a request read when it authenticated
    cost,       \* the price a request read, then Task.cost
    after,      \* the uncommitted balance a request has written
    refunds,    \* REFUND transactions of a request's task
    amount,     \* what a payment buys
    credits,    \* TOPUP transactions of a payment
    event,      \* the webhooks that announce a payment
    repeats     \* repeated deliveries so far

requestVars == <<phase, seen, cost, after>>
paymentVars == <<amount, credits, event, repeats>>
vars == <<balance, price, requestVars, refunds, paymentVars>>

Open == {"authenticated", "admitted", "charging"}
Phase == {"new", "refused", "charged", "aborted"} \cup Open

(* Stripe announces a checkout twice, by its session and by its intent.    *)
Kind(p) == IF p \in Direct THEN {"payment"} ELSE {"checkout", "intent"}
Event == UNION {{p} \X Kind(p) : p \in Payment}

TypeOK ==
    /\ balance \in [User -> Int]
    /\ price \in Price
    /\ phase \in [Request -> Phase]
    /\ seen \in [Request -> Int]
    /\ cost \in [Request -> 0..MaxPrice]
    /\ after \in [Request -> Int]
    /\ refunds \in [Request -> 0..MaxRefunds]
    /\ amount \in [Payment -> Nat]
    /\ credits \in [Payment -> Nat]
    /\ event \in [Event -> {"none", "sent", "done"}]
    /\ repeats \in [Event -> 0..MaxRepeats]

Init ==
    /\ balance = [u \in User |-> 0]
    /\ price \in Price
    /\ phase = [r \in Request |-> "new"]
    /\ seen = [r \in Request |-> 0]
    /\ cost = [r \in Request |-> 0]
    /\ after = [r \in Request |-> 0]
    /\ refunds = [r \in Request |-> 0]
    /\ amount = [p \in Payment |-> 0]
    /\ credits = [p \in Payment |-> 0]
    /\ event = [e \in Event |-> "none"]
    /\ repeats = [e \in Event |-> 0]

InFlight == {r \in Request : phase[r] \in Open}
InFlightOf(u) == {r \in InFlight : Owner[r] = u}

(* The row lock of an UPDATE that has not been committed.                  *)
Locked(u) == \E r \in InFlightOf(u) : phase[r] = "charging"

MoveTo(r, ph) == phase' = [phase EXCEPT ![r] = ph]

(* The session is closed; of the request only the task's row remains.      *)
Close(r, ph) ==
    /\ MoveTo(r, ph)
    /\ seen' = [seen EXCEPT ![r] = 0]
    /\ after' = [after EXCEPT ![r] = 0]

(* user_repo.update_balance in a transaction that commits at once.         *)
UpdateBalance(u, delta) ==
    /\ ~Locked(u)
    /\ balance' = [balance EXCEPT ![u] = @ + delta]

-----------------------------------------------------------------------------
(* POST /generations/...                                                   *)

(* get_current_user: a connection is taken and the user's row is loaded.   *)
Authenticate(r) ==
    /\ phase[r] = "new"
    /\ Cardinality(InFlight) < PoolSize
    /\ MoveTo(r, "authenticated")
    /\ seen' = [seen EXCEPT ![r] = balance[Owner[r]]]
    /\ UNCHANGED <<balance, price, cost, after, refunds, paymentVars>>

(* Mutant of Admit: the task stores what is left after it, not its price.  *)
MutantStoreRest(r) ==
    /\ phase[r] = "authenticated"
    /\ \/ /\ seen[r] < price
          /\ Close(r, "refused")
          /\ UNCHANGED cost
       \/ /\ seen[r] >= price
          /\ MoveTo(r, "admitted")
          /\ cost' = [cost EXCEPT ![r] = seen[r] - price]
          /\ UNCHANGED <<seen, after>>
    /\ UNCHANGED <<balance, price, refunds, paymentVars>>

(* The price is read, and compared with the snapshot: 402 if it is higher. *)
Admit(r) ==
    /\ phase[r] = "authenticated"
    /\ \/ /\ seen[r] < price
          /\ Close(r, "refused")
          /\ UNCHANGED cost
       \/ /\ seen[r] >= price
          /\ MoveTo(r, "admitted")
          /\ cost' = [cost EXCEPT ![r] = price]
          /\ UNCHANGED <<seen, after>>
    /\ UNCHANGED <<balance, price, refunds, paymentVars>>

(* Mutant of Charge: the balance is computed from the object in memory.    *)
MutantChargeSnapshot(r) ==
    /\ phase[r] = "admitted"
    /\ seen[r] >= cost[r]
    /\ ~Locked(Owner[r])
    /\ MoveTo(r, "charging")
    /\ after' = [after EXCEPT ![r] = seen[r] - cost[r]]
    /\ UNCHANGED <<balance, price, seen, cost, refunds, paymentVars>>

(* Mutant of Charge: the price is read again after the check.              *)
MutantChargeCurrentPrice(r) ==
    /\ phase[r] = "admitted"
    /\ ~Locked(Owner[r])
    /\ MoveTo(r, "charging")
    /\ cost' = [cost EXCEPT ![r] = price]
    /\ after' = [after EXCEPT ![r] = balance[Owner[r]] - price]
    /\ UNCHANGED <<balance, price, seen, refunds, paymentVars>>

(* charge_balance: the second check reads the same object, the UPDATE does *)
(* not check.                                                              *)
Charge(r) ==
    /\ phase[r] = "admitted"
    /\ seen[r] >= cost[r]
    /\ ~Locked(Owner[r])
    /\ MoveTo(r, "charging")
    /\ after' = [after EXCEPT ![r] = balance[Owner[r]] - cost[r]]
    /\ UNCHANGED <<balance, price, seen, cost, refunds, paymentVars>>

(* get_session commits task, balance and CHARGE transaction together ...   *)
CommitCharge(r) ==
    /\ phase[r] = "charging"
    /\ Close(r, "charged")
    /\ balance' = [balance EXCEPT ![Owner[r]] = after[r]]
    /\ UNCHANGED <<price, cost, refunds, paymentVars>>

(* ... or rolls them back: any exception up to there.                      *)
Rollback(r) ==
    /\ phase[r] \in Open
    /\ Close(r, "aborted")
    /\ cost' = [cost EXCEPT ![r] = 0]
    /\ UNCHANGED <<balance, price, refunds, paymentVars>>

-----------------------------------------------------------------------------
(* The other writers of users.balance, and the price list                  *)

(* refund_balance gives back what the task's row says it cost.             *)
RefundBalance(r) ==
    /\ phase[r] = "charged"
    /\ refunds[r] < MaxRefunds
    /\ UpdateBalance(Owner[r], cost[r])
    /\ refunds' = [refunds EXCEPT ![r] = @ + 1]
    /\ UNCHANGED <<price, requestVars, paymentVars>>

(* The payment provider (external) announces a payment.                    *)
Pay(p) ==
    /\ \A k \in Kind(p) : event[<<p, k>>] = "none"
    /\ \E a \in Amounts : amount' = [amount EXCEPT ![p] = a]
    /\ event' = [e \in Event |-> IF e[1] = p THEN "sent" ELSE event[e]]
    /\ UNCHANGED <<balance, price, requestVars, refunds, credits, repeats>>

(* It delivers at least once.                                              *)
Repeat(e) ==
    /\ event[e] = "done"
    /\ repeats[e] < MaxRepeats
    /\ event' = [event EXCEPT ![e] = "sent"]
    /\ repeats' = [repeats EXCEPT ![e] = @ + 1]
    /\ UNCHANGED <<balance, price, requestVars, refunds, amount, credits>>

(* Mutant of Credited: the event of the intent credits too.                *)
MutantCreditAll(e) == e \in Event

(* Only the checkout session carries the external_user_id in its metadata; *)
(* the event of the intent is skipped.  No event is remembered.            *)
Credited(e) == e[2] \in {"payment", "checkout"}

(* topup_balance, and _topup_user of the Stripe service.                   *)
TopUp(p) ==
    /\ UpdateBalance(Payer[p], amount[p])
    /\ credits' = [credits EXCEPT ![p] = @ + 1]

HandleEvent(e) ==
    /\ event[e] = "sent"
    /\ event' = [event EXCEPT ![e] = "done"]
    /\ \/ Credited(e) /\ TopUp(e[1])
       \/ ~Credited(e) /\ UNCHANGED <<balance, credits>>
    /\ UNCHANGED <<price, requestVars, refunds, amount, repeats>>

(* The admin edits the price list.                                         *)
SetPrice ==
    /\ price' \in Price
    /\ UNCHANGED <<balance, requestVars, refunds, paymentVars>>

-----------------------------------------------------------------------------

Next ==
    \/ \E r \in Request :
          \/ Authenticate(r) \/ Admit(r) \/ Charge(r) \/ CommitCharge(r) \/ Rollback(r)
          \/ RefundBalance(r)
    \/ \E p \in Payment : Pay(p)
    \/ \E e \in Event : Repeat(e) \/ HandleEvent(e)
    \/ SetPrice

Spec == Init /\ [][Next]_vars

-----------------------------------------------------------------------------
(* Properties                                                              *)

(* The balance check can be passed by several requests on one snapshot,    *)
(* but a balance never falls further below zero than all requests that     *)
(* hold a connection, save one, can spend at the highest price.            *)
OverdraftBounded == \A u \in User : balance[u] >= -((PoolSize - 1) * MaxPrice)

(* What the 402 answer stands for: tokens that are not there are not spent. *)
NoOverdraft == \A u \in User : balance[u] >= 0

(* The transactions table explains every balance: what was topped up less  *)
(* what tasks cost, refunds given back at the price that was charged,      *)
(* whatever was written concurrently and however the price changed.        *)
Spent(u) == [r \in Request |-> IF Owner[r] = u /\ phase[r] = "charged" THEN cost[r] ELSE 0]
Refunded(u) == [r \in Request |-> IF Owner[r] = u THEN refunds[r] * cost[r] ELSE 0]
Bought(u) == [p \in Payment |-> IF Payer[p] = u THEN credits[p] * amount[p] ELSE 0]

LedgerBalances ==
    \A u \in User :
        balance[u] + Total(Spent(u)) = Total(Bought(u)) + Total(Refunded(u))

(* A payment is credited once per delivery that was handled of one event:  *)
(* the two events Stripe sends for one checkout do not add up.             *)
Handled(e) == repeats[e] + IF event[e] = "done" THEN 1 ELSE 0

CreditedPerDelivery ==
    \A p \in Payment :
        credits[p] = Handled(<<p, IF p \in Direct THEN "payment" ELSE "checkout">>)

=============================================================================
