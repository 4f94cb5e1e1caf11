------------------------------- MODULE Accounts -------------------------------
(***************************************************************************)
(* The accounts in front of Billing: a user exists once a registration has *)
(* committed, opens checkouts and creates tasks with the API key that the  *)
(* registration answered, and is credited what the cents of the checkout   *)
(* are worth.                                                              *)
(*                                                                         *)
(* Two registrations of one external_user_id may both find it free; the    *)
(* unique index of the users table makes the second INSERT wait for the    *)
(* first transaction, and fail if that commits.                            *)
(***************************************************************************)
EXTENDS Billing

CONSTANTS
    Registration,       \* POST /auth/register requests, and the keys they make
    Who,                \* the external_user_id a registration asks for
    None,               \* no account
    Usd,                \* amounts of checkouts, in thousandths of a dollar
    TokensPerDollar     \* settings.stripe_tokens_per_dollar

(* Mutant of Cents: the cents are rounded up.                              *)
MutantCentsUp(usd) == usd \div 10 + 1

(* create_checkout truncates twice: amount_usd has as many decimals as the *)
(* client sends.                                                           *)
Cents(usd) == usd \div 10
Announced(usd) == (usd * TokensPerDollar) \div 1000

(* _cents_to_tokens is exact, in hundredths of a token.                    *)
CentsToTokens(cents) == cents * TokensPerDollar

ASSUME AccountsAssumption ==
    /\ Who \in [Registration -> User]
    /\ None \notin Registration
    /\ Usd \subseteq Nat \ {0}
    /\ TokensPerDollar \in Nat \ {0}
    /\ {CentsToTokens(Cents(u)) : u \in Usd} \subseteq Amounts

VARIABLES
    register,   \* how far a registration is
    account,    \* the registration whose key hash is in the user's row, or None
    answered,   \* the registrations answered 201, with their key
    usd         \* the amount of a checkout, 0 if it was not opened

accountVars == <<register, account, answered, usd>>
allVars == <<vars, accountVars>>

AccountsTypeOK ==
    /\ register \in [Registration ->
                        {"new", "free", "inserted", "created", "conflict", "failed"}]
    /\ account \in [User -> Registration \cup {None}]
    /\ answered \in SUBSET Registration
    /\ usd \in [Payment -> Usd \cup {0}]

AccountsInit ==
    /\ Init
    /\ register = [g \in Registration |-> "new"]
    /\ account = [u \in User |-> None]
    /\ answered = {}
    /\ usd = [p \in Payment |-> 0]

Registered(u) == account[u] # None

(* A client knows the key once it was answered.                            *)
HasKey(u) == account[u] \in answered

-----------------------------------------------------------------------------
(* POST /auth/register                                                     *)

AdvanceTo(g, ph) == register' = [register EXCEPT ![g] = ph]

(* get_by_external_id: 409 if the row is there.                            *)
CheckName(g) ==
    /\ register[g] = "new"
    /\ AdvanceTo(g, IF Registered(Who[g]) THEN "conflict" ELSE "free")
    /\ UNCHANGED <<account, answered, usd>>

(* Mutant of InsertUser: an index that is not unique.                      *)
MutantInsertAnyway(g) ==
    /\ register[g] = "free"
    /\ AdvanceTo(g, "inserted")
    /\ UNCHANGED <<account, answered, usd>>

(* The flush in user_repo.create meets the unique index: it waits for an   *)
(* uncommitted row, and raises IntegrityError (500) on a committed one.    *)
InsertUser(g) ==
    /\ register[g] = "free"
    /\ \A h \in Registration : Who[h] = Who[g] => register[h] # "inserted"
    /\ AdvanceTo(g, IF Registered(Who[g]) THEN "failed" ELSE "inserted")
    /\ UNCHANGED <<account, answered, usd>>

(* Mutant of CommitUser: the row keeps the external_user_id as its key.     *)
MutantCommitName(g) ==
    /\ register[g] = "inserted"
    /\ AdvanceTo(g, "created")
    /\ account' = [account EXCEPT ![Who[g]] = Who[g]]
    /\ UNCHANGED <<answered, usd>>

CommitUser(g) ==
    /\ register[g] = "inserted"
    /\ AdvanceTo(g, "created")
    /\ account' = [account EXCEPT ![Who[g]] = g]
    /\ UNCHANGED <<answered, usd>>

RollbackUser(g) ==
    /\ register[g] \in {"free", "inserted"}
    /\ AdvanceTo(g, "failed")
    /\ UNCHANGED <<account, answered, usd>>

(* The answer 201.  requirements.txt admits versions of FastAPI that leave *)
(* get_session, and so COMMIT, after the answer was sent, and versions     *)
(* that do so before.                                                      *)
Answer(g) ==
    /\ register[g] \in {"inserted", "created"}
    /\ answered' = answered \cup {g}
    /\ UNCHANGED <<register, account, usd>>

-----------------------------------------------------------------------------
(* POST /balance/checkout                                                  *)

CreateCheckout(p) ==
    /\ p \notin Direct
    /\ usd[p] = 0
    /\ HasKey(Payer[p])
    /\ \E a \in Usd : usd' = [usd EXCEPT ![p] = a]
    /\ UNCHANGED <<register, account, answered>>

-----------------------------------------------------------------------------
(* The steps of Billing, for users that exist                              *)

(* get_current_user answers 401 to a key whose hash is in no row.          *)
AuthenticateUser(r) == HasKey(Owner[r]) /\ Authenticate(r)

(* The client pays for the cents of its checkout.                          *)
PayFor(p) ==
    /\ Pay(p)
    /\ p \notin Direct => usd[p] # 0 /\ amount'[p] = CentsToTokens(Cents(usd[p]))

(* A payment for an unknown user is answered 404, or 400 by the Stripe     *)
(* endpoint: its event is not handled and will be delivered again.         *)
HandleUserEvent(e) ==
    /\ Credited(e) => Registered(Payer[e[1]])
    /\ HandleEvent(e)

-----------------------------------------------------------------------------

AccountStep ==
    \/ \E g \in Registration :
          \/ CheckName(g) \/ InsertUser(g) \/ CommitUser(g) \/ RollbackUser(g)
          \/ Answer(g)
    \/ \E p \in Payment : CreateCheckout(p)

BillingStep ==
    \/ \E r \in Request :
          \/ AuthenticateUser(r)
          \/ Admit(r) \/ Charge(r) \/ CommitCharge(r) \/ Rollback(r) \/ RefundBalance(r)
    \/ \E p \in Payment : PayFor(p)
    \/ \E e \in Event : Repeat(e) \/ HandleUserEvent(e)
    \/ SetPrice

AccountsNext ==
    \/ AccountStep /\ UNCHANGED vars
    \/ BillingStep /\ UNCHANGED accountVars

AccountsSpec == AccountsInit /\ [][AccountsNext]_allVars

-----------------------------------------------------------------------------
(* Properties                                                              *)

(* A key that was answered is the key of the account, whichever of two     *)
(* registrations of one external_user_id comes first and whether or not    *)
(* the answer waits for the COMMIT: a second one is never created.  Only a *)
(* client that was answered before the COMMIT may hold a key that does not *)
(* work yet, or never will because the COMMIT failed.                      *)
AnsweredKeyWorks ==
    \A g \in answered :
        \/ account[Who[g]] = g
        \/ register[g] = "inserted" /\ account[Who[g]] = None
        \/ register[g] = "failed"

(* Cents and announced tokens are truncated separately, and the tokens     *)
(* credited days later are computed from the cents: they still differ by   *)
(* less than one token to the user's advantage and by less than what one   *)
(* cent buys to his disadvantage.                                          *)
QuoteKept ==
    \A p \in Payment \ Direct :
        credits[p] > 0 =>
            /\ amount[p] < 100 * Announced(usd[p]) + 100
            /\ 100 * Announced(usd[p]) < amount[p] + TokensPerDollar

=============================================================================
