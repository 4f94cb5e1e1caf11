\* Two registrations, two requests on two connections, a Stripe checkout and a
\* direct payment of one user; amounts in hundredths of a token.
SPECIFICATION AccountsSpec
CONSTANTS
    u1 = u1
    u2 = u2
    r1 = r1
    r2 = r2
    p1 = p1
    p2 = p2
    g1 = g1
    g2 = g2
    User = {u1}
    Request = {r1, r2}
    Owner <- OwnerOf
    PoolSize = 2
    Price = {0, 150}
    MaxPrice = 150
    MaxRefunds = 1
    Payment = {p1, p2}
    Payer <- PayerOf
    Amounts = {150, 300}
    Direct = {p2}
    MaxRepeats = 1
    Registration = {g1, g2}
    Who <- WhoOf
    None = None
    Usd = {10, 19}
    TokensPerDollar = 150
SYMMETRY ActorSymmetry
INVARIANTS
    TypeOK
    OverdraftBounded
    LedgerBalances
    CreditedPerDelivery
    AccountsTypeOK
    AnsweredKeyWorks
    QuoteKept
