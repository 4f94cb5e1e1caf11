\* Two requests of one user pass the check on one balance.
SPECIFICATION Spec
CONSTANTS
    u1 = u1
    u2 = u2
    r1 = r1
    r2 = r2
    r3 = r3
    p1 = p1
    p2 = p2
    User = {u1, u2}
    Request = {r1, r2, r3}
    Owner <- OwnerOf
    PoolSize = 2
    Price = {0, 1, 2}
    MaxPrice = 2
    MaxRefunds = 1
    Payment = {p1, p2}
    Payer <- PayerOf
    Amounts = {2}
    Direct = {p2}
    MaxRepeats = 1
SYMMETRY RequestSymmetry

INVARIANT NoOverdraft
