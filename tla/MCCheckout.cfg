CONSTANTS
    o1 = o1
    o2 = o2
    t1 = t1
    w1 = w1
    w2 = w2
    w3 = w3
    Nil = Nil
    Orders = {o1}
    Tickets = {t1}
    TicketOf <- SameTicket
    FirstStock <- OneLeft
    Workers = {w1, w2, w3}
    MaxFails = 2
SPECIFICATION FairSpec
INVARIANTS TypeOK AckedIsProvisioned BooksBalance
PROPERTIES ExactlyOnce SettledIsProvisioned
