SPECIFICATION ThreadsSpec
CONSTANTS
    alice = alice
    bob = bob
    Users <- Both
    Askers <- Asker
    Payers <- Payer
    Genesis <- BobsNote
    Amounts = {1}
    MaxClock = 1
    MaxLane = 2
    None = None
INVARIANTS
    OnePaymentEach
    Agree
    ReceiptsHonest
PROPERTY
    PaidStaysPaid
CHECK_DEADLOCK FALSE
