SPECIFICATION Spec
CONSTANTS
    Slot = Slot
    Readers = {r1}
    Budget = 2
    MaxCallCost = 1
    MaxMonth = 1
    MaxCharge = 5
PROPERTY SummaryBooked
