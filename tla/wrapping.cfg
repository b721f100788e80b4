SPECIFICATION Spec
CONSTANTS
    None = None
    Wallets = {w1}
    Rent = 1
    Fee = 1
    Minimum = 1
    Margin = 3
    Cent = 2
    Amounts = {2}
    MostSol = 5
    MostWsol = 4
    MaxMoves = 2
    MaxSwitches = 2
INVARIANTS
    DialogKeepsItsWord
