SPECIFICATION FairSpec
CONSTANTS
    User = {a, b}
    Main = Main
    Tw = Tw
    MaxGen = 2
PROPERTIES
    WaitReturns
    WaiterWoken
    EndedFreed
