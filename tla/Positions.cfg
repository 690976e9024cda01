\* A bracket on A whose unit may be sold by hand, a position in B from before.
CONSTANTS
    A = A  B = B  g1 = g1  g2 = g2
    Symbol = {A, B}
    Group = {g1}
    SymbolOf <- OneGroup
    Size <- UnitSize
    Held = {}
    Unsent = {g1}
    Steady = {B}
    MaxSells = 1
    Faults = {"lag", "raise"}
    None = None
SPECIFICATION FairSpec
INVARIANTS TypeOK 
PROPERTIES  BooksAgree
