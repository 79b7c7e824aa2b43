SPECIFICATION Spec
CONSTANTS
    Requests = {r1, r2}
    Ids = {i1, i2}
    Keys = {k1, k2}
    Books <- MCBooks
SYMMETRY Symmetry
INVARIANTS
    NumbersAreDense
    SkusKeepTheirMeaning
    ConfirmedExactly
    PricesRestOnProducts
    SecondMasterWasRaced
PROPERTIES
    LoneConfirmationIsFinal
