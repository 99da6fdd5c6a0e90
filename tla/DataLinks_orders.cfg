SPECIFICATION FairSpec
CONSTANTS
    MaxOrders = 2
    MaxLines = 2
    GuiCap = 1
    GuiLimit = 1
    StmCap = 2
    StmConnecting = 1
    StmConnected = 2
INVARIANTS
    TypeOK
    ConfirmationsTrue
PROPERTIES
    NoOldOrder
    RelaysOrders
    OrdersArrive
    LastOrderHeld
    LinkIsDamped
    BoardLossNoticed
