SPECIFICATION FairSpec
CONSTANTS
    MaxOrders = 0
    MaxLines = 1
    GuiCap = 20
    GuiLimit = 20
    StmCap = 10
    StmConnecting = 2
    StmConnected = 8
PROPERTIES
    GuiLossNoticed
