--------------------------- MODULE DataLinksProofs ---------------------------
(***************************************************************************)
(* Proofs about the two serial links, for any number of orders, any buffer *)
(* length and any thresholds: orders reach the board in the order in which *)
(* they were given, and confirmations are true.                            *)
(***************************************************************************)
EXTENDS DataLinks, TLAPS

(***************************************************************************)
(* Type correctness of both loops and of what is outside the PC.           *)
(***************************************************************************)
THEOREM TypeCorrect == Spec => []TypeOK
<1> USE BoundAssumption, ThresholdAssumption
<1>1. Init => TypeOK
  BY DEF Init, TypeOK, Initial, LinkData, LinkStatus, Orders, Phases
<1>2. TypeOK /\ [Next]_vars => TypeOK'
  <2> SUFFICES ASSUME TypeOK, [Next]_vars
               PROVE  TypeOK'
    OBVIOUS
  <2> USE DEF TypeOK
  <2>1. CASE GiveOrder
    BY <2>1 DEF GiveOrder, guiVars, stmVars, Orders
  <2>2. CASE GuiReports
    BY <2>2 DEF GuiReports, guiVars, stmVars
  <2>3. CASE BoardReports
    BY <2>3 DEF BoardReports, guiVars, stmVars
  <2>4. ASSUME NEW arrives \in BOOLEAN, GuiSend(arrives)
        PROVE  TypeOK'
    <3>1. GuiCheckConnection \in LinkStatus
      BY DEF GuiCheckConnection, LinkStatus
    <3>2. guilinkrtdata' \in LinkData
      BY <2>4, <3>1 DEF GuiSend, LinkData
    <3>3. display' \in Orders
      BY <2>4 DEF GuiSend, LinkData
    <3> QED
      BY <2>4, <3>2, <3>3 DEF GuiSend, stmVars, Phases
  <2>5. ASSUME GuiRead, guiLine # <<>>, guiLine' = Tail(guiLine)
        PROVE  guiLine' \in Seq(Orders) /\ Head(guiLine) \in Orders
    BY <2>5
  <2>6. Up(guiCount, GuiCap) \in 0 .. GuiCap /\ Down(guiCount) \in 0 .. GuiCap
    BY DEF Up, Down
  <2>7. CASE GuiReadLine
    <3>1. guilinkrtdata' \in LinkData
      BY <2>5, <2>7 DEF GuiReadLine, LinkData
    <3> QED
      BY <2>5, <2>6, <2>7, <3>1 DEF GuiReadLine, GuiRead, stmVars, Phases
  <2>8. CASE GuiReadGarbled
    BY <2>5, <2>6, <2>8 DEF GuiReadGarbled, GuiRead, stmVars, Phases
  <2>9. CASE GuiReadNothing
    BY <2>6, <2>9 DEF GuiReadNothing, GuiRead, stmVars, Phases
  <2>10. ASSUME NEW arrives \in BOOLEAN, StmSend(arrives)
         PROVE  TypeOK'
    <3>1. StmCheckConnection \in LinkStatus
      BY DEF StmCheckConnection, LinkStatus
    <3>2. stmdata' \in LinkData /\ executed' \in Orders
      BY <2>10, <3>1 DEF StmSend, LinkData
    <3> QED
      BY <2>10, <3>2 DEF StmSend, guiVars, Phases
  <2>11. ASSUME StmRead, stmLine # <<>>, stmLine' = Tail(stmLine)
         PROVE  stmLine' \in Seq(Orders) /\ Head(stmLine) \in Orders
    BY <2>11
  <2>12. Up(stmCount, StmCap) \in 0 .. StmCap /\ Down(stmCount) \in 0 .. StmCap
    BY DEF Up, Down
  <2>13. CASE StmReadLine
    <3>1. stmdata' \in LinkData
      BY <2>11, <2>13 DEF StmReadLine, LinkData
    <3> QED
      BY <2>11, <2>12, <2>13, <3>1 DEF StmReadLine, StmRead, guiVars, Phases
  <2>14. CASE StmReadGarbled
    BY <2>11, <2>12, <2>14 DEF StmReadGarbled, StmRead, guiVars, Phases
  <2>15. CASE StmReadNothing
    BY <2>12, <2>15 DEF StmReadNothing, StmRead, guiVars, Phases
  <2>16. CASE UNCHANGED vars
    BY <2>16 DEF vars, guiVars, stmVars
  <2> QED
    BY <2>1, <2>2, <2>3, <2>4, <2>7, <2>8, <2>9, <2>10, <2>13, <2>14, <2>15,
       <2>16 DEF Next, gui_loop, stm32loop
<1> QED
  BY <1>1, <1>2, PTL DEF Spec

-----------------------------------------------------------------------------
(***************************************************************************)
(* Where an order can be while it travels to the board: every copy is at   *)
(* most as new as the copy it was made from, and lines queue in order.     *)
(***************************************************************************)
OrderChain ==
    /\ executed <= guilink_RTdata.order
    /\ guilink_RTdata.order <= guilinkrtdata.order
    /\ guilinkrtdata.order <= given
    /\ \A k \in DOMAIN guiLine :
          guilinkrtdata.order <= guiLine[k] /\ guiLine[k] <= given
    /\ \A j, k \in DOMAIN guiLine : j <= k => guiLine[j] <= guiLine[k]

(***************************************************************************)
(* A line appended to, or taken from, a queue of orders.                   *)
(***************************************************************************)
LEMMA AppendedLine ==
    ASSUME NEW line \in Seq(Orders), NEW order \in Orders
    PROVE  \A k \in DOMAIN Append(line, order) :
              Append(line, order)[k] =
                IF k \in DOMAIN line THEN line[k] ELSE order
  BY DEF Orders

LEMMA TakenLine ==
    ASSUME NEW line \in Seq(Orders), line # <<>>
    PROVE  /\ 1 \in DOMAIN line /\ Head(line) = line[1]
           /\ \A k \in DOMAIN Tail(line) :
                k + 1 \in DOMAIN line /\ Tail(line)[k] = line[k + 1]
  BY DEF Orders

LEMMA OrderChainInvariant == Spec => []OrderChain
<1>1. Init => OrderChain
  BY DEF Init, OrderChain, Initial
<1>2. TypeOK /\ OrderChain /\ [Next]_vars => OrderChain'
  <2> SUFFICES ASSUME TypeOK, OrderChain, [Next]_vars
               PROVE  OrderChain'
    OBVIOUS
  <2> USE DEF OrderChain
  <2>1. /\ given \in Int /\ executed \in Int
        /\ guilink_RTdata.order \in Int /\ guilinkrtdata.order \in Int
        /\ guiLine \in Seq(Orders) /\ given \in Orders
        /\ \A k \in DOMAIN guiLine : guiLine[k] \in Int
    BY BoundAssumption DEF TypeOK, LinkData, Orders
  <2>2. CASE GiveOrder
    BY <2>1, <2>2 DEF GiveOrder, guiVars
  <2>3. CASE GuiReports
    <3>1. \A k \in DOMAIN guiLine' :
              guiLine'[k] = IF k \in DOMAIN guiLine THEN guiLine[k] ELSE given
      BY <2>1, <2>3, AppendedLine DEF GuiReports
    <3>2. DOMAIN guiLine' = 1 .. Len(guiLine) + 1 /\ Len(guiLine) \in Nat
          /\ DOMAIN guiLine = 1 .. Len(guiLine)
      BY <2>1, <2>3 DEF GuiReports
    <3>3. UNCHANGED <<executed, guilink_RTdata, guilinkrtdata, given>>
      BY <2>3 DEF GuiReports, guiVars
    <3>4. \A k \in DOMAIN guiLine' :
              guilinkrtdata.order <= guiLine'[k] /\ guiLine'[k] <= given
      BY <2>1, <3>1
    <3>5. \A j, k \in DOMAIN guiLine' : j <= k => guiLine'[j] <= guiLine'[k]
      BY <2>1, <3>1, <3>2
    <3> QED
      BY <3>3, <3>4, <3>5
  <2>4. CASE BoardReports
    BY <2>4 DEF BoardReports, guiVars
  <2>5. ASSUME NEW arrives \in BOOLEAN, GuiSend(arrives)
        PROVE  OrderChain'
    <3>1. guilinkrtdata'.order = guilinkrtdata.order
      BY <2>5 DEF GuiSend, TypeOK, LinkData
    <3>2. UNCHANGED <<given, guiLine, guilink_RTdata, executed>>
      BY <2>5 DEF GuiSend
    <3> QED
      BY <3>1, <3>2
  <2>6. CASE GuiReadLine
    <3>1. guilinkrtdata'.order = guiLine[1] /\ 1 \in DOMAIN guiLine
      BY <2>1, <2>6, TakenLine DEF GuiReadLine, TypeOK, LinkData
    <3>2. \A k \in DOMAIN guiLine' :
              k \in Int /\ k >= 1
              /\ k + 1 \in DOMAIN guiLine /\ guiLine'[k] = guiLine[k + 1]
      BY <2>1, <2>6, TakenLine DEF GuiReadLine
    <3>3. UNCHANGED <<given, executed>> /\ guilink_RTdata' = guilinkrtdata'
      BY <2>6 DEF GuiReadLine, GuiRead
    <3>4. \A k \in DOMAIN guiLine' :
              guiLine[1] <= guiLine'[k] /\ guiLine'[k] <= given
      BY <3>1, <3>2
    <3>5. \A j, k \in DOMAIN guiLine' : j <= k => guiLine'[j] <= guiLine'[k]
      BY <3>2
    <3>6. executed <= guiLine[1] /\ guiLine[1] <= given
      BY <2>1, <3>1
    <3> QED
      BY <3>1, <3>3, <3>4, <3>5, <3>6, <2>1
  <2>7. CASE GuiReadGarbled
    <3>1. \A k \in DOMAIN guiLine' :
              k \in Int
              /\ k + 1 \in DOMAIN guiLine /\ guiLine'[k] = guiLine[k + 1]
      BY <2>1, <2>7, TakenLine DEF GuiReadGarbled
    <3>2. UNCHANGED <<given, executed, guilinkrtdata>>
          /\ guilink_RTdata' = guilinkrtdata
      BY <2>7 DEF GuiReadGarbled, GuiRead
    <3>3. \A j, k \in DOMAIN guiLine' : j <= k => guiLine'[j] <= guiLine'[k]
      BY <3>1
    <3> QED
      BY <2>1, <3>1, <3>2, <3>3
  <2>8. CASE GuiReadNothing
    BY <2>1, <2>8 DEF GuiReadNothing, GuiRead
  <2>9. ASSUME NEW arrives \in BOOLEAN, StmSend(arrives)
        PROVE  OrderChain'
    BY <2>1, <2>9 DEF StmSend, guiVars
  <2>10. CASE StmReadLine \/ StmReadGarbled \/ StmReadNothing
    BY <2>10 DEF StmReadLine, StmReadGarbled, StmReadNothing, StmRead, guiVars
  <2>11. CASE UNCHANGED vars
    BY <2>11 DEF vars, guiVars
  <2> QED
    BY <2>2, <2>3, <2>4, <2>5, <2>6, <2>7, <2>8, <2>9, <2>10, <2>11
       DEF Next, gui_loop, stm32loop
<1> QED
  BY <1>1, <1>2, TypeCorrect, PTL DEF Spec

(***************************************************************************)
(* Orders never overtake: the board does not go back to an older order,    *)
(* whatever lines are lost or garbled and however the loops interleave.    *)
(***************************************************************************)
THEOREM OrdersInOrder == Spec => NoOldOrder
<1>1. TypeOK /\ OrderChain /\ [Next]_vars => executed' >= executed
  <2> SUFFICES ASSUME TypeOK, OrderChain, [Next]_vars
               PROVE  executed' >= executed
    OBVIOUS
  <2>1. executed \in Int /\ executed <= guilink_RTdata.order
    BY BoundAssumption DEF TypeOK, Orders, OrderChain
  <2>2. ASSUME NEW arrives \in BOOLEAN, StmSend(arrives)
        PROVE  executed' >= executed
    BY <2>1, <2>2 DEF StmSend, TypeOK, LinkData, Orders
  <2>3. ASSUME executed' = executed
        PROVE  executed' >= executed
    BY <2>1, <2>3
  <2> QED
    BY <2>2, <2>3 DEF Next, gui_loop, stm32loop, GiveOrder, GuiReports,
       BoardReports, GuiSend, GuiReadLine, GuiReadGarbled, GuiReadNothing,
       GuiRead, StmReadLine, StmReadGarbled, StmReadNothing, StmRead, vars
<1> QED
  BY <1>1, TypeCorrect, OrderChainInvariant, PTL DEF Spec, NoOldOrder

(***************************************************************************)
(* Where a status can be on its way back: every copy is at most as new as  *)
(* the copy it was made from, and lines queue in order.                    *)
(***************************************************************************)
StatusChain ==
    /\ display <= stm32_data.status
    /\ stm32_data.status <= stmdata.status
    /\ stmdata.status <= executed
    /\ \A k \in DOMAIN stmLine :
          stmdata.status <= stmLine[k] /\ stmLine[k] <= executed
    /\ \A j, k \in DOMAIN stmLine : j <= k => stmLine[j] <= stmLine[k]

LEMMA StatusChainInvariant == Spec => []StatusChain
<1>1. Init => StatusChain
  BY DEF Init, StatusChain, Initial
<1>2. TypeOK /\ OrderChain /\ StatusChain /\ [Next]_vars => StatusChain'
  <2> SUFFICES ASSUME TypeOK, OrderChain, StatusChain, [Next]_vars
               PROVE  StatusChain'
    OBVIOUS
  <2> USE DEF StatusChain
  <2>1. /\ executed \in Int /\ display \in Int
        /\ stm32_data.status \in Int /\ stmdata.status \in Int
        /\ stmLine \in Seq(Orders) /\ executed \in Orders
        /\ \A k \in DOMAIN stmLine : stmLine[k] \in Int
    BY BoundAssumption DEF TypeOK, LinkData, Orders
  <2>2. CASE GiveOrder \/ GuiReports
    BY <2>2 DEF GiveOrder, GuiReports, stmVars
  <2>3. CASE BoardReports
    <3>1. \A k \in DOMAIN stmLine' :
              stmLine'[k] = IF k \in DOMAIN stmLine THEN stmLine[k]
                                                    ELSE executed
      BY <2>1, <2>3, AppendedLine DEF BoardReports
    <3>2. DOMAIN stmLine' = 1 .. Len(stmLine) + 1 /\ Len(stmLine) \in Nat
          /\ DOMAIN stmLine = 1 .. Len(stmLine)
      BY <2>1, <2>3 DEF BoardReports
    <3>3. UNCHANGED <<executed, display, stm32_data, stmdata>>
      BY <2>3 DEF BoardReports, stmVars
    <3>4. \A k \in DOMAIN stmLine' :
              stmdata.status <= stmLine'[k] /\ stmLine'[k] <= executed
      BY <2>1, <3>1
    <3>5. \A j, k \in DOMAIN stmLine' : j <= k => stmLine'[j] <= stmLine'[k]
      BY <2>1, <3>1, <3>2
    <3> QED
      BY <3>3, <3>4, <3>5
  <2>4. ASSUME NEW arrives \in BOOLEAN, GuiSend(arrives)
        PROVE  StatusChain'
    BY <2>1, <2>4 DEF GuiSend, stmVars
  <2>5. CASE GuiReadLine \/ GuiReadGarbled \/ GuiReadNothing
    BY <2>5 DEF GuiReadLine, GuiReadGarbled, GuiReadNothing, GuiRead, stmVars
  <2>6. ASSUME NEW arrives \in BOOLEAN, StmSend(arrives)
        PROVE  StatusChain'
    <3>1. executed' \in Int /\ executed <= executed'
      BY <2>1, <2>6 DEF StmSend, OrderChain, TypeOK, LinkData, Orders
    <3>2. stmdata'.status = stmdata.status
      BY <2>6 DEF StmSend, TypeOK, LinkData
    <3>3. UNCHANGED <<display, stm32_data, stmLine>>
      BY <2>6 DEF StmSend
    <3> QED
      BY <2>1, <3>1, <3>2, <3>3
  <2>7. CASE StmReadLine
    <3>1. stmdata'.status = stmLine[1] /\ 1 \in DOMAIN stmLine
      BY <2>1, <2>7, TakenLine DEF StmReadLine, TypeOK, LinkData
    <3>2. \A k \in DOMAIN stmLine' :
              k \in Int /\ k >= 1
              /\ k + 1 \in DOMAIN stmLine /\ stmLine'[k] = stmLine[k + 1]
      BY <2>1, <2>7, TakenLine DEF StmReadLine
    <3>3. UNCHANGED <<display, executed>> /\ stm32_data' = stmdata'
      BY <2>7 DEF StmReadLine, StmRead
    <3>4. \A k \in DOMAIN stmLine' :
              stmLine[1] <= stmLine'[k] /\ stmLine'[k] <= executed
      BY <3>1, <3>2
    <3>5. \A j, k \in DOMAIN stmLine' : j <= k => stmLine'[j] <= stmLine'[k]
      BY <3>2
    <3>6. display <= stmLine[1] /\ stmLine[1] <= executed
      BY <2>1, <3>1
    <3> QED
      BY <2>1, <3>1, <3>3, <3>4, <3>5, <3>6
  <2>8. CASE StmReadGarbled
    <3>1. \A k \in DOMAIN stmLine' :
              k \in Int
              /\ k + 1 \in DOMAIN stmLine /\ stmLine'[k] = stmLine[k + 1]
      BY <2>1, <2>8, TakenLine DEF StmReadGarbled
    <3>2. UNCHANGED <<display, executed, stmdata>> /\ stm32_data' = stmdata
      BY <2>8 DEF StmReadGarbled, StmRead
    <3>3. \A j, k \in DOMAIN stmLine' : j <= k => stmLine'[j] <= stmLine'[k]
      BY <3>1
    <3> QED
      BY <2>1, <3>1, <3>2, <3>3
  <2>9. CASE StmReadNothing
    BY <2>1, <2>9 DEF StmReadNothing, StmRead
  <2>10. CASE UNCHANGED vars
    BY <2>10 DEF vars, stmVars
  <2> QED
    BY <2>2, <2>3, <2>4, <2>5, <2>6, <2>7, <2>8, <2>9, <2>10
       DEF Next, gui_loop, stm32loop
<1> QED
  BY <1>1, <1>2, TypeCorrect, OrderChainInvariant, PTL DEF Spec

(***************************************************************************)
(* Confirmations are true: the GUI shows an order only after the board     *)
(* executed it, and the board executes only what was given.                *)
(***************************************************************************)
THEOREM TrueConfirmations == Spec => []ConfirmationsTrue
<1>1. TypeOK /\ OrderChain /\ StatusChain => ConfirmationsTrue
  BY BoundAssumption
     DEF OrderChain, StatusChain, ConfirmationsTrue, TypeOK, LinkData, Orders
<1> QED
  BY <1>1, TypeCorrect, OrderChainInvariant, StatusChainInvariant, PTL

(***************************************************************************)
(* The loops, structs and lines implement the abstract relay of orders: a  *)
(* line that arrives at the board is an Execute, one that arrives at the   *)
(* GUI a Confirm, and every other step changes nothing the relay has.      *)
(***************************************************************************)
THEOREM ImplementsRelay == Spec => RelaysOrders
<1>1. Init => Relay!Init
  BY DEF Init, Relay!Init
<1>2. TypeOK /\ OrderChain /\ StatusChain /\ [Next]_vars
        => [Relay!Next]_Relay!vars
  <2> SUFFICES ASSUME TypeOK, OrderChain, StatusChain, [Next]_vars
               PROVE  [Relay!Next]_Relay!vars
    OBVIOUS
  <2>1. /\ given \in Int /\ executed \in Int /\ display \in Int
        /\ guilink_RTdata.order \in Int /\ stm32_data.status \in Int
        /\ guilinkrtdata.order \in Int /\ stmdata.status \in Int
    BY BoundAssumption DEF TypeOK, LinkData, Orders
  <2>2. CASE GiveOrder
    BY <2>2 DEF GiveOrder, Relay!Next, Relay!GiveOrder
  <2>3. ASSUME NEW arrives \in BOOLEAN, GuiSend(arrives)
        PROVE  [Relay!Next]_Relay!vars
    <3>1. display' \in display .. executed
      BY <2>1, <2>3 DEF GuiSend, StatusChain
    <3>2. UNCHANGED <<given, executed>>
      BY <2>3 DEF GuiSend
    <3> QED
      BY <3>1, <3>2 DEF Relay!Next, Relay!Confirm
  <2>4. ASSUME NEW arrives \in BOOLEAN, StmSend(arrives)
        PROVE  [Relay!Next]_Relay!vars
    <3>1. executed' \in executed .. given
      BY <2>1, <2>4 DEF StmSend, OrderChain
    <3>2. UNCHANGED <<given, display>>
      BY <2>4 DEF StmSend
    <3> QED
      BY <3>1, <3>2 DEF Relay!Next, Relay!Execute
  <2>5. ASSUME UNCHANGED <<given, executed, display>>
        PROVE  [Relay!Next]_Relay!vars
    BY <2>5 DEF Relay!vars
  <2> QED
    BY <2>2, <2>3, <2>4, <2>5 DEF Next, gui_loop, stm32loop, GuiReports,
       BoardReports, GuiReadLine, GuiReadGarbled, GuiReadNothing, GuiRead,
       StmReadLine, StmReadGarbled, StmReadNothing, StmRead, vars
<1> QED
  BY <1>1, <1>2, TypeCorrect, OrderChainInvariant, StatusChainInvariant, PTL
     DEF Spec, RelaysOrders, Relay!Spec

-----------------------------------------------------------------------------
(***************************************************************************)
(* The published link status lags one line behind the count it is computed *)
(* from, and a line moves the count by one.                                *)
(***************************************************************************)
LinkLag ==
    /\ stmPhase = "receive" => stmdata.linkstatus = StmCheckConnection
    /\ stm32_data.linkstatus = "DISCONNECTED" => stmCount <= StmConnecting
    /\ stm32_data.linkstatus = "CONNECTED" =>
          stm32_data = Initial("CONNECTED") \/ stmCount >= StmConnected - 1

(***************************************************************************)
(* With thresholds apart by more than nothing, no single line takes the    *)
(* reported link from CONNECTED to DISCONNECTED or back.                   *)
(***************************************************************************)
THEOREM DampedLink == Spec => LinkIsDamped
<1> USE ThresholdAssumption
<1>1. Init => LinkLag
  BY DEF Init, LinkLag, Initial
<1>2. TypeOK => stmCount \in Int /\ stm32_data.linkstatus \in LinkStatus
  BY DEF TypeOK, LinkData
<1>3. ASSUME TypeOK, LinkLag, StmReadLine \/ StmReadGarbled \/ StmReadNothing
      PROVE  /\ stmPhase' = "send"
             /\ stm32_data'.linkstatus = StmCheckConnection
             /\ stmCount' \in Int
             /\ stmCount - 1 <= stmCount' /\ stmCount' <= stmCount + 1
  <2>1. stmPhase = "receive" /\ stmPhase' = "send" /\ stm32_data' = stmdata'
    BY <1>3 DEF StmReadLine, StmReadGarbled, StmReadNothing, StmRead
  <2>2. stmdata'.linkstatus = stmdata.linkstatus
    BY <1>3 DEF StmReadLine, StmReadGarbled, StmReadNothing, TypeOK, LinkData
  <2>3. stmCount' = Up(stmCount, StmCap) \/ stmCount' = Down(stmCount)
    BY <1>3 DEF StmReadLine, StmReadGarbled, StmReadNothing
  <2>4. /\ stmCount' \in Int
        /\ stmCount - 1 <= stmCount' /\ stmCount' <= stmCount + 1
    BY <1>3, <2>3 DEF TypeOK, Up, Down
  <2> QED
    BY <1>3, <2>1, <2>2, <2>4 DEF LinkLag
<1>4. /\ StmCheckConnection = "DISCONNECTED" <=> stmCount < StmConnecting
      /\ StmCheckConnection = "CONNECTED" =>
            ~(stmCount < StmConnecting) /\ ~(stmCount < StmConnected)
  BY DEF StmCheckConnection
<1>5. TypeOK /\ LinkLag /\ [Next]_vars => LinkLag'
  <2> SUFFICES ASSUME TypeOK, LinkLag, [Next]_vars
               PROVE  LinkLag'
    OBVIOUS
  <2>1. ASSUME UNCHANGED stmVars
        PROVE  LinkLag'
    BY <2>1 DEF LinkLag, stmVars, StmCheckConnection
  <2>2. ASSUME NEW arrives \in BOOLEAN, StmSend(arrives)
        PROVE  LinkLag'
    <3>1. stmdata'.linkstatus = StmCheckConnection
      BY <2>2 DEF StmSend, TypeOK, LinkData
    <3>2. UNCHANGED <<stmCount, stm32_data>>
      BY <2>2 DEF StmSend
    <3>3. StmCheckConnection' = StmCheckConnection
      BY <3>2 DEF StmCheckConnection
    <3> QED
      BY <3>1, <3>2, <3>3 DEF LinkLag
  <2>3. CASE StmReadLine \/ StmReadGarbled \/ StmReadNothing
    BY <1>2, <1>3, <1>4, <2>3 DEF LinkLag
  <2> QED
    BY <2>1, <2>2, <2>3 DEF Next, gui_loop, stm32loop, GiveOrder, GuiReports,
       BoardReports, GuiSend, GuiReadLine, GuiReadGarbled, GuiReadNothing,
       GuiRead, vars, stmVars
<1>6. TypeOK /\ LinkLag /\ [Next]_vars =>
        ({stm32_data.linkstatus, stm32_data'.linkstatus}
            = {"DISCONNECTED", "CONNECTED"}
           => stm32_data = Initial("CONNECTED"))
  <2> SUFFICES ASSUME TypeOK, LinkLag, [Next]_vars,
                      {stm32_data.linkstatus, stm32_data'.linkstatus}
                        = {"DISCONNECTED", "CONNECTED"}
               PROVE  stm32_data = Initial("CONNECTED")
    OBVIOUS
  <2>1. CASE stm32_data' = stm32_data
    BY <2>1
  <2>2. CASE StmReadLine \/ StmReadGarbled \/ StmReadNothing
    <3>1. CASE stm32_data.linkstatus = "DISCONNECTED"
      BY <1>2, <1>3, <1>4, <2>2, <3>1 DEF LinkLag
    <3>2. CASE stm32_data.linkstatus = "CONNECTED"
      BY <1>2, <1>3, <1>4, <2>2, <3>2 DEF LinkLag
    <3> QED
      BY <3>1, <3>2
  <2> QED
    BY <2>1, <2>2 DEF Next, gui_loop, stm32loop, GiveOrder, GuiReports,
       BoardReports, GuiSend, GuiReadLine, GuiReadGarbled, GuiReadNothing,
       GuiRead, StmSend, vars, stmVars
<1> QED
  BY <1>1, <1>5, <1>6, TypeCorrect, PTL DEF Spec, LinkIsDamped
=============================================================================
