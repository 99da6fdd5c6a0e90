------------------------------ MODULE DataLinks ------------------------------
(***************************************************************************)
(* The two serial links of the vessel.  gui_loop talks to the shore GUI    *)
(* (guilink.h), stm32loop to the motor board (stm32_link.h).  An order of  *)
(* the operator (stand by, manual, auto, emergency stop) goes from the GUI *)
(* over guilink_RTdata to the board; the board's status goes back over     *)
(* stm32_data.  Each thread sends, waits, reads one line and publishes its *)
(* own struct; a line whose checksum is wrong, or no line at all, is a     *)
(* failed read.                                                            *)
(*                                                                         *)
(* Orders are numbered as the operator gives them; 0 is the initial        *)
(* STANDBY.  A status is the number of the order the board executes.       *)
(***************************************************************************)
EXTENDS Integers, Sequences

CONSTANTS
    MaxOrders,      \* orders the operator gives (bound)
    MaxLines,       \* lines a serial input buffer holds (bound)
    GuiCap,         \* guilink.h: the count is kept in 0 .. 20 ...
    GuiLimit,       \* ... and above 20 the link is DISCONNECTED
    StmCap,         \* stm32_link.h: the count is kept in 0 .. 10,
    StmConnecting,  \* below 2 the link is DISCONNECTED,
    StmConnected    \* from 8 on it is CONNECTED

ASSUME BoundAssumption == MaxOrders \in Nat /\ MaxLines \in Nat \ {0}
ASSUME ThresholdAssumption ==
    /\ GuiCap \in Nat /\ GuiLimit \in Nat
    /\ StmCap \in Nat /\ StmConnecting \in Nat /\ StmConnected \in Nat
    /\ 1 <= StmConnecting /\ StmConnecting < StmConnected
    /\ StmConnected <= StmCap

Orders     == 0 .. MaxOrders
LinkStatus == {"DISCONNECTED", "CONNECTING", "CONNECTED"}
Phases     == {"send", "receive"}

VARIABLES
    given,           \* number of the operator's last order
    guiLine,         \* lines from the GUI in the input buffer of the PC
    display,         \* the status the GUI shows
    guiPhase,
    guilinkrtdata,   \* gui_loop's struct: order, status, linkstatus
    guiCount,        \* gui_connetion_failure_count
    guilink_RTdata,  \* shared copy of guilinkrtdata
    stmPhase,
    stmdata,         \* stm32loop's struct: order, status, linkstatus
    stmCount,        \* connection_count
    stm32_data,      \* shared copy of stmdata
    executed,        \* the order the board executes
    stmLine          \* lines from the board in the input buffer of the PC

guiVars == <<guiPhase, guilinkrtdata, guiCount, guilink_RTdata>>
stmVars == <<stmPhase, stmdata, stmCount, stm32_data>>
vars == <<given, guiLine, display, guiVars, stmVars, executed, stmLine>>

LinkData == [order : Orders, status : Orders, linkstatus : LinkStatus]

TypeOK ==
    /\ given \in Orders /\ executed \in Orders /\ display \in Orders
    /\ guiLine \in Seq(Orders) /\ stmLine \in Seq(Orders)
    /\ guiPhase \in Phases /\ stmPhase \in Phases
    /\ guilinkrtdata \in LinkData /\ guilink_RTdata \in LinkData
    /\ stmdata \in LinkData /\ stm32_data \in LinkData
    /\ guiCount \in 0 .. GuiCap
    /\ stmCount \in 0 .. StmCap

Initial(link) == [order |-> 0, status |-> 0, linkstatus |-> link]

Init ==
    /\ given = 0 /\ guiLine = <<>> /\ display = 0
    /\ guiPhase = "send" /\ guiCount = 0
    /\ guilinkrtdata = Initial("DISCONNECTED")
    /\ guilink_RTdata = Initial("DISCONNECTED")
    /\ stmPhase = "send" /\ stmCount = 0
    /\ stmdata = Initial("CONNECTED")
    /\ stm32_data = Initial("CONNECTED")
    /\ executed = 0 /\ stmLine = <<>>

UpUnbounded(count, cap) == count + 1    \* faulty: no std::min

Up(count, cap) == IF count < cap THEN count + 1 ELSE cap
Down(count)    == IF count > 0 THEN count - 1 ELSE 0

-----------------------------------------------------------------------------
(***************************************************************************)
(* Outside the PC: the operator, the GUI's lines, the board's lines.  A    *)
(* full input buffer takes no line.                                        *)
(***************************************************************************)
GiveOrder ==
    /\ given < MaxOrders
    /\ given' = given + 1
    /\ UNCHANGED <<guiLine, display, guiVars, stmVars, executed, stmLine>>

GuiReports ==
    /\ Len(guiLine) < MaxLines
    /\ guiLine' = Append(guiLine, given)
    /\ UNCHANGED <<given, display, guiVars, stmVars, executed, stmLine>>

BoardReports ==
    /\ Len(stmLine) < MaxLines
    /\ stmLine' = Append(stmLine, executed)
    /\ UNCHANGED <<given, guiLine, display, guiVars, stmVars, executed>>

-----------------------------------------------------------------------------
(***************************************************************************)
(* gui_loop: setguilinkRTdata and the first half of guicommunication.  The *)
(* line to the GUI arrives or is lost.                                     *)
(***************************************************************************)
GuiCheckConnection ==
    IF guiCount > GuiLimit THEN "DISCONNECTED" ELSE "CONNECTED"

GuiSendOrdered(arrives) ==   \* faulty: reports what was ordered as the status
    /\ guiPhase = "send"
    /\ guiPhase' = "receive"
    /\ guilinkrtdata' = [guilinkrtdata EXCEPT !.status = stm32_data.order,
                                              !.linkstatus = GuiCheckConnection]
    /\ display' = IF arrives THEN stm32_data.order ELSE display
    /\ UNCHANGED <<given, guiLine, guiCount, guilink_RTdata, stmVars, executed,
                   stmLine>>

GuiSend(arrives) ==
    /\ guiPhase = "send"
    /\ guiPhase' = "receive"
    /\ guilinkrtdata' = [guilinkrtdata EXCEPT !.status = stm32_data.status,
                                              !.linkstatus = GuiCheckConnection]
    /\ display' = IF arrives THEN stm32_data.status ELSE display
    /\ UNCHANGED <<given, guiLine, guiCount, guilink_RTdata, stmVars, executed,
                   stmLine>>

\* parsedata_from_gui, the count, and the assignment to guilink_RTdata
GuiRead ==
    /\ guiPhase = "receive"
    /\ guiPhase' = "send"
    /\ guilink_RTdata' = guilinkrtdata'
    /\ UNCHANGED <<given, display, stmVars, executed, stmLine>>

GuiReadLine ==
    /\ guiLine # <<>>
    /\ guiLine' = Tail(guiLine)
    /\ guilinkrtdata' = [guilinkrtdata EXCEPT !.order = Head(guiLine)]
    /\ guiCount' = Up(guiCount, GuiCap)
    /\ GuiRead

GuiReadGarbledResets ==      \* faulty: a bad line is taken for STANDBY
    /\ guiLine # <<>>
    /\ guiLine' = Tail(guiLine)
    /\ guiCount' = Down(guiCount)
    /\ guilinkrtdata' = [guilinkrtdata EXCEPT !.order = 0]
    /\ GuiRead

GuiReadGarbled ==      \* no "$", no "*", or a checksum error
    /\ guiLine # <<>>
    /\ guiLine' = Tail(guiLine)
    /\ guiCount' = Down(guiCount)
    /\ UNCHANGED guilinkrtdata
    /\ GuiRead

GuiReadNothing ==      \* readline timed out
    /\ guiLine = <<>>
    /\ guiCount' = Down(guiCount)
    /\ UNCHANGED <<guiLine, guilinkrtdata>>
    /\ GuiRead

-----------------------------------------------------------------------------
(***************************************************************************)
(* stm32loop: the order is taken from guilink_RTdata, then setstm32data and*)
(* the first half of stm32onestep.                                         *)
(***************************************************************************)
StmCheckConnection ==
    IF stmCount < StmConnecting THEN "DISCONNECTED"
    ELSE IF stmCount < StmConnected THEN "CONNECTING" ELSE "CONNECTED"

StmSendOnce(arrives) ==      \* faulty: the order was read before the loop
    /\ stmPhase = "send"
    /\ stmPhase' = "receive"
    /\ stmdata' = [stmdata EXCEPT !.linkstatus = StmCheckConnection]
    /\ executed' = IF arrives THEN stmdata.order ELSE executed
    /\ UNCHANGED <<given, guiLine, display, guiVars, stmCount, stm32_data,
                   stmLine>>

StmSendLinked(arrives) ==    \* faulty: no order while the board is silent
    /\ stmPhase = "send"
    /\ stmPhase' = "receive"
    /\ stmdata' = [stmdata EXCEPT
                     !.order = IF StmCheckConnection = "DISCONNECTED"
                               THEN @ ELSE guilink_RTdata.order,
                     !.linkstatus = StmCheckConnection]
    /\ executed' = IF arrives THEN stmdata'.order ELSE executed
    /\ UNCHANGED <<given, guiLine, display, guiVars, stmCount, stm32_data,
                   stmLine>>

StmSend(arrives) ==
    /\ stmPhase = "send"
    /\ stmPhase' = "receive"
    /\ stmdata' = [stmdata EXCEPT !.order = guilink_RTdata.order,
                                  !.linkstatus = StmCheckConnection]
    /\ executed' = IF arrives THEN guilink_RTdata.order ELSE executed
    /\ UNCHANGED <<given, guiLine, display, guiVars, stmCount, stm32_data,
                   stmLine>>

\* parsedata_from_stm32, the count, and the assignment to stm32_data
StmRead ==
    /\ stmPhase = "receive"
    /\ stmPhase' = "send"
    /\ stm32_data' = stmdata'
    /\ UNCHANGED <<given, guiLine, display, guiVars, executed>>

StmReadLine ==
    /\ stmLine # <<>>
    /\ stmLine' = Tail(stmLine)
    /\ stmdata' = [stmdata EXCEPT !.status = Head(stmLine)]
    /\ stmCount' = Up(stmCount, StmCap)
    /\ StmRead

StmReadGarbledResets ==      \* faulty: a bad line resets the count
    /\ stmLine # <<>>
    /\ stmLine' = Tail(stmLine)
    /\ stmCount' = 0
    /\ UNCHANGED stmdata
    /\ StmRead

StmReadGarbledForgets ==     \* faulty: a bad line is taken for STANDBY
    /\ stmLine # <<>>
    /\ stmLine' = Tail(stmLine)
    /\ stmCount' = Down(stmCount)
    /\ stmdata' = [stmdata EXCEPT !.status = 0]
    /\ StmRead

StmReadGarbled ==
    /\ stmLine # <<>>
    /\ stmLine' = Tail(stmLine)
    /\ stmCount' = Down(stmCount)
    /\ UNCHANGED stmdata
    /\ StmRead

StmReadNothingIgnored ==     \* faulty: only bad lines count as failures
    /\ stmLine = <<>>
    /\ UNCHANGED <<stmLine, stmdata, stmCount>>
    /\ StmRead

StmReadNothing ==
    /\ stmLine = <<>>
    /\ stmCount' = Down(stmCount)
    /\ UNCHANGED <<stmLine, stmdata>>
    /\ StmRead

-----------------------------------------------------------------------------
gui_loop  == \/ \E arrives \in BOOLEAN : GuiSend(arrives)
             \/ GuiReadLine \/ GuiReadGarbled \/ GuiReadNothing
stm32loop == \/ \E arrives \in BOOLEAN : StmSend(arrives)
             \/ StmReadLine \/ StmReadGarbled \/ StmReadNothing

Next ==
    \/ GiveOrder \/ GuiReports \/ BoardReports
    \/ gui_loop
    \/ stm32loop

Spec == Init /\ [][Next]_vars

(***************************************************************************)
(* Both loops run for ever: sends and reads end within their timeouts.     *)
(***************************************************************************)
Scheduling == WF_vars(gui_loop) /\ WF_vars(stm32loop)

FairSpec == Spec /\ Scheduling

(***************************************************************************)
(* Links that work now and then: GUI and board keep reporting, and of the  *)
(* lines read or written again and again some are whole.                   *)
(***************************************************************************)
LiveLinks ==
    /\ WF_vars(GuiReports) /\ WF_vars(BoardReports)
    /\ SF_vars(GuiReadLine) /\ SF_vars(StmReadLine)
    /\ SF_vars(GuiSend(TRUE)) /\ SF_vars(StmSend(TRUE))

-----------------------------------------------------------------------------
(***************************************************************************)
(* The board never falls back to an older order: once it executes an       *)
(* emergency stop, no delayed line or stale copy brings "auto" back.       *)
(***************************************************************************)
NoOldOrder == [][executed' >= executed]_vars

(***************************************************************************)
(* Seen from operator and board, the loops, structs and lines between them *)
(* are an OrderRelay: nothing is executed or shown out of order.           *)
(***************************************************************************)
Relay == INSTANCE OrderRelay
            WITH MaxOrders <- MaxOrders, given <- given,
                 executed <- executed, display <- display
RelaysOrders == Relay!Spec

(***************************************************************************)
(* A confirmation is true: the status the GUI shows is one the board       *)
(* reached, and the board executes only what the operator asked for.       *)
(***************************************************************************)
ConfirmationsTrue == display <= executed /\ executed <= given

(***************************************************************************)
(* The operator's last order reaches the board, and its confirmation the   *)
(* GUI, whenever the links work now and then.                              *)
(***************************************************************************)
OrdersArrive == LiveLinks => <>[](executed = given /\ display = given)

(***************************************************************************)
(* When the GUI falls silent for ever, the board does not fall back to     *)
(* STANDBY: stm32loop keeps sending the order that was read last, and the  *)
(* board comes to execute it, if only some lines to it arrive.             *)
(***************************************************************************)
LastOrderHeld ==
    <>[](guiLine = <<>>) /\ SF_vars(StmSend(TRUE))
      => <>[](executed = guilink_RTdata.order)

(***************************************************************************)
(* The link to the board comes up gradually and goes down gradually: one   *)
(* bad line does not take it from CONNECTED to DISCONNECTED, nor one good  *)
(* line back.  Only the struct stm32_data starts with, CONNECTED before    *)
(* any line was read, is replaced by the first cycle.                      *)
(***************************************************************************)
LinkIsDamped ==
    [][{stm32_data.linkstatus, stm32_data'.linkstatus}
          = {"DISCONNECTED", "CONNECTED"}
         => stm32_data = Initial("CONNECTED")]_vars

\* A dead board is noticed, and the link never reported as up again.
BoardLossNoticed ==
    <>[](stmLine = <<>>) => <>[](stm32_data.linkstatus = "DISCONNECTED")

(***************************************************************************)
(* A GUI that fell silent is noticed: checkconnection (guilink.h) reports  *)
(* DISCONNECTED after a run of failures.                                   *)
(***************************************************************************)
GuiLossNoticed ==
    <>[](guiLine = <<>>) => <>[](guilink_RTdata.linkstatus = "DISCONNECTED")
=============================================================================
