---------------------------- MODULE MotorClient ----------------------------
(***************************************************************************)
(* The client of the motor PLC (motorclient.h) with the two programs of    *)
(* testmotor.cc: start up, then PLCcommunication in a loop (test1) or the  *)
(* operator's menu TerminalPLC (test2).                                    *)
(*                                                                         *)
(* Every exchange is a send and a recv on one TCP socket.  recv takes what *)
(* has arrived: a part of an answer, or several; only readPLC looks at     *)
(* what it got.  A failed exchange closes the socket; PLCcommunication     *)
(* connects again, start-up and menu go on with the closed one.  The PLC   *)
(* is external: it writes registers and answers in the order of requests.  *)
(*                                                                         *)
(* The six azimuth angles are one, in units of which HalfTurn make 180     *)
(* degrees.  Callers and operators may ask for any, also for one beyond a  *)
(* turn: nobody checks it (test1 asks for the same each time).  Speeds and *)
(* torques are left out.                                                   *)
(***************************************************************************)
EXTENDS Integers, Sequences

CONSTANTS
    HalfTurn,    \* units of angle in 180 degrees
    Angles,      \* what callers and operators may ask for
    Serials,     \* serial numbers before they repeat (256 in the code)
    MaxUnread    \* bound: an answer is split only if so few are outstanding

ASSUME AngleAssumption == HalfTurn \in Nat \ {0} /\ Angles \subseteq Int
ASSUME BoundAssumption == Serials \in Nat \ {0, 1} /\ MaxUnread \in Nat

Turn      == 2 * HalfTurn
Positions == {0} \cup Angles \cup {alpha + Turn : alpha \in Angles}
                 \cup {alpha - Turn : alpha \in Angles}
Infos     == {"ok", "alarm", "resetting"}      \* feedback_allinfo: 0, other, 2
Programs  == {"test1", "test2"}
Stages    == {"connect", "reset", "poll", "confirm", "run", "command", "read",
              "menu", "crashed"}

Startup   == {"connect", "reset", "poll", "confirm", "run"}

\* Requests by the register they write; "read" carries the serial number.  A
\* command also carries the angle it was asked with (history).
Requests ==
    [kind : {"reset", "run", "stop"}, value : {0, 1}]
        \cup [kind : {"home"}, value : {0}] \* all positions and speeds 0
        \cup [kind : {"command"}, value : Positions, asked : Positions]
        \cup [kind : {"read"}, value : 0 .. Serials - 1]

\* A piece of an answer.  That to a read carries the status it was made of,
\* and is marked when a later command has been handled (history).
Parts  == {"whole", "head", "tail"}
Pieces == [kind : {"write"}, part : Parts]
            \cup [kind : {"read"}, part : Parts, serial : 0 .. Serials - 1,
                  info : Infos, late : BOOLEAN]

VARIABLES
    program,       \* which test runs, constant
    stage,         \* where the program is
    todo,          \* requests left in the procedure that runs
    waiting,       \* sent, now in recv
    failed,        \* the procedure returned 1
    socket,        \* sockfd: "open", "broken" (by the peer), "closed" (by us)
    serial,        \* read_buf[1]
    last_position, \* static, of min_position
    feedback,      \* feedback_allinfo
    outdated,      \* history: feedback was out of date when it was accepted
    requests,      \* on their way to the PLC
    stream,        \* pieces of answers on their way to recv
    plc,           \* registers of the PLC
    readings,      \* history: readings of "ok" in a row since the reset pulse
                   \* of the start-up
    lost           \* history: the PLC is not where min_position counts from

clientVars == <<program, stage, todo, waiting, failed, serial, last_position,
                feedback, outdated>>
vars == <<clientVars, socket, requests, stream, plc, readings, lost>>

TypeOK ==
    /\ program \in Programs /\ stage \in Stages
    /\ todo \in Seq(Requests) /\ waiting \in BOOLEAN /\ failed \in BOOLEAN
    /\ socket \in {"open", "broken", "closed"}
    /\ serial \in 0 .. Serials - 1
    /\ last_position \in Positions
    /\ feedback \in Infos /\ outdated \in BOOLEAN
    /\ requests \in Seq(Requests) /\ stream \in Seq(Pieces)
    /\ plc \in [reset : {0, 1}, run : {0, 1}, position : Positions, info : Infos]
    /\ readings \in -1 .. 2
    /\ lost \in BOOLEAN

Reset == <<[kind |-> "reset", value |-> 1], [kind |-> "reset", value |-> 0],
           [kind |-> "home", value |-> 0]>>
Run   == <<[kind |-> "run", value |-> 1], [kind |-> "run", value |-> 0]>>
Stop  == <<[kind |-> "stop", value |-> 1], [kind |-> "stop", value |-> 0]>>
Read  == <<[kind |-> "read", value |-> serial]>>

\* feedback_allinfo is not initialized.
Init ==
    /\ program \in Programs
    /\ stage = "connect"
    /\ todo = <<>> /\ waiting = FALSE /\ failed = FALSE
    /\ socket = "closed"
    /\ serial = 0 /\ last_position = 0
    /\ feedback \in Infos /\ outdated = FALSE
    /\ requests = <<>> /\ stream = <<>>
    /\ plc \in [reset : {0}, run : {0}, position : {0}, info : {"ok", "alarm"}]
    /\ readings = -1
    /\ lost = FALSE

-----------------------------------------------------------------------------
(***************************************************************************)
(* The exchanges.                                                          *)
(***************************************************************************)
Idle    == todo = <<>> /\ ~waiting
\* commandPLC(alpha, rotation) and readPLC return 1 at the first failure.
Returns == Head(todo).kind = "read" \/ stage = "command"

Commands(s) == {i \in DOMAIN s : s[i].kind = "command"}

Close ==
    /\ socket' = "closed"
    /\ requests' = <<>> /\ stream' = <<>>
    /\ lost' = (lost \/ Commands(requests) # {})

\* A failed reading is no reading.
Forget == readings' = IF readings > 0 THEN 0 ELSE readings

Send ==
    /\ todo # <<>> /\ ~waiting
    /\ socket # "closed"
    /\ waiting' = TRUE
    /\ requests' = IF socket = "open" THEN Append(requests, Head(todo))
                                      ELSE requests
    /\ lost' = (lost \/ (socket = "broken" /\ Head(todo).kind = "command"))
    /\ UNCHANGED <<program, stage, todo, failed, serial, last_position, feedback,
                   outdated, socket, stream, plc, readings>>

SendFails ==
    /\ todo # <<>> /\ ~waiting
    /\ socket # "open"
    /\ socket' = "closed" /\ requests' = <<>> /\ stream' = <<>>
    /\ lost' = (lost \/ Head(todo).kind = "command")
    /\ IF Returns THEN /\ todo' = <<>> /\ failed' = TRUE
                       /\ UNCHANGED waiting
                  ELSE /\ waiting' = TRUE
                       /\ UNCHANGED <<todo, failed>>
    /\ IF Head(todo).kind = "read" THEN Forget ELSE UNCHANGED readings
    /\ UNCHANGED <<program, stage, serial, last_position, feedback, outdated,
                   plc>>

RecvFails ==
    /\ waiting
    /\ socket # "open" /\ stream = <<>>
    /\ Close
    /\ waiting' = FALSE
    /\ IF Returns THEN todo' = <<>> /\ failed' = TRUE
                  ELSE todo' = Tail(todo) /\ UNCHANGED failed
    /\ IF Head(todo).kind = "read" THEN Forget ELSE UNCHANGED readings
    /\ UNCHANGED <<program, stage, serial, last_position, feedback, outdated,
                   plc>>

\* What a recv may return, and what it leaves unread.
Taken(n) == SubSeq(stream, 1, n)
Left(n)  == SubSeq(stream, n + 1, Len(stream))

\* Any bytes are good for the answer to a write.
RecvAnyAnswer ==
    /\ waiting
    /\ Head(todo).kind # "read"
    /\ \E n \in 1 .. Len(stream) : stream' = Left(n)
    /\ waiting' = FALSE
    /\ todo' = Tail(todo)
    /\ UNCHANGED <<program, stage, failed, serial, last_position, feedback,
                   outdated, socket, requests, plc, readings, lost>>

\* chk_parse_command_data: one whole answer to a read of this serial number
Accepted(taken) ==
    /\ taken[1].kind = "read" /\ taken[1].serial = serial
    /\ \/ Len(taken) = 1 /\ taken[1].part = "whole"
       \/ Len(taken) = 2 /\ taken[1].part = "head"

RecvReading ==
    /\ waiting
    /\ Head(todo).kind = "read"
    /\ \E n \in 1 .. Len(stream) :
          /\ Accepted(Taken(n))
          /\ stream' = Left(n)
    /\ feedback' = stream[1].info
    /\ outdated' = (stream[1].late \/ requests # <<>>)
    /\ serial' = (serial + 1) % Serials
    /\ waiting' = FALSE
    /\ todo' = <<>>
    /\ IF feedback' = "ok"
       THEN readings' = IF readings \in {0, 1} THEN readings + 1 ELSE readings
       ELSE Forget
    /\ UNCHANGED <<program, stage, failed, last_position, socket, requests, plc,
                   lost>>

RejectReadingKeepsSocket ==   \* faulty: a wrong answer does not close the socket
    /\ waiting
    /\ Head(todo).kind = "read"
    /\ \E n \in 1 .. Len(stream) : ~Accepted(Taken(n)) /\ stream' = Left(n)
    /\ waiting' = FALSE
    /\ todo' = <<>>
    /\ failed' = FALSE
    /\ Forget
    /\ UNCHANGED <<program, stage, serial, last_position, feedback, outdated,
                   socket, requests, plc, lost>>

RejectReading ==
    /\ waiting
    /\ Head(todo).kind = "read"
    /\ \E n \in 1 .. Len(stream) : ~Accepted(Taken(n))
    /\ Close
    /\ waiting' = FALSE
    /\ todo' = <<>>
    /\ failed' = TRUE
    /\ Forget
    /\ UNCHANGED <<program, stage, serial, last_position, feedback, outdated,
                   plc>>

Exchange ==
    \/ Send \/ SendFails \/ RecvFails
    \/ RecvAnyAnswer \/ RecvReading \/ RejectReading

-----------------------------------------------------------------------------
(***************************************************************************)
(* min_position: the command goes to the nearest angle, counted on from the*)
(* last one; one correction by a turn only.                                *)
(***************************************************************************)
MinPosition(alpha, last) ==
    LET delta == alpha - last
    IN  last + (IF delta > HalfTurn THEN delta - Turn
                ELSE IF delta < -HalfTurn THEN delta + Turn ELSE delta)

CommandTo(position, alpha) ==
    <<[kind |-> "command", value |-> position, asked |-> alpha]>>

CommandRawLast(alpha) ==      \* faulty: remembers the angle before unwinding it
    /\ last_position' = alpha
    /\ todo' = CommandTo(MinPosition(alpha, last_position), alpha)

CommandAccumulates(alpha) ==  \* faulty: adds the whole angle to the last one
    /\ last_position' = last_position + MinPosition(alpha, last_position)
    /\ todo' = CommandTo(last_position', alpha)

Command(alpha) ==
    /\ last_position' = MinPosition(alpha, last_position)
    /\ todo' = CommandTo(last_position', alpha)

netVars == <<socket, requests, stream, lost>>
readVars == <<feedback, outdated, readings, plc>>

\* The next procedure of the program begins.
GoOn(nextStage, script) ==
    /\ stage' = nextStage /\ todo' = script /\ failed' = FALSE
    /\ UNCHANGED <<program, waiting, serial, readVars>>

NewConnection ==
    socket' = "open" /\ requests' = <<>> /\ stream' = <<>>

\* Without a connection p is NULL, and p->ai_family ends the program.
Crash ==
    /\ stage' = "crashed" /\ todo' = <<>>
    /\ UNCHANGED <<program, waiting, failed, serial, last_position, readVars,
                   netVars>>

(***************************************************************************)
(* startup_socket_client: connect, reset, read every five seconds until    *)
(* the PLC reports 0 twice, run.  What readPLC returns is not looked at.   *)
(***************************************************************************)
Connect ==
    /\ stage = "connect"
    /\ \/ /\ GoOn("reset", Reset) /\ NewConnection
          /\ UNCHANGED <<last_position, lost>>
       \/ Crash

AfterReset ==
    /\ stage = "reset" /\ Idle
    /\ GoOn("poll", Read)
    /\ UNCHANGED <<last_position, netVars>>

FirstReading ==
    /\ stage = "poll" /\ Idle
    /\ GoOn(IF feedback = "ok" THEN "confirm" ELSE "poll", Read)
    /\ UNCHANGED <<last_position, netVars>>

SecondReadingReconnects ==    \* faulty: the closed socket is connected again
    /\ stage = "confirm" /\ Idle
    /\ IF feedback = "ok" THEN GoOn("run", Run) ELSE GoOn("poll", Read)
    /\ IF failed THEN NewConnection ELSE UNCHANGED <<socket, requests, stream>>
    /\ UNCHANGED <<last_position, lost>>

SecondReading ==
    /\ stage = "confirm" /\ Idle
    /\ IF feedback = "ok" THEN GoOn("run", Run) ELSE GoOn("poll", Read)
    /\ UNCHANGED <<last_position, netVars>>

\* The first command, or the menu
AfterRun ==
    /\ stage = "run" /\ Idle
    /\ UNCHANGED <<program, waiting, serial, feedback, outdated, plc, netVars>>
    /\ failed' = FALSE
    /\ readings' = -1
    /\ \/ /\ program = "test1" /\ stage' = "command"
          /\ \E alpha \in Angles : Command(alpha)
       \/ /\ program = "test2" /\ stage' = "menu"
          /\ UNCHANGED <<todo, last_position>>

startup_socket_client ==
    Connect \/ AfterReset \/ FirstReading \/ SecondReading \/ AfterRun

(***************************************************************************)
(* PLCcommunication in a loop: each failure connects again, once.          *)
(***************************************************************************)
SocketConnectionLocal ==      \* faulty: a local sockfd hides the member
    UNCHANGED <<socket, requests, stream>>

SocketConnection == NewConnection

Reconnected == IF failed THEN SocketConnection
                         ELSE UNCHANGED <<socket, requests, stream>>

AfterCommand ==
    /\ stage = "command" /\ Idle
    /\ \/ GoOn("read", Read) /\ Reconnected /\ UNCHANGED <<last_position, lost>>
       \/ failed /\ Crash

AfterRead ==
    /\ stage = "read" /\ Idle
    /\ \/ /\ stage' = "command" /\ failed' = FALSE
          /\ \E alpha \in Angles : Command(alpha)
          /\ Reconnected
          /\ UNCHANGED <<program, waiting, serial, readVars, lost>>
       \/ failed /\ Crash

PLCcommunication == AfterCommand \/ AfterRead

\* TerminalPLC: the operator picks a procedure; "suspend" does nothing.  An
\* input that scanf cannot read leaves the angle of the last command.
TerminalPLC ==
    /\ stage = "menu" /\ Idle
    /\ UNCHANGED <<program, stage, waiting, serial, readVars, netVars>>
    /\ failed' = FALSE
    /\ \/ todo' \in {Reset, Run, Read, Stop} /\ UNCHANGED last_position
       \/ \E alpha \in Angles \cup {last_position} : Command(alpha)

-----------------------------------------------------------------------------
(***************************************************************************)
(* The PLC and the network.  An answer arrives in one piece or in two; a   *)
(* break loses the requests not handled and answers not yet arrived.       *)
(***************************************************************************)
Handled(r) ==
    CASE r.kind = "reset"   -> [plc EXCEPT !.reset = r.value, !.info =
                                  IF r.value = 1 THEN "resetting" ELSE @]
      [] r.kind = "run"     -> [plc EXCEPT !.run = r.value]
      [] r.kind \in {"home", "command"} -> [plc EXCEPT !.position = r.value]
      [] OTHER              -> plc

Answer(r, part) ==
    IF r.kind = "read" THEN [kind |-> "read", part |-> part, serial |-> r.value,
                             info |-> plc.info, late |-> FALSE]
                       ELSE [kind |-> "write", part |-> part]

\* The answers on their way, after a request was handled
Unread(r) ==
    IF r.kind # "command" THEN stream
    ELSE [i \in DOMAIN stream |-> IF stream[i].kind = "read"
                                  THEN [stream[i] EXCEPT !.late = TRUE]
                                  ELSE stream[i]]

HandleRequest ==
    /\ socket = "open" /\ requests # <<>>
    /\ LET r == Head(requests)
       IN  /\ plc' = Handled(r)
           /\ \/ stream' = Append(Unread(r), Answer(r, "whole"))
              \/ /\ Len(requests) + Len(stream) <= MaxUnread
                 /\ stream' = Unread(r) \o <<Answer(r, "head"), Answer(r, "tail")>>
           /\ readings' = IF r.kind = "reset" /\ stage \in Startup
                          THEN -r.value ELSE readings
           /\ lost' = CASE r.kind = "command" -> FALSE
                        [] r.kind = "home" -> \/ r.value # last_position
                                              \/ Commands(Tail(requests)) # {}
                        [] OTHER -> lost
    /\ requests' = Tail(requests)
    /\ UNCHANGED <<clientVars, socket>>

\* The reset comes to its end, or an alarm comes up.
StatusChanges ==
    /\ \/ /\ plc.info = "resetting" /\ plc.reset = 0
          /\ plc' = [plc EXCEPT !.info = "ok"]
       \/ /\ plc.info # "alarm"
          /\ plc' = [plc EXCEPT !.info = "alarm"]
    /\ UNCHANGED <<clientVars, netVars, readings>>

LinkBreaks ==
    /\ socket = "open"
    /\ socket' = "broken"
    /\ requests' = <<>>
    /\ \E n \in 0 .. Len(stream) : stream' = Taken(n)
    /\ lost' = (lost \/ Commands(requests) # {})
    /\ UNCHANGED <<clientVars, plc, readings>>

Client == Exchange \/ startup_socket_client \/ PLCcommunication

Next ==
    \/ Client \/ TerminalPLC
    \/ HandleRequest \/ StatusChanges \/ LinkBreaks

Spec == Init /\ [][Next]_vars

(***************************************************************************)
(* The program does not stop by itself; recv has no timeout, and ends when *)
(* the PLC answers or the link is seen to break.                           *)
(***************************************************************************)
FairSpec == Spec /\ WF_vars(Client) /\ WF_vars(HandleRequest)

-----------------------------------------------------------------------------
(***************************************************************************)
(* Start-up runs the motors only after the reset pulse and two readings of *)
(* 0 in a row, although it does not look at what readPLC returns and may   *)
(* test an old feedback_allinfo twice: then the socket is closed.          *)
(***************************************************************************)
RunOnlyAfterReset ==
    [][stage = "run" /\ plc.run = 0 /\ plc'.run = 1 => readings = 2]_vars

(***************************************************************************)
(* A reading that readPLC accepts was made after everything sent before it *)
(* had been handled, however the answers were split or run together.       *)
(***************************************************************************)
FeedbackCurrent == ~outdated

(***************************************************************************)
(* As long as no command was lost, and the PLC was not sent home behind    *)
(* the back of min_position, since the last one it handled, a command turns*)
(* a thruster by half a turn at most; further only if the angle asked for  *)
(* is still further, by a turn, from where the thruster stands.            *)
(***************************************************************************)
Apart(p, q) == IF p < q THEN q - p ELSE p - q
ShortTurn(from, to, asked) ==
    \/ Apart(from, to) <= HalfTurn
    \/ Apart(from, to) <= Apart(from, asked) - Turn
ShortTurns ==
    [][plc'.position # plc.position /\ ~lost /\ Head(requests).kind = "command"
       => ShortTurn(plc.position, plc'.position, Head(requests).asked)]_vars

(***************************************************************************)
(* When the link breaks only so often, and can be set up again each time,  *)
(* commands reach the PLC again and again.                                 *)
(***************************************************************************)
CommandHandled == stage = "command" /\ waiting /\ requests = <<>>
CommandsResume ==
    /\ <>(stage = "command") /\ [](stage # "crashed")
    /\ <>[](socket # "broken")
    => []<>CommandHandled
=============================================================================
