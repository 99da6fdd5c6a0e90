------------------------- MODULE MotorClientProofs -------------------------
(***************************************************************************)
(* Proofs about MotorClient, for every resolution of the angle, every      *)
(* range of serial numbers and any splitting of the answers.               *)
(***************************************************************************)
EXTENDS MotorClient, TLAPS

-----------------------------------------------------------------------------
(***************************************************************************)
(* Sequences                                                               *)
(***************************************************************************)
LEMMA EmptySeq == ASSUME NEW S PROVE <<>> \in Seq(S)
OBVIOUS

LEMMA TailSeq ==
    ASSUME NEW S, NEW s \in Seq(S), s # <<>>
    PROVE  /\ Head(s) = s[1] /\ Head(s) \in S
           /\ Tail(s) \in Seq(S) /\ Len(Tail(s)) = Len(s) - 1
           /\ \A i \in 1 .. Len(s) - 1 : Tail(s)[i] = s[i + 1]
OBVIOUS

LEMMA AppendSeq ==
    ASSUME NEW S, NEW s \in Seq(S), NEW e \in S
    PROVE  /\ Append(s, e) \in Seq(S) /\ Len(Append(s, e)) = Len(s) + 1
           /\ \A i \in 1 .. Len(s) : Append(s, e)[i] = s[i]
           /\ Append(s, e)[Len(s) + 1] = e
OBVIOUS

LEMMA CutSeq ==
    ASSUME NEW S, NEW s \in Seq(S), NEW n \in 0 .. Len(s)
    PROVE  /\ SubSeq(s, 1, n) \in Seq(S) /\ Len(SubSeq(s, 1, n)) = n
           /\ \A i \in 1 .. n : SubSeq(s, 1, n)[i] = s[i]
           /\ SubSeq(s, n + 1, Len(s)) \in Seq(S)
           /\ Len(SubSeq(s, n + 1, Len(s))) = Len(s) - n
           /\ \A i \in 1 .. Len(s) - n : SubSeq(s, n + 1, Len(s))[i] = s[i + n]
OBVIOUS

LEMMA MapSeq ==
    ASSUME NEW S, NEW s \in Seq(S), NEW f \in [DOMAIN s -> S]
    PROVE  f \in Seq(S) /\ Len(f) = Len(s)
<1>1. DOMAIN s = 1 .. Len(s) /\ Len(s) \in Nat
  OBVIOUS
<1> QED
  BY <1>1

-----------------------------------------------------------------------------
(***************************************************************************)
(* min_position: from any angle the client can remember, the command for   *)
(* any angle it can be given is that angle up to a whole turn.  It is half *)
(* a turn away at most, or one turn less than the angle asked for is, when *)
(* one correction by a turn is not enough.                                 *)
(***************************************************************************)
LEMMA PositionsAreAngles ==
    /\ 0 \in Positions /\ Positions \subseteq Int
    /\ \A alpha \in Angles : {alpha - Turn, alpha, alpha + Turn} \subseteq Positions
<1>1. \A alpha \in Angles : /\ alpha \in Int /\ alpha + Turn \in Int
                             /\ alpha - Turn \in Int
  BY AngleAssumption DEF Turn
<1>2. \A alpha \in Angles : {alpha - Turn, alpha, alpha + Turn} \subseteq Positions
  BY Zenon DEF Positions
<1>3. ASSUME NEW p \in Positions PROVE p \in Int
  <2>1. 0 \in Int
    OBVIOUS
  <2> QED
    BY <1>1, <1>3, <2>1, Zenon DEF Positions
<1>4. 0 \in Positions
  BY DEF Positions
<1> QED
  BY <1>2, <1>3, <1>4

LEMMA NearestPosition ==
    ASSUME NEW last \in Positions, NEW alpha \in Angles \cup {last}
    PROVE  /\ MinPosition(alpha, last) \in Positions
           /\ MinPosition(alpha, last) \in {alpha - Turn, alpha, alpha + Turn}
           /\ ShortTurn(last, MinPosition(alpha, last), alpha)
<1>1. alpha \in Int /\ last \in Int
  BY PositionsAreAngles, AngleAssumption
<1>2. /\ MinPosition(alpha, last) \in {alpha - Turn, alpha, alpha + Turn}
      /\ alpha = last => MinPosition(alpha, last) = last
  BY <1>1, AngleAssumption DEF MinPosition, Turn
<1>3. ShortTurn(last, MinPosition(alpha, last), alpha)
  BY <1>1, AngleAssumption DEF MinPosition, ShortTurn, Apart, Turn
<1> QED
  BY <1>2, <1>3, PositionsAreAngles

-----------------------------------------------------------------------------
(***************************************************************************)
(* Types.  recv is called only with a request under way.                   *)
(***************************************************************************)
TypeInv ==
    /\ TypeOK
    /\ waiting => todo # <<>>
    /\ stage = "connect" => todo = <<>>

LEMMA RequestKinds ==
    ASSUME NEW r \in Requests
    PROVE  /\ r.kind \in {"reset", "run", "stop", "home", "command", "read"}
           /\ r.kind \in {"reset", "run"} => r.value \in {0, 1}
           /\ r.kind \in {"home", "command"} => r.value \in Positions
           /\ r.kind = "command" => r.asked \in Positions
           /\ r.kind = "read" => r.value \in 0 .. Serials - 1
BY PositionsAreAngles DEF Requests

LEMMA ScriptTypes ==
    ASSUME serial \in 0 .. Serials - 1
    PROVE  /\ Reset \in Seq(Requests) /\ Run \in Seq(Requests)
           /\ Stop \in Seq(Requests) /\ Read \in Seq(Requests)
           /\ Reset # <<>> /\ Run # <<>> /\ Stop # <<>> /\ Read # <<>>
<1>1. /\ [kind |-> "reset", value |-> 1] \in Requests
      /\ [kind |-> "reset", value |-> 0] \in Requests
      /\ [kind |-> "run", value |-> 1] \in Requests
      /\ [kind |-> "run", value |-> 0] \in Requests
      /\ [kind |-> "stop", value |-> 1] \in Requests
      /\ [kind |-> "stop", value |-> 0] \in Requests
      /\ [kind |-> "home", value |-> 0] \in Requests
      /\ [kind |-> "read", value |-> serial] \in Requests
  BY DEF Requests
<1> QED
  BY <1>1 DEF Reset, Run, Stop, Read

LEMMA CommandTypes ==
    ASSUME TypeOK, NEW alpha \in Angles \cup {last_position}, Command(alpha)
    PROVE  /\ last_position' \in Positions
           /\ todo' \in Seq(Requests) /\ todo' # <<>>
<1>1. last_position' \in Positions
  BY NearestPosition DEF Command, TypeOK
<1>2. alpha \in Positions
  BY PositionsAreAngles DEF TypeOK
<1>3. CommandTo(last_position', alpha)[1] \in Requests
  BY <1>1, <1>2 DEF CommandTo, Requests
<1> QED
  BY <1>1, <1>3 DEF Command, CommandTo

LEMMA AnswerTypes ==
    ASSUME TypeOK, NEW r \in Requests, NEW part \in Parts
    PROVE  Answer(r, part) \in Pieces
BY RequestKinds DEF Answer, Pieces, TypeOK

LEMMA UnreadTypes ==
    ASSUME TypeOK, NEW r \in Requests
    PROVE  Unread(r) \in Seq(Pieces) /\ Len(Unread(r)) = Len(stream)
<1>1. \A i \in DOMAIN stream : stream[i] \in Pieces
  BY DEF TypeOK
<1>2. \A p \in Pieces : p.kind = "read" => [p EXCEPT !.late = TRUE] \in Pieces
  BY DEF Pieces
<1>3. [i \in DOMAIN stream |-> IF stream[i].kind = "read"
                               THEN [stream[i] EXCEPT !.late = TRUE]
                               ELSE stream[i]] \in [DOMAIN stream -> Pieces]
  BY <1>1, <1>2
<1> QED
  BY <1>3, MapSeq DEF Unread, TypeOK

LEMMA HandledTypes ==
    ASSUME TypeOK, NEW r \in Requests
    PROVE  Handled(r) \in [reset : {0, 1}, run : {0, 1}, position : Positions,
                           info : Infos]
BY RequestKinds DEF Handled, TypeOK, Infos

LEMMA TypeStep == TypeInv /\ [Next]_vars => TypeInv'
<1> SUFFICES ASSUME TypeInv, [Next]_vars PROVE TypeInv'
  OBVIOUS
<1> USE DEF TypeInv, TypeOK
<1>1. CASE Send
  <2>1. requests' \in Seq(Requests)
    BY <1>1, TailSeq, AppendSeq DEF Send
  <2>2. lost' \in BOOLEAN
    BY <1>1, Zenon DEF Send
  <2> QED
    BY <1>1, <2>1, <2>2 DEF Send
<1>2. CASE SendFails \/ RecvFails \/ RejectReading
  <2>1. lost' \in BOOLEAN
    BY <1>2, Zenon DEF SendFails, RecvFails, RejectReading, Close
  <2>2. readings' \in -1 .. 2
    BY <1>2 DEF SendFails, RecvFails, RejectReading, Forget
  <2>3. /\ UNCHANGED <<program, stage, serial, last_position, feedback, outdated,
                       plc>>
        /\ socket' = "closed" /\ requests' = <<>> /\ stream' = <<>>
    BY <1>2, Zenon DEF SendFails, RecvFails, RejectReading, Close
  <2>4. CASE SendFails
    <3>1. /\ todo # <<>> /\ todo' \in {todo, <<>>}
          /\ waiting' \in BOOLEAN /\ failed' \in BOOLEAN
          /\ waiting' => todo' = todo
      BY <2>4 DEF SendFails
    <3>2. todo' \in Seq(Requests)
      BY <3>1, EmptySeq
    <3> QED
      BY <2>1, <2>2, <2>3, <3>1, <3>2
  <2>5. CASE RecvFails \/ RejectReading
    <3>1. /\ todo # <<>> /\ todo' \in {Tail(todo), <<>>}
          /\ ~waiting' /\ waiting' \in BOOLEAN /\ failed' \in BOOLEAN
      BY <2>5 DEF RecvFails, RejectReading
    <3>2. Tail(todo) \in Seq(Requests)
      BY <3>1, TailSeq
    <3>3. todo' \in Seq(Requests)
      BY <3>1, <3>2, EmptySeq
    <3> QED
      BY <2>1, <2>2, <2>3, <3>1, <3>3
  <2> QED
    BY <1>2, <2>4, <2>5
<1>3. CASE RecvAnyAnswer
  <2>1. stream' \in Seq(Pieces)
    BY <1>3, CutSeq DEF RecvAnyAnswer, Left
  <2>2. todo' \in Seq(Requests)
    BY <1>3, TailSeq DEF RecvAnyAnswer
  <2> QED
    BY <1>3, <2>1, <2>2 DEF RecvAnyAnswer
<1>4. CASE RecvReading
  <2>1. PICK n \in 1 .. Len(stream) : Accepted(Taken(n)) /\ stream' = Left(n)
    BY <1>4 DEF RecvReading
  <2>2. stream' \in Seq(Pieces)
    BY <2>1, CutSeq DEF Left
  <2>3. stream[1] \in Pieces /\ stream[1].kind = "read"
    BY <2>1, CutSeq DEF Taken, Accepted
  <2>4. feedback' \in Infos
    BY <1>4, <2>3 DEF RecvReading, Pieces
  <2>5. stream[1].late \in BOOLEAN
    BY <2>3 DEF Pieces
  <2>6. outdated' \in BOOLEAN
    BY <1>4, <2>5, Zenon DEF RecvReading
  <2>7. serial' \in 0 .. Serials - 1
    BY <1>4, BoundAssumption DEF RecvReading
  <2>8. readings' \in -1 .. 2
    BY <1>4 DEF RecvReading, Forget
  <2>9. /\ waiting' = FALSE /\ todo' = <<>>
        /\ UNCHANGED <<program, stage, failed, last_position, socket, requests,
                       plc, lost>>
    BY <1>4, Zenon DEF RecvReading
  <2> QED
    BY <2>2, <2>4, <2>6, <2>7, <2>8, <2>9, EmptySeq
<1>5. CASE startup_socket_client
  <2>1. CASE Connect
    <3>1. CASE GoOn("reset", Reset) /\ NewConnection
               /\ UNCHANGED <<last_position, lost>>
      BY <3>1, ScriptTypes, EmptySeq DEF GoOn, NewConnection, Stages, readVars
    <3>2. CASE Crash
      BY <2>1, <3>2 DEF Connect, Crash, Stages, netVars, readVars
    <3> QED
      BY <2>1, <3>1, <3>2 DEF Connect
  <2>2. CASE AfterReset \/ FirstReading \/ SecondReading
    BY <2>2, ScriptTypes DEF AfterReset, FirstReading, SecondReading, GoOn,
                             Stages, Idle, netVars, readVars
  <2>3. CASE AfterRun
    <3>1. /\ UNCHANGED <<program, waiting, serial, feedback, outdated, plc>>
          /\ UNCHANGED netVars
          /\ failed' \in BOOLEAN /\ ~waiting
      BY <2>3, Zenon DEF AfterRun, Idle
    <3>2. /\ stage' \in {"command", "menu"}
          /\ todo' \in Seq(Requests) /\ last_position' \in Positions
      BY <2>3, CommandTypes DEF AfterRun
    <3>3. /\ program' = program /\ waiting' = waiting /\ serial' = serial
          /\ feedback' = feedback /\ outdated' = outdated /\ plc' = plc
          /\ socket' = socket /\ requests' = requests /\ stream' = stream
          /\ lost' = lost
      BY <3>1, Zenon DEF netVars
    <3>4. ~waiting /\ failed' \in BOOLEAN
      BY <3>1, Zenon
    <3>5. readings' \in -1 .. 2
      BY <2>3 DEF AfterRun
    <3> QED
      BY <3>2, <3>3, <3>4, <3>5 DEF Stages
  <2> QED
    BY <1>5, <2>1, <2>2, <2>3 DEF startup_socket_client
<1>6. CASE PLCcommunication
  <2>1. /\ ~waiting /\ waiting' = waiting
        /\ UNCHANGED <<program, serial, readVars, lost>>
    BY <1>6, Zenon DEF PLCcommunication, AfterCommand, AfterRead, GoOn, Crash,
                       Idle, netVars
  <2>2. \/ UNCHANGED <<socket, requests, stream>>
        \/ socket' = "open" /\ requests' = <<>> /\ stream' = <<>>
    BY <1>6, Zenon DEF PLCcommunication, AfterCommand, AfterRead, Reconnected,
                       Crash, SocketConnection, NewConnection, netVars
  <2>3. stage' \in {"read", "command", "crashed"} /\ failed' \in BOOLEAN
    BY <1>6 DEF PLCcommunication, AfterCommand, AfterRead, GoOn, Crash
  <2>4. todo' \in Seq(Requests) /\ last_position' \in Positions
    <3>1. CASE AfterCommand
      BY <3>1, ScriptTypes, EmptySeq DEF AfterCommand, GoOn, Crash
    <3>2. CASE AfterRead
      BY <3>2, CommandTypes, EmptySeq DEF AfterRead, Crash
    <3> QED
      BY <1>6, <3>1, <3>2 DEF PLCcommunication
  <2> QED
    BY <2>1, <2>2, <2>3, <2>4, EmptySeq DEF readVars, Stages
<1>7. CASE TerminalPLC
  BY <1>7, CommandTypes, ScriptTypes DEF TerminalPLC, Idle, netVars, readVars
<1>8. CASE HandleRequest
  <2> DEFINE r == Head(requests)
  <2>1. r \in Requests /\ requests' \in Seq(Requests)
    BY <1>8, TailSeq DEF HandleRequest
  <2>2. plc' \in [reset : {0, 1}, run : {0, 1}, position : Positions,
                  info : Infos]
    BY <1>8, <2>1, HandledTypes DEF HandleRequest
  <2>3. /\ Answer(r, "whole") \in Pieces /\ Answer(r, "head") \in Pieces
        /\ Answer(r, "tail") \in Pieces
        /\ Unread(r) \in Seq(Pieces)
    BY <2>1, AnswerTypes, UnreadTypes DEF Parts
  <2>4. stream' \in Seq(Pieces)
    <3> HIDE DEF r
    <3>1. Append(Unread(r), Answer(r, "whole")) \in Seq(Pieces)
      BY <2>3
    <3>2. Unread(r) \o <<Answer(r, "head"), Answer(r, "tail")>> \in Seq(Pieces)
      BY <2>3
    <3> QED
      BY <1>8, <3>1, <3>2 DEF HandleRequest, r
  <2>5. readings' \in -1 .. 2
    <3>1. r.kind = "reset" => r.value \in {0, 1}
      BY <2>1, RequestKinds
    <3> HIDE DEF r
    <3>2. readings' = IF r.kind = "reset" /\ stage \in Startup
                      THEN -r.value ELSE readings
      BY <1>8 DEF HandleRequest, r
    <3> QED
      BY <3>1, <3>2
  <2>6. lost' \in BOOLEAN
    BY <1>8, Zenon DEF HandleRequest
  <2> QED
    BY <1>8, <2>1, <2>2, <2>4, <2>5, <2>6 DEF HandleRequest, clientVars
<1>9. CASE StatusChanges
  BY <1>9 DEF StatusChanges, clientVars, netVars, Infos
<1>10. CASE LinkBreaks
  <2>1. stream' \in Seq(Pieces)
    BY <1>10, CutSeq DEF LinkBreaks, Taken
  <2>2. lost' \in BOOLEAN
    BY <1>10, Zenon DEF LinkBreaks
  <2> QED
    BY <1>10, <2>1, <2>2 DEF LinkBreaks, clientVars
<1>11. CASE UNCHANGED vars
  BY <1>11 DEF vars, clientVars
<1> QED
  BY <1>1, <1>2, <1>3, <1>4, <1>5, <1>6, <1>7, <1>8, <1>9, <1>10, <1>11
     DEF Next, Client, Exchange

LEMMA TypeAtStart == Init => TypeInv
<1> SUFFICES ASSUME Init PROVE TypeInv
  OBVIOUS
<1>1. serial \in 0 .. Serials - 1 /\ last_position \in Positions
  BY PositionsAreAngles, BoundAssumption DEF Init
<1>2. waiting \in BOOLEAN /\ failed \in BOOLEAN /\ outdated \in BOOLEAN
      /\ lost \in BOOLEAN
  BY Zenon DEF Init
<1>3. plc \in [reset : {0, 1}, run : {0, 1}, position : Positions, info : Infos]
  BY PositionsAreAngles DEF Init, Infos
<1> QED
  BY <1>1, <1>2, <1>3 DEF Init, TypeInv, TypeOK, Stages

THEOREM TypeCorrect == Spec => []TypeOK
<1>1. Init => TypeInv
  BY TypeAtStart
<1>2. TypeInv => TypeOK
  BY DEF TypeInv
<1> QED
  BY <1>1, <1>2, TypeStep, PTL DEF Spec

-----------------------------------------------------------------------------
(***************************************************************************)
(* No stale reading.  A read is only ever the last thing under way: it is  *)
(* sent by itself, and either its whole answer is taken or the connection  *)
(* is given up.  So an answer of 262 bytes to a read is the newest one,    *)
(* whatever the serial number, and nothing is left behind it.              *)
(***************************************************************************)
Reading == waiting /\ Head(todo).kind = "read"

NoRead ==
    /\ \A i \in DOMAIN requests : requests[i].kind # "read"
    /\ \A i \in DOMAIN stream : stream[i].kind # "read"

ReadInv ==
    /\ ~outdated
    /\ \A i \in DOMAIN requests :
         requests[i].kind = "read" => Reading /\ i = Len(requests)
    /\ \A i \in DOMAIN stream :
         stream[i].kind = "read" =>
           /\ Reading /\ requests = <<>> /\ ~stream[i].late
           /\ stream[i].part = "whole" => i = Len(stream)
           /\ stream[i].part = "head" => i >= Len(stream) - 1

LEMMA NoReadSuffices ==
    ASSUME ReadInv, outdated' = outdated, NoRead'
    PROVE  ReadInv'
BY DEF ReadInv, NoRead

\* Between two exchanges nothing of a read is under way.
LEMMA QuietBetween ==
    ASSUME ReadInv, ~Reading
    PROVE  NoRead
BY DEF ReadInv, NoRead

LEMMA StageKeepsQuiet ==
    ASSUME TypeInv, ReadInv,
           startup_socket_client \/ PLCcommunication \/ TerminalPLC
    PROVE  ReadInv'
<1>1. ~waiting
  BY DEF startup_socket_client, PLCcommunication, TerminalPLC, Connect,
         AfterReset, FirstReading, SecondReading, AfterRun, AfterCommand,
         AfterRead, Idle, TypeInv
<1>2. NoRead
  BY <1>1, QuietBetween DEF Reading
<1>3. \/ UNCHANGED <<requests, stream>>
      \/ requests' = <<>> /\ stream' = <<>>
  BY DEF startup_socket_client, PLCcommunication, TerminalPLC, Connect,
         AfterReset, FirstReading, SecondReading, AfterRun, AfterCommand,
         AfterRead, NewConnection, Reconnected, SocketConnection, Crash, netVars
<1>4. outdated' = outdated
  BY Zenon DEF startup_socket_client, PLCcommunication, TerminalPLC, Connect,
         AfterReset, FirstReading, SecondReading, AfterRun, AfterCommand,
         AfterRead, GoOn, Crash, readVars
<1>5. NoRead'
  BY <1>2, <1>3 DEF NoRead
<1> QED
  BY <1>4, <1>5, NoReadSuffices

LEMMA SendKeeps ==
    ASSUME TypeInv, ReadInv, Send
    PROVE  ReadInv'
<1> USE DEF TypeInv, TypeOK
<1>1. NoRead
  BY QuietBetween DEF Send, Reading
<1>2. /\ waiting' /\ todo' = todo /\ stream' = stream /\ outdated' = outdated
  BY Zenon DEF Send
<1>3. requests' = requests \/ requests' = Append(requests, Head(todo))
  BY DEF Send
<1>4. Head(todo) \in Requests
  BY TailSeq DEF Send
<1>5. \A i \in DOMAIN requests' :
        requests'[i].kind = "read" => Head(todo).kind = "read" /\ i = Len(requests')
  <2>1. CASE requests' = requests
    BY <1>1, <2>1 DEF NoRead
  <2>2. CASE requests' = Append(requests, Head(todo))
    <3>1. /\ Len(requests') = Len(requests) + 1
          /\ DOMAIN requests' = 1 .. Len(requests) + 1
          /\ \A i \in 1 .. Len(requests) : requests'[i] = requests[i]
          /\ requests'[Len(requests) + 1] = Head(todo)
      BY <1>4, <2>2, AppendSeq
    <3> QED
      BY <1>1, <3>1 DEF NoRead
  <2> QED
    BY <1>3, <2>1, <2>2
<1> QED
  BY <1>1, <1>2, <1>5 DEF ReadInv, NoRead, Reading

LEMMA ReadingTaken ==
    ASSUME TypeInv, ReadInv, RecvReading
    PROVE  /\ stream # <<>> /\ stream[1].kind = "read" /\ ~stream[1].late
           /\ requests = <<>> /\ requests' = <<>> /\ stream' = <<>>
<1> USE DEF TypeInv, TypeOK
<1>1. PICK n \in 1 .. Len(stream) : Accepted(Taken(n)) /\ stream' = Left(n)
  BY DEF RecvReading
<1>2. /\ stream[1].kind = "read"
      /\ \/ n = 1 /\ stream[1].part = "whole"
         \/ n = 2 /\ stream[1].part = "head"
  BY <1>1, CutSeq DEF Taken, Accepted
<1>3. requests = <<>> /\ ~stream[1].late /\ Len(stream) = n
  BY <1>1, <1>2 DEF ReadInv
<1>4. stream' = <<>>
  BY <1>1, <1>3, CutSeq DEF Left
<1>5. requests' = <<>>
  BY <1>3 DEF RecvReading
<1> QED
  BY <1>1, <1>2, <1>3, <1>4, <1>5

LEMMA RecvKeeps ==
    ASSUME TypeInv, ReadInv, RecvAnyAnswer \/ RecvReading
    PROVE  ReadInv'
<1> USE DEF TypeInv, TypeOK
<1>1. CASE RecvAnyAnswer
  <2>1. NoRead
    BY <1>1, QuietBetween DEF RecvAnyAnswer, Reading
  <2>2. PICK n \in 1 .. Len(stream) : stream' = Left(n)
    BY <1>1 DEF RecvAnyAnswer
  <2>3. /\ Left(n) \in Seq(Pieces) /\ Len(Left(n)) = Len(stream) - n
        /\ \A i \in 1 .. Len(stream) - n : Left(n)[i] = stream[i + n]
    BY CutSeq DEF Left
  <2>4. DOMAIN stream' = 1 .. Len(stream) - n
    BY <2>2, <2>3
  <2>5. requests' = requests
    BY <1>1 DEF RecvAnyAnswer
  <2>6. NoRead'
    BY <2>1, <2>2, <2>3, <2>4, <2>5 DEF NoRead
  <2> QED
    BY <1>1, <2>6, NoReadSuffices DEF RecvAnyAnswer
<1>2. CASE RecvReading
  <2>1. ~outdated'
    BY <1>2, ReadingTaken, Zenon DEF RecvReading
  <2> QED
    BY <1>2, <2>1, ReadingTaken DEF ReadInv
<1> QED
  BY <1>1, <1>2

LEMMA HandleKeeps ==
    ASSUME TypeInv, ReadInv, HandleRequest
    PROVE  ReadInv'
<1> USE DEF TypeInv, TypeOK
<1> DEFINE r == Head(requests)
<1>1. /\ r = requests[1] /\ r \in Requests /\ requests # <<>>
      /\ requests' = Tail(requests) /\ Len(requests') = Len(requests) - 1
      /\ \A i \in 1 .. Len(requests) - 1 : requests'[i] = requests[i + 1]
  BY TailSeq DEF HandleRequest
<1>2. \A i \in DOMAIN stream : stream[i].kind # "read"
  BY <1>1 DEF ReadInv
<1>3. waiting' = waiting /\ todo' = todo /\ outdated' = outdated
  BY Zenon DEF HandleRequest, clientVars
<1>4. \A i \in DOMAIN requests' :
        requests'[i].kind = "read" => Reading /\ i = Len(requests')
  BY <1>1 DEF ReadInv
<1>5. Unread(r) = stream
  BY <1>2 DEF Unread
<1>6. /\ Answer(r, "whole") \in Pieces /\ Answer(r, "head") \in Pieces
      /\ Answer(r, "tail") \in Pieces
  BY <1>1, AnswerTypes DEF Parts
<1>7. \A part \in Parts :
        /\ Answer(r, part).kind = "read" => r.kind = "read"
        /\ Answer(r, part).part = part
        /\ Answer(r, part).kind = "read" => Answer(r, part).late = FALSE
  BY Zenon DEF Answer
<1>8. r.kind = "read" => Reading /\ requests' = <<>>
  BY <1>1 DEF ReadInv
<1>9. \/ stream' = Append(stream, Answer(r, "whole"))
      \/ stream' = stream \o <<Answer(r, "head"), Answer(r, "tail")>>
  BY <1>5 DEF HandleRequest
<1> HIDE DEF r
<1>10. \A i \in DOMAIN stream' :
         stream'[i].kind = "read" =>
           /\ Reading /\ requests' = <<>> /\ ~stream'[i].late
           /\ stream'[i].part = "whole" => i = Len(stream')
           /\ stream'[i].part = "head" => i >= Len(stream') - 1
  <2>1. CASE stream' = Append(stream, Answer(r, "whole"))
    BY <1>2, <1>6, <1>7, <1>8, <2>1, AppendSeq DEF Parts
  <2>2. CASE stream' = stream \o <<Answer(r, "head"), Answer(r, "tail")>>
    <3>1. /\ Len(stream') = Len(stream) + 2
          /\ DOMAIN stream' = 1 .. Len(stream) + 2
          /\ \A i \in 1 .. Len(stream) : stream'[i] = stream[i]
          /\ stream'[Len(stream) + 1] = Answer(r, "head")
          /\ stream'[Len(stream) + 2] = Answer(r, "tail")
      BY <1>6, <2>2
    <3> QED
      BY <1>2, <1>7, <1>8, <3>1 DEF Parts
  <2> QED
    BY <1>9, <2>1, <2>2
<1> QED
  BY <1>3, <1>4, <1>10 DEF ReadInv, Reading

LEMMA ReadStep == TypeInv /\ ReadInv /\ [Next]_vars => ReadInv'
<1> SUFFICES ASSUME TypeInv, ReadInv, [Next]_vars PROVE ReadInv'
  OBVIOUS
<1>1. CASE SendFails \/ RecvFails \/ RejectReading
  <2>1. requests' = <<>> /\ stream' = <<>>
    BY <1>1 DEF SendFails, RecvFails, RejectReading, Close
  <2>2. outdated' = outdated
    BY <1>1, Zenon DEF SendFails, RecvFails, RejectReading
  <2> QED
    BY <2>1, <2>2, NoReadSuffices DEF NoRead
<1>2. CASE StatusChanges
  BY <1>2 DEF StatusChanges, clientVars, netVars, ReadInv, Reading
<1>3. CASE LinkBreaks
  <2>1. requests' = <<>> /\ waiting' = waiting /\ todo' = todo
        /\ outdated' = outdated
    BY <1>3, Zenon DEF LinkBreaks, clientVars
  <2>2. PICK n \in 0 .. Len(stream) : stream' = Taken(n)
    BY <1>3 DEF LinkBreaks
  <2>3. /\ Len(stream') = n /\ DOMAIN stream' = 1 .. n
        /\ \A i \in 1 .. n : stream'[i] = stream[i]
    BY <2>2, CutSeq DEF Taken, TypeInv, TypeOK
  <2> QED
    BY <2>1, <2>3 DEF ReadInv, Reading, TypeInv, TypeOK
<1>4. CASE UNCHANGED vars
  BY <1>4 DEF vars, clientVars, ReadInv, Reading
<1> QED
  BY <1>1, <1>2, <1>3, <1>4, SendKeeps, RecvKeeps, HandleKeeps, StageKeepsQuiet
     DEF Next, Client, Exchange

THEOREM NoStaleReading == Spec => []FeedbackCurrent
<1>1. Init => ReadInv
  BY DEF Init, ReadInv
<1>2. ReadInv => FeedbackCurrent
  BY DEF ReadInv, FeedbackCurrent
<1>3. Init => TypeInv
  BY TypeAtStart
<1> QED
  BY <1>1, <1>2, <1>3, TypeStep, ReadStep, PTL DEF Spec

-----------------------------------------------------------------------------
(***************************************************************************)
(* Start-up.  Once the reset pulse is sent, either it has been handled or  *)
(* its end is still under way, behind every other reset.  A reading that is*)
(* accepted was handled after it; and a start-up that failed has closed its*)
(* socket for good, so that nothing it sends runs the motors.              *)
(***************************************************************************)
ResetLow == [kind |-> "reset", value |-> 0]
NoReset  == \A i \in DOMAIN requests : requests[i].kind # "reset"

Settled ==
    \/ readings >= 0 /\ NoReset
    \/ \E j \in DOMAIN requests :
         /\ requests[j] = ResetLow
         /\ \A i \in DOMAIN requests : i > j => requests[i].kind # "reset"

PulseSent ==
    \/ stage = "reset" /\ (Len(todo) < 2 \/ (Len(todo) = 2 /\ waiting))
    \/ stage \in {"poll", "confirm", "run"}

\* What is left to do in each stage of the start-up
StageScripts ==
    /\ stage = "reset" => todo \in {Reset, Tail(Reset), Tail(Tail(Reset)), <<>>}
    /\ stage \in {"poll", "confirm"} =>
         \A i \in DOMAIN todo : todo[i].kind = "read"
    /\ stage = "run" => \A i \in DOMAIN todo : todo[i].kind = "run"

PulseInv ==
    /\ PulseSent /\ socket = "open" => Settled
    /\ \A i \in DOMAIN stream :
         stream[i].kind = "read" /\ stage \in Startup => readings >= 0

CountInv ==
    socket # "closed" =>
      /\ stage = "poll" /\ todo = <<>> /\ feedback = "ok" =>
           readings >= 1 /\ requests = <<>>
      /\ stage = "confirm" =>
           /\ NoReset
           /\ todo # <<>> => readings >= 1
           /\ todo = <<>> /\ feedback = "ok" => readings = 2
      /\ stage = "run" => readings = 2 /\ NoReset

StartInv == TypeInv /\ ReadInv /\ StageScripts /\ PulseInv /\ CountInv

LEMMA ResetScript ==
    /\ Len(Reset) = 3
    /\ Tail(Reset) = <<ResetLow, [kind |-> "home", value |-> 0]>>
    /\ Tail(Tail(Reset)) = <<[kind |-> "home", value |-> 0]>>
    /\ Tail(Tail(Tail(Reset))) = <<>>
    /\ Head(Reset).kind = "reset"
    /\ Len(Tail(Reset)) = 2 /\ Head(Tail(Reset)) = ResetLow
    /\ Len(Tail(Tail(Reset))) = 1 /\ Head(Tail(Tail(Reset))).kind = "home"
BY DEF Reset, ResetLow

\* What the next request of a stage is
LEMMA NextRequest ==
    ASSUME TypeInv, StageScripts, todo # <<>>
    PROVE  /\ stage \in {"poll", "confirm"} => Head(todo).kind = "read"
           /\ stage = "run" => Head(todo).kind = "run"
           /\ stage = "reset" => \/ Len(todo) = 3
                                 \/ Len(todo) = 2 /\ Head(todo) = ResetLow
                                 \/ Len(todo) = 1 /\ Head(todo).kind = "home"
           /\ stage \in {"reset", "run"} => Head(todo).kind # "read"
<1>1. Head(todo) = todo[1] /\ 1 \in DOMAIN todo
  BY TailSeq DEF TypeInv, TypeOK
<1>2. stage = "reset" => todo \in {Reset, Tail(Reset), Tail(Tail(Reset))}
  BY DEF StageScripts
<1>3. ResetLow.kind # "read"
  BY DEF ResetLow
<1>4. stage = "reset" => \/ Len(todo) = 3 /\ Head(todo).kind = "reset"
                         \/ Len(todo) = 2 /\ Head(todo) = ResetLow
                         \/ Len(todo) = 1 /\ Head(todo).kind = "home"
  BY <1>2, ResetScript
<1> QED
  BY <1>1, <1>3, <1>4 DEF StageScripts

LEMMA ScriptsShrink ==
    ASSUME TypeInv, StageScripts, todo # <<>>, stage' = stage,
           todo' \in {todo, Tail(todo), <<>>}
    PROVE  StageScripts'
<1>1. /\ Len(Tail(todo)) = Len(todo) - 1 /\ Tail(todo) \in Seq(Requests)
      /\ \A i \in 1 .. Len(todo) - 1 : Tail(todo)[i] = todo[i + 1]
  BY TailSeq DEF TypeInv, TypeOK
<1>2. stage = "reset" =>
        todo' \in {Reset, Tail(Reset), Tail(Tail(Reset)), <<>>}
  BY ResetScript DEF StageScripts
<1>3. \A k \in {"read", "run"} :
        (\A i \in DOMAIN todo : todo[i].kind = k) =>
           \A i \in DOMAIN todo' : todo'[i].kind = k
  <2>1. /\ DOMAIN todo = 1 .. Len(todo) /\ Len(todo) \in Nat
        /\ DOMAIN Tail(todo) = 1 .. Len(todo) - 1
    BY <1>1 DEF TypeInv, TypeOK
  <2> QED
    BY <1>1, <2>1
<1> QED
  BY <1>2, <1>3 DEF StageScripts

LEMMA SettledSend ==
    ASSUME TypeInv, NEW e \in Requests, requests' = Append(requests, e),
           readings' = readings,
           e = ResetLow \/ (Settled /\ e.kind # "reset")
    PROVE  Settled'
<1>1. /\ DOMAIN requests' = 1 .. Len(requests) + 1
      /\ DOMAIN requests = 1 .. Len(requests) /\ Len(requests) \in Nat
      /\ \A i \in 1 .. Len(requests) : requests'[i] = requests[i]
      /\ requests'[Len(requests) + 1] = e
  BY AppendSeq DEF TypeInv, TypeOK
<1> QED
  BY <1>1 DEF Settled, NoReset

LEMMA SettledHandled ==
    ASSUME TypeInv, Settled, stage \in Startup, HandleRequest
    PROVE  Settled'
<1>1. /\ Head(requests) = requests[1] /\ requests[1] \in Requests
      /\ DOMAIN requests = 1 .. Len(requests) /\ Len(requests) \in Nat
      /\ Len(requests) > 0
      /\ DOMAIN requests' = 1 .. Len(requests) - 1
      /\ \A i \in 1 .. Len(requests) - 1 : requests'[i] = requests[i + 1]
  BY TailSeq DEF TypeInv, TypeOK, HandleRequest
<1>2. readings' = IF requests[1].kind = "reset" THEN -requests[1].value ELSE readings
  BY <1>1 DEF HandleRequest
<1>3. CASE readings >= 0 /\ NoReset
  <2>0. 1 \in DOMAIN requests
    BY <1>1
  <2>1. requests[1].kind # "reset" /\ NoReset'
    <3>1. \A i \in DOMAIN requests' : i + 1 \in DOMAIN requests
                                       /\ requests'[i] = requests[i + 1]
      BY <1>1
    <3> QED
      BY <1>3, <2>0, <3>1 DEF NoReset
  <2>2. readings' = readings
    BY <1>2, <2>1
  <2> QED
    BY <1>3, <2>1, <2>2 DEF Settled
<1>4. CASE \E j \in DOMAIN requests :
             /\ requests[j] = ResetLow
             /\ \A i \in DOMAIN requests : i > j => requests[i].kind # "reset"
  <2>1. PICK j \in DOMAIN requests :
             /\ requests[j] = ResetLow
             /\ \A i \in DOMAIN requests : i > j => requests[i].kind # "reset"
    BY <1>4
  <2>2. CASE j = 1
    <3>1. readings' = 0
      BY <1>2, <2>1, <2>2 DEF ResetLow
    <3>2. NoReset'
      BY <1>1, <2>1, <2>2 DEF NoReset
    <3> QED
      BY <3>1, <3>2 DEF Settled
  <2>3. CASE j > 1
    <3>1. j - 1 \in DOMAIN requests' /\ requests'[j - 1] = ResetLow
      BY <1>1, <2>1, <2>3
    <3>2. \A i \in DOMAIN requests' : i > j - 1 => requests'[i].kind # "reset"
      BY <1>1, <2>1, <2>3
    <3> QED
      BY <3>1, <3>2 DEF Settled
  <2> QED
    BY <1>1, <2>2, <2>3
<1> QED
  BY <1>3, <1>4 DEF Settled

LEMMA StartSend ==
    ASSUME StartInv, Send
    PROVE  (StageScripts /\ PulseInv /\ CountInv)'
<1> USE DEF StartInv
<1>1. /\ todo # <<>> /\ todo' = todo /\ stage' = stage /\ feedback' = feedback
      /\ readings' = readings /\ stream' = stream /\ socket' = socket
      /\ ~waiting
  BY Zenon DEF Send
<1>2. requests' = IF socket = "open" THEN Append(requests, Head(todo))
                                      ELSE requests
  BY DEF Send
<1>3. Head(todo) \in Requests
  BY <1>1, TailSeq DEF TypeInv, TypeOK
<1>4. StageScripts'
  BY <1>1, ScriptsShrink
<1>5. PulseInv'
  <2>1. ASSUME PulseSent', socket = "open"
        PROVE  Head(todo) = ResetLow \/ (Settled /\ Head(todo).kind # "reset")
    <3>1. CASE stage = "reset"
      BY <1>1, <2>1, <3>1, NextRequest DEF PulseSent, PulseInv
    <3>2. CASE stage \in {"poll", "confirm", "run"}
      BY <1>1, <2>1, <3>2, NextRequest DEF PulseSent, PulseInv
    <3> QED
      BY <1>1, <2>1, <3>1, <3>2 DEF PulseSent
  <2>2. PulseSent' /\ socket = "open" => Settled'
    BY <1>1, <1>2, <1>3, <2>1, SettledSend
  <2> QED
    BY <1>1, <2>2 DEF PulseInv
<1>6. CountInv'
  <2>1. stage \in {"confirm", "run"} => Head(todo).kind # "reset"
    BY <1>1, NextRequest
  <2>2. stage \in {"confirm", "run"} /\ NoReset => NoReset'
    BY <1>2, <1>3, <2>1, AppendSeq DEF NoReset, TypeInv, TypeOK
  <2> QED
    BY <1>1, <2>2 DEF CountInv
<1> QED
  BY <1>4, <1>5, <1>6

LEMMA StartRecv ==
    ASSUME StartInv, RecvAnyAnswer \/ RecvReading
    PROVE  (StageScripts /\ PulseInv /\ CountInv)'
<1> USE DEF StartInv
<1>1. todo # <<>> /\ waiting /\ ~waiting' /\ stage' = stage /\ socket' = socket
  BY Zenon DEF RecvAnyAnswer, RecvReading, TypeInv
<1>2. todo' \in {Tail(todo), <<>>}
  BY DEF RecvAnyAnswer, RecvReading
<1>3. StageScripts'
  BY <1>1, <1>2, ScriptsShrink
<1>4. CASE RecvAnyAnswer
  <2>1. /\ stage \notin {"poll", "confirm"} /\ todo' = Tail(todo)
        /\ requests' = requests /\ readings' = readings /\ feedback' = feedback
    BY <1>1, <1>4, NextRequest DEF RecvAnyAnswer
  <2>2. Len(todo') = Len(todo) - 1 /\ Len(todo) \in Nat
    BY <1>1, <2>1, TailSeq DEF TypeInv, TypeOK
  <2>3. PulseSent' => PulseSent
    <3>1. stage = "reset" => Len(todo) \in {1, 2, 3}
      BY <1>1, NextRequest
    <3> QED
      BY <1>1, <2>1, <2>2, <3>1 DEF PulseSent
  <2>4. PulseSent' /\ socket' = "open" => Settled'
    BY <1>1, <2>1, <2>3 DEF PulseInv, Settled, NoReset
  <2>5. NoRead'
    <3>1. ~Reading' /\ ReadInv'
      BY <1>1, <1>4, RecvKeeps DEF Reading
    <3> QED
      BY <3>1 DEF ReadInv, NoRead
  <2>6. PulseInv'
    BY <2>4, <2>5 DEF PulseInv, NoRead
  <2>7. CountInv'
    BY <1>1, <2>1 DEF CountInv, NoReset
  <2> QED
    BY <1>3, <2>6, <2>7
<1>5. CASE RecvReading
  <2>1. /\ stream # <<>> /\ stream[1].kind = "read"
        /\ requests' = <<>> /\ stream' = <<>>
    BY <1>5, ReadingTaken
  <2>2. stage \in Startup => readings >= 0
    BY <2>1 DEF PulseInv, TypeInv, TypeOK
  <2>3. /\ feedback' = "ok" =>
             readings' = IF readings \in {0, 1} THEN readings + 1 ELSE readings
        /\ feedback' # "ok" => readings' = IF readings > 0 THEN 0 ELSE readings
        /\ readings \in -1 .. 2
    BY <1>5 DEF RecvReading, Forget, TypeInv, TypeOK
  <2>4. NoReset'
    BY <2>1 DEF NoReset
  <2>5. PulseSent' => stage \in Startup
    BY <1>1 DEF PulseSent, Startup
  <2>6. PulseInv'
    BY <2>1, <2>2, <2>3, <2>4, <2>5 DEF PulseInv, Settled
  <2>7. stage \notin {"reset", "run"}
    BY <1>1, <1>5, NextRequest DEF RecvReading
  <2>8. socket # "closed" /\ stage = "confirm" => readings \in {1, 2}
    BY <1>1, <2>3 DEF CountInv
  <2>9. todo' = <<>>
    BY <1>5 DEF RecvReading
  <2>10. CountInv'
    BY <1>1, <2>1, <2>2, <2>3, <2>4, <2>7, <2>8, <2>9 DEF CountInv, Startup
  <2> QED
    BY <1>3, <2>6, <2>10
<1> QED
  BY <1>4, <1>5

LEMMA StartHandle ==
    ASSUME StartInv, HandleRequest
    PROVE  (StageScripts /\ PulseInv /\ CountInv)'
<1> USE DEF StartInv
<1>1. /\ UNCHANGED <<todo, stage, feedback>> /\ waiting' = waiting
      /\ socket' = socket
      /\ socket = "open" /\ requests # <<>>
  BY Zenon DEF HandleRequest, clientVars
<1>2. StageScripts'
  BY <1>1 DEF StageScripts
<1>3. PulseSent' => PulseSent
  BY <1>1 DEF PulseSent
<1>4. PulseSent => Settled /\ Settled'
  BY <1>1, SettledHandled DEF PulseInv, PulseSent, Startup
<1>5. ASSUME NEW i \in DOMAIN stream', stream'[i].kind = "read", stage \in Startup
      PROVE  readings' >= 0
  <2>1. Reading' /\ requests' = <<>>
    BY <1>5, HandleKeeps DEF ReadInv
  <2>2. waiting /\ todo # <<>> /\ Head(todo).kind = "read"
    BY <1>1, <2>1 DEF Reading, TypeInv
  <2>3. stage \in {"poll", "confirm"}
    BY <1>5, <2>2, NextRequest DEF Startup, TypeInv
  <2>4. Settled'
    BY <1>4, <2>3 DEF PulseSent
  <2> QED
    BY <2>1, <2>4 DEF Settled
<1>6. PulseInv'
  BY <1>1, <1>3, <1>4, <1>5 DEF PulseInv
<1>7. NoReset => NoReset' /\ readings' = readings
  <2>1. /\ Head(requests) = requests[1] /\ 1 \in DOMAIN requests
        /\ DOMAIN requests' = 1 .. Len(requests) - 1
        /\ DOMAIN requests = 1 .. Len(requests) /\ Len(requests) \in Nat
        /\ \A i \in 1 .. Len(requests) - 1 : requests'[i] = requests[i + 1]
    BY TailSeq DEF TypeInv, TypeOK, HandleRequest
  <2> QED
    BY <2>1 DEF NoReset, HandleRequest
<1>8. CountInv'
  BY <1>1, <1>7 DEF CountInv
<1> QED
  BY <1>2, <1>6, <1>8

LEMMA StartStages ==
    ASSUME StartInv, startup_socket_client \/ PLCcommunication \/ TerminalPLC
    PROVE  (StageScripts /\ PulseInv /\ CountInv)'
<1> USE DEF StartInv
<1>1. /\ Read # <<>> /\ \A i \in DOMAIN Read : Read[i].kind = "read"
      /\ \A i \in DOMAIN Run : Run[i].kind = "run"
  BY DEF Read, Run
<1>2. CASE PLCcommunication \/ TerminalPLC \/ AfterRun
  <2>1. stage' \notin Startup
    BY <1>2 DEF PLCcommunication, TerminalPLC, AfterRun, AfterCommand, AfterRead,
                GoOn, Crash, Startup
  <2> QED
    BY <2>1 DEF StageScripts, PulseInv, PulseSent, CountInv, Startup
<1>3. CASE Connect
  <2>1. CASE stage' = "crashed"
    BY <2>1 DEF StageScripts, PulseInv, PulseSent, CountInv, Startup
  <2>2. CASE stage' = "reset" /\ todo' = Reset /\ stream' = <<>>
    BY <2>2, ResetScript DEF StageScripts, PulseInv, PulseSent, CountInv
  <2> QED
    BY <1>3, <2>1, <2>2 DEF Connect, GoOn, NewConnection, Crash
<1>4. CASE AfterReset \/ FirstReading \/ SecondReading
  <2>1. /\ stage \in {"reset", "poll", "confirm"} /\ todo = <<>> /\ ~waiting
        /\ stage' \in {"poll", "confirm", "run"}
        /\ socket' = socket /\ requests' = requests /\ stream' = stream
        /\ readings' = readings /\ feedback' = feedback
    BY <1>4 DEF AfterReset, FirstReading, SecondReading, Idle, GoOn, netVars,
                readVars
  <2>2. PulseSent
    BY <2>1 DEF PulseSent
  <2>3. PulseInv'
    BY <2>1, <2>2 DEF PulseInv, Settled, NoReset, Startup
  <2>4. CASE AfterReset
    BY <1>1, <2>1, <2>3, <2>4 DEF AfterReset, GoOn, StageScripts, CountInv
  <2>5. CASE FirstReading
    BY <1>1, <2>1, <2>3, <2>5
       DEF FirstReading, GoOn, StageScripts, CountInv, NoReset
  <2>6. CASE SecondReading
    BY <1>1, <2>1, <2>3, <2>6
       DEF SecondReading, GoOn, StageScripts, CountInv, NoReset
  <2> QED
    BY <1>4, <2>4, <2>5, <2>6
<1> QED
  BY <1>2, <1>3, <1>4 DEF startup_socket_client

LEMMA StartStep ==
    StartInv /\ [Next]_vars => (StageScripts /\ PulseInv /\ CountInv)'
<1> SUFFICES ASSUME StartInv, [Next]_vars
             PROVE  (StageScripts /\ PulseInv /\ CountInv)'
  OBVIOUS
<1> USE DEF StartInv
<1>1. CASE SendFails \/ RecvFails \/ RejectReading
  <2>1. /\ todo # <<>> /\ stage' = stage
        /\ todo' \in {todo, Tail(todo), <<>>}
        /\ stream' = <<>> /\ socket' = "closed"
    BY <1>1 DEF SendFails, RecvFails, RejectReading, Close, TypeInv
  <2>2. StageScripts'
    BY <2>1, ScriptsShrink
  <2> QED
    BY <2>1, <2>2 DEF PulseInv, CountInv
<1>2. CASE StatusChanges
  <2>1. UNCHANGED <<todo, stage, feedback, requests, stream, socket, readings>>
        /\ waiting' = waiting
    BY <1>2, Zenon DEF StatusChanges, clientVars, netVars
  <2> QED
    BY <2>1 DEF StageScripts, PulseInv, PulseSent, Settled, NoReset, CountInv
<1>3. CASE LinkBreaks
  <2>1. /\ UNCHANGED <<todo, stage, feedback, readings>> /\ waiting' = waiting
        /\ socket = "open" /\ socket' = "broken" /\ requests' = <<>>
    BY <1>3, Zenon DEF LinkBreaks, clientVars
  <2>2. PICK n \in 0 .. Len(stream) : stream' = Taken(n)
    BY <1>3 DEF LinkBreaks
  <2>3. \A i \in DOMAIN stream' : i \in DOMAIN stream /\ stream'[i] = stream[i]
    BY <2>2, CutSeq DEF Taken, TypeInv, TypeOK
  <2>4. PulseInv'
    BY <2>1, <2>3 DEF PulseInv
  <2>5. StageScripts' /\ CountInv'
    BY <2>1 DEF StageScripts, CountInv, NoReset
  <2> QED
    BY <2>4, <2>5
<1>4. CASE UNCHANGED vars
  <2>1. UNCHANGED <<todo, stage, feedback, requests, stream, socket, readings>>
        /\ waiting' = waiting
    BY <1>4, Zenon DEF vars, clientVars
  <2> QED
    BY <2>1 DEF StageScripts, PulseInv, PulseSent, Settled, NoReset, CountInv
<1> QED
  BY <1>1, <1>2, <1>3, <1>4, StartSend, StartRecv, StartHandle, StartStages
     DEF Next, Client, Exchange

THEOREM RunsAfterReset == Spec => RunOnlyAfterReset
<1>1. Init => StartInv
  <2> SUFFICES ASSUME Init PROVE StartInv
    OBVIOUS
  <2>1. TypeInv
    BY TypeAtStart
  <2>2. ReadInv
    BY DEF Init, ReadInv
  <2>3. StageScripts /\ PulseInv /\ CountInv
    BY DEF Init, StageScripts, PulseInv, PulseSent, CountInv
  <2> QED
    BY <2>1, <2>2, <2>3 DEF StartInv
<1>2. StartInv /\ [Next]_vars => StartInv'
  BY TypeStep, ReadStep, StartStep DEF StartInv
<1>3. StartInv /\ [Next]_vars =>
        [stage = "run" /\ plc.run = 0 /\ plc'.run = 1 => readings = 2]_vars
  <2> SUFFICES ASSUME StartInv, Next, stage = "run", plc' # plc,
                      plc.run = 0, plc'.run = 1
               PROVE  readings = 2
    BY DEF vars
  <2>1. ~StatusChanges
    BY DEF StatusChanges, StartInv, TypeInv, TypeOK
  <2>2. HandleRequest
    BY <2>1, Zenon
       DEF Next, Client, Exchange, Send, SendFails, RecvFails, RecvAnyAnswer,
           RecvReading, RejectReading, startup_socket_client, Connect,
           AfterReset, FirstReading, SecondReading, AfterRun, PLCcommunication,
           AfterCommand, AfterRead, TerminalPLC, GoOn, Crash, readVars, LinkBreaks
  <2> QED
    BY <2>2 DEF HandleRequest, StartInv, CountInv
<1> QED
  BY <1>1, <1>2, <1>3, PTL DEF Spec, RunOnlyAfterReset

-----------------------------------------------------------------------------
(***************************************************************************)
(* No long way round.  The commands not handled yet, those under way and   *)
(* the one about to be sent, form a chain: each is a short turn from the   *)
(* one before, the last one is last_position, and the first one is a short *)
(* turn from the PLC unless the PLC has lost the thread.  A link that      *)
(* breaks cuts the chain, but then a command is lost.                      *)
(***************************************************************************)
Near(p, r) == ShortTurn(p, r.value, r.asked)

Chain(s, last) ==
    /\ \A i, j \in Commands(s) :
         i < j /\ (\A k \in Commands(s) : k <= i \/ j <= k)
           => Near(s[i].value, s[j])
    /\ \A i \in Commands(s) :
         (\A k \in Commands(s) : k <= i) => s[i].value = last

StartsAt(s, last, p) ==
    /\ Commands(s) = {} => p = last
    /\ \A i \in Commands(s) :
         (\A k \in Commands(s) : i <= k) => Near(p, s[i])

Unsent  == ~waiting /\ todo # <<>> /\ Head(todo).kind = "command"
Pending == IF Unsent THEN Append(requests, Head(todo)) ELSE requests

LinkInv ==
    /\ socket # "open" => requests = <<>>
    /\ failed => socket = "closed"
    /\ stage = "connect" => socket = "closed"
    /\ \A i \in DOMAIN todo : todo[i].kind = "command" => Len(todo) = 1

TurnInv ==
    /\ Chain(Pending, last_position)
    /\ ~lost => StartsAt(Pending, last_position, plc.position)

LEMMA NearItself ==
    ASSUME NEW r, r.value \in Positions
    PROVE  Near(r.value, r)
<1>1. r.value \in Int
  BY PositionsAreAngles
<1>2. Apart(r.value, r.value) = 0
  BY <1>1 DEF Apart
<1>3. 0 <= HalfTurn
  BY AngleAssumption
<1> QED
  BY <1>2, <1>3 DEF Near, ShortTurn

LEMMA CommandsAreOf ==
    ASSUME NEW s \in Seq(Requests), NEW i \in Commands(s)
    PROVE  /\ i \in 1 .. Len(s) /\ i \in Nat
           /\ s[i].kind = "command" /\ s[i].value \in Positions
<1>1. i \in 1 .. Len(s) /\ s[i] \in Requests /\ s[i].kind = "command"
  BY DEF Commands
<1> QED
  BY <1>1, RequestKinds

LEMMA EmptyChain ==
    ASSUME NEW last
    PROVE  Chain(<<>>, last) /\ Commands(<<>>) = {}
BY DEF Chain, Commands

\* Only where the commands are, and what they say, counts.
LEMMA ChainOfCommands ==
    ASSUME NEW s, NEW t, NEW last, NEW p,
           Commands(s) = Commands(t), \A i \in Commands(s) : s[i] = t[i]
    PROVE  /\ Chain(s, last) => Chain(t, last)
           /\ StartsAt(s, last, p) => StartsAt(t, last, p)
BY DEF Chain, StartsAt

LEMMA AppendOther ==
    ASSUME NEW s \in Seq(Requests), NEW e \in Requests, e.kind # "command"
    PROVE  /\ Commands(Append(s, e)) = Commands(s)
           /\ \A i \in Commands(s) : Append(s, e)[i] = s[i]
<1>1. /\ DOMAIN Append(s, e) = 1 .. Len(s) + 1
      /\ DOMAIN s = 1 .. Len(s) /\ Len(s) \in Nat
      /\ \A i \in 1 .. Len(s) : Append(s, e)[i] = s[i]
      /\ Append(s, e)[Len(s) + 1] = e
  BY AppendSeq
<1> QED
  BY <1>1 DEF Commands

LEMMA AppendCommand ==
    ASSUME NEW s \in Seq(Requests), NEW e \in Requests, e.kind = "command"
    PROVE  /\ Commands(Append(s, e)) = Commands(s) \cup {Len(s) + 1}
           /\ \A i \in Commands(s) : i < Len(s) + 1 /\ i \in Nat
                                     /\ Append(s, e)[i] = s[i]
           /\ Append(s, e)[Len(s) + 1] = e
           /\ Len(s) + 1 \in Nat
<1>1. /\ DOMAIN Append(s, e) = 1 .. Len(s) + 1
      /\ DOMAIN s = 1 .. Len(s) /\ Len(s) \in Nat
      /\ \A i \in 1 .. Len(s) : Append(s, e)[i] = s[i]
      /\ Append(s, e)[Len(s) + 1] = e
  BY AppendSeq
<1> QED
  BY <1>1 DEF Commands

\* A chain grows by a command near its last one.
LEMMA ChainGrows ==
    ASSUME NEW s \in Seq(Requests), NEW e \in Requests, e.kind = "command",
           NEW last, NEW p,
           Chain(s, last), Near(last, e)
    PROVE  /\ Chain(Append(s, e), e.value)
           /\ StartsAt(s, last, p) => StartsAt(Append(s, e), e.value, p)
<1> DEFINE t == Append(s, e)
           n == Len(s) + 1
<1>1. /\ Commands(t) = Commands(s) \cup {n} /\ n \in Nat
      /\ \A i \in Commands(s) : i < n /\ i \in Nat /\ t[i] = s[i]
      /\ t[n] = e
  BY AppendCommand
<1> HIDE DEF t, n
<1>2. ASSUME NEW i \in Commands(t), NEW j \in Commands(t), i < j,
             \A k \in Commands(t) : k <= i \/ j <= k
      PROVE  Near(t[i].value, t[j])
  <2>1. i \in Commands(s)
    BY <1>1, <1>2
  <2>2. CASE j = n
    <3>1. \A k \in Commands(s) : k <= i
      BY <1>1, <1>2, <2>2
    <3>2. s[i].value = last
      BY <2>1, <3>1 DEF Chain
    <3> QED
      BY <1>1, <2>1, <2>2, <3>2
  <2>3. CASE j \in Commands(s)
    BY <1>1, <1>2, <2>1, <2>3 DEF Chain
  <2> QED
    BY <1>1, <2>2, <2>3
<1>3. ASSUME NEW i \in Commands(t), \A k \in Commands(t) : k <= i
      PROVE  t[i].value = e.value
  BY <1>1, <1>3
<1>4. Chain(t, e.value)
  BY <1>2, <1>3 DEF Chain
<1>5. ASSUME StartsAt(s, last, p), NEW i \in Commands(t),
             \A k \in Commands(t) : i <= k
      PROVE  Near(p, t[i])
  <2>1. CASE i \in Commands(s)
    BY <1>1, <1>5, <2>1 DEF StartsAt
  <2>2. CASE i = n
    <3>1. ASSUME NEW k \in Commands(s) PROVE FALSE
      <4>1. k \in Commands(t) /\ k < n /\ k \in Nat
        BY <1>1
      <4>2. n <= k
        BY <1>5, <2>2, <4>1
      <4> QED
        BY <1>1, <4>1, <4>2
    <3>2. p = last
      BY <1>5, <3>1 DEF StartsAt
    <3> QED
      BY <1>1, <2>2, <3>2
  <2> QED
    BY <1>1, <2>1, <2>2
<1>6. Commands(t) # {}
  BY <1>1
<1> QED
  BY <1>4, <1>5, <1>6 DEF StartsAt, t

LEMMA TailCommands ==
    ASSUME NEW s \in Seq(Requests), s # <<>>
    PROVE  /\ \A i \in Commands(Tail(s)) :
                i \in Nat /\ i + 1 \in Commands(s) /\ Tail(s)[i] = s[i + 1]
           /\ \A i \in Commands(s) :
                i \in Nat /\ (i = 1 \/ i - 1 \in Commands(Tail(s)))
           /\ 1 \in Commands(s) <=> Head(s).kind = "command"
<1>1. /\ Head(s) = s[1] /\ Len(s) \in Nat /\ Len(s) > 0
      /\ DOMAIN s = 1 .. Len(s) /\ DOMAIN Tail(s) = 1 .. Len(s) - 1
      /\ \A i \in 1 .. Len(s) - 1 : Tail(s)[i] = s[i + 1]
  BY TailSeq
<1> QED
  BY <1>1 DEF Commands

\* The first request is handled.
LEMMA ChainIsHandled ==
    ASSUME NEW s \in Seq(Requests), s # <<>>, NEW last, NEW p, Chain(s, last)
    PROVE  /\ Chain(Tail(s), last)
           /\ Head(s).kind = "command" => StartsAt(Tail(s), last, Head(s).value)
           /\ Head(s).kind # "command" /\ StartsAt(s, last, p)
                => StartsAt(Tail(s), last, p)
<1> DEFINE t == Tail(s)
<1>1. /\ \A i \in Commands(t) :
           i \in Nat /\ i + 1 \in Commands(s) /\ t[i] = s[i + 1]
      /\ \A i \in Commands(s) : i \in Nat /\ (i = 1 \/ i - 1 \in Commands(t))
      /\ 1 \in Commands(s) <=> Head(s).kind = "command"
      /\ Head(s) = s[1]
  BY TailCommands, TailSeq
<1> HIDE DEF t
<1>a. \A i \in Commands(t) : i >= 1
  <2>1. t \in Seq(Requests)
    BY TailSeq DEF t
  <2> QED
    BY <2>1, CommandsAreOf
<1>2. ASSUME NEW i \in Commands(t), NEW j \in Commands(t), i < j,
             \A k \in Commands(t) : k <= i \/ j <= k
      PROVE  Near(t[i].value, t[j])
  <2>1. \A k \in Commands(s) : k <= i + 1 \/ j + 1 <= k
    <3> TAKE k \in Commands(s)
    <3>1. k = 1 \/ (k - 1 \in Commands(t) /\ k \in Nat)
      BY <1>1
    <3>2. i \in Nat /\ j \in Nat
      BY <1>1
    <3> QED
      BY <1>2, <3>1, <3>2
  <2>2. i + 1 \in Commands(s) /\ j + 1 \in Commands(s) /\ i + 1 < j + 1
    BY <1>1, <1>2
  <2>3. Near(s[i + 1].value, s[j + 1])
    BY <2>1, <2>2 DEF Chain
  <2> QED
    BY <1>1, <2>3
<1>3. ASSUME NEW i \in Commands(t), \A k \in Commands(t) : k <= i
      PROVE  t[i].value = last
  <2>1. \A k \in Commands(s) : k <= i + 1
    <3> TAKE k \in Commands(s)
    <3>1. k = 1 \/ (k - 1 \in Commands(t) /\ k \in Nat)
      BY <1>1
    <3>2. i \in Nat
      BY <1>1
    <3> QED
      BY <1>3, <3>1, <3>2
  <2>2. s[i + 1].value = last
    BY <1>1, <2>1 DEF Chain
  <2> QED
    BY <1>1, <2>2
<1>4. Chain(t, last)
  BY <1>2, <1>3 DEF Chain
<1>5. ASSUME Head(s).kind = "command"
      PROVE  StartsAt(t, last, Head(s).value)
  <2>1. 1 \in Commands(s)
    BY <1>1, <1>5
  <2>2. ASSUME Commands(t) = {} PROVE Head(s).value = last
    <3>1. \A k \in Commands(s) : k <= 1
      BY <1>1, <2>2
    <3> QED
      BY <1>1, <2>1, <3>1 DEF Chain
  <2>3. ASSUME NEW i \in Commands(t), \A k \in Commands(t) : i <= k
        PROVE  Near(Head(s).value, t[i])
    <3>1. \A k \in Commands(s) : k <= 1 \/ i + 1 <= k
      <4> TAKE k \in Commands(s)
      <4>1. k = 1 \/ (k - 1 \in Commands(t) /\ k \in Nat)
        BY <1>1
      <4>2. i \in Nat
        BY <1>1
      <4> QED
        BY <2>3, <4>1, <4>2
    <3>2. i + 1 \in Commands(s) /\ 1 < i + 1
      BY <1>1, <1>a
    <3>3. Near(s[1].value, s[i + 1])
      BY <2>1, <3>1, <3>2 DEF Chain
    <3> QED
      BY <1>1, <3>3
  <2> QED
    BY <2>2, <2>3 DEF StartsAt
<1>6. ASSUME Head(s).kind # "command", StartsAt(s, last, p)
      PROVE  StartsAt(t, last, p)
  <2>1. Commands(t) = {} => Commands(s) = {}
    BY <1>1, <1>6
  <2>2. ASSUME NEW i \in Commands(t), \A k \in Commands(t) : i <= k
        PROVE  Near(p, t[i])
    <3>1. \A k \in Commands(s) : i + 1 <= k
      <4> TAKE k \in Commands(s)
      <4>1. k - 1 \in Commands(t) /\ k \in Nat /\ i \in Nat
        BY <1>1, <1>6
      <4> QED
        BY <2>2, <4>1
    <3> QED
      BY <1>1, <1>6, <2>2, <3>1 DEF StartsAt
  <2> QED
    BY <1>6, <2>1, <2>2 DEF StartsAt
<1> QED
  BY <1>4, <1>5, <1>6 DEF t

\* What the steps of the client make of the chain
LEMMA PendingTypes ==
    ASSUME TypeInv
    PROVE  /\ Pending \in Seq(Requests)
           /\ todo # <<>> => Head(todo) \in Requests
<1>1. todo # <<>> => Head(todo) \in Requests
  BY TailSeq DEF TypeInv, TypeOK
<1> QED
  BY <1>1, AppendSeq DEF Pending, Unsent, TypeInv, TypeOK

\* What is left of a procedure holds no command.
LEMMA RestIsNoCommand ==
    ASSUME TypeInv, LinkInv, todo # <<>>
    PROVE  /\ \A i \in DOMAIN Tail(todo) : Tail(todo)[i].kind # "command"
           /\ Tail(todo) # <<>> => Head(Tail(todo)).kind # "command"
<1>1. /\ Len(todo) \in Nat /\ DOMAIN todo = 1 .. Len(todo)
      /\ Tail(todo) \in Seq(Requests) /\ Len(Tail(todo)) = Len(todo) - 1
      /\ DOMAIN Tail(todo) = 1 .. Len(todo) - 1
      /\ \A i \in 1 .. Len(todo) - 1 : Tail(todo)[i] = todo[i + 1]
  BY TailSeq DEF TypeInv, TypeOK
<1>2. \A i \in DOMAIN Tail(todo) : Tail(todo)[i].kind # "command"
  BY <1>1 DEF LinkInv
<1>3. Tail(todo) # <<>> => /\ Head(Tail(todo)) = Tail(todo)[1]
                           /\ 1 \in DOMAIN Tail(todo)
  BY <1>1, TailSeq
<1> QED
  BY <1>2, <1>3

LEMMA LinkStep == TypeInv /\ LinkInv /\ [Next]_vars => LinkInv'
<1> SUFFICES ASSUME TypeInv, LinkInv, [Next]_vars PROVE LinkInv'
  OBVIOUS
<1>1. CASE Exchange
  <2>1. CASE Send
    <3>1. /\ todo' = todo /\ socket' = socket /\ failed' = failed
          /\ stage' = stage /\ (socket # "open" => requests' = requests)
      BY <2>1, Zenon DEF Send
    <3> QED
      BY <3>1 DEF LinkInv
  <2>2. CASE SendFails \/ RecvFails \/ RejectReading
    <3>1. /\ socket' = "closed" /\ requests' = <<>> /\ todo # <<>>
          /\ todo' \in {todo, Tail(todo), <<>>}
      BY <2>2 DEF SendFails, RecvFails, RejectReading, Close, TypeInv
    <3>2. \A i \in DOMAIN todo' : todo'[i].kind = "command" => Len(todo') = 1
      BY <3>1, RestIsNoCommand DEF LinkInv
    <3> QED
      BY <3>1, <3>2 DEF LinkInv
  <2>3. CASE RecvAnyAnswer \/ RecvReading
    <3>1. /\ socket' = socket /\ requests' = requests /\ failed' = failed
          /\ stage' = stage /\ todo # <<>>
      BY <2>3, Zenon DEF RecvAnyAnswer, RecvReading, TypeInv
    <3>2. todo' \in {Tail(todo), <<>>}
      BY <2>3 DEF RecvAnyAnswer, RecvReading
    <3>3. \A i \in DOMAIN todo' : todo'[i].kind = "command" => Len(todo') = 1
      BY <3>1, <3>2, RestIsNoCommand
    <3> QED
      BY <3>1, <3>3 DEF LinkInv
  <2> QED
    BY <1>1, <2>1, <2>2, <2>3 DEF Exchange
<1>2. CASE startup_socket_client \/ PLCcommunication \/ TerminalPLC
  <2>1. /\ stage' # "connect"
        /\ failed' = FALSE \/ (failed' = failed /\ socket' = socket)
        /\ \/ socket' = "open"
           \/ socket' = socket /\ requests' = requests
    BY <1>2 DEF startup_socket_client, Connect, AfterReset, FirstReading,
                SecondReading, AfterRun, PLCcommunication, AfterCommand,
                AfterRead, TerminalPLC, GoOn, Crash, Reconnected,
                SocketConnection, NewConnection, netVars
  <2>2. \/ todo' \in {<<>>, Reset, Run, Read, Stop}
        \/ \E alpha \in Angles \cup {last_position} : Command(alpha)
        \/ todo' = todo
    BY <1>2 DEF startup_socket_client, Connect, AfterReset, FirstReading,
                SecondReading, AfterRun, PLCcommunication, AfterCommand,
                AfterRead, TerminalPLC, GoOn, Crash
  <2>3. \A i \in DOMAIN todo' : todo'[i].kind = "command" => Len(todo') = 1
    BY <2>2 DEF LinkInv, Reset, Run, Read, Stop, Command, CommandTo
  <2> QED
    BY <2>1, <2>3 DEF LinkInv
<1>3. CASE HandleRequest \/ StatusChanges \/ LinkBreaks \/ UNCHANGED vars
  <2>1. todo' = todo /\ failed' = failed /\ stage' = stage
    BY <1>3, Zenon DEF HandleRequest, StatusChanges, LinkBreaks, vars, clientVars
  <2>2. \/ socket = "open" /\ socket' = "open"
        \/ socket' = socket /\ requests' = requests
        \/ socket = "open" /\ socket' = "broken" /\ requests' = <<>>
    BY <1>3 DEF HandleRequest, StatusChanges, LinkBreaks, vars, netVars
  <2>3. stage = "connect" => socket # "open"
    BY DEF LinkInv
  <2> QED
    BY <2>1, <2>2, <2>3 DEF LinkInv
<1> QED
  BY <1>1, <1>2, <1>3 DEF Next, Client

LEMMA TurnExchange ==
    ASSUME TypeInv, LinkInv, TurnInv, Exchange
    PROVE  TurnInv'
<1> USE DEF TypeInv, TypeOK
<1>1. CASE Send
  <2>1. /\ todo # <<>> /\ todo' = todo /\ ~waiting /\ waiting'
        /\ last_position' = last_position /\ plc' = plc
    BY <1>1, Zenon DEF Send
  <2>2. requests' = IF socket = "open" THEN Append(requests, Head(todo))
                                       ELSE requests
    BY <1>1 DEF Send
  <2>3. lost' <=> lost \/ (socket = "broken" /\ Head(todo).kind = "command")
    BY <1>1, Zenon DEF Send
  <2>4. Pending' = requests'
    BY <2>1 DEF Pending, Unsent
  <2>5. socket # "closed" /\ socket \in {"open", "broken", "closed"}
    BY <1>1 DEF Send
  <2>6. CASE Head(todo).kind = "command"
    <3>1. Pending = Append(requests, Head(todo))
      BY <2>1, <2>6 DEF Pending, Unsent
    <3>2. CASE socket = "open"
      BY <2>1, <2>2, <2>3, <2>4, <3>1, <3>2 DEF TurnInv
    <3>3. CASE socket = "broken"
      <4>1. Pending' = <<>>
        BY <2>2, <2>4, <3>3 DEF LinkInv
      <4>2. lost'
        BY <2>3, <2>6, <3>3
      <4> QED
        BY <4>1, <4>2, EmptyChain DEF TurnInv
    <3> QED
      BY <2>5, <3>2, <3>3
  <2>7. CASE Head(todo).kind # "command"
    <3>1. Pending = requests /\ lost' = lost
      BY <2>3, <2>7 DEF Pending, Unsent
    <3>2. /\ Commands(requests') = Commands(requests)
          /\ \A i \in Commands(requests) : requests[i] = requests'[i]
      BY <2>1, <2>2, <2>7, PendingTypes, AppendOther
    <3> QED
      BY <2>1, <2>4, <3>1, <3>2, ChainOfCommands DEF TurnInv
  <2> QED
    BY <2>6, <2>7
<1>2. CASE SendFails
  <2>1. /\ ~waiting /\ todo # <<>> /\ requests = <<>> /\ requests' = <<>>
        /\ last_position' = last_position /\ plc' = plc
        /\ lost' <=> lost \/ Head(todo).kind = "command"
        /\ todo' = <<>> \/ waiting'
    BY <1>2 DEF SendFails, LinkInv
  <2>2. Pending' = <<>>
    BY <2>1 DEF Pending, Unsent
  <2>3. ~lost' => ~lost /\ Pending = <<>>
    BY <2>1 DEF Pending, Unsent
  <2> QED
    BY <2>1, <2>2, <2>3, EmptyChain DEF TurnInv
<1>3. CASE RecvFails \/ RejectReading
  <2>1. /\ waiting /\ ~waiting' /\ todo # <<>> /\ requests' = <<>>
        /\ todo' \in {Tail(todo), <<>>}
        /\ last_position' = last_position /\ plc' = plc
    BY <1>3 DEF RecvFails, RejectReading, Close
  <2>2. lost' <=> lost \/ Commands(requests) # {}
    BY <1>3, Zenon DEF RecvFails, RejectReading, Close
  <2>3. Pending' = <<>>
    BY <2>1, RestIsNoCommand DEF Pending, Unsent
  <2>4. Pending = requests
    BY <2>1 DEF Pending, Unsent
  <2>5. ~lost' => plc.position = last_position
    BY <2>2, <2>4 DEF TurnInv, StartsAt
  <2> QED
    BY <2>1, <2>3, <2>5, EmptyChain DEF TurnInv, StartsAt
<1>4. CASE RecvAnyAnswer \/ RecvReading
  <2>1. /\ waiting /\ ~waiting' /\ todo # <<>> /\ requests' = requests
        /\ last_position' = last_position /\ plc' = plc /\ lost' = lost
    BY <1>4, Zenon DEF RecvAnyAnswer, RecvReading
  <2>2. todo' \in {Tail(todo), <<>>}
    BY <1>4 DEF RecvAnyAnswer, RecvReading
  <2>3. Pending = requests /\ Pending' = requests
    BY <2>1, <2>2, RestIsNoCommand DEF Pending, Unsent
  <2> QED
    BY <2>1, <2>3 DEF TurnInv
<1> QED
  BY <1>1, <1>2, <1>3, <1>4 DEF Exchange

LEMMA TurnCommand ==
    ASSUME TypeInv, TurnInv, Idle, NEW alpha \in Angles \cup {last_position},
           Command(alpha),
           waiting' = waiting, requests' = requests, plc' = plc, lost' = lost
    PROVE  TurnInv'
<1> DEFINE e == [kind |-> "command", value |-> last_position', asked |-> alpha]
<1>1. /\ ~waiting /\ Pending = requests
      /\ last_position \in Positions /\ requests \in Seq(Requests)
  BY DEF Idle, Pending, Unsent, TypeInv, TypeOK
<1>2. last_position' = MinPosition(alpha, last_position)
  BY DEF Command
<1>3. /\ last_position' \in Positions
      /\ ShortTurn(last_position, last_position', alpha)
      /\ alpha \in Positions
  BY <1>1, <1>2, NearestPosition, PositionsAreAngles
<1>4. /\ e \in Requests /\ e.kind = "command" /\ e.value = last_position'
      /\ Near(last_position, e)
  BY <1>3 DEF Requests, Near
<1>5. Pending' = Append(requests, e)
  BY <1>1 DEF Pending, Unsent, Command, CommandTo
<1> HIDE DEF e
<1>6. Chain(requests, last_position) /\ Near(last_position, e)
  BY <1>1, <1>3, <1>4 DEF TurnInv
<1>7. /\ Chain(Pending', last_position')
      /\ StartsAt(requests, last_position, plc.position)
           => StartsAt(Pending', last_position', plc.position)
  BY <1>1, <1>4, <1>5, <1>6, ChainGrows
<1> QED
  BY <1>1, <1>7 DEF TurnInv

LEMMA TurnStages ==
    ASSUME TypeInv, LinkInv, TurnInv,
           startup_socket_client \/ PLCcommunication \/ TerminalPLC
    PROVE  TurnInv'
<1>1. /\ Idle /\ waiting' = waiting /\ plc' = plc /\ lost' = lost
  BY Zenon DEF startup_socket_client, Connect, AfterReset, FirstReading,
               SecondReading, AfterRun, PLCcommunication, AfterCommand,
               AfterRead, TerminalPLC, GoOn, Crash, Idle, TypeInv, readVars,
               netVars
<1>2. requests' = requests
  BY DEF startup_socket_client, Connect, AfterReset, FirstReading,
         SecondReading, AfterRun, PLCcommunication, AfterCommand,
         AfterRead, TerminalPLC, Crash, Reconnected, SocketConnection,
         NewConnection, netVars, LinkInv
<1>3. \/ /\ todo' \in {<<>>, Reset, Run, Read, Stop}
         /\ last_position' = last_position
      \/ \E alpha \in Angles \cup {last_position} : Command(alpha)
      \/ todo' = todo /\ last_position' = last_position
  BY DEF startup_socket_client, Connect, AfterReset, FirstReading,
         SecondReading, AfterRun, PLCcommunication, AfterCommand,
         AfterRead, TerminalPLC, GoOn, Crash
<1>4. CASE \E alpha \in Angles \cup {last_position} : Command(alpha)
  BY <1>1, <1>2, <1>4, TurnCommand
<1>5. CASE /\ todo' \in {<<>>, Reset, Run, Read, Stop, todo}
           /\ last_position' = last_position
  <2>1. Pending = requests
    BY <1>1 DEF Pending, Unsent, Idle
  <2>2. todo' # <<>> => Head(todo').kind # "command"
    BY <1>1, <1>5 DEF Reset, Run, Read, Stop, Idle
  <2>3. Pending' = requests
    BY <1>2, <2>2 DEF Pending, Unsent
  <2> QED
    BY <1>1, <1>5, <2>1, <2>3 DEF TurnInv
<1> QED
  BY <1>3, <1>4, <1>5

LEMMA TurnHandle ==
    ASSUME TypeInv, TurnInv, HandleRequest
    PROVE  TurnInv'
<1> DEFINE r == Head(requests)
<1>1. /\ requests # <<>> /\ requests \in Seq(Requests) /\ r \in Requests
      /\ requests' = Tail(requests)
      /\ todo' = todo /\ waiting' = waiting /\ last_position' = last_position
      /\ last_position \in Positions
  BY TailSeq, Zenon DEF HandleRequest, clientVars, TypeInv, TypeOK
<1>2. Unsent' <=> Unsent
  BY <1>1, Zenon DEF Unsent
<1>3. /\ Pending # <<>> /\ Pending \in Seq(Requests) /\ Head(Pending) = r
      /\ Pending' = Tail(Pending)
  <2>1. CASE ~Unsent
    BY <1>1, <1>2, <2>1 DEF Pending
  <2>2. CASE Unsent
    <3>1. Head(todo) \in Requests
      BY <2>2, PendingTypes DEF Unsent
    <3>2. ASSUME NEW e \in Requests
          PROVE  /\ Append(requests, e) # <<>>
                 /\ Append(requests, e) \in Seq(Requests)
                 /\ Head(Append(requests, e)) = Head(requests)
                 /\ Tail(Append(requests, e)) = Append(Tail(requests), e)
      BY <1>1
    <3> QED
      BY <1>1, <1>2, <2>2, <3>1, <3>2 DEF Pending
  <2> QED
    BY <2>1, <2>2
<1>4. Chain(Pending', last_position')
  BY <1>1, <1>3, ChainIsHandled DEF TurnInv
<1>5. ASSUME ~lost'
      PROVE  StartsAt(Pending', last_position', plc'.position)
  <2>1. CASE r.kind = "command"
    <3>1. plc'.position = r.value
      BY <2>1 DEF HandleRequest, Handled, TypeInv, TypeOK
    <3>2. StartsAt(Tail(Pending), last_position, r.value)
      BY <1>3, <2>1, ChainIsHandled DEF TurnInv
    <3> QED
      BY <1>1, <1>3, <3>1, <3>2
  <2>2. CASE r.kind = "home"
    <3>1. plc'.position = r.value
      BY <2>2 DEF HandleRequest, Handled, TypeInv, TypeOK
    <3>2. r.value = last_position /\ Commands(requests') = {}
      BY <1>1, <1>5, <2>2 DEF HandleRequest
    <3>3. ASSUME NEW i \in Commands(Pending')
          PROVE  Pending'[i].value = last_position
      <4>1. Unsent /\ Pending' = Append(requests', Head(todo))
        BY <1>1, <1>2, <3>2, <3>3 DEF Pending
      <4>2. Head(todo) \in Requests /\ Head(todo).kind = "command"
        BY <4>1, PendingTypes DEF Unsent
      <4>3. requests' \in Seq(Requests)
        BY <1>1, TailSeq
      <4>4. Commands(Pending') = {i}
        <5>1. Commands(Pending') = {Len(requests') + 1}
          BY <3>2, <4>1, <4>2, <4>3, AppendCommand
        <5> QED
          BY <3>3, <5>1
      <4>5. \A k \in Commands(Pending') : k <= i
        <5>1. i \in Nat
          BY <3>2, <4>1, <4>2, <4>3, <4>4, AppendCommand
        <5> QED
          BY <4>4, <5>1
      <4> QED
        BY <1>1, <1>4, <4>5 DEF Chain
    <3> QED
      BY <1>1, <3>1, <3>2, <3>3, NearItself DEF StartsAt
  <2>3. CASE r.kind \notin {"command", "home"}
    <3>1. plc'.position = plc.position /\ lost' = lost
      BY <2>3 DEF HandleRequest, Handled, TypeInv, TypeOK
    <3>2. StartsAt(Tail(Pending), last_position, plc.position)
      BY <1>3, <1>5, <2>3, <3>1, ChainIsHandled DEF TurnInv
    <3> QED
      BY <1>1, <1>3, <3>1, <3>2
  <2> QED
    BY <2>1, <2>2, <2>3
<1> QED
  BY <1>4, <1>5 DEF TurnInv

LEMMA TurnLinkBreaks ==
    ASSUME TypeInv, TurnInv, LinkBreaks
    PROVE  TurnInv'
<1>1. /\ requests' = <<>> /\ plc' = plc
      /\ todo' = todo /\ waiting' = waiting /\ last_position' = last_position
      /\ requests \in Seq(Requests)
  BY Zenon DEF LinkBreaks, clientVars, TypeInv, TypeOK
<1>2. lost' <=> lost \/ Commands(requests) # {}
  BY Zenon DEF LinkBreaks
<1>3. Unsent' <=> Unsent
  BY <1>1, Zenon DEF Unsent
<1>4. CASE ~Unsent
  <2>1. Pending = requests /\ Pending' = <<>>
    BY <1>1, <1>3, <1>4 DEF Pending
  <2> QED
    BY <1>1, <1>2, <2>1, EmptyChain DEF TurnInv, StartsAt
<1>5. CASE Unsent
  <2> DEFINE e == Head(todo)
             n == Len(requests) + 1
  <2>1. /\ e \in Requests /\ e.kind = "command"
        /\ Pending = Append(requests, e) /\ Pending' = Append(<<>>, e)
    BY <1>1, <1>3, <1>5, PendingTypes DEF Pending, Unsent
  <2> HIDE DEF e
  <2>2. /\ Commands(Pending) = Commands(requests) \cup {n} /\ n \in Nat
        /\ \A i \in Commands(requests) : i < n /\ i \in Nat
        /\ Pending[n] = e
    BY <1>1, <2>1, AppendCommand
  <2>3. /\ Commands(Pending') = {1} /\ Pending'[1] = e
    <3>1. /\ Commands(Append(<<>>, e)) = Commands(<<>>) \cup {Len(<<>>) + 1}
          /\ Append(<<>>, e)[Len(<<>>) + 1] = e
      BY <2>1, EmptySeq, AppendCommand
    <3>2. Len(<<>>) + 1 = 1
      OBVIOUS
    <3> QED
      BY <2>1, <3>1, <3>2, EmptyChain
  <2> HIDE DEF n
  <2>4. e.value = last_position
    <3>1. n \in Commands(Pending) /\ \A k \in Commands(Pending) : k <= n
      BY <2>2
    <3> QED
      BY <2>2, <3>1 DEF TurnInv, Chain
  <2>5. ~lost' => Near(plc.position, e)
    <3>1. SUFFICES ASSUME ~lost' PROVE Near(plc.position, e)
      OBVIOUS
    <3>2. Commands(Pending) = {n} /\ ~lost
      BY <1>2, <2>2, <3>1
    <3>3. n \in Commands(Pending) /\ \A k \in Commands(Pending) : n <= k
      BY <2>2, <3>2
    <3> QED
      BY <2>2, <3>2, <3>3 DEF TurnInv, StartsAt
  <2> QED
    BY <1>1, <2>3, <2>4, <2>5 DEF TurnInv, Chain, StartsAt
<1> QED
  BY <1>4, <1>5

LEMMA TurnStep == TypeInv /\ LinkInv /\ TurnInv /\ [Next]_vars => TurnInv'
<1> SUFFICES ASSUME TypeInv, LinkInv, TurnInv, [Next]_vars PROVE TurnInv'
  OBVIOUS
<1>1. CASE StatusChanges \/ UNCHANGED vars
  <2>1. /\ requests' = requests /\ todo' = todo /\ waiting' = waiting
        /\ last_position' = last_position /\ lost' = lost
    BY <1>1, Zenon DEF StatusChanges, vars, clientVars, netVars
  <2>2. plc'.position = plc.position
    BY <1>1 DEF StatusChanges, vars, TypeInv, TypeOK
  <2>3. Unsent' <=> Unsent
    BY <2>1, Zenon DEF Unsent
  <2>4. Pending' = Pending
    BY <2>1, <2>3 DEF Pending
  <2> QED
    BY <2>1, <2>2, <2>4 DEF TurnInv
<1> QED
  BY <1>1, TurnExchange, TurnStages, TurnHandle, TurnLinkBreaks
     DEF Next, Client

(***************************************************************************)
(* However many commands wait for the PLC, in whatever pieces the answers  *)
(* come and whenever the link breaks: a command the PLC handles turns a    *)
(* thruster by half a turn at most, or by a turn less than was asked for,  *)
(* unless one was lost before it.                                          *)
(***************************************************************************)
THEOREM TurnsAreShort == Spec => ShortTurns
<1> DEFINE IInv == TypeInv /\ LinkInv /\ TurnInv
<1>1. Init => IInv
  <2> SUFFICES ASSUME Init PROVE IInv
    OBVIOUS
  <2>1. TypeInv
    BY TypeAtStart
  <2>2. LinkInv
    BY DEF Init, LinkInv
  <2>3. Pending = <<>> /\ plc.position = last_position
    BY DEF Init, Pending, Unsent
  <2>4. TurnInv
    BY <2>3, EmptyChain DEF TurnInv, StartsAt
  <2> QED
    BY <2>1, <2>2, <2>4
<1>2. IInv /\ [Next]_vars => IInv'
  BY TypeStep, LinkStep, TurnStep
<1>3. IInv /\ [Next]_vars =>
        [plc'.position # plc.position /\ ~lost
           /\ Head(requests).kind = "command"
         => ShortTurn(plc.position, plc'.position, Head(requests).asked)]_vars
  <2> SUFFICES ASSUME IInv, Next, plc'.position # plc.position, ~lost,
                      Head(requests).kind = "command"
               PROVE  ShortTurn(plc.position, plc'.position,
                                Head(requests).asked)
    OBVIOUS
  <2>1. ~StatusChanges
    BY DEF StatusChanges, TypeInv, TypeOK
  <2>2. HandleRequest
    BY <2>1, Zenon
       DEF Next, Client, Exchange, Send, SendFails, RecvFails, RecvAnyAnswer,
           RecvReading, RejectReading, startup_socket_client, Connect,
           AfterReset, FirstReading, SecondReading, AfterRun, PLCcommunication,
           AfterCommand, AfterRead, TerminalPLC, GoOn, Crash, readVars, LinkBreaks
  <2>3. plc'.position = Head(requests).value
    BY <2>2 DEF HandleRequest, Handled, TypeInv, TypeOK
  <2>4. /\ Pending \in Seq(Requests)
        /\ 1 \in DOMAIN Pending /\ Pending[1] = Head(requests)
    <3>1. requests # <<>> /\ requests \in Seq(Requests)
      BY <2>2 DEF HandleRequest, TypeInv, TypeOK
    <3>2. Head(requests) = requests[1] /\ 1 \in 1 .. Len(requests)
      BY <3>1
    <3>3. Pending \in Seq(Requests)
      BY PendingTypes
    <3>4. ASSUME NEW e \in Requests
          PROVE  /\ DOMAIN Append(requests, e) = 1 .. Len(requests) + 1
                 /\ Append(requests, e)[1] = requests[1]
      BY <3>1, <3>2, AppendSeq
    <3> QED
      BY <3>1, <3>2, <3>3, <3>4, PendingTypes DEF Pending, Unsent
  <2>5. 1 \in Commands(Pending) /\ \A k \in Commands(Pending) : 1 <= k
    BY <2>4, CommandsAreOf DEF Commands
  <2> QED
    BY <2>3, <2>4, <2>5 DEF TurnInv, StartsAt, Near
<1> QED
  BY <1>1, <1>2, <1>3, PTL DEF Spec, ShortTurns
=============================================================================
