-------------------------- MODULE TelemetryProofs --------------------------
(***************************************************************************)
(* Proofs about Telemetry, for any set of clients, any descriptors the     *)
(* process may use for them, and any length of the backlog.                *)
(***************************************************************************)
EXTENDS Telemetry, TLAPS

LEMMA SeqUpdate ==
    ASSUME NEW S, NEW s \in Seq(S), NEW k \in DOMAIN s, NEW v \in S
    PROVE  /\ [s EXCEPT ![k] = v] \in Seq(S)
           /\ Len([s EXCEPT ![k] = v]) = Len(s)
<1>1. s \in [1 .. Len(s) -> S] /\ Len(s) \in Nat
  OBVIOUS
<1>2. [s EXCEPT ![k] = v] \in [1 .. Len(s) -> S]
  BY <1>1
<1> QED
  BY <1>1, <1>2

\* A change of a connection is one of a socket or one of the backlog.
LEMMA BecomesType ==
    ASSUME TypeOK, NEW old \in States, NEW new \in States, Becomes(old, new)
    PROVE  TypeOK'
<1> USE DEF TypeOK, Becomes, serverVars
<1>1. CASE \E d \in Descriptors :
             /\ socket[d].state = old
             /\ socket' = [socket EXCEPT ![d].state = new]
             /\ UNCHANGED backlog
  BY <1>1 DEF Connections, NoConnection, States
<1>2. CASE \E k \in DOMAIN backlog :
             /\ backlog[k].state = old
             /\ backlog' = [backlog EXCEPT ![k].state = new]
             /\ UNCHANGED socket
  <2>1. PICK k \in DOMAIN backlog :
             /\ backlog' = [backlog EXCEPT ![k].state = new]
             /\ UNCHANGED socket
    BY <1>2
  <2>2. backlog[k] \in Connections
    OBVIOUS
  <2>3. [backlog[k] EXCEPT !.state = new] \in Connections
    BY <2>2 DEF Connections
  <2>4. backlog' \in Seq(Connections) /\ Len(backlog') = Len(backlog)
    BY <2>1, <2>3, SeqUpdate, backlog \in Seq(Connections)
  <2> QED
    BY <1>2, <2>1, <2>4
<1> QED
  BY <1>1, <1>2

THEOREM TypeCorrect == Spec => []TypeOK
<1> USE DescriptorAssumption, BacklogAssumption
<1>1. Init => TypeOK
  BY DEF Init, TypeOK
<1>2. TypeOK /\ [Next]_vars => TypeOK'
  <2> SUFFICES ASSUME TypeOK, [Next]_vars PROVE TypeOK'
    OBVIOUS
  <2>1. ASSUME NEW c \in Clients, Connect(c) PROVE TypeOK'
    BY <2>1 DEF Connect, TypeOK, serverVars, Connections, States
  <2>2. CASE Ask \/ HangUp
    BY <2>2, BecomesType DEF Ask, HangUp, States
  <2>3. CASE Build
    BY <2>3 DEF Build, TypeOK
  <2>4. CASE Select \/ SelectFails
    BY <2>4 DEF Select, SelectFails, TypeOK
  <2>5. CASE Accept
    <3>1. Head(backlog) \in Connections /\ Tail(backlog) \in Seq(Connections)
      BY <2>5 DEF Accept, TypeOK
    <3>2. Len(Tail(backlog)) = Len(backlog) - 1 /\ Len(backlog) \in Nat
      BY <2>5 DEF Accept, TypeOK
    <3>3. backlog' \in Seq(Connections) /\ Len(backlog') <= Backlog
      BY <2>5, <3>1, <3>2 DEF Accept, TypeOK
    <3>4. PICK newfd \in Descriptors :
            /\ socket' = [socket EXCEPT ![newfd] = Head(backlog)]
            /\ master' = master \cup {newfd}
            /\ fdmax' = IF newfd > fdmax THEN newfd ELSE fdmax
      BY <2>5 DEF Accept, Free
    <3>5. socket' \in [Descriptors -> Connections \cup {NoConnection}]
      BY <3>1, <3>4 DEF TypeOK
    <3>6. master' \subseteq Descriptors \cup {listener}
      BY <3>4 DEF TypeOK
    <3>7. fdmax' \in Descriptors \cup {listener}
      BY <3>4 DEF TypeOK
    <3> QED
      BY <2>5, <3>3, <3>5, <3>6, <3>7 DEF Accept, Scanned, TypeOK
  <2>6. CASE AcceptFails
    BY <2>6 DEF AcceptFails, Scanned, TypeOK
  <2>7. ASSUME NEW d \in Descriptors, ClientLeft(d) PROVE TypeOK'
    BY <2>7 DEF ClientLeft, Scanned, TypeOK
  <2>8. ASSUME NEW d \in Descriptors, Answer(d) PROVE TypeOK'
    <3>1. socket[d] \in Connections
      BY <2>8 DEF Answer, TypeOK, NoConnection
    <3>2. [socket[d] EXCEPT !.state = IF @ = "asked" THEN "idle" ELSE "hungup"]
            \in Connections
      BY <3>1 DEF Connections, States
    <3>3. socket' \in [Descriptors -> Connections \cup {NoConnection}]
      BY <2>8, <3>2 DEF Answer, TypeOK
    <3>4. current' \subseteq Clients
      BY <2>8 DEF Answer, TypeOK
    <3> QED
      BY <2>8, <3>3, <3>4 DEF Answer, Scanned, TypeOK
  <2>9. CASE ScanEnds
    BY <2>9 DEF ScanEnds, TypeOK
  <2>10. CASE UNCHANGED vars
    BY <2>10 DEF vars, serverVars, TypeOK
  <2> QED
    BY <2>1, <2>2, <2>3, <2>4, <2>5, <2>6, <2>7, <2>8, <2>9,
       <2>10 DEF Next, socket_loop, selectserver, Scan
<1> QED
  BY <1>1, <1>2, PTL DEF Spec

-----------------------------------------------------------------------------
(***************************************************************************)
(* No descriptor leaks, and none is used after it was closed: the set that *)
(* select watches and the open descriptors change together.                *)
(***************************************************************************)
THEOREM NoDescriptorLeaks == Spec => []DescriptorsOpen
<1> USE DescriptorAssumption
<1>1. Init => DescriptorsOpen
  BY DEF Init, DescriptorsOpen, Open
<1>2. TypeOK /\ DescriptorsOpen /\ [Next]_vars => DescriptorsOpen'
  <2> SUFFICES ASSUME TypeOK, DescriptorsOpen, [Next]_vars
               PROVE  DescriptorsOpen'
    OBVIOUS
  <2> USE DEF DescriptorsOpen, Open, TypeOK
  <2>1. ASSUME NEW c \in Clients, Connect(c) PROVE DescriptorsOpen'
    BY <2>1 DEF Connect, serverVars
  <2>2. ASSUME NEW old \in States, NEW new \in States, Becomes(old, new)
        PROVE  DescriptorsOpen'
    <3>1. Open' = Open
      BY <2>2 DEF Becomes, Connections, NoConnection, States
    <3>2. UNCHANGED <<master, read_fds, fdmax>>
      BY <2>2 DEF Becomes, serverVars
    <3> QED
      BY <3>1, <3>2
  <2>3. CASE Build \/ Select \/ SelectFails \/ ScanEnds
    BY <2>3 DEF Build, Select, SelectFails, ScanEnds
  <2>4. CASE Accept
    <3>1. PICK newfd \in Free :
            /\ socket' = [socket EXCEPT ![newfd] = Head(backlog)]
            /\ master' = master \cup {newfd}
            /\ fdmax' = IF newfd > fdmax THEN newfd ELSE fdmax
      BY <2>4 DEF Accept
    <3>2. Head(backlog) # NoConnection
      BY <2>4 DEF Accept, Connections, NoConnection, States
    <3>3. Open' = Open \cup {newfd}
      BY <3>1, <3>2 DEF Free
    <3>4. read_fds' \subseteq read_fds
      BY <2>4 DEF Accept, Scanned
    <3>5. \A d \in master' : d <= fdmax'
      BY <3>1 DEF Free
    <3> QED
      BY <3>1, <3>3, <3>4, <3>5
  <2>5. CASE AcceptFails
    BY <2>5 DEF AcceptFails, Scanned
  <2>6. ASSUME NEW d \in Descriptors, ClientLeft(d) PROVE DescriptorsOpen'
    BY <2>6 DEF ClientLeft, Scanned
  <2>7. ASSUME NEW d \in Descriptors, Answer(d) PROVE DescriptorsOpen'
    <3>1. Open' = Open
      BY <2>7 DEF Answer, Connections, NoConnection, States
    <3> QED
      BY <2>7, <3>1 DEF Answer, Scanned
  <2>8. CASE UNCHANGED vars
    BY <2>8 DEF vars, serverVars
  <2> QED
    BY <2>1, <2>2, <2>3, <2>4, <2>5, <2>6, <2>7, <2>8
       DEF Next, socket_loop, selectserver, Scan, Ask, HangUp, States
<1> QED
  BY <1>1, <1>2, TypeCorrect, PTL DEF Spec

-----------------------------------------------------------------------------
(***************************************************************************)
(* A snapshot is sent to a client once.  A scan looks at a descriptor once,*)
(* a client has one connection that it can ask on, and a descriptor that   *)
(* is closed and used again within the scan is no longer in read_fds: so   *)
(* every client the scan may still answer has not got this snapshot.       *)
(***************************************************************************)
OneConnection ==
    \A c \in Clients :
      /\ \A d, e \in Descriptors : Of(c, socket[d]) /\ Of(c, socket[e]) => d = e
      /\ \A k, l \in DOMAIN backlog : Of(c, backlog[k]) /\ Of(c, backlog[l]) => k = l
      /\ \A d \in Descriptors, k \in DOMAIN backlog :
           ~(Of(c, socket[d]) /\ Of(c, backlog[k]))

Unserved ==
    /\ pc = "select" => current = Clients
    /\ pc = "scan" =>
         \A d \in read_fds \cap Descriptors, c \in Clients :
           Of(c, socket[d]) => c \in current

FreshInv == TypeOK /\ DescriptorsOpen /\ OneConnection /\ Unserved

\* Fewer connections that can ask
NoNewConnection ==
    /\ DOMAIN backlog' = DOMAIN backlog
    /\ \A c \in Clients :
         /\ \A d \in Descriptors : Of(c, socket[d])' => Of(c, socket[d])
         /\ \A k \in DOMAIN backlog : Of(c, backlog[k])' => Of(c, backlog[k])

LEMMA FewerConnections ==
    ASSUME OneConnection, NoNewConnection
    PROVE  OneConnection'
BY DEF OneConnection, NoNewConnection

LEMMA BecomesFewer ==
    ASSUME TypeOK, NEW old \in {"idle", "asked"}, NEW new \in States,
           Becomes(old, new)
    PROVE  NoNewConnection
<1> USE DEF TypeOK, Becomes, Of, NoNewConnection
<1>1. CASE \E d \in Descriptors :
             /\ socket[d].state = old
             /\ socket' = [socket EXCEPT ![d].state = new]
             /\ UNCHANGED backlog
  BY <1>1 DEF Connections, NoConnection, States
<1>2. CASE \E k \in DOMAIN backlog :
             /\ backlog[k].state = old
             /\ backlog' = [backlog EXCEPT ![k].state = new]
             /\ UNCHANGED socket
  <2>1. \A k \in DOMAIN backlog : backlog[k] \in Connections
    OBVIOUS
  <2> QED
    BY <1>2, <2>1 DEF Connections
<1> QED
  BY <1>1, <1>2

LEMMA ConnectOne ==
    ASSUME TypeOK, OneConnection, NEW client \in Clients, Connect(client)
    PROVE  OneConnection'
<1> DEFINE new == [client |-> client, state |-> "idle"]
<1>1. /\ Len(backlog) \in Nat /\ DOMAIN backlog = 1 .. Len(backlog)
      /\ DOMAIN backlog' = 1 .. (Len(backlog) + 1)
      /\ \A k \in 1 .. Len(backlog) : backlog'[k] = backlog[k]
      /\ backlog'[Len(backlog) + 1] = new
      /\ socket' = socket
  BY DEF Connect, TypeOK
<1>2. \A c \in Clients : Of(c, new) => c = client
  BY DEF Of
<1>3. ~Connected(client)
  BY DEF Connect
<1> HIDE DEF new
<1> QED
  BY <1>1, <1>2, <1>3 DEF OneConnection, Connected, Of

LEMMA AcceptOne ==
    ASSUME TypeOK, OneConnection, Accept
    PROVE  OneConnection'
<1>1. /\ Len(backlog) \in Nat /\ DOMAIN backlog = 1 .. Len(backlog)
      /\ Len(backlog) > 0
      /\ DOMAIN backlog' = 1 .. (Len(backlog) - 1)
      /\ \A k \in DOMAIN backlog' : backlog'[k] = backlog[k + 1]
      /\ Head(backlog) = backlog[1]
  BY DEF Accept, TypeOK
<1>2. PICK newfd \in Descriptors : socket' = [socket EXCEPT ![newfd] = backlog[1]]
  BY <1>1 DEF Accept, Free
<1>3. /\ socket'[newfd] = backlog[1]
      /\ \A d \in Descriptors \ {newfd} : socket'[d] = socket[d]
  BY <1>2 DEF TypeOK
<1> QED
  BY <1>1, <1>3 DEF OneConnection, Of

LEMMA FreshInductive == FreshInv /\ [Next]_vars => OneConnection' /\ Unserved'
<1> SUFFICES ASSUME FreshInv, [Next]_vars PROVE OneConnection' /\ Unserved'
  OBVIOUS
<1> USE DEF FreshInv
<1>1. ASSUME NEW c \in Clients, Connect(c) PROVE OneConnection' /\ Unserved'
  BY <1>1, ConnectOne DEF Connect, Unserved, serverVars, Of
<1>2. ASSUME NEW old \in {"idle", "asked"}, NEW new \in States, Becomes(old, new)
      PROVE  OneConnection' /\ Unserved'
  <2>1. NoNewConnection
    BY <1>2, BecomesFewer
  <2> QED
    BY <1>2, <2>1, FewerConnections
       DEF Becomes, Unserved, NoNewConnection, serverVars, Of
<1>3. CASE Build \/ Select \/ SelectFails \/ AcceptFails \/ ScanEnds
  <2>1. UNCHANGED <<socket, backlog>>
    BY <1>3 DEF Build, Select, SelectFails, AcceptFails, ScanEnds
  <2>2. OneConnection'
    BY <2>1, FewerConnections DEF NoNewConnection, Of
  <2>3. CASE Build \/ Select \/ SelectFails \/ ScanEnds
    BY <2>2, <2>3 DEF Build, Select, SelectFails, ScanEnds, Unserved, Of
  <2>4. CASE AcceptFails
    BY <2>1, <2>2, <2>4 DEF AcceptFails, Scanned, Unserved, Of
  <2> QED
    BY <1>3, <2>2, <2>3, <2>4
<1>4. CASE Accept
  <2>1. PICK newfd \in Free : socket' = [socket EXCEPT ![newfd] = Head(backlog)]
    BY <1>4 DEF Accept
  <2>2. newfd \notin read_fds
    BY <2>1, DescriptorAssumption DEF Free, DescriptorsOpen, Open
  <2>3. Unserved'
    BY <1>4, <2>1, <2>2 DEF Accept, Scanned, Unserved, TypeOK, Free, Of
  <2> QED
    BY <1>4, <2>3, AcceptOne
<1>5. ASSUME NEW d \in Descriptors, ClientLeft(d)
      PROVE  OneConnection' /\ Unserved'
  <2>1. NoNewConnection
    BY <1>5 DEF ClientLeft, NoNewConnection, NoConnection, TypeOK, Of
  <2> QED
    BY <1>5, <2>1, FewerConnections
       DEF ClientLeft, Scanned, Unserved, NoNewConnection, Of
<1>6. ASSUME NEW d \in Descriptors, Answer(d)
      PROVE  OneConnection' /\ Unserved'
  <2>1. socket[d] \in Connections
    BY <1>6 DEF Answer, TypeOK, NoConnection
  <2>2. NoNewConnection
    BY <1>6, <2>1 DEF Answer, NoNewConnection, Connections, TypeOK, Of
  <2>3. /\ pc = "scan" /\ pc' = "scan"
        /\ read_fds' = read_fds \ {d}
    BY <1>6 DEF Answer, Scanned
  <2>4. ASSUME NEW e \in Descriptors \ {d}, NEW c \in Clients, Of(c, socket[e]),
               c \in current
        PROVE  c \in current'
    BY <1>6, <2>1, <2>4 DEF Answer, OneConnection, Connections, Of
  <2>5. Unserved'
    BY <2>2, <2>3, <2>4 DEF Unserved, NoNewConnection, Of
  <2> QED
    BY <2>2, <2>5, FewerConnections
<1>7. CASE UNCHANGED vars
  BY <1>7 DEF vars, serverVars, OneConnection, Unserved, Of
<1> QED
  BY <1>1, <1>2, <1>3, <1>4, <1>5, <1>6, <1>7
     DEF Next, socket_loop, selectserver, Scan, Ask, HangUp, States

THEOREM FreshAnswers == Spec => AnswersFresh
<1>1. Init => OneConnection /\ Unserved
  BY DEF Init, OneConnection, Unserved, NoConnection, Of
<1>2. FreshInv /\ [Next]_vars =>
        [\A d \in Descriptors :
           socket[d].state = "asked" /\ socket'[d].state = "idle"
             => socket[d].client \in current]_vars
  <2> SUFFICES ASSUME FreshInv, Next, NEW d \in Descriptors,
                      socket[d].state = "asked", socket'[d].state = "idle"
               PROVE  socket[d].client \in current
    BY DEF vars, serverVars
  <2>1. socket[d] \in Connections
    BY DEF FreshInv, TypeOK, NoConnection
  <2>2. socket'[d] # socket[d]
    OBVIOUS
  <2>3. ASSUME NEW e \in Descriptors, ClientLeft(e) \/ Answer(e) PROVE e = d
    BY <2>2, <2>3 DEF ClientLeft, Answer, FreshInv, TypeOK
  <2>4. ~ClientLeft(d)
    BY DEF ClientLeft
  <2>5. ASSUME Accept PROVE FALSE
    <3>1. PICK newfd \in Free : socket' = [socket EXCEPT ![newfd] = Head(backlog)]
      BY <2>5 DEF Accept
    <3>2. newfd = d
      BY <2>2, <3>1 DEF FreshInv, TypeOK
    <3>3. socket[d] = [state |-> "closed"]
      BY <3>2 DEF Free, NoConnection
    <3> QED
      BY <3>3
  <2>6. ASSUME NEW old \in States, NEW new \in States, Becomes(old, new)
        PROVE  old = "asked" /\ new = "idle"
    <3>1. PICK e \in Descriptors : /\ socket[e].state = old
                                   /\ socket' = [socket EXCEPT ![e].state = new]
      BY <2>2, <2>6 DEF Becomes
    <3>2. e = d
      BY <2>2, <3>1 DEF FreshInv, TypeOK
    <3>3. socket'[d] = [socket[d] EXCEPT !.state = new]
      BY <3>1, <3>2 DEF FreshInv, TypeOK
    <3> QED
      BY <2>1, <3>1, <3>2, <3>3 DEF Connections
  <2>7. Answer(d)
    BY <2>2, <2>3, <2>4, <2>5, <2>6
       DEF Next, socket_loop, selectserver, Scan, Connect, Build, Select, SelectFails,
           AcceptFails, ScanEnds, Ask, HangUp, States
  <2> QED
    BY <2>1, <2>7 DEF Answer, Scanned, FreshInv, Unserved, Connections, Of
<1> QED
  BY <1>1, <1>2, FreshInductive, TypeCorrect, NoDescriptorLeaks, PTL
     DEF Spec, FreshInv, AnswersFresh
=============================================================================
