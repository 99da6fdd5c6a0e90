----------------------------- MODULE Telemetry -----------------------------
(***************************************************************************)
(* The telemetry server of the simulations: socket_loop (threadloop.h)     *)
(* takes a snapshot of the vessel's state and calls selectserver           *)
(* (tcpserver.h), which waits for a readable descriptor without a timeout  *)
(* and answers every readable client with that snapshot.  The clients ask  *)
(* and wait for the answer (tcpclient.h), or hang up at any moment, also   *)
(* with a question under way, and come back.  The accepted sockets inherit *)
(* the listener's receive timeout of a second: a recv without a question,  *)
(* after a select that failed, ends by closing the connection.             *)
(*                                                                         *)
(* read_fds is reduced to the descriptors that the scan has still to look  *)
(* at.  Numbers, addresses and the sizes of messages are left out: one     *)
(* question is as long as the server's recv, as in testtcpclient.cc.       *)
(***************************************************************************)
EXTENDS Integers, Sequences, FiniteSets

CONSTANTS
    Clients,
    Descriptors,   \* that accept may return: free ones of the process
    listener,      \* the descriptor of the listening socket
    Backlog        \* connections that wait for accept (10 in the code)

ASSUME DescriptorAssumption ==
    /\ Descriptors \subseteq Nat /\ listener \in Nat \ Descriptors
    /\ IsFiniteSet(Descriptors)
ASSUME BacklogAssumption == Backlog \in Nat \ {0}

\* A connection as its client left it; "lost": it asked and hung up.
States      == {"idle", "asked", "hungup", "lost"}
Connections == [client : Clients, state : States]
NoConnection == [state |-> "closed"]

VARIABLES
    pc,          \* of socket_loop: "build" the message, "select", "scan"
    current,     \* history: clients that have not got the present snapshot
    master,      \* descriptors that select watches
    read_fds,    \* readable ones that the scan has not reached
    fdmax,
    results,     \* of the last calls: 4 after a failed select
    socket,      \* connection of each descriptor
    backlog      \* connections not yet accepted

serverVars == <<pc, current, master, read_fds, fdmax, results>>
vars == <<serverVars, socket, backlog>>

TypeOK ==
    /\ pc \in {"build", "select", "scan"}
    /\ current \subseteq Clients
    /\ master \subseteq Descriptors \cup {listener}
    /\ read_fds \subseteq Descriptors \cup {listener}
    /\ fdmax \in Descriptors \cup {listener}
    /\ results \in {0, 4}
    /\ socket \in [Descriptors -> Connections \cup {NoConnection}]
    /\ backlog \in Seq(Connections) /\ Len(backlog) <= Backlog

\* initializesocket, with an address to bind to
Init ==
    /\ pc = "build"
    /\ current = {}
    /\ master = {listener}
    /\ read_fds = {}
    /\ fdmax = listener
    /\ results = 0
    /\ socket = [d \in Descriptors |-> NoConnection]
    /\ backlog = <<>>

-----------------------------------------------------------------------------
(***************************************************************************)
(* The clients: connect2server, senddata, and the end of the program.      *)
(***************************************************************************)
Of(c, connection) ==
    connection.state \in {"idle", "asked"} /\ connection.client = c
Connected(c) ==
    \/ \E d \in Descriptors : Of(c, socket[d])
    \/ \E k \in DOMAIN backlog : Of(c, backlog[k])

Connect(c) ==
    /\ ~Connected(c)
    /\ Len(backlog) < Backlog
    /\ backlog' = Append(backlog, [client |-> c, state |-> "idle"])
    /\ UNCHANGED <<serverVars, socket>>

\* The state of one connection changes, accepted or not.
Becomes(old, new) ==
    /\ \/ \E d \in Descriptors :
             /\ socket[d].state = old
             /\ socket' = [socket EXCEPT ![d].state = new]
             /\ UNCHANGED backlog
       \/ \E k \in DOMAIN backlog :
             /\ backlog[k].state = old
             /\ backlog' = [backlog EXCEPT ![k].state = new]
             /\ UNCHANGED socket
    /\ UNCHANGED serverVars

Ask    == Becomes("idle", "asked")
HangUp == Becomes("idle", "hungup") \/ Becomes("asked", "lost")

-----------------------------------------------------------------------------
(***************************************************************************)
(* socket_loop                                                             *)
(***************************************************************************)
Build ==
    /\ pc = "build"
    /\ pc' = "select"
    /\ current' = Clients
    /\ UNCHANGED <<master, read_fds, fdmax, results, socket, backlog>>

Readable(d) ==
    IF d = listener THEN backlog # <<>> ELSE socket[d].state # "idle"

\* select returns when something is readable; there is no timeout.
Select ==
    /\ pc = "select"
    /\ read_fds' = {d \in master : d <= fdmax /\ Readable(d)}
    /\ read_fds' # {}
    /\ pc' = "scan"
    /\ UNCHANGED <<current, master, fdmax, results, socket, backlog>>

\* A failed select (EINTR) leaves read_fds as it was copied, and the scan goes
\* on: it looks at every descriptor up to fdmax.
SelectFails ==
    /\ pc = "select"
    /\ read_fds' = {d \in master : d <= fdmax}
    /\ results' = 4
    /\ pc' = "scan"
    /\ UNCHANGED <<current, master, fdmax, socket, backlog>>

Scanned(d) ==
    /\ pc = "scan"
    /\ d \in read_fds /\ \A e \in read_fds : d <= e
    /\ read_fds' = read_fds \ {d}
    /\ UNCHANGED <<pc, results>>

Free == {d \in Descriptors : socket[d] = NoConnection}

AcceptKeepsMax ==             \* faulty: fdmax is not raised
    /\ Scanned(listener)
    /\ backlog # <<>> /\ Free # {}
    /\ \E newfd \in Free :
          /\ \A e \in Free : newfd <= e
          /\ socket' = [socket EXCEPT ![newfd] = Head(backlog)]
          /\ master' = master \cup {newfd}
    /\ backlog' = Tail(backlog)
    /\ UNCHANGED <<current, fdmax>>

\* accept takes the lowest free descriptor.
Accept ==
    /\ Scanned(listener)
    /\ backlog # <<>> /\ Free # {}
    /\ \E newfd \in Free :
          /\ \A e \in Free : newfd <= e
          /\ socket' = [socket EXCEPT ![newfd] = Head(backlog)]
          /\ master' = master \cup {newfd}
          /\ fdmax' = IF newfd > fdmax THEN newfd ELSE fdmax
    /\ backlog' = Tail(backlog)
    /\ UNCHANGED current

AcceptFailsUnchecked ==       \* faulty: -1 is added to master like a descriptor
    /\ Scanned(listener)
    /\ backlog = <<>> \/ Free = {}
    /\ master' = master \cup {-1}
    /\ UNCHANGED <<current, fdmax, socket, backlog>>

\* No connection within a second, or no descriptor left
AcceptFails ==
    /\ Scanned(listener)
    /\ backlog = <<>> \/ Free = {}
    /\ UNCHANGED <<current, master, fdmax, socket, backlog>>

\* recv returns 0, or an error after the client has reset the connection or
\* has asked nothing for a second.
ClientLeftForgets(d) ==       \* faulty: closed, but still in master
    /\ Scanned(d)
    /\ socket[d].state \in {"idle", "hungup"}
    /\ socket' = [socket EXCEPT ![d] = NoConnection]
    /\ UNCHANGED <<current, master, fdmax, backlog>>

ClientLeft(d) ==
    /\ Scanned(d)
    /\ socket[d].state \in {"idle", "hungup"}
    /\ socket' = [socket EXCEPT ![d] = NoConnection]
    /\ master' = master \ {d}
    /\ UNCHANGED <<current, fdmax, backlog>>

\* recv returns the question; the answer to a client that left is lost.
Answer(d) ==
    /\ Scanned(d)
    /\ socket[d].state \in {"asked", "lost"}
    /\ socket' = [socket EXCEPT ![d].state =
                    IF @ = "asked" THEN "idle" ELSE "hungup"]
    /\ current' = IF socket[d].state = "asked"
                  THEN current \ {socket[d].client} ELSE current
    /\ UNCHANGED <<master, fdmax, backlog>>

ScanEndsSelects ==            \* faulty: selects again without a new snapshot
    /\ pc = "scan"
    /\ read_fds = {}
    /\ pc' = "select"
    /\ UNCHANGED <<current, master, read_fds, fdmax, results, socket,
                   backlog>>

\* socket_loop sleeps and takes the next snapshot.
ScanEnds ==
    /\ pc = "scan"
    /\ read_fds = {}
    /\ pc' = "build"
    /\ UNCHANGED <<current, master, read_fds, fdmax, results, socket,
                   backlog>>

Scan ==
    \/ Accept \/ AcceptFails
    \/ \E d \in Descriptors : ClientLeft(d) \/ Answer(d)
    \/ ScanEnds

selectserver == Select \/ SelectFails \/ Scan

socket_loop == Build \/ selectserver

Next ==
    \/ \E c \in Clients : Connect(c)
    \/ Ask \/ HangUp
    \/ socket_loop

Spec == Init /\ [][Next]_vars

(***************************************************************************)
(* The thread runs for ever, but for the select that waits for a client;   *)
(* every recv and accept returns within a second.  No select needs to      *)
(* fail, and nothing is assumed of the clients.                            *)
(***************************************************************************)
FairSpec == Spec /\ WF_vars(Build \/ Select \/ Scan)

-----------------------------------------------------------------------------
(***************************************************************************)
(* master holds the listener and exactly the descriptors that are open, so *)
(* that getconnectioncount counts the connections and nothing is read from *)
(* a closed descriptor, also when a descriptor is used again within a scan.*)
(***************************************************************************)
Open == {d \in Descriptors : socket[d] # NoConnection}

DescriptorsOpen ==
    /\ master = Open \cup {listener} /\ read_fds \subseteq master
    /\ \A d \in master : d <= fdmax

(***************************************************************************)
(* Two answers to a client never carry the same snapshot: its second was   *)
(* taken after the first was sent, also when it hung up and came back.     *)
(***************************************************************************)
AnswersFresh ==
    [][\A d \in Descriptors :
         socket[d].state = "asked" /\ socket'[d].state = "idle"
           => socket[d].client \in current]_vars

(***************************************************************************)
(* A client that asks is answered or hangs up, whatever the other clients  *)
(* do and however often a select fails.  A client whose connection the     *)
(* server closed has to connect again before it can ask.                   *)
(***************************************************************************)
Waits(c) ==
    \/ \E d \in Descriptors : socket[d] = [client |-> c, state |-> "asked"]
    \/ \E k \in DOMAIN backlog : backlog[k] = [client |-> c, state |-> "asked"]

Answered == \A c \in Clients : Waits(c) ~> ~Waits(c)
=============================================================================
