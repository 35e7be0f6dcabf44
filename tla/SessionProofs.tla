--------------------------- MODULE SessionProofs ---------------------------
(***************************************************************************)
(* Theorems about Session for every number of servers and clients.         *)
(***************************************************************************)
EXTENDS Session, TLAPS

-----------------------------------------------------------------------------
(* One server.  The property is inductive given the type of server.        *)

(* No server has started at first.                                         *)
LEMMA OneServerInit == Init => OneServer
BY DEF Init, OneServer, Stages

(* Every step keeps one server past the lock, and the files its own: who   *)
(* writes the pid file or binds the socket holds the lock.                 *)
LEMMA OneServerNext ==
    ASSUME OneServer, server \in [Servers -> Stages], [Next]_vars
    PROVE  OneServer'
<1> USE SessionAssumption DEF OneServer, Stages
<1>1. ASSUME NEW s \in Servers, pid_file_open(s)
      PROVE  OneServer'
  BY <1>1 DEF pid_file_open, Goes
<1>2. ASSUME NEW s \in Servers, pid_file_lock(s)
      PROVE  OneServer'
  BY <1>2 DEF pid_file_lock
<1>3. ASSUME NEW s \in Servers, pid_file_truncate(s)
      PROVE  OneServer'
  BY <1>3 DEF pid_file_truncate, Goes
<1>4. ASSUME NEW s \in Servers, pid_file_write(s)
      PROVE  OneServer'
  BY <1>4 DEF pid_file_write, Goes
<1>5. ASSUME NEW s \in Servers, create_socket_server_bind(s)
      PROVE  OneServer'
  BY <1>5 DEF create_socket_server_bind, Goes
<1>6. ASSUME NEW s \in Servers, ServerEnds(s)
      PROVE  OneServer'
  BY <1>6 DEF ServerEnds, Alive
<1>7. ASSUME NEW s \in Servers, NEW from, NEW to, Goes(s, from, to), UNCHANGED files,
             from \in {"bound", "loop", "read", "act"}, to \in {"bound", "loop", "read", "act"}
      PROVE  OneServer'
  BY <1>7 DEF Goes, files
<1>8. ASSUME NEW s \in Servers,
             \/ create_socket_server_listen(s) \/ socket_accept(s) \/ receive_ipc_request(s)
             \/ handle_ipc_in_progress(s) \/ ReceiveFails(s)
             \/ OtherEvent(s) \/ ActNoOperation(s) \/ ActAndNotify(s)
      PROVE  OneServer'
  <2>1. PICK from \in {"bound", "loop", "read", "act"}, to \in {"bound", "loop", "read", "act"} :
           Goes(s, from, to)
    BY <1>8 DEF create_socket_server_listen, socket_accept, receive_ipc_request,
                handle_ipc_in_progress, ReceiveFails, OtherEvent, ActNoOperation, ActAndNotify
  <2>2. UNCHANGED files
    BY <1>8 DEF create_socket_server_listen, socket_accept, receive_ipc_request,
                handle_ipc_in_progress, ReceiveFails, OtherEvent, ActNoOperation, ActAndNotify
  <2>3. QED
    BY <1>7, <2>1, <2>2
<1>9. ASSUME UNCHANGED <<files, server>>
      PROVE  OneServer'
  BY <1>9 DEF files
<1>10. ASSUME NEW s \in Servers, PidReused(s)
       PROVE  UNCHANGED <<files, server>>
  BY <1>10 DEF PidReused
<1>11. ASSUME NEW c \in Clients, ClientSteps(c)
       PROVE  UNCHANGED <<files, server>>
  BY <1>11 DEF ClientSteps, ClientLooks, create_socket_client, ipc_send_request, ClientReads, handle_responses,
               ClientReadsEnd, ClientTimesOut, ClientKilled, serverVars
<1>12. CASE UNCHANGED vars
  BY <1>9, <1>12 DEF vars, serverVars
<1>13. QED
  BY <1>1, <1>2, <1>3, <1>4, <1>5, <1>6, <1>8, <1>9, <1>10, <1>11, <1>12 DEF Next, ServerSteps

-----------------------------------------------------------------------------
(* The connections.  A client whose request waits in a queue or is being   *)
(* read was neither answered nor processed, and waits in one place only;   *)
(* every response that is on its way agrees with processed.                *)

Fresh(c, s) ==
    /\ client[c] \notin {"start", "connect"}
    /\ conn[c] \in Connection /\ conn[c].server = s /\ conn[c].inbox = <<>>
    /\ c \notin processed
    /\ rc[c] \notin {EXIT_SUCCESS, IPC_ERROR, IPC_REQUEST_IN_PROGRESS}

QueueOK(s) ==
    /\ \A i \in 1..Len(queue[s]) : Fresh(queue[s][i], s) /\ queue[s][i] # reading[s]
    /\ \A i, j \in 1..Len(queue[s]) : queue[s][i] = queue[s][j] => i = j

QueueInv == \A s \in Servers : QueueOK(s)

ReadingInv ==
    \A s \in Servers : IF server[s] = "read" THEN reading[s] \in Clients /\ Fresh(reading[s], s)
                       ELSE reading[s] = NULL

OperationInv ==
    \A s \in Servers : op[s] # NULL => /\ op[s].client \in processed
                                       /\ op[s].rc \in {EXIT_SUCCESS, IPC_ERROR}

ClientInv ==
    \A c \in Clients :
        IF client[c] \in {"start", "connect"} THEN c \notin processed /\ rc[c] = NULL
        ELSE client[c] # "end" => conn[c] \in Connection

(* A response and who has been processed agree.                            *)
Agrees(status, c) ==
    /\ status = IPC_REQUEST_IN_PROGRESS => c \notin processed
    /\ status \in {EXIT_SUCCESS, IPC_ERROR} => c \in processed

InboxInv ==
    \A c \in Clients : conn[c] # NULL =>
        \A i \in 1..Len(conn[c].inbox) : Agrees(conn[c].inbox[i].rc, c)

ProcessedInv == \A c \in processed : conn[c] \in Connection

IInv ==
    /\ TypeOK
    /\ QueueInv /\ ReadingInv /\ OperationInv /\ ClientInv /\ InboxInv /\ ProcessedInv
    /\ StatusTellsTruth /\ NoLeak

(* Nobody is connected at first.                                           *)
LEMMA InitInv == Init => IInv
<1> SUFFICES ASSUME Init PROVE IInv
  OBVIOUS
<1>1. TypeOK
  BY DEF Init, TypeOK, Stages
<1>2. QueueInv /\ ReadingInv /\ OperationInv /\ ClientInv /\ InboxInv /\ ProcessedInv
  BY DEF Init, QueueInv, QueueOK, ReadingInv, OperationInv, ClientInv, InboxInv, ProcessedInv
<1>3. StatusTellsTruth /\ NoLeak
  BY NullAssumption DEF Init, StatusTellsTruth, NoLeak, EXIT_SUCCESS, IPC_ERROR, IPC_REQUEST_IN_PROGRESS
<1>4. QED
  BY <1>1, <1>2, <1>3 DEF IInv

(* A step of a server that concerns no connection.                         *)
LEMMA NoConnectionInv ==
    ASSUME IInv, TypeOK', UNCHANGED <<queue, reading, op, clientVars, processed>>,
           \A s \in Servers : server'[s] = "read" <=> server[s] = "read"
    PROVE  IInv'
<1>1. UNCHANGED <<queue, reading, op, client, conn, rc, processed>>
  BY DEF clientVars
<1>2. QueueInv' /\ ReadingInv'
  BY <1>1 DEF IInv, QueueInv, QueueOK, ReadingInv, Fresh
<1>3. OperationInv' /\ ClientInv' /\ InboxInv' /\ ProcessedInv'
  BY <1>1 DEF IInv, OperationInv, ClientInv, InboxInv, ProcessedInv, Agrees
<1>4. StatusTellsTruth' /\ NoLeak'
  BY <1>1 DEF IInv, StatusTellsTruth, NoLeak, InHand
<1>5. QED
  BY <1>2, <1>3, <1>4 DEF IInv

(* The start of a server, the acts without an operation, and pids that are *)
(* used again.                                                             *)
LEMMA StartInv ==
    ASSUME IInv, NEW s \in Servers,
           \/ pid_file_open(s) \/ pid_file_lock(s) \/ pid_file_truncate(s) \/ pid_file_write(s)
           \/ create_socket_server_bind(s) \/ create_socket_server_listen(s)
           \/ OtherEvent(s) \/ ActNoOperation(s) \/ PidReused(s)
    PROVE  IInv'
<1>1. /\ TypeOK /\ server \in [Servers -> Stages]
      /\ UNCHANGED <<queue, reading, op, fd0, turns, clientVars, processed>>
  BY DEF IInv, TypeOK, pid_file_open, pid_file_lock, pid_file_truncate, pid_file_write,
         create_socket_server_bind, create_socket_server_listen, OtherEvent, ActNoOperation, PidReused
<1>2. PICK to \in Stages \ {"read"} :
         server' = server \/ (server[s] # "read" /\ server' = [server EXCEPT ![s] = to])
  BY DEF Goes, Stages, pid_file_open, pid_file_lock, pid_file_truncate, pid_file_write,
         create_socket_server_bind, create_socket_server_listen, OtherEvent, ActNoOperation, PidReused
<1>3. /\ server' \in [Servers -> Stages]
      /\ \A t \in Servers : server'[t] = "read" <=> server[t] = "read"
  BY <1>1, <1>2
<1>4. /\ pidfile' \in Servers \cup {NULL, ""} /\ lock' \in Servers \cup {NULL}
      /\ sock' \in Servers \cup {NULL} /\ reused' \subseteq Servers
  BY <1>1 DEF TypeOK, files, pid_file_open, pid_file_lock, pid_file_truncate, pid_file_write,
         create_socket_server_bind, create_socket_server_listen, OtherEvent, ActNoOperation, PidReused
<1>5. TypeOK'
  BY <1>1, <1>3, <1>4 DEF TypeOK, clientVars
<1>6. QED
  BY <1>1, <1>3, <1>5, NoConnectionInv

-----------------------------------------------------------------------------
(* Steps of a client.                                                      *)

(* A new connection has nothing to read.                                   *)
LEMMA EmptyInbox == <<>> \in Seq(Response)
OBVIOUS

(* A step of a connected client: it reads its inbox or not, and its status *)
(* is one that tells nothing or comes from the inbox.                      *)
LEMMA ClientKeepsInv ==
    ASSUME IInv, TypeOK', NEW c \in Clients, UNCHANGED <<queue, reading, op, server, processed>>,
           \A d \in Clients \ {c} : client'[d] = client[d] /\ conn'[d] = conn[d] /\ rc'[d] = rc[d],
           client[c] \notin {"start", "connect"}, client'[c] \notin {"start", "connect"},
           conn[c] \in Connection, conn'[c] \in Connection,
           conn'[c].server = conn[c].server, conn'[c].serverOpen = conn[c].serverOpen,
           conn'[c].inbox \in {conn[c].inbox, <<>>},
           \/ rc'[c] = rc[c]
           \/ rc'[c] \notin {EXIT_SUCCESS, IPC_ERROR, IPC_REQUEST_IN_PROGRESS}
           \/ \E i \in 1..Len(conn[c].inbox) : rc'[c] = conn[c].inbox[i].rc
    PROVE  IInv'
<1>1. conn[c] # NULL /\ conn[c].inbox \in Seq(Response)
  BY NullAssumption DEF Connection
<1>2. ASSUME NEW d \in Clients, NEW s \in Servers, Fresh(d, s)
      PROVE  Fresh(d, s)'
  BY <1>1, <1>2 DEF Fresh
<1>3. \A s \in Servers : queue[s] \in Seq(Clients)
  BY DEF IInv, TypeOK
<1>4. QueueInv'
  BY <1>2, <1>3 DEF IInv, QueueInv, QueueOK
<1>5. ReadingInv'
  BY <1>2 DEF IInv, ReadingInv
<1>6. OperationInv' /\ ClientInv' /\ ProcessedInv'
  BY DEF IInv, OperationInv, ClientInv, ProcessedInv, TypeOK
<1>7. InboxInv'
  BY <1>1 DEF IInv, InboxInv, Agrees
<1>8. StatusTellsTruth'
  BY <1>1 DEF IInv, InboxInv, Agrees, StatusTellsTruth
<1>9. NoLeak'
  BY <1>1 DEF IInv, NoLeak, InHand
<1>10. QED
  BY <1>4, <1>5, <1>6, <1>7, <1>8, <1>9 DEF IInv

(* The same, with the type: the client goes to stage with status r, and k  *)
(* becomes its connection.                                                 *)
LEMMA ConnectedInv ==
    ASSUME IInv, NEW c \in Clients, UNCHANGED <<files, serverVars, processed>>,
           client[c] \in {"write", "wait"},
           NEW stage \in {"write", "wait", "end"}, client' = [client EXCEPT ![c] = stage],
           NEW r \in Int \cup {NULL}, rc' = [rc EXCEPT ![c] = r],
           NEW k \in Connection, conn' = [conn EXCEPT ![c] = k],
           k.server = conn[c].server, k.serverOpen = conn[c].serverOpen,
           k.inbox \in {conn[c].inbox, <<>>},
           \/ r = rc[c]
           \/ r \notin {EXIT_SUCCESS, IPC_ERROR, IPC_REQUEST_IN_PROGRESS}
           \/ \E i \in 1..Len(conn[c].inbox) : r = conn[c].inbox[i].rc
    PROVE  IInv'
<1>1. /\ client \in [Clients -> {"start", "connect", "write", "wait", "end"}]
      /\ conn \in [Clients -> Connection \cup {NULL}] /\ rc \in [Clients -> Int \cup {NULL}]
  BY DEF IInv, TypeOK
<1>2. conn[c] \in Connection
  BY DEF IInv, ClientInv
<1>3. /\ client' \in [Clients -> {"start", "connect", "write", "wait", "end"}]
      /\ conn' \in [Clients -> Connection \cup {NULL}]
  BY <1>1
<1>4. rc' \in [Clients -> Int \cup {NULL}]
  BY <1>1
<1>5. TypeOK'
  BY <1>3, <1>4 DEF IInv, TypeOK, files, serverVars
<1>6. /\ client'[c] = stage /\ conn'[c] = k /\ rc'[c] = r
      /\ \A d \in Clients \ {c} : client'[d] = client[d] /\ conn'[d] = conn[d] /\ rc'[d] = rc[d]
  BY <1>1
<1>7. UNCHANGED <<queue, reading, op, server, processed>>
  BY DEF serverVars
<1>8. QED
  BY <1>2, <1>5, <1>6, <1>7, ClientKeepsInv

(* A client leaves, and its status tells nothing.                          *)
LEMMA ClientLeavesInv ==
    ASSUME IInv, NEW c \in Clients, UNCHANGED <<files, serverVars, processed>>,
           client[c] \in {"write", "wait"}, Hangup(c),
           NEW r \in {NULL, IPC_BAD_RESPONSE}, ClientExits(c, r)
    PROVE  IInv'
<1>1. conn[c] \in Connection /\ conn[c] # NULL
  BY NullAssumption DEF IInv, ClientInv
<1> DEFINE k == [conn[c] EXCEPT !.clientOpen = FALSE]
<1>2. /\ k \in Connection /\ k.server = conn[c].server /\ k.serverOpen = conn[c].serverOpen
      /\ k.inbox = conn[c].inbox
  BY <1>1 DEF Connection
<1>3. r \in Int \cup {NULL} /\ r \notin {EXIT_SUCCESS, IPC_ERROR, IPC_REQUEST_IN_PROGRESS}
  BY NullAssumption DEF IPC_BAD_RESPONSE, EXIT_SUCCESS, IPC_ERROR, IPC_REQUEST_IN_PROGRESS
<1>4. /\ conn' = [conn EXCEPT ![c] = k] /\ client' = [client EXCEPT ![c] = "end"]
      /\ rc' = [rc EXCEPT ![c] = r]
  BY <1>1 DEF Hangup, ClientExits
<1> HIDE DEF k
<1>5. QED
  BY <1>2, <1>3, <1>4, ConnectedInv

(* Every step of a client keeps the invariant.                             *)
LEMMA ClientInvariant ==
    ASSUME IInv, NEW c \in Clients, ClientSteps(c)
    PROVE  IInv'
<1>1. /\ TypeOK /\ client \in [Clients -> {"start", "connect", "write", "wait", "end"}]
      /\ conn \in [Clients -> Connection \cup {NULL}] /\ rc \in [Clients -> Int \cup {NULL}]
  BY DEF IInv, TypeOK
<1>2. client[c] \in {"write", "wait"} => conn[c] \in Connection /\ conn[c] # NULL
  BY NullAssumption DEF IInv, ClientInv
<1>3. CASE ClientLooks(c)
  <2>1. /\ client[c] = "start" /\ UNCHANGED <<files, serverVars, conn, processed>>
        /\ \/ client' = [client EXCEPT ![c] = "connect"] /\ rc' = rc
           \/ client' = [client EXCEPT ![c] = "end"] /\ rc' = [rc EXCEPT ![c] = 1]
    BY <1>3 DEF ClientLooks, ClientExits, EXIT_FAILURE
  <2>2. TypeOK'
    <3>1. client' \in [Clients -> {"start", "connect", "write", "wait", "end"}]
      BY <1>1, <2>1
    <3>2. rc' \in [Clients -> Int \cup {NULL}]
      BY <1>1, <2>1
    <3>3. QED
      BY <1>1, <2>1, <3>1, <3>2 DEF TypeOK, files, serverVars
  <2>3. \A d \in Clients, s \in Servers : Fresh(d, s) => Fresh(d, s)'
    BY <1>1, <2>1 DEF Fresh
  <2>4. \A s \in Servers : queue[s] \in Seq(Clients)
    BY DEF IInv, TypeOK
  <2>5. QueueInv' /\ ReadingInv'
    BY <2>1, <2>3, <2>4 DEF IInv, QueueInv, QueueOK, ReadingInv, serverVars
  <2>6. OperationInv' /\ ClientInv' /\ InboxInv' /\ ProcessedInv'
    BY <1>1, <2>1 DEF IInv, OperationInv, ClientInv, InboxInv, ProcessedInv, Agrees, serverVars
  <2>7. StatusTellsTruth'
    BY <1>1, <2>1 DEF IInv, StatusTellsTruth, EXIT_SUCCESS, IPC_ERROR, IPC_REQUEST_IN_PROGRESS
  <2>8. NoLeak'
    BY <2>1 DEF IInv, NoLeak, InHand, serverVars
  <2>9. QED
    BY <2>2, <2>5, <2>6, <2>7, <2>8 DEF IInv
<1>4. CASE create_socket_client(c) /\ sock \notin Listening
  <2>1. /\ client[c] = "connect" /\ UNCHANGED <<files, serverVars, conn, processed>>
        /\ client' = [client EXCEPT ![c] = "end"] /\ rc' = [rc EXCEPT ![c] = 1]
    BY <1>4 DEF create_socket_client, ClientExits, EXIT_FAILURE, serverVars
  <2>2. TypeOK'
    <3>1. client' \in [Clients -> {"start", "connect", "write", "wait", "end"}]
      BY <1>1, <2>1
    <3>2. rc' \in [Clients -> Int \cup {NULL}]
      BY <1>1, <2>1
    <3>3. QED
      BY <1>1, <2>1, <3>1, <3>2 DEF TypeOK, files, serverVars
  <2>3. \A d \in Clients, s \in Servers : Fresh(d, s) => Fresh(d, s)'
    BY <1>1, <2>1 DEF Fresh
  <2>4. \A s \in Servers : queue[s] \in Seq(Clients)
    BY DEF IInv, TypeOK
  <2>5. QueueInv' /\ ReadingInv'
    BY <2>1, <2>3, <2>4 DEF IInv, QueueInv, QueueOK, ReadingInv, serverVars
  <2>6. OperationInv' /\ ClientInv' /\ InboxInv' /\ ProcessedInv'
    BY <1>1, <2>1 DEF IInv, OperationInv, ClientInv, InboxInv, ProcessedInv, Agrees, serverVars
  <2>7. StatusTellsTruth'
    BY <1>1, <2>1 DEF IInv, StatusTellsTruth, EXIT_SUCCESS, IPC_ERROR, IPC_REQUEST_IN_PROGRESS
  <2>8. NoLeak'
    BY <2>1 DEF IInv, NoLeak, InHand, serverVars
  <2>9. QED
    BY <2>2, <2>5, <2>6, <2>7, <2>8 DEF IInv
<1>5. CASE create_socket_client(c) /\ sock \in Listening
  <2> DEFINE k == [server |-> sock, request |-> NULL, inbox |-> <<>>,
                   serverOpen |-> TRUE, clientOpen |-> TRUE]
  <2>1. /\ client[c] = "connect" /\ sock \in Servers
        /\ conn' = [conn EXCEPT ![c] = k]
        /\ queue' = [queue EXCEPT ![sock] = Append(queue[sock], c)]
        /\ client' = [client EXCEPT ![c] = "write"]
        /\ UNCHANGED <<files, server, reused, reading, op, fd0, turns, rc, processed>>
    BY <1>5 DEF create_socket_client, Listening
  <2>2. k \in Connection /\ k.server = sock /\ k.inbox = <<>> /\ k # NULL
    <3>1. k.inbox \in Seq(Response)
      OBVIOUS
    <3>2. k \in Connection
      BY <2>1, <3>1 DEF Connection
    <3>3. QED
      BY <3>2, NullAssumption
  <2> HIDE DEF k
  <2>3. c \notin processed /\ rc[c] = NULL /\ \A s \in Servers : ~Fresh(c, s)
    BY <2>1 DEF IInv, ClientInv, Fresh
  <2>4. \A s \in Servers : queue[s] \in Seq(Clients) /\ queue'[s] \in Seq(Clients)
    <3>1. queue \in [Servers -> Seq(Clients)]
      BY DEF IInv, TypeOK
    <3>2. Append(queue[sock], c) \in Seq(Clients)
      BY <2>1, <3>1
    <3>3. QED
      BY <2>1, <3>1, <3>2
  <2>5. TypeOK'
    BY <1>1, <2>1, <2>2, <2>4 DEF TypeOK, files
  <2>6. \A d \in Clients, s \in Servers : Fresh(d, s) => d # c /\ Fresh(d, s)'
    BY <1>1, <2>1, <2>3 DEF Fresh
  <2>7. Fresh(c, sock)'
    <3>1. sock' = sock /\ client'[c] = "write" /\ conn'[c] = k /\ rc'[c] = NULL /\ c \notin processed'
      BY <1>1, <2>1, <2>3 DEF files
    <3>2. NULL \notin {EXIT_SUCCESS, IPC_ERROR, IPC_REQUEST_IN_PROGRESS}
      BY NullAssumption DEF EXIT_SUCCESS, IPC_ERROR, IPC_REQUEST_IN_PROGRESS
    <3>3. QED
      BY <2>2, <3>1, <3>2 DEF Fresh
  <2>8. ReadingInv' /\ \A s \in Servers : reading[s] # c
    <3>1. \A s \in Servers : reading[s] # c
      BY <2>3, SessionAssumption DEF IInv, ReadingInv
    <3>2. QED
      BY <2>1, <2>6, <3>1 DEF IInv, ReadingInv
  <2>9. QueueInv'
    <3>1. ASSUME NEW s \in Servers, s # sock
          PROVE  QueueOK(s)'
      <4>1. queue'[s] = queue[s] /\ reading'[s] = reading[s]
        BY <2>1, <3>1 DEF IInv, TypeOK
      <4>2. \A i \in 1..Len(queue[s]) : queue[s][i] \in Clients /\ Fresh(queue[s][i], s)
        BY <2>4 DEF IInv, QueueInv, QueueOK
      <4>3. \A i \in 1..Len(queue[s]) : (Fresh(queue[s][i], s))'
        BY <2>6, <4>1, <4>2
      <4>4. QED
        BY <4>1, <4>3 DEF IInv, QueueInv, QueueOK
    <3>2. QueueOK(sock)'
      <4>1. queue'[sock] = Append(queue[sock], c) /\ reading'[sock] = reading[sock] /\ sock' = sock
        BY <2>1 DEF IInv, TypeOK, files
      <4>2. /\ Len(queue'[sock]) = Len(queue[sock]) + 1 /\ Len(queue[sock]) \in Nat
            /\ queue'[sock][Len(queue[sock]) + 1] = c
            /\ \A i \in 1..Len(queue[sock]) : queue'[sock][i] = queue[sock][i]
        BY <2>1, <2>4, <4>1
      <4>3. \A i \in 1..Len(queue[sock]) : queue[sock][i] \in Clients /\ Fresh(queue[sock][i], sock)
                                           /\ queue[sock][i] # reading[sock]
        BY <2>1, <2>4 DEF IInv, QueueInv, QueueOK
      <4>4. \A i, j \in 1..Len(queue[sock]) : queue[sock][i] = queue[sock][j] => i = j
        BY <2>1 DEF IInv, QueueInv, QueueOK
      <4>5. \A i \in 1..Len(queue'[sock]) : i = Len(queue[sock]) + 1 \/ i \in 1..Len(queue[sock])
        BY <4>2
      <4>6. \A i \in 1..Len(queue'[sock]) : queue'[sock][i] # reading'[sock]
        BY <2>1, <2>8, <4>1, <4>2, <4>3, <4>5
      <4>7. \A i \in 1..Len(queue'[sock]) : (Fresh(queue[sock][i], sock))'
        <5> SUFFICES ASSUME NEW i \in 1..Len(queue'[sock])
                     PROVE  (Fresh(queue[sock][i], sock))'
          OBVIOUS
        <5>1. CASE i = Len(queue[sock]) + 1
          BY <2>7, <4>1, <4>2, <5>1
        <5>2. CASE i \in 1..Len(queue[sock])
          BY <2>1, <2>6, <4>1, <4>2, <4>3, <5>2
        <5>3. QED
          BY <4>5, <5>1, <5>2
      <4>8. \A i, j \in 1..Len(queue'[sock]) : queue'[sock][i] = queue'[sock][j] => i = j
        BY <2>1, <2>3, <4>2, <4>3, <4>4, <4>5
      <4>9. QED
        BY <4>1, <4>6, <4>7, <4>8 DEF QueueOK
    <3>3. QED
      BY <2>1, <3>1, <3>2 DEF QueueInv, files
  <2>10. OperationInv' /\ ClientInv' /\ ProcessedInv'
    BY <1>1, <2>1, <2>2, <2>3 DEF IInv, OperationInv, ClientInv, ProcessedInv, TypeOK
  <2>11. InboxInv'
    BY <1>1, <2>1, <2>2 DEF IInv, InboxInv, Agrees
  <2>12. StatusTellsTruth'
    BY <2>1 DEF IInv, StatusTellsTruth
  <2>13. NoLeak'
    <3>1. \A s \in Servers, d \in Clients : InHand(d, s) => InHand(d, s)'
      <4>1. \A s \in Servers : \A i \in DOMAIN queue[s] : i \in DOMAIN queue'[s] /\ queue'[s][i] = queue[s][i]
        <5>1. queue \in [Servers -> Seq(Clients)]
          BY DEF IInv, TypeOK
        <5>2. \A i \in DOMAIN queue[sock] : i \in DOMAIN Append(queue[sock], c)
                                             /\ Append(queue[sock], c)[i] = queue[sock][i]
          BY <2>1, <5>1
        <5>3. QED
          BY <2>1, <5>1, <5>2
      <4>2. QED
        BY <2>1, <4>1 DEF InHand
    <3>2. InHand(c, sock)'
      <4>1. queue'[sock] = Append(queue[sock], c) /\ sock' = sock
        BY <2>1 DEF IInv, TypeOK, files
      <4>2. queue'[sock][Len(queue[sock]) + 1] = c /\ Len(queue[sock]) + 1 \in DOMAIN queue'[sock]
        BY <2>1, <2>4, <4>1
      <4>3. QED
        BY <4>1, <4>2 DEF InHand
    <3>3. ASSUME NEW d \in Clients, conn'[d] # NULL, conn'[d].serverOpen
          PROVE  (InHand(d, conn[d].server))'
      <4>1. CASE d = c
        <5>1. conn'[d].server = sock /\ sock' = sock
          BY <1>1, <2>1, <2>2, <4>1 DEF files
        <5>2. QED
          BY <3>2, <4>1, <5>1
      <4>2. CASE d # c
        <5>1. conn'[d] = conn[d] /\ conn[d].server \in Servers
          BY <1>1, <2>1, <3>3, <4>2 DEF Connection
        <5>2. InHand(d, conn[d].server)
          BY <3>3, <5>1 DEF IInv, NoLeak
        <5>3. QED
          BY <3>1, <5>1, <5>2
      <4>3. QED
        BY <4>1, <4>2
    <3>4. QED
      BY <3>3 DEF NoLeak
  <2>14. QED
    BY <2>5, <2>8, <2>9, <2>10, <2>11, <2>12, <2>13 DEF IInv
<1>6. CASE \E kind \in Kinds : ipc_send_request(c, kind)
  <2>1. PICK kind \in Kinds : ipc_send_request(c, kind)
    BY <1>6
  <2>2. client[c] = "write" /\ UNCHANGED <<files, serverVars, processed>>
    BY <2>1 DEF ipc_send_request
  <2>3. CASE conn[c].serverOpen
    <3> DEFINE k == [conn[c] EXCEPT !.request = kind]
    <3>1. /\ k \in Connection /\ k.server = conn[c].server /\ k.serverOpen = conn[c].serverOpen
          /\ k.inbox = conn[c].inbox
      BY <1>2, <2>2 DEF Connection
    <3>2. /\ conn' = [conn EXCEPT ![c] = k] /\ client' = [client EXCEPT ![c] = "wait"]
          /\ rc' = rc
      BY <2>1, <2>3 DEF ipc_send_request
    <3>3. rc' = [rc EXCEPT ![c] = rc[c]] /\ rc[c] \in Int \cup {NULL}
      BY <1>1, <3>2
    <3> HIDE DEF k
    <3>4. QED
      BY <2>2, <3>1, <3>2, <3>3, ConnectedInv
  <2>4. CASE ~conn[c].serverOpen
    <3>1. ClientExits(c, NULL) /\ Hangup(c)
      BY <2>1, <2>4 DEF ipc_send_request
    <3>2. QED
      BY <2>2, <3>1, ClientLeavesInv
  <2>5. QED
    BY <2>3, <2>4
<1>7. CASE handle_responses(c)
  <2>1. /\ client[c] = "wait" /\ UNCHANGED <<files, serverVars, processed>> /\ conn[c].inbox # <<>>
    BY <1>7 DEF handle_responses
  <2>2. conn[c].inbox \in Seq(Response)
    BY <1>2, <2>1 DEF Connection
  <2> DEFINE i == Len(conn[c].inbox)
  <2>3. i \in 1..Len(conn[c].inbox) /\ conn[c].inbox[i] \in Response
    BY <2>1, <2>2
  <2>4. conn[c].inbox[i].rc \in Int
    BY <2>3 DEF Response
  <2>5. CASE conn[c].inbox[i].done
    <3> DEFINE k == [conn[c] EXCEPT !.inbox = <<>>, !.clientOpen = FALSE]
    <3>1. /\ k \in Connection /\ k.server = conn[c].server /\ k.serverOpen = conn[c].serverOpen
          /\ k.inbox = <<>>
      BY <1>2, <2>1, EmptyInbox DEF Connection
    <3>2. /\ conn' = [conn EXCEPT ![c] = k] /\ client' = [client EXCEPT ![c] = "end"]
          /\ rc' = [rc EXCEPT ![c] = conn[c].inbox[i].rc]
      BY <1>7, <2>5 DEF handle_responses, ClientExits
    <3> HIDE DEF k
    <3>3. QED
      BY <2>1, <2>3, <2>4, <3>1, <3>2, ConnectedInv
  <2>6. CASE ~conn[c].inbox[i].done
    <3> DEFINE k == [conn[c] EXCEPT !.inbox = <<>>]
    <3>1. /\ k \in Connection /\ k.server = conn[c].server /\ k.serverOpen = conn[c].serverOpen
          /\ k.inbox = <<>>
      BY <1>2, <2>1, EmptyInbox DEF Connection
    <3>2. /\ conn' = [conn EXCEPT ![c] = k] /\ client' = client /\ rc' = rc
      BY <1>7, <2>6 DEF handle_responses
    <3>3. /\ client' = [client EXCEPT ![c] = "wait"]
          /\ rc' = [rc EXCEPT ![c] = rc[c]] /\ rc[c] \in Int \cup {NULL}
      BY <1>1, <2>1, <3>2
    <3> HIDE DEF k
    <3>4. QED
      BY <2>1, <3>1, <3>2, <3>3, ConnectedInv
  <2>7. QED
    BY <2>5, <2>6
<1>8. CASE ClientReadsEnd(c) \/ ClientTimesOut(c) \/ ClientKilled(c)
  <2>1. /\ client[c] \in {"write", "wait"} /\ UNCHANGED <<files, serverVars, processed>> /\ Hangup(c)
        /\ ClientExits(c, IPC_BAD_RESPONSE) \/ ClientExits(c, NULL)
    BY <1>8 DEF ClientReadsEnd, ClientTimesOut, ClientKilled
  <2>2. QED
    BY <2>1, ClientLeavesInv
<1>9. QED
  BY <1>3, <1>4, <1>5, <1>6, <1>7, <1>8 DEF ClientSteps, ClientReads

-----------------------------------------------------------------------------
(* Steps of a server.                                                      *)

(* The responses a server sends.                                           *)
LEMMA ResponseType ==
    ASSUME NEW status \in {EXIT_SUCCESS, IPC_ERROR}, NEW done \in BOOLEAN
    PROVE  [rc |-> status, done |-> done] \in Response
<1>1. status \in Int
  BY DEF EXIT_SUCCESS, IPC_ERROR
<1>2. QED
  BY <1>1 DEF Response

(* What a response and a close make of a connection.                       *)
LEMMA AnsweredType ==
    ASSUME NEW c \in Clients, conn \in [Clients -> Connection \cup {NULL}], conn[c] \in Connection,
           NEW response \in Response, NEW close \in BOOLEAN
    PROVE  \E k \in Connection :
             /\ Answered(conn, c, response, close) = [conn EXCEPT ![c] = k]
             /\ k.server = conn[c].server
             /\ k.serverOpen <=> conn[c].serverOpen /\ ~close
             /\ k.inbox = conn[c].inbox \/ k.inbox = Append(conn[c].inbox, response)
<1> DEFINE box == IF conn[c].clientOpen THEN Append(conn[c].inbox, response) ELSE conn[c].inbox
           k == [conn[c] EXCEPT !.inbox = box, !.serverOpen = conn[c].serverOpen /\ ~close]
<1>1. conn[c].inbox \in Seq(Response)
  BY DEF Connection
<1>2. box \in Seq(Response) /\ (box = conn[c].inbox \/ box = Append(conn[c].inbox, response))
  BY <1>1
<1>3. Answered(conn, c, response, close) = [conn EXCEPT ![c] = k]
  BY DEF Answered
<1> HIDE DEF box
<1>4. (conn[c].serverOpen /\ ~close) \in BOOLEAN
  BY DEF Connection
<1>5. /\ k \in Connection /\ k.server = conn[c].server /\ k.inbox = box
      /\ k.serverOpen = (conn[c].serverOpen /\ ~close)
  BY <1>2, <1>4 DEF Connection
<1> HIDE DEF k
<1>6. QED
  BY <1>2, <1>3, <1>5

(* A server answers, closes or gives up a connection that no queue has and *)
(* that nobody will read from, and goes on to act or to its loop.          *)
Answering(s, c, k, stage) ==
    /\ conn[c] \in Connection /\ conn' = [conn EXCEPT ![c] = k] /\ k.server = conn[c].server
    /\ UNCHANGED <<queue, client, rc>>
    /\ server' = [server EXCEPT ![s] = stage] /\ reading' = [reading EXCEPT ![s] = NULL]
    /\ \A t \in Servers : t # s => reading[t] # c
    /\ \A t \in Servers : \A i \in 1..Len(queue[t]) : queue[t][i] # c
    /\ processed' = processed \/ processed' = processed \cup {c}
    /\ client[c] \notin {"start", "connect"}
    /\ \A i \in 1..Len(k.inbox) : (Agrees(k.inbox[i].rc, c))'
    /\ (Agrees(rc[c], c))'
    /\ OperationInv'
    /\ k.serverOpen => InHand(c, k.server)'
    /\ \A d \in Clients \ {c}, t \in Servers : InHand(d, t) => InHand(d, t)'

(* That keeps the invariant.                                               *)
LEMMA ServerAnswersInv ==
    ASSUME IInv, TypeOK', NEW s \in Servers, NEW c \in Clients, NEW k \in Connection,
           NEW stage \in {"loop", "act"}, Answering(s, c, k, stage)
    PROVE  IInv'
<1> USE DEF Answering
<1>1. /\ conn \in [Clients -> Connection \cup {NULL}] /\ queue \in [Servers -> Seq(Clients)]
      /\ server \in [Servers -> Stages] /\ reading \in [Servers -> Clients \cup {NULL}]
  BY DEF IInv, TypeOK
<1>2. conn'[c] = k /\ \A d \in Clients \ {c} : conn'[d] = conn[d]
  BY <1>1
<1>3. ASSUME NEW d \in Clients, d # c, NEW t \in Servers, Fresh(d, t)
      PROVE  Fresh(d, t)'
  BY <1>2, <1>3 DEF Fresh
<1>4. \A t \in Servers : reading'[t] = IF t = s THEN NULL ELSE reading[t]
  BY <1>1
<1>5. QueueInv'
  <2> SUFFICES ASSUME NEW t \in Servers PROVE QueueOK(t)'
    BY DEF QueueInv
  <2>1. QueueOK(t) /\ queue'[t] = queue[t] /\ queue[t] \in Seq(Clients)
    BY <1>1 DEF IInv, QueueInv
  <2>2. \A i \in 1..Len(queue[t]) : queue[t][i] \in Clients \ {c} /\ Fresh(queue[t][i], t)
    BY <2>1 DEF QueueOK
  <2>3. \A i \in 1..Len(queue[t]) : (Fresh(queue[t][i], t))'
    BY <1>3, <2>1, <2>2
  <2>4. \A i \in 1..Len(queue[t]) : queue[t][i] # reading'[t]
    <3>1. \A i \in 1..Len(queue[t]) : queue[t][i] # reading[t]
      BY <2>1 DEF QueueOK
    <3>2. \A i \in 1..Len(queue[t]) : queue[t][i] # NULL
      BY <2>2, SessionAssumption
    <3>3. reading'[t] = NULL \/ reading'[t] = reading[t]
      BY <1>4
    <3>4. QED
      BY <3>1, <3>2, <3>3
  <2>5. QED
    BY <2>1, <2>3, <2>4 DEF QueueOK
<1>6. ReadingInv'
  <2> SUFFICES ASSUME NEW t \in Servers
               PROVE  IF server'[t] = "read" THEN reading'[t] \in Clients /\ (Fresh(reading[t], t))'
                      ELSE reading'[t] = NULL
    BY DEF ReadingInv
  <2>1. CASE t = s
    BY <1>1, <1>4, <2>1
  <2>2. CASE t # s
    <3>1. server'[t] = server[t] /\ reading'[t] = reading[t] /\ reading[t] # c
      BY <1>1, <1>4, <2>2
    <3>2. QED
      BY <1>3, <3>1 DEF IInv, ReadingInv
  <2>3. QED
    BY <2>1, <2>2
<1>7. ClientInv' /\ ProcessedInv'
  BY <1>2 DEF IInv, ClientInv, ProcessedInv, TypeOK
<1>8. InboxInv'
  BY <1>2 DEF IInv, InboxInv, Agrees
<1>9. StatusTellsTruth'
  BY DEF IInv, StatusTellsTruth, Agrees
<1>10. NoLeak'
  <2> SUFFICES ASSUME NEW d \in Clients, conn'[d] # NULL, conn'[d].serverOpen
               PROVE  (InHand(d, conn[d].server))'
    BY DEF NoLeak
  <2>1. CASE d = c
    BY <1>2, <2>1
  <2>2. CASE d # c
    <3>1. conn'[d] = conn[d] /\ conn[d].server \in Servers
      BY <1>1, <1>2, <2>2 DEF Connection
    <3>2. QED
      BY <2>2, <3>1 DEF IInv, NoLeak
  <2>3. QED
    BY <2>1, <2>2
<1>11. QED
  BY <1>5, <1>6, <1>7, <1>8, <1>9, <1>10 DEF IInv

(* The client that a server reads from is waited for by no one else.       *)
LEMMA ReadingAlone ==
    ASSUME IInv, NEW s \in Servers, server[s] = "read"
    PROVE  /\ reading[s] \in Clients /\ Fresh(reading[s], s)
           /\ \A t \in Servers : t # s => reading[t] # reading[s]
           /\ \A t \in Servers : \A i \in 1..Len(queue[t]) : queue[t][i] # reading[s]
<1>1. reading[s] \in Clients /\ Fresh(reading[s], s)
  BY DEF IInv, ReadingInv
<1>2. \A t \in Servers : Fresh(reading[s], t) => t = s
  BY <1>1 DEF Fresh
<1>3. \A t \in Servers : reading[t] = reading[s] => Fresh(reading[s], t)
  BY <1>1, SessionAssumption DEF IInv, ReadingInv
<1>4. \A t \in Servers : \A i \in 1..Len(queue[t]) : Fresh(queue[t][i], t) /\ queue[t][i] # reading[t]
  BY DEF IInv, QueueInv, QueueOK
<1>5. QED
  BY <1>1, <1>2, <1>3, <1>4

(* The client of an operation is waited for by no one.                     *)
LEMMA OperationAlone ==
    ASSUME IInv, NEW s \in Servers, op[s] # NULL
    PROVE  /\ op[s].client \in Clients /\ op[s].client \in processed /\ op[s].rc \in {EXIT_SUCCESS, IPC_ERROR}
           /\ conn[op[s].client] \in Connection
           /\ \A t \in Servers : reading[t] # op[s].client
           /\ \A t \in Servers : \A i \in 1..Len(queue[t]) : queue[t][i] # op[s].client
<1>1. /\ op[s].client \in processed /\ op[s].rc \in {EXIT_SUCCESS, IPC_ERROR}
      /\ op[s].client \in Clients /\ conn[op[s].client] \in Connection
  BY DEF IInv, OperationInv, ProcessedInv, TypeOK
<1>2. \A t \in Servers : ~Fresh(op[s].client, t)
  BY <1>1 DEF Fresh
<1>3. QED
  BY <1>1, <1>2, SessionAssumption DEF IInv, QueueInv, QueueOK, ReadingInv

(* The errors a server captures for its operation.                         *)
LEMMA WorseRange ==
    ASSUME NEW a \in {EXIT_SUCCESS, IPC_ERROR}, NEW b \in {EXIT_SUCCESS, IPC_ERROR}
    PROVE  Worse(a, b) \in {EXIT_SUCCESS, IPC_ERROR} /\ Worse(a, b) \in Int
BY DEF Worse, EXIT_SUCCESS, IPC_ERROR

(* Entering a captured error in the operation changes its status only.     *)
LEMMA BlamedOperation ==
    ASSUME IInv, NEW s \in Servers, op[s] # NULL, NEW status \in {EXIT_SUCCESS, IPC_ERROR},
           op' = [op EXCEPT ![s] = [op[s] EXCEPT !.rc = status]], processed' = processed
    PROVE  /\ op' \in [Servers -> Operation \cup {NULL}] /\ OperationInv'
           /\ \A t \in Servers : (op'[t] # NULL) = (op[t] # NULL) /\ (op[t] # NULL => op'[t].client = op[t].client)
<1> DEFINE o == [op[s] EXCEPT !.rc = status]
<1>1. op \in [Servers -> Operation \cup {NULL}] /\ op[s] \in Operation /\ status \in Int
  <2>1. status \in Int
    BY DEF EXIT_SUCCESS, IPC_ERROR
  <2>2. QED
    BY <2>1 DEF IInv, TypeOK
<1>2. o \in Operation /\ o.client = op[s].client /\ o.rc = status /\ o # NULL
  <2>1. o \in Operation /\ o.client = op[s].client /\ o.rc = status
    BY <1>1 DEF Operation
  <2>2. QED
    BY <2>1, NullAssumption
<1>3. op' = [op EXCEPT ![s] = o]
  OBVIOUS
<1> HIDE DEF o
<1>4. op' \in [Servers -> Operation \cup {NULL}]
  BY <1>1, <1>2, <1>3
<1>5. op'[s] = o /\ \A t \in Servers : t # s => op'[t] = op[t]
  BY <1>1, <1>3
<1>6. QED
  BY <1>2, <1>4, <1>5 DEF IInv, OperationInv

(* What becomes of descriptor 0.                                           *)
LEMMA ClosedType ==
    ASSUME NEW s \in Servers, NEW c, fd0 \in [Servers -> Clients \cup {"stdin", "closed"}]
    PROVE  Closed(s, c) \in [Servers -> Clients \cup {"stdin", "closed"}]
BY DEF Closed

(* Nothing came, or the client is gone.                                    *)
LEMMA ReceiveFailsInv ==
    ASSUME IInv, NEW s \in Servers, ReceiveFails(s)
    PROVE  IInv'
<1>1. server[s] = "read"
  BY DEF ReceiveFails, Goes
<1>2. PICK c \in Clients :
        /\ c = reading[s] /\ Fresh(c, s)
        /\ \A t \in Servers : t # s => reading[t] # c
        /\ \A t \in Servers : \A i \in 1..Len(queue[t]) : queue[t][i] # c
  BY <1>1, ReadingAlone
<1>3. PICK k \in Connection :
        k = [conn[c] EXCEPT !.serverOpen = FALSE] /\ k.server = conn[c].server /\ k.inbox = <<>> /\ ~k.serverOpen
  <2> DEFINE k == [conn[c] EXCEPT !.serverOpen = FALSE]
  <2>1. conn[c] \in Connection /\ conn[c].inbox = <<>>
    BY <1>2 DEF Fresh
  <2>2. k \in Connection /\ k.server = conn[c].server /\ k.inbox = conn[c].inbox /\ k.serverOpen = FALSE
    BY <2>1 DEF Connection
  <2>3. QED
    BY <2>1, <2>2
<1>4. /\ server' = [server EXCEPT ![s] = "act"]
      /\ conn' = [conn EXCEPT ![c] = k] /\ fd0' = Closed(s, c)
      /\ reading' = [reading EXCEPT ![s] = NULL]
      /\ UNCHANGED <<files, reused, queue, turns, client, rc, processed>>
  BY <1>2, <1>3 DEF ReceiveFails, Goes
<1>5. /\ op' \in [Servers -> Operation \cup {NULL}] /\ OperationInv'
      /\ \A t \in Servers : (op'[t] # NULL) = (op[t] # NULL) /\ (op[t] # NULL => op'[t].client = op[t].client)
  <2>0. op' = [op EXCEPT ![s] = IF op[s] = NULL THEN NULL ELSE [op[s] EXCEPT !.rc = Worse(op[s].rc, IPC_ERROR)]]
    BY DEF ReceiveFails
  <2>1. CASE op[s] = NULL
    <3>1. op' = op
      BY <2>0, <2>1 DEF IInv, TypeOK
    <3>2. QED
      BY <1>4, <3>1 DEF IInv, TypeOK, OperationInv
  <2>2. CASE op[s] # NULL
    <3>1. Worse(op[s].rc, IPC_ERROR) \in {EXIT_SUCCESS, IPC_ERROR}
      BY <2>2, OperationAlone, WorseRange
    <3>2. QED
      BY <1>4, <2>0, <2>2, <3>1, BlamedOperation
  <2>3. QED
    BY <2>1, <2>2
<1>6. TypeOK'
  <2>1. fd0' \in [Servers -> Clients \cup {"stdin", "closed"}]
    BY <1>4, ClosedType DEF IInv, TypeOK
  <2>2. server' \in [Servers -> Stages]
    BY <1>4 DEF IInv, TypeOK, Stages
  <2>3. reading' \in [Servers -> Clients \cup {NULL}]
    BY <1>4 DEF IInv, TypeOK
  <2>4. conn' \in [Clients -> Connection \cup {NULL}]
    BY <1>3, <1>4 DEF IInv, TypeOK
  <2>5. QED
    BY <1>4, <1>5, <2>1, <2>2, <2>3, <2>4 DEF IInv, TypeOK, files
<1>7. \A d \in Clients \ {c}, t \in Servers : InHand(d, t) => InHand(d, t)'
  <2>1. \A t \in Servers : t # s => reading'[t] = reading[t]
    BY <1>4 DEF IInv, TypeOK
  <2>2. QED
    BY <1>2, <1>4, <1>5, <2>1 DEF InHand
<1>8. /\ (Agrees(rc[c], c))' /\ conn[c] \in Connection /\ client[c] \notin {"start", "connect"}
      /\ \A i \in 1..Len(k.inbox) : (Agrees(k.inbox[i].rc, c))'
  BY <1>2, <1>3, <1>4 DEF Fresh, Agrees
<1>9. OperationInv' /\ k.server = conn[c].server /\ ~k.serverOpen
  BY <1>3, <1>5
<1>10. Answering(s, c, k, "act")
  BY <1>2, <1>4, <1>6, <1>7, <1>8, <1>9 DEF Answering
<1>11. QED
  BY <1>6, <1>10, ServerAnswersInv

(* A request while another one is in progress is turned away.              *)
LEMMA InProgressInv ==
    ASSUME IInv, "bad" \notin Kinds, NEW s \in Servers, handle_ipc_in_progress(s)
    PROVE  IInv'
<1>1. server[s] = "read" /\ op[s] # NULL
  BY DEF handle_ipc_in_progress, Goes
<1>2. PICK c \in Clients :
        /\ c = reading[s] /\ Fresh(c, s)
        /\ \A t \in Servers : t # s => reading[t] # c
        /\ \A t \in Servers : \A i \in 1..Len(queue[t]) : queue[t][i] # c
  BY <1>1, ReadingAlone
<1>3. conn[c].request # NULL /\ conn[c].request \in Kinds /\ conn[c].request # "bad"
  BY <1>2 DEF handle_ipc_in_progress, Fresh, Connection
<1>4. PICK k \in Connection :
        /\ Answered(conn, c, [rc |-> IPC_REQUEST_IN_PROGRESS, done |-> TRUE], TRUE) = [conn EXCEPT ![c] = k]
        /\ k.server = conn[c].server /\ ~k.serverOpen
        /\ k.inbox = <<>> \/ k.inbox = Append(<<>>, [rc |-> IPC_REQUEST_IN_PROGRESS, done |-> TRUE])
  <2>1. [rc |-> IPC_REQUEST_IN_PROGRESS, done |-> TRUE] \in Response
    BY DEF Response, IPC_REQUEST_IN_PROGRESS
  <2>2. conn \in [Clients -> Connection \cup {NULL}] /\ conn[c] \in Connection /\ conn[c].inbox = <<>>
    BY <1>2 DEF IInv, TypeOK, Fresh
  <2> DEFINE r == [rc |-> IPC_REQUEST_IN_PROGRESS, done |-> TRUE]
  <2>3. \E k \in Connection :
          /\ Answered(conn, c, r, TRUE) = [conn EXCEPT ![c] = k] /\ k.server = conn[c].server
          /\ k.serverOpen <=> conn[c].serverOpen /\ ~TRUE
          /\ k.inbox = conn[c].inbox \/ k.inbox = Append(conn[c].inbox, r)
    <3>1. PICK answer \in Response, close \in BOOLEAN : answer = r /\ close = TRUE
      BY <2>1
    <3> HIDE DEF r
    <3>2. \E k \in Connection :
            /\ Answered(conn, c, answer, close) = [conn EXCEPT ![c] = k] /\ k.server = conn[c].server
            /\ k.serverOpen <=> conn[c].serverOpen /\ ~close
            /\ k.inbox = conn[c].inbox \/ k.inbox = Append(conn[c].inbox, answer)
      BY <2>2, AnsweredType
    <3>3. QED
      BY <3>1, <3>2
  <2>4. QED
    BY <2>2, <2>3
<1>5. Target(s, c) = c /\ Blamed(s, c) = op[s]
  BY <1>1, <1>3 DEF Target, Blamed
<1>6. /\ server' = [server EXCEPT ![s] = "act"]
      /\ conn' = [conn EXCEPT ![c] = k] /\ fd0' = Closed(s, c)
      /\ op' = [op EXCEPT ![s] = op[s]]
      /\ reading' = [reading EXCEPT ![s] = NULL]
      /\ UNCHANGED <<files, reused, queue, turns, client, rc, processed>>
  BY <1>2, <1>4, <1>5 DEF handle_ipc_in_progress, Goes
<1>7. op' = op /\ OperationInv'
  <2>1. op' = op
    BY <1>6 DEF IInv, TypeOK
  <2>2. QED
    BY <1>6, <2>1 DEF IInv, OperationInv
<1>8. TypeOK'
  <2>1. fd0' \in [Servers -> Clients \cup {"stdin", "closed"}]
    BY <1>6, ClosedType DEF IInv, TypeOK
  <2>2. server' \in [Servers -> Stages]
    BY <1>6 DEF IInv, TypeOK, Stages
  <2>3. reading' \in [Servers -> Clients \cup {NULL}]
    BY <1>6 DEF IInv, TypeOK
  <2>4. conn' \in [Clients -> Connection \cup {NULL}]
    BY <1>4, <1>6 DEF IInv, TypeOK
  <2>5. QED
    BY <1>6, <1>7, <2>1, <2>2, <2>3, <2>4 DEF IInv, TypeOK, files
<1>9. \A d \in Clients \ {c}, t \in Servers : InHand(d, t) => InHand(d, t)'
  <2>1. \A t \in Servers : t # s => reading'[t] = reading[t]
    BY <1>6 DEF IInv, TypeOK
  <2>2. QED
    BY <1>2, <1>6, <1>7, <2>1 DEF InHand
<1>10. /\ (Agrees(rc[c], c))' /\ conn[c] \in Connection /\ client[c] \notin {"start", "connect"}
       /\ c \notin processed'
  BY <1>2, <1>6 DEF Fresh, Agrees
<1>11. \A i \in 1..Len(k.inbox) : k.inbox[i].rc = IPC_REQUEST_IN_PROGRESS
  BY <1>4
<1>12. \A i \in 1..Len(k.inbox) : (Agrees(k.inbox[i].rc, c))'
  BY <1>10, <1>11 DEF Agrees, EXIT_SUCCESS, IPC_ERROR, IPC_REQUEST_IN_PROGRESS
<1>13. Answering(s, c, k, "act")
  BY <1>2, <1>4, <1>6, <1>7, <1>8, <1>9, <1>10, <1>12 DEF Answering
<1>14. QED
  BY <1>8, <1>13, ServerAnswersInv

(* A request is processed, and answered or kept as the operation.          *)
LEMMA ReceiveInv ==
    ASSUME IInv, "bad" \notin Kinds, NEW s \in Servers, receive_ipc_request(s)
    PROVE  IInv'
<1>1. server[s] = "read" /\ op[s] = NULL
  BY DEF receive_ipc_request, Goes
<1>2. PICK c \in Clients :
        /\ c = reading[s] /\ Fresh(c, s)
        /\ \A t \in Servers : t # s => reading[t] # c
        /\ \A t \in Servers : \A i \in 1..Len(queue[t]) : queue[t][i] # c
  BY <1>1, ReadingAlone
<1>3. conn[c].request # NULL /\ conn[c].request \in Kinds /\ conn[c].request # "bad" /\ Target(s, c) = c
  BY <1>2 DEF receive_ipc_request, Fresh, Connection, Target
<1>4. PICK status \in {EXIT_SUCCESS, IPC_ERROR}, done \in BOOLEAN :
        /\ conn' = Answered(conn, c, [rc |-> status, done |-> done], done)
        /\ fd0' = IF done THEN Closed(s, c) ELSE fd0
        /\ op' = IF done THEN op ELSE [op EXCEPT ![s] = [client |-> c, rc |-> status]]
        /\ processed' = processed \cup {c}
  BY <1>2, <1>3 DEF receive_ipc_request
<1>5. PICK k \in Connection :
        /\ conn' = [conn EXCEPT ![c] = k]
        /\ k.server = conn[c].server /\ (k.serverOpen => ~done)
        /\ k.inbox = <<>> \/ k.inbox = Append(<<>>, [rc |-> status, done |-> done])
  <2>1. PICK r \in Response : r = [rc |-> status, done |-> done]
    BY ResponseType
  <2>2. conn \in [Clients -> Connection \cup {NULL}] /\ conn[c] \in Connection /\ conn[c].inbox = <<>>
    BY <1>2 DEF IInv, TypeOK, Fresh
  <2>3. \E k \in Connection :
          /\ Answered(conn, c, r, done) = [conn EXCEPT ![c] = k] /\ k.server = conn[c].server
          /\ k.serverOpen <=> conn[c].serverOpen /\ ~done
          /\ k.inbox = conn[c].inbox \/ k.inbox = Append(conn[c].inbox, r)
    BY <2>2, AnsweredType
  <2>4. QED
    BY <1>4, <2>1, <2>2, <2>3
<1>6. /\ server' = [server EXCEPT ![s] = "act"]
      /\ reading' = [reading EXCEPT ![s] = NULL]
      /\ turns' = 0
      /\ UNCHANGED <<files, reused, queue, client, rc>>
  BY DEF receive_ipc_request, Goes
<1>7. /\ op' \in [Servers -> Operation \cup {NULL}] /\ OperationInv'
      /\ \A t \in Servers : t # s => op'[t] = op[t]
      /\ ~done => op'[s] # NULL /\ op'[s].client = c
  <2>1. op \in [Servers -> Operation \cup {NULL}]
    BY DEF IInv, TypeOK
  <2>2. CASE done
    BY <1>4, <2>1, <2>2 DEF IInv, OperationInv
  <2>3. CASE ~done
    <3>1. PICK o \in Operation : o = [client |-> c, rc |-> status] /\ o # NULL
      <4>1. [client |-> c, rc |-> status] \in Operation
        BY DEF Operation, EXIT_SUCCESS, IPC_ERROR
      <4>2. QED
        BY <4>1, NullAssumption
    <3>2. op' = [op EXCEPT ![s] = o]
      BY <1>4, <2>3, <3>1
    <3>3. op' \in [Servers -> Operation \cup {NULL}] /\ op'[s] = o /\ \A t \in Servers : t # s => op'[t] = op[t]
      BY <2>1, <3>2
    <3>4. QED
      BY <1>4, <3>1, <3>3 DEF IInv, OperationInv
  <2>4. QED
    BY <2>2, <2>3
<1>8. TypeOK'
  <2>1. fd0' \in [Servers -> Clients \cup {"stdin", "closed"}]
    BY <1>4, ClosedType DEF IInv, TypeOK
  <2>2. server' \in [Servers -> Stages]
    BY <1>6 DEF IInv, TypeOK, Stages
  <2>3. reading' \in [Servers -> Clients \cup {NULL}]
    BY <1>6 DEF IInv, TypeOK
  <2>4. conn' \in [Clients -> Connection \cup {NULL}]
    BY <1>5 DEF IInv, TypeOK
  <2>5. processed' \subseteq Clients /\ turns' \in Nat
    BY <1>4, <1>6 DEF IInv, TypeOK
  <2>6. QED
    BY <1>6, <1>7, <2>1, <2>2, <2>3, <2>4, <2>5 DEF IInv, TypeOK, files
<1>9. \A d \in Clients \ {c}, t \in Servers : InHand(d, t) => InHand(d, t)'
  <2>1. \A t \in Servers : t # s => reading'[t] = reading[t]
    BY <1>6 DEF IInv, TypeOK
  <2>2. QED
    BY <1>1, <1>2, <1>6, <1>7, <2>1 DEF InHand
<1>10. k.serverOpen => InHand(c, k.server)'
  BY <1>2, <1>5, <1>7 DEF InHand, Fresh
<1>11. /\ (Agrees(rc[c], c))' /\ conn[c] \in Connection /\ client[c] \notin {"start", "connect"}
  BY <1>2, <1>6 DEF Fresh, Agrees
<1>12. \A i \in 1..Len(k.inbox) : k.inbox[i].rc = status
  BY <1>5
<1>13. \A i \in 1..Len(k.inbox) : (Agrees(k.inbox[i].rc, c))'
  BY <1>4, <1>12 DEF Agrees, EXIT_SUCCESS, IPC_ERROR, IPC_REQUEST_IN_PROGRESS
<1>14. OperationInv' /\ k.server = conn[c].server /\ conn' = [conn EXCEPT ![c] = k] /\ processed' = processed \cup {c}
  BY <1>4, <1>5, <1>7
<1>15. Answering(s, c, k, "act")
  BY <1>2, <1>6, <1>8, <1>9, <1>10, <1>11, <1>13, <1>14 DEF Answering
<1>16. QED
  BY <1>8, <1>15, ServerAnswersInv

(* The operation goes on, or its client is answered for the last time.     *)
LEMMA NotifyInv ==
    ASSUME IInv, NEW s \in Servers, ActAndNotify(s)
    PROVE  IInv'
<1>1. server[s] = "act" /\ op[s] # NULL
  BY DEF ActAndNotify, Goes
<1>2. PICK c \in Clients :
        /\ c = op[s].client /\ c \in processed /\ conn[c] \in Connection
        /\ op[s].rc \in {EXIT_SUCCESS, IPC_ERROR}
        /\ \A t \in Servers : reading[t] # c
        /\ \A t \in Servers : \A i \in 1..Len(queue[t]) : queue[t][i] # c
  BY <1>1, OperationAlone
<1>3. PICK status \in {EXIT_SUCCESS, IPC_ERROR}, done \in BOOLEAN :
        /\ conn' = Answered(conn, c, [rc |-> status, done |-> done], done)
        /\ fd0' = IF done THEN Closed(s, c) ELSE fd0
        /\ op' = [op EXCEPT ![s] = IF done THEN NULL ELSE [op[s] EXCEPT !.rc = status]]
        /\ turns' = IF done THEN 0 ELSE turns + 1
  <2>1. PICK logged \in {EXIT_SUCCESS, IPC_ERROR}, done \in BOOLEAN :
        /\ conn' = Answered(conn, c, [rc |-> Worse(op[s].rc, logged), done |-> done], done)
        /\ fd0' = IF done THEN Closed(s, c) ELSE fd0
        /\ op' = [op EXCEPT ![s] = IF done THEN NULL ELSE [op[s] EXCEPT !.rc = Worse(op[s].rc, logged)]]
        /\ turns' = IF done THEN 0 ELSE turns + 1
    BY <1>2 DEF ActAndNotify
  <2>2. Worse(op[s].rc, logged) \in {EXIT_SUCCESS, IPC_ERROR}
    BY <1>2, WorseRange
  <2>3. QED
    BY <2>1, <2>2
<1>4. /\ server' = [server EXCEPT ![s] = "loop"]
      /\ UNCHANGED <<files, reused, queue, reading, client, rc, processed>>
  BY DEF ActAndNotify, Goes
<1>5. PICK k \in Connection :
        /\ conn' = [conn EXCEPT ![c] = k]
        /\ k.server = conn[c].server /\ (k.serverOpen => ~done /\ conn[c].serverOpen)
        /\ \A i \in 1..Len(k.inbox) : (Agrees(k.inbox[i].rc, c))'
  <2>1. PICK r \in Response : r = [rc |-> status, done |-> done]
    BY ResponseType
  <2>2. /\ conn \in [Clients -> Connection \cup {NULL}] /\ conn[c] \in Connection /\ conn[c] # NULL
        /\ conn[c].inbox \in Seq(Response)
    BY <1>2, NullAssumption DEF IInv, TypeOK, Connection
  <2>3. PICK k \in Connection :
          /\ Answered(conn, c, r, done) = [conn EXCEPT ![c] = k] /\ k.server = conn[c].server
          /\ k.serverOpen <=> conn[c].serverOpen /\ ~done
          /\ k.inbox = conn[c].inbox \/ k.inbox = Append(conn[c].inbox, r)
    BY <2>2, AnsweredType
  <2>4. \A i \in 1..Len(conn[c].inbox) : Agrees(conn[c].inbox[i].rc, c)
    BY <2>2 DEF IInv, InboxInv
  <2>5. Agrees(r.rc, c)
    BY <1>2, <2>1 DEF Agrees, EXIT_SUCCESS, IPC_ERROR, IPC_REQUEST_IN_PROGRESS
  <2>6. \A i \in 1..Len(k.inbox) : k.inbox[i] = r \/ (i \in 1..Len(conn[c].inbox) /\ k.inbox[i] = conn[c].inbox[i])
    BY <2>2, <2>3
  <2>7. \A i \in 1..Len(k.inbox) : Agrees(k.inbox[i].rc, c)
    BY <2>4, <2>5, <2>6
  <2>8. \A i \in 1..Len(k.inbox) : (Agrees(k.inbox[i].rc, c))'
    BY <1>4, <2>7 DEF Agrees
  <2>9. QED
    BY <1>3, <2>1, <2>3, <2>8
<1>6. /\ op' \in [Servers -> Operation \cup {NULL}] /\ OperationInv'
      /\ \A t \in Servers : t # s => op'[t] = op[t]
      /\ ~done => op'[s] # NULL /\ op'[s].client = c
  <2>1. op \in [Servers -> Operation \cup {NULL}]
    BY DEF IInv, TypeOK
  <2>2. CASE done
    BY <1>3, <1>4, <2>1, <2>2 DEF IInv, OperationInv
  <2>3. CASE ~done
    <3>1. op' = [op EXCEPT ![s] = [op[s] EXCEPT !.rc = status]]
      BY <1>3, <2>3
    <3>2. \A t \in Servers : t # s => op'[t] = op[t]
      BY <2>1, <3>1
    <3>3. QED
      BY <1>1, <1>2, <1>4, <3>1, <3>2, BlamedOperation
  <2>4. QED
    BY <2>2, <2>3
<1>7. reading[s] = NULL /\ reading' = [reading EXCEPT ![s] = NULL]
  BY <1>1, <1>4 DEF IInv, ReadingInv, TypeOK
<1>8. TypeOK'
  <2>1. fd0' \in [Servers -> Clients \cup {"stdin", "closed"}]
    BY <1>3, ClosedType DEF IInv, TypeOK
  <2>2. server' \in [Servers -> Stages]
    BY <1>4 DEF IInv, TypeOK, Stages
  <2>3. conn' \in [Clients -> Connection \cup {NULL}]
    BY <1>5 DEF IInv, TypeOK
  <2>4. turns' \in Nat
    <3>1. turns \in Nat
      BY DEF IInv, TypeOK
    <3>2. turns' = 0 \/ turns' = turns + 1
      BY <1>3
    <3>3. QED
      BY <3>1, <3>2
  <2>5. QED
    BY <1>4, <1>6, <2>1, <2>2, <2>3, <2>4 DEF IInv, TypeOK, files
<1>9. \A d \in Clients \ {c}, t \in Servers : InHand(d, t) => InHand(d, t)'
  BY <1>2, <1>4, <1>6 DEF InHand
<1>10. k.serverOpen => InHand(c, k.server)'
  <2> SUFFICES ASSUME k.serverOpen PROVE InHand(c, k.server)'
    OBVIOUS
  <2>1. InHand(c, conn[c].server) /\ conn[c].server \in Servers
    BY <1>2, <1>5, NullAssumption DEF IInv, NoLeak, Connection
  <2>2. op'[s] # NULL /\ op'[s].client = c
    BY <1>5, <1>6
  <2>3. QED
    BY <1>2, <1>4, <1>5, <1>6, <2>1, <2>2 DEF InHand
<1>11. (Agrees(rc[c], c))' /\ client[c] \notin {"start", "connect"}
  BY <1>2, <1>4 DEF IInv, StatusTellsTruth, ClientInv, Agrees
<1>12. OperationInv' /\ processed' = processed /\ UNCHANGED <<queue, client, rc>>
  BY <1>4, <1>6
<1>13. k.server = conn[c].server /\ conn' = [conn EXCEPT ![c] = k] /\ \A i \in 1..Len(k.inbox) : (Agrees(k.inbox[i].rc, c))'
  BY <1>5
<1>14. /\ conn[c] \in Connection /\ \A t \in Servers : t # s => reading[t] # c
       /\ \A t \in Servers : \A i \in 1..Len(queue[t]) : queue[t][i] # c
       /\ server' = [server EXCEPT ![s] = "loop"] /\ reading' = [reading EXCEPT ![s] = NULL]
  BY <1>2, <1>4, <1>7
<1>15. Answering(s, c, k, "loop")
  BY <1>8, <1>9, <1>10, <1>11, <1>12, <1>13, <1>14 DEF Answering
<1>16. QED
  BY <1>8, <1>15, ServerAnswersInv

(* The first of the queue is taken, and its request is waited for.         *)
LEMMA AcceptInv ==
    ASSUME IInv, NEW s \in Servers, socket_accept(s)
    PROVE  IInv'
<1>1. /\ server[s] = "loop" /\ server' = [server EXCEPT ![s] = "read"] /\ queue[s] # <<>>
      /\ reading' = [reading EXCEPT ![s] = queue[s][1]]
      /\ queue' = [queue EXCEPT ![s] = Tail(queue[s])]
      /\ fd0' = IF fd0[s] = "closed" THEN [fd0 EXCEPT ![s] = queue[s][1]] ELSE fd0
      /\ UNCHANGED <<files, reused, op, turns, client, conn, rc, processed>>
  BY DEF socket_accept, Goes, clientVars
<1>2. /\ queue \in [Servers -> Seq(Clients)] /\ queue[s] \in Seq(Clients)
      /\ reading \in [Servers -> Clients \cup {NULL}] /\ server \in [Servers -> Stages]
      /\ fd0 \in [Servers -> Clients \cup {"stdin", "closed"}]
  BY DEF IInv, TypeOK
<1>3. PICK c \in Clients : c = queue[s][1] /\ 1 \in 1..Len(queue[s])
  BY <1>1, <1>2
<1>4. /\ Tail(queue[s]) \in Seq(Clients) /\ Len(Tail(queue[s])) = Len(queue[s]) - 1
      /\ \A i \in 1..Len(Tail(queue[s])) : i + 1 \in 1..Len(queue[s]) /\ Tail(queue[s])[i] = queue[s][i + 1]
  BY <1>1, <1>2
<1>5. /\ queue'[s] = Tail(queue[s]) /\ reading'[s] = c /\ server'[s] = "read"
      /\ \A t \in Servers : t # s => queue'[t] = queue[t] /\ reading'[t] = reading[t] /\ server'[t] = server[t]
  BY <1>1, <1>2, <1>3
<1>6. TypeOK'
  <2>1. queue' \in [Servers -> Seq(Clients)]
    BY <1>1, <1>2, <1>4
  <2>2. reading' \in [Servers -> Clients \cup {NULL}] /\ server' \in [Servers -> Stages]
    BY <1>1, <1>2, <1>3 DEF Stages
  <2>3. fd0' \in [Servers -> Clients \cup {"stdin", "closed"}]
    BY <1>1, <1>2, <1>3
  <2>4. QED
    BY <1>1, <2>1, <2>2, <2>3 DEF IInv, TypeOK, files
<1>7. \A d \in Clients, t \in Servers : Fresh(d, t) => Fresh(d, t)'
  BY <1>1 DEF Fresh
<1>8. \A t \in Servers : QueueOK(t)
  BY DEF IInv, QueueInv
<1>9. Fresh(c, s) /\ \A i \in 1..Len(queue[s]) : queue[s][i] = c => i = 1
  BY <1>3, <1>8 DEF QueueOK
<1>10. QueueInv'
  <2>1. ASSUME NEW t \in Servers, t # s
        PROVE  QueueOK(t)'
    <3>1. queue'[t] = queue[t] /\ reading'[t] = reading[t]
      BY <1>5, <2>1
    <3>2. \A i \in 1..Len(queue[t]) : queue[t][i] \in Clients /\ Fresh(queue[t][i], t)
      BY <1>2, <1>8 DEF QueueOK
    <3>3. \A i \in 1..Len(queue[t]) : (Fresh(queue[t][i], t))'
      BY <1>7, <3>1, <3>2
    <3>4. QED
      BY <1>8, <3>1, <3>3 DEF QueueOK
  <2>2. QueueOK(s)'
    <3>1. \A i \in 1..Len(queue'[s]) : /\ i + 1 \in 1..Len(queue[s]) /\ queue'[s][i] = queue[s][i + 1]
                                        /\ i \in Int /\ queue[s][i + 1] # c
      BY <1>4, <1>5, <1>9
    <3>2. \A i \in 1..Len(queue[s]) : queue[s][i] \in Clients /\ Fresh(queue[s][i], s)
      BY <1>2, <1>8 DEF QueueOK
    <3>3. \A i \in 1..Len(queue'[s]) : Fresh(queue'[s][i], s) /\ queue'[s][i] \in Clients
      BY <3>1, <3>2
    <3>4. \A i \in 1..Len(queue'[s]) : (Fresh(queue[s][i], s))'
      BY <1>7, <3>3
    <3>5. \A i, j \in 1..Len(queue[s]) : queue[s][i] = queue[s][j] => i = j
      BY <1>8 DEF QueueOK
    <3>6. \A i, j \in 1..Len(queue'[s]) : queue'[s][i] = queue'[s][j] => i = j
      BY <3>1, <3>5
    <3>7. QED
      BY <1>5, <3>1, <3>4, <3>6 DEF QueueOK
  <2>3. QED
    BY <2>1, <2>2 DEF QueueInv
<1>11. ReadingInv'
  <2>1. (Fresh(c, s))'
    BY <1>7, <1>9
  <2>2. QED
    BY <1>5, <1>7, <2>1 DEF IInv, ReadingInv
<1>12. OperationInv' /\ ClientInv' /\ ProcessedInv'
  BY <1>1 DEF IInv, OperationInv, ClientInv, ProcessedInv
<1>13. InboxInv' /\ StatusTellsTruth'
  BY <1>1 DEF IInv, InboxInv, Agrees, StatusTellsTruth
<1>14. NoLeak'
  <2>1. \A t \in Servers, d \in Clients : InHand(d, t) => InHand(d, t)'
    <3> SUFFICES ASSUME NEW t \in Servers, NEW d \in Clients, InHand(d, t)
                 PROVE  InHand(d, t)'
      OBVIOUS
    <3>1. CASE t # s
      BY <1>1, <1>5, <3>1 DEF InHand
    <3>2. CASE t = s /\ \E i \in DOMAIN queue[s] : queue[s][i] = d
      <4>1. PICK i \in DOMAIN queue[s] : queue[s][i] = d
        BY <3>2
      <4>2. CASE i = 1
        BY <1>3, <1>5, <3>2, <4>1, <4>2 DEF InHand
      <4>3. CASE i # 1
        <5>1. i - 1 \in DOMAIN Tail(queue[s]) /\ Tail(queue[s])[i - 1] = d
          BY <1>1, <1>2, <4>1, <4>3
        <5>2. QED
          BY <1>5, <3>2, <5>1 DEF InHand
      <4>4. QED
        BY <4>2, <4>3
    <3>3. CASE t = s /\ op[s] # NULL /\ op[s].client = d
      BY <1>1, <3>3 DEF InHand
    <3>4. reading[s] # d
      BY <1>1, SessionAssumption DEF IInv, ReadingInv
    <3>5. QED
      BY <3>1, <3>2, <3>3, <3>4 DEF InHand
  <2>2. \A d \in Clients : conn[d] # NULL => conn[d].server \in Servers
    BY DEF IInv, TypeOK, Connection
  <2>3. QED
    BY <1>1, <2>1, <2>2 DEF IInv, NoLeak
<1>15. QED
  BY <1>6, <1>10, <1>11, <1>12, <1>13, <1>14 DEF IInv

(* A server that ends closes what it had, wherever it was.                 *)
LEMMA EndsInv ==
    ASSUME IInv, NEW s \in Servers, ServerEnds(s)
    PROVE  IInv'
<1>1. /\ server' = [server EXCEPT ![s] = "dead"]
      /\ lock' = IF lock = s THEN NULL ELSE lock
      /\ conn' = [c \in Clients |-> IF conn[c] # NULL /\ conn[c].server = s
                                    THEN [conn[c] EXCEPT !.serverOpen = FALSE] ELSE conn[c]]
      /\ queue' = [queue EXCEPT ![s] = <<>>]
      /\ reading' = [reading EXCEPT ![s] = NULL]
      /\ op' = [op EXCEPT ![s] = NULL]
      /\ UNCHANGED <<pidfile, sock, reused, fd0, turns, client, rc, processed>>
  BY DEF ServerEnds
<1>2. /\ queue \in [Servers -> Seq(Clients)] /\ op \in [Servers -> Operation \cup {NULL}]
      /\ reading \in [Servers -> Clients \cup {NULL}] /\ server \in [Servers -> Stages]
      /\ conn \in [Clients -> Connection \cup {NULL}] /\ NULL \notin Connection
  BY NullAssumption DEF IInv, TypeOK
<1>3. /\ queue'[s] = <<>> /\ reading'[s] = NULL /\ server'[s] = "dead" /\ op'[s] = NULL
      /\ \A t \in Servers : t # s => /\ queue'[t] = queue[t] /\ reading'[t] = reading[t]
                                     /\ server'[t] = server[t] /\ op'[t] = op[t]
  BY <1>1, <1>2
<1>4. ASSUME NEW c \in Clients
      PROVE  /\ conn[c] = NULL => conn'[c] = NULL
             /\ conn[c] # NULL => /\ conn'[c] \in Connection /\ conn'[c] # NULL
                                  /\ conn'[c].server = conn[c].server /\ conn'[c].inbox = conn[c].inbox
                                  /\ IF conn[c].server = s THEN ~conn'[c].serverOpen ELSE conn'[c] = conn[c]
  <2>1. CASE conn[c] = NULL
    BY <1>1, <2>1
  <2>2. CASE conn[c] # NULL /\ conn[c].server = s
    <3>1. conn[c] \in Connection
      BY <1>2, <2>2
    <3>2. conn'[c] = [conn[c] EXCEPT !.serverOpen = FALSE]
      BY <1>1, <2>2
    <3>3. /\ conn'[c] \in Connection /\ conn'[c].server = conn[c].server
          /\ conn'[c].inbox = conn[c].inbox /\ conn'[c].serverOpen = FALSE
      BY <3>1, <3>2 DEF Connection
    <3>4. QED
      BY <1>2, <2>2, <3>3
  <2>3. CASE conn[c] # NULL /\ conn[c].server # s
    BY <1>1, <1>2, <2>3
  <2>4. QED
    BY <2>1, <2>2, <2>3
<1>5. TypeOK'
  <2>1. queue' \in [Servers -> Seq(Clients)]
    BY <1>1, <1>2
  <2>2. reading' \in [Servers -> Clients \cup {NULL}] /\ server' \in [Servers -> Stages]
    BY <1>1, <1>2 DEF Stages
  <2>3. op' \in [Servers -> Operation \cup {NULL}]
    BY <1>1, <1>2
  <2>4. conn' \in [Clients -> Connection \cup {NULL}]
    <3>1. \A c \in Clients : conn'[c] \in Connection \cup {NULL}
      BY <1>4
    <3>2. conn' = [c \in Clients |-> conn'[c]]
      BY <1>1
    <3>3. QED
      BY <3>1, <3>2
  <2>5. lock' \in Servers \cup {NULL}
    BY <1>1 DEF IInv, TypeOK
  <2>6. QED
    BY <1>1, <2>1, <2>2, <2>3, <2>4, <2>5 DEF IInv, TypeOK
<1>6. \A d \in Clients, t \in Servers : Fresh(d, t) => Fresh(d, t)'
  BY <1>1, <1>2, <1>4 DEF Fresh
<1>7. QueueInv'
  <2>1. ASSUME NEW t \in Servers, t # s
        PROVE  QueueOK(t)'
    <3>1. queue'[t] = queue[t] /\ reading'[t] = reading[t] /\ QueueOK(t)
      BY <1>3, <2>1 DEF IInv, QueueInv
    <3>2. \A i \in 1..Len(queue[t]) : queue[t][i] \in Clients /\ Fresh(queue[t][i], t)
      BY <1>2, <3>1 DEF QueueOK
    <3>3. \A i \in 1..Len(queue[t]) : (Fresh(queue[t][i], t))'
      BY <1>6, <3>1, <3>2
    <3>4. QED
      BY <3>1, <3>3 DEF QueueOK
  <2>2. QueueOK(s)'
    BY <1>3 DEF QueueOK
  <2>3. QED
    BY <2>1, <2>2 DEF QueueInv
<1>8. ReadingInv'
  BY <1>3, <1>6 DEF IInv, ReadingInv
<1>9. OperationInv'
  BY <1>1, <1>3 DEF IInv, OperationInv
<1>10. ClientInv' /\ ProcessedInv'
  BY <1>1, <1>2, <1>4 DEF IInv, ClientInv, ProcessedInv, TypeOK
<1>11. InboxInv' /\ StatusTellsTruth'
  BY <1>1, <1>4 DEF IInv, InboxInv, Agrees, StatusTellsTruth
<1>12. NoLeak'
  <2>1. \A t \in Servers, d \in Clients : t # s /\ InHand(d, t) => InHand(d, t)'
    BY <1>3 DEF InHand
  <2>2. ASSUME NEW d \in Clients, conn'[d] # NULL, conn'[d].serverOpen
        PROVE  (InHand(d, conn[d].server))'
    <3>1. conn[d] # NULL /\ conn[d].server # s /\ conn'[d] = conn[d] /\ conn[d].server \in Servers
      BY <1>2, <1>4, <2>2 DEF Connection
    <3>2. QED
      BY <2>1, <2>2, <3>1 DEF IInv, NoLeak
  <2>3. QED
    BY <2>2 DEF NoLeak
<1>13. QED
  BY <1>5, <1>7, <1>8, <1>9, <1>10, <1>11, <1>12 DEF IInv

(* Every step keeps the invariant, if every request can be read.           *)
LEMMA NextInv ==
    ASSUME IInv, "bad" \notin Kinds, [Next]_vars
    PROVE  IInv'
<1>1. ASSUME NEW s \in Servers, ServerSteps(s)
      PROVE  IInv'
  BY <1>1, StartInv, AcceptInv, ReceiveInv, InProgressInv, ReceiveFailsInv, NotifyInv DEF ServerSteps
<1>2. ASSUME NEW s \in Servers, ServerEnds(s) \/ PidReused(s)
      PROVE  IInv'
  BY <1>2, EndsInv, StartInv
<1>3. CASE UNCHANGED vars
  <2>1. TypeOK'
    BY <1>3 DEF IInv, TypeOK, vars, files, serverVars, clientVars
  <2>2. QED
    BY <1>3, <2>1, NoConnectionInv DEF vars, serverVars
<1>4. QED
  BY <1>1, <1>2, <1>3, ClientInvariant DEF Next

-----------------------------------------------------------------------------
(* The theorems.                                                           *)

(* However many servers start, end and crash, and whatever clients do,     *)
(* only one server at a time is past the lock, and the pid file and the    *)
(* socket are its own (pid_file_create, create_socket_server).  This does  *)
(* not depend on what clients send.                                        *)
THEOREM OneServerAlways == Spec => []OneServer
<1> DEFINE Inv == OneServer /\ server \in [Servers -> Stages]
<1>1. Init => Inv
  <2>1. Init => server \in [Servers -> Stages]
    BY DEF Init, Stages
  <2>2. QED
    BY <2>1, OneServerInit
<1>2. Inv /\ [Next]_vars => Inv'
  <2> SUFFICES ASSUME Inv, [Next]_vars PROVE Inv'
    OBVIOUS
  <2>1. \/ server' = server
        \/ \E s \in Servers, to \in Stages : server' = [server EXCEPT ![s] = to]
    BY DEF Next, ServerSteps, ClientSteps, ClientReads, vars, serverVars, Stages, Goes,
           pid_file_open, pid_file_lock, pid_file_truncate, pid_file_write, create_socket_server_bind,
           create_socket_server_listen, socket_accept, receive_ipc_request, handle_ipc_in_progress,
           ReceiveFails, OtherEvent, ActNoOperation, ActAndNotify, ServerEnds, PidReused,
           ClientLooks, create_socket_client, ipc_send_request, handle_responses, ClientReadsEnd,
           ClientTimesOut, ClientKilled
  <2>2. server' \in [Servers -> Stages]
    BY <2>1
  <2>3. QED
    BY <2>2, OneServerNext
<1>3. Inv => OneServer
  OBVIOUS
<1> HIDE DEF Inv
<1>4. QED
  BY <1>1, <1>2, <1>3, PTL DEF Spec

(* Where every request can be read, and however servers and clients        *)
(* interleave, time out and die: the model is typed, and the invariant     *)
(* above holds.                                                            *)
THEOREM SessionTyped == "bad" \notin Kinds => (Spec => []TypeOK)
<1> SUFFICES ASSUME "bad" \notin Kinds PROVE Spec => []TypeOK
  OBVIOUS
<1>1. IInv /\ [Next]_vars => IInv'
  BY NextInv
<1>2. IInv => TypeOK
  BY DEF IInv
<1>3. QED
  BY InitInv, <1>1, <1>2, PTL DEF Spec

(* Where every request can be read, no connection is left open that the    *)
(* server is done with: every way out of receive_ipc_request,              *)
(* handle_ipc_in_progress and notify_ipc_operation closes it or keeps the  *)
(* operation (server.c).                                                   *)
THEOREM NothingLeaks == "bad" \notin Kinds => (Spec => []NoLeak)
<1> SUFFICES ASSUME "bad" \notin Kinds PROVE Spec => []NoLeak
  OBVIOUS
<1>1. IInv /\ [Next]_vars => IInv'
  BY NextInv
<1>2. IInv => NoLeak
  BY DEF IInv
<1>3. QED
  BY InitInv, <1>1, <1>2, PTL DEF Spec

(* Where every request can be read, a client that exits with               *)
(* IPC_REQUEST_IN_PROGRESS was not processed, and one that exits with      *)
(* success or IPC_ERROR was (client.c handle_responses).                   *)
THEOREM StatusIsTrue == "bad" \notin Kinds => (Spec => []StatusTellsTruth)
<1> SUFFICES ASSUME "bad" \notin Kinds PROVE Spec => []StatusTellsTruth
  OBVIOUS
<1>1. IInv /\ [Next]_vars => IInv'
  BY NextInv
<1>2. IInv => StatusTellsTruth
  BY DEF IInv
<1>3. QED
  BY InitInv, <1>1, <1>2, PTL DEF Spec

-----------------------------------------------------------------------------
(* Session implements Requests.  Beyond the invariants above this needs    *)
(* that only a server that listens has an operation, so that the lock      *)
(* makes the operation the only one; and that a response that says done    *)
(* waits in no inbox while the operation of that client goes on.           *)

Serving == {"loop", "read", "act"}

OperationServed == \A s \in Servers : op[s] # NULL => server[s] \in Serving

DoneInv ==
    \A c \in Clients : conn[c] # NULL =>
        \A i \in 1..Len(conn[c].inbox) :
            /\ conn[c].inbox[i].rc \in {EXIT_SUCCESS, IPC_ERROR, IPC_REQUEST_IN_PROGRESS}
            /\ conn[c].inbox[i].done => \A s \in Servers : op[s] # NULL => op[s].client # c

LivingInv == \A c \in Clients : client[c] # "end" => rc[c] = NULL

RInv == OneServer /\ IInv /\ OperationServed /\ DoneInv /\ LivingInv

(* Steps that leave the operations with their clients, and an inbox that   *)
(* is as it was or read empty.                                             *)
SameOperations ==
    \A t \in Servers : /\ op'[t] = NULL <=> op[t] = NULL
                       /\ op[t] # NULL => op'[t].client = op[t].client

NoNews(c) == conn'[c] # NULL => conn'[c].inbox = <<>> \/ (conn[c] # NULL /\ conn'[c].inbox = conn[c].inbox)

(* At first there are no operations.                                       *)
LEMMA RefinementInit == Init => RInv
BY OneServerInit, InitInv DEF Init, RInv, OperationServed, DoneInv, LivingInv

(* The lock makes the operation in progress the only one.                  *)
LEMMA OneOperation ==
    ASSUME OneServer, OperationServed, NEW s \in Servers, NEW t \in Servers, op[s] # NULL, op[t] # NULL
    PROVE  s = t
<1>1. server[s] \in Serving /\ server[t] \in Serving
  BY DEF OperationServed
<1>2. lock = s /\ lock = t
  BY <1>1 DEF OneServer, Stages, Serving
<1>3. QED
  BY <1>2

(* The mapping: the client of the one operation, if there is one.          *)
LEMMA InProgressIs ==
    ASSUME NEW ops, \A s, t \in Servers : ops[s] # NULL /\ ops[t] # NULL => s = t
    PROVE  /\ \A s \in Servers : ops[s] # NULL => InProgress(ops) = ops[s].client
           /\ (\A s \in Servers : ops[s] = NULL) => InProgress(ops) = NULL
<1>1. ASSUME NEW s \in Servers, ops[s] # NULL
      PROVE  InProgress(ops) = ops[s].client
  <2> DEFINE u == CHOOSE t \in Servers : ops[t] # NULL
  <2>1. u \in Servers /\ ops[u] # NULL
    BY <1>1
  <2>2. u = s
    BY <1>1, <2>1
  <2>3. InProgress(ops) = ops[u].client
    BY <1>1 DEF InProgress
  <2>4. QED
    BY <2>2, <2>3
<1>2. QED
  BY <1>1 DEF InProgress

(* A server that starts, accepts, or gives up on a client.                 *)
LEMMA QuietDoes ==
    ASSUME RInv, NEW s \in Servers,
           \/ pid_file_open(s) \/ pid_file_lock(s) \/ pid_file_truncate(s) \/ pid_file_write(s)
           \/ create_socket_server_bind(s) \/ create_socket_server_listen(s) \/ socket_accept(s)
           \/ OtherEvent(s) \/ ActNoOperation(s) \/ PidReused(s) \/ ReceiveFails(s)
    PROVE  /\ SameOperations /\ UNCHANGED <<processed, rc, client>>
           /\ \A c \in Clients : NoNews(c)
           /\ \A t \in Servers : server[t] \in Serving => server'[t] \in Serving
<1>1. /\ server \in [Servers -> Stages] /\ op \in [Servers -> Operation \cup {NULL}]
      /\ conn \in [Clients -> Connection \cup {NULL}]
  BY DEF RInv, IInv, TypeOK
<1>2. CASE ReceiveFails(s)
  <2>1. PICK c \in Clients : c = reading[s] /\ Fresh(c, s)
    BY <1>2, ReadingAlone DEF ReceiveFails, Goes, RInv
  <2>2. /\ server[s] = "read" /\ server' = [server EXCEPT ![s] = "act"]
        /\ conn' = [conn EXCEPT ![c] = [conn[c] EXCEPT !.serverOpen = FALSE]]
        /\ op' = [op EXCEPT ![s] = IF op[s] = NULL THEN NULL ELSE [op[s] EXCEPT !.rc = Worse(op[s].rc, IPC_ERROR)]]
        /\ UNCHANGED <<processed, rc, client>>
    BY <1>2, <2>1 DEF ReceiveFails, Goes
  <2>3. \A d \in Clients : NoNews(d)
    <3>1. conn[c] \in Connection /\ conn[c] # NULL
      BY <2>1, NullAssumption DEF Fresh
    <3>2. [conn[c] EXCEPT !.serverOpen = FALSE].inbox = conn[c].inbox
      BY <3>1 DEF Connection
    <3>3. QED
      BY <1>1, <2>2, <3>1, <3>2 DEF NoNews
  <2>4. SameOperations
    <3>1. ASSUME op[s] # NULL
          PROVE  /\ [op[s] EXCEPT !.rc = Worse(op[s].rc, IPC_ERROR)] # NULL
                 /\ [op[s] EXCEPT !.rc = Worse(op[s].rc, IPC_ERROR)].client = op[s].client
      <4>1. op[s] \in Operation /\ Worse(op[s].rc, IPC_ERROR) \in Int
        BY <1>1, <3>1 DEF Operation, Worse, IPC_ERROR
      <4>2. [op[s] EXCEPT !.rc = Worse(op[s].rc, IPC_ERROR)] \in Operation
        BY <4>1 DEF Operation
      <4>3. QED
        BY <4>1, <4>2, NullAssumption DEF Operation
    <3>2. QED
      BY <1>1, <2>2, <3>1 DEF SameOperations
  <2>5. QED
    BY <1>1, <2>2, <2>3, <2>4 DEF Serving
<1>3. CASE ~ReceiveFails(s)
  <2>1. UNCHANGED <<op, conn, processed, rc, client>>
    BY <1>3 DEF pid_file_open, pid_file_lock, pid_file_truncate, pid_file_write, create_socket_server_bind,
           create_socket_server_listen, socket_accept, OtherEvent, ActNoOperation, PidReused, clientVars
  <2>2. \/ server' = server
        \/ \E to \in Stages : /\ server' = [server EXCEPT ![s] = to]
                              /\ server[s] \in Serving => to \in Serving
    BY <1>3 DEF pid_file_open, pid_file_lock, pid_file_truncate, pid_file_write, create_socket_server_bind,
           create_socket_server_listen, socket_accept, OtherEvent, ActNoOperation, PidReused, Goes, Serving, Stages
  <2>3. QED
    BY <1>1, <2>1, <2>2 DEF SameOperations, NoNews
<1>4. QED
  BY <1>2, <1>3

(* A request is turned away.                                               *)
LEMMA InProgressDoes ==
    ASSUME RInv, "bad" \notin Kinds, NEW s \in Servers, handle_ipc_in_progress(s)
    PROVE  /\ SameOperations /\ UNCHANGED <<processed, rc, client>>
           /\ \E c \in Clients \ processed :
                /\ \A d \in Clients \ {c} : NoNews(d)
                /\ \A i \in 1..Len(conn'[c].inbox) : conn'[c].inbox[i].rc = IPC_REQUEST_IN_PROGRESS
           /\ \A t \in Servers : server[t] \in Serving => server'[t] \in Serving
<1>1. /\ server[s] = "read" /\ op[s] # NULL /\ IInv
      /\ server \in [Servers -> Stages] /\ op \in [Servers -> Operation \cup {NULL}]
      /\ conn \in [Clients -> Connection \cup {NULL}]
  BY DEF handle_ipc_in_progress, Goes, RInv, IInv, TypeOK
<1>2. PICK c \in Clients : c = reading[s] /\ Fresh(c, s)
  BY <1>1, ReadingAlone
<1>3. conn[c].request # "bad" /\ conn[c] \in Connection /\ conn[c].inbox = <<>> /\ c \notin processed
  BY <1>2 DEF handle_ipc_in_progress, Fresh, Connection
<1> DEFINE r == [rc |-> IPC_REQUEST_IN_PROGRESS, done |-> TRUE]
           box == IF conn[c].clientOpen THEN Append(conn[c].inbox, r) ELSE conn[c].inbox
           k == [conn[c] EXCEPT !.inbox = box, !.serverOpen = conn[c].serverOpen /\ ~TRUE]
<1>4. /\ server' = [server EXCEPT ![s] = "act"] /\ UNCHANGED <<processed, rc, client>>
      /\ conn' = [conn EXCEPT ![c] = k] /\ op' = [op EXCEPT ![s] = op[s]]
  BY <1>1, <1>2, <1>3 DEF handle_ipc_in_progress, Goes, Target, Blamed, Answered
<1>5. \A i \in 1..Len(box) : box[i].rc = IPC_REQUEST_IN_PROGRESS
  BY <1>3
<1> HIDE DEF box
<1>6. k.inbox = box
  BY <1>3 DEF Connection
<1> HIDE DEF k
<1>7. conn'[c] = k /\ \A d \in Clients \ {c} : conn'[d] = conn[d]
  BY <1>1, <1>4
<1>8. op' = op
  BY <1>1, <1>4
<1>9. QED
  BY <1>1, <1>3, <1>4, <1>5, <1>6, <1>7, <1>8 DEF SameOperations, NoNews, Serving

(* A request is taken: done at once, or kept as the operation.             *)
LEMMA ReceiveDoes ==
    ASSUME RInv, "bad" \notin Kinds, NEW s \in Servers, receive_ipc_request(s)
    PROVE  \E c \in Clients \ processed, done \in BOOLEAN :
             /\ op[s] = NULL /\ server[s] \in Serving
             /\ rc[c] # IPC_REQUEST_IN_PROGRESS
             /\ processed' = processed \cup {c} /\ UNCHANGED <<rc, client>>
             /\ done => op' = op
             /\ ~done => op'[s] # NULL /\ op'[s].client = c /\ \A t \in Servers \ {s} : op'[t] = op[t]
             /\ \A d \in Clients \ {c} : NoNews(d)
             /\ \A i \in 1..Len(conn'[c].inbox) : /\ conn'[c].inbox[i].rc \in {EXIT_SUCCESS, IPC_ERROR}
                                                  /\ conn'[c].inbox[i].done = done
             /\ \A t \in Servers : server[t] \in Serving => server'[t] \in Serving
<1>1. /\ server[s] = "read" /\ op[s] = NULL /\ IInv
      /\ server \in [Servers -> Stages] /\ op \in [Servers -> Operation \cup {NULL}]
      /\ conn \in [Clients -> Connection \cup {NULL}]
  BY DEF receive_ipc_request, Goes, RInv, IInv, TypeOK
<1>2. PICK c \in Clients : c = reading[s] /\ Fresh(c, s)
  BY <1>1, ReadingAlone
<1>3. /\ conn[c].request # "bad" /\ conn[c] \in Connection /\ conn[c].inbox = <<>> /\ c \notin processed
      /\ rc[c] # IPC_REQUEST_IN_PROGRESS /\ Target(s, c) = c
  BY <1>2 DEF receive_ipc_request, Fresh, Connection, Target
<1>4. PICK status \in {EXIT_SUCCESS, IPC_ERROR}, done \in BOOLEAN :
        /\ conn' = Answered(conn, c, [rc |-> status, done |-> done], done)
        /\ op' = IF done THEN op ELSE [op EXCEPT ![s] = [client |-> c, rc |-> status]]
        /\ processed' = processed \cup {c}
  BY <1>2, <1>3 DEF receive_ipc_request
<1>5. server' = [server EXCEPT ![s] = "act"] /\ UNCHANGED <<rc, client>>
  BY DEF receive_ipc_request, Goes
<1> DEFINE r == [rc |-> status, done |-> done]
           box == IF conn[c].clientOpen THEN Append(conn[c].inbox, r) ELSE conn[c].inbox
           k == [conn[c] EXCEPT !.inbox = box, !.serverOpen = conn[c].serverOpen /\ ~done]
<1>6. \A i \in 1..Len(box) : box[i].rc \in {EXIT_SUCCESS, IPC_ERROR} /\ box[i].done = done
  BY <1>3
<1>7. conn' = [conn EXCEPT ![c] = k]
  BY <1>4 DEF Answered
<1> HIDE DEF box
<1>8. k.inbox = box
  BY <1>3 DEF Connection
<1> HIDE DEF k
<1>9. conn'[c] = k /\ \A d \in Clients \ {c} : conn'[d] = conn[d] /\ NoNews(d)
  BY <1>1, <1>7 DEF NoNews
<1>10. ASSUME ~done
       PROVE  op'[s] # NULL /\ op'[s].client = c /\ \A t \in Servers \ {s} : op'[t] = op[t]
  <2>1. PICK o \in Operation : o = [client |-> c, rc |-> status] /\ o # NULL
    <3>1. [client |-> c, rc |-> status] \in Operation
      BY DEF Operation, EXIT_SUCCESS, IPC_ERROR
    <3>2. QED
      BY <3>1, NullAssumption
  <2>2. op' = [op EXCEPT ![s] = o]
    BY <1>4, <1>10, <2>1
  <2>3. QED
    BY <1>1, <2>1, <2>2
<1>11. \A t \in Servers : server[t] \in Serving => server'[t] \in Serving
  BY <1>1, <1>5 DEF Serving
<1>12. server[s] \in Serving /\ (done => op' = op)
  BY <1>1, <1>4 DEF Serving
<1>13. \A i \in 1..Len(conn'[c].inbox) : /\ conn'[c].inbox[i].rc \in {EXIT_SUCCESS, IPC_ERROR}
                                         /\ conn'[c].inbox[i].done = done
  BY <1>6, <1>8, <1>9
<1>14. QED
  BY <1>1, <1>3, <1>4, <1>5, <1>9, <1>10, <1>11, <1>12, <1>13

(* The operation goes on, or its client is answered for the last time.     *)
LEMMA NotifyDoes ==
    ASSUME RInv, NEW s \in Servers, ActAndNotify(s)
    PROVE  \E c \in Clients, done \in BOOLEAN, r \in Response :
             /\ op[s] # NULL /\ op[s].client = c /\ UNCHANGED <<processed, rc, client>>
             /\ r.rc \in {EXIT_SUCCESS, IPC_ERROR} /\ r.done = done
             /\ done => op'[s] = NULL /\ \A t \in Servers \ {s} : op'[t] = op[t]
             /\ ~done => SameOperations
             /\ \A d \in Clients \ {c} : NoNews(d)
             /\ conn[c] \in Connection /\ conn'[c].inbox \in {conn[c].inbox, Append(conn[c].inbox, r)}
             /\ \A t \in Servers : server[t] \in Serving => server'[t] \in Serving
<1>1. /\ server[s] = "act" /\ op[s] # NULL /\ IInv
      /\ server \in [Servers -> Stages] /\ op \in [Servers -> Operation \cup {NULL}]
      /\ conn \in [Clients -> Connection \cup {NULL}]
  BY DEF ActAndNotify, Goes, RInv, IInv, TypeOK
<1>2. PICK c \in Clients : c = op[s].client /\ conn[c] \in Connection /\ op[s].rc \in {EXIT_SUCCESS, IPC_ERROR}
  BY <1>1, OperationAlone
<1>3. PICK status \in {EXIT_SUCCESS, IPC_ERROR}, done \in BOOLEAN :
        /\ conn' = Answered(conn, c, [rc |-> status, done |-> done], done)
        /\ op' = [op EXCEPT ![s] = IF done THEN NULL ELSE [op[s] EXCEPT !.rc = status]]
  <2>1. PICK logged \in {EXIT_SUCCESS, IPC_ERROR}, done \in BOOLEAN :
        /\ conn' = Answered(conn, c, [rc |-> Worse(op[s].rc, logged), done |-> done], done)
        /\ op' = [op EXCEPT ![s] = IF done THEN NULL ELSE [op[s] EXCEPT !.rc = Worse(op[s].rc, logged)]]
    BY <1>2 DEF ActAndNotify
  <2>2. Worse(op[s].rc, logged) \in {EXIT_SUCCESS, IPC_ERROR}
    BY <1>2, WorseRange
  <2>3. QED
    BY <2>1, <2>2
<1>4. server' = [server EXCEPT ![s] = "loop"] /\ UNCHANGED <<processed, rc, client>>
  BY DEF ActAndNotify, Goes
<1>5. PICK r \in Response : r = [rc |-> status, done |-> done]
  BY ResponseType
<1>6. r.rc \in {EXIT_SUCCESS, IPC_ERROR} /\ r.done = done
  BY <1>5
<1>7. PICK k \in Connection :
        /\ conn' = [conn EXCEPT ![c] = k] /\ k.inbox \in {conn[c].inbox, Append(conn[c].inbox, r)}
  <2>1. conn \in [Clients -> Connection \cup {NULL}] /\ conn[c] \in Connection
    BY <1>1, <1>2
  <2>2. \E k \in Connection :
          /\ Answered(conn, c, r, done) = [conn EXCEPT ![c] = k] /\ k.server = conn[c].server
          /\ k.serverOpen <=> conn[c].serverOpen /\ ~done
          /\ k.inbox = conn[c].inbox \/ k.inbox = Append(conn[c].inbox, r)
    BY <2>1, AnsweredType
  <2>3. QED
    BY <1>3, <1>5, <2>2
<1>8. conn'[c] = k /\ \A d \in Clients \ {c} : NoNews(d)
  BY <1>1, <1>7 DEF NoNews
<1>9. done => op'[s] = NULL /\ \A t \in Servers \ {s} : op'[t] = op[t]
  BY <1>1, <1>3
<1>10. ~done => SameOperations
  <2>1. [op[s] EXCEPT !.rc = status] \in Operation /\ [op[s] EXCEPT !.rc = status].client = op[s].client
    BY <1>1 DEF Operation, EXIT_SUCCESS, IPC_ERROR
  <2>2. [op[s] EXCEPT !.rc = status] # NULL
    BY <2>1, NullAssumption
  <2>3. QED
    BY <1>1, <1>3, <2>1, <2>2 DEF SameOperations
<1>11. \A t \in Servers : server[t] \in Serving => server'[t] \in Serving
  BY <1>1, <1>4 DEF Serving
<1>12. QED
  BY <1>1, <1>2, <1>4, <1>6, <1>7, <1>8, <1>9, <1>10, <1>11

(* A server ends, and its operation with it.                               *)
LEMMA EndsDoes ==
    ASSUME RInv, NEW s \in Servers, ServerEnds(s)
    PROVE  /\ op'[s] = NULL /\ \A t \in Servers \ {s} : op'[t] = op[t]
           /\ UNCHANGED <<processed, rc, client>>
           /\ \A c \in Clients : NoNews(c)
           /\ \A t \in Servers \ {s} : server'[t] = server[t]
<1>1. /\ server \in [Servers -> Stages] /\ op \in [Servers -> Operation \cup {NULL}]
      /\ conn \in [Clients -> Connection \cup {NULL}]
  BY DEF RInv, IInv, TypeOK
<1>2. ASSUME NEW c \in Clients
      PROVE  NoNews(c)
  <2>1. conn'[c] = IF conn[c] # NULL /\ conn[c].server = s THEN [conn[c] EXCEPT !.serverOpen = FALSE] ELSE conn[c]
    BY DEF ServerEnds
  <2>2. conn[c] # NULL => [conn[c] EXCEPT !.serverOpen = FALSE].inbox = conn[c].inbox
    BY <1>1 DEF Connection
  <2>3. QED
    BY <2>1, <2>2 DEF NoNews
<1>3. QED
  BY <1>1, <1>2 DEF ServerEnds

(* A client: it reads or leaves, and what it tells is an outcome only if   *)
(* the last response it read said done.                                    *)
LEMMA ClientDoes ==
    ASSUME RInv, NEW c \in Clients, ClientSteps(c)
    PROVE  /\ UNCHANGED <<op, processed, server>>
           /\ \A d \in Clients : NoNews(d)
           /\ \A d \in Clients \ {c} : client'[d] = client[d]
           /\ client[c] # "end"
           /\ \/ rc' = rc
              \/ /\ client'[c] = "end"
                 /\ \E r \in {NULL, EXIT_FAILURE, IPC_BAD_RESPONSE} : rc' = [rc EXCEPT ![c] = r]
              \/ /\ client'[c] = "end"
                 /\ conn[c] # NULL
                 /\ \E i \in 1..Len(conn[c].inbox) : conn[c].inbox[i].done /\ rc' = [rc EXCEPT ![c] = conn[c].inbox[i].rc]
<1>1. /\ client \in [Clients -> {"start", "connect", "write", "wait", "end"}]
      /\ conn \in [Clients -> Connection \cup {NULL}] /\ IInv
  BY DEF RInv, IInv, TypeOK
<1>2. client[c] \in {"write", "wait"} => conn[c] \in Connection /\ conn[c] # NULL
  BY <1>1, NullAssumption DEF IInv, ClientInv
<1>3. CASE ClientLooks(c)
  BY <1>1, <1>3 DEF ClientLooks, ClientExits, serverVars, NoNews
<1>4. CASE create_socket_client(c)
  <2>1. UNCHANGED <<op, processed, server>> /\ client[c] = "connect"
    BY <1>4 DEF create_socket_client
  <2>2. CASE sock \in Listening
    <3> DEFINE k == [server |-> sock, request |-> NULL, inbox |-> <<>>, serverOpen |-> TRUE, clientOpen |-> TRUE]
    <3>1. conn' = [conn EXCEPT ![c] = k] /\ client' = [client EXCEPT ![c] = "write"] /\ rc' = rc
      BY <1>4, <2>2 DEF create_socket_client
    <3>2. k.inbox = <<>>
      OBVIOUS
    <3> HIDE DEF k
    <3>3. QED
      BY <1>1, <2>1, <3>1, <3>2 DEF NoNews
  <2>3. CASE sock \notin Listening
    BY <1>1, <1>4, <2>1, <2>3 DEF create_socket_client, ClientExits, NoNews
  <2>4. QED
    BY <2>2, <2>3
<1>5. ASSUME client[c] \in {"write", "wait"}, Hangup(c), UNCHANGED <<files, serverVars, processed>>,
             NEW r \in {NULL, IPC_BAD_RESPONSE}, ClientExits(c, r)
      PROVE  /\ UNCHANGED <<op, processed, server>>
             /\ \A d \in Clients : NoNews(d)
             /\ \A d \in Clients \ {c} : client'[d] = client[d]
             /\ client[c] # "end"
             /\ client'[c] = "end" /\ \E q \in {NULL, EXIT_FAILURE, IPC_BAD_RESPONSE} : rc' = [rc EXCEPT ![c] = q]
  <2>1. conn' = [conn EXCEPT ![c] = [conn[c] EXCEPT !.clientOpen = FALSE]]
    BY <1>2, <1>5 DEF Hangup
  <2>2. [conn[c] EXCEPT !.clientOpen = FALSE].inbox = conn[c].inbox
    BY <1>2, <1>5 DEF Connection
  <2>3. \A d \in Clients : NoNews(d)
    BY <1>1, <1>2, <1>5, <2>1, <2>2 DEF NoNews
  <2>4. QED
    BY <1>1, <1>5, <2>3 DEF ClientExits, serverVars
<1>6. CASE \E kind \in Kinds : ipc_send_request(c, kind)
  <2>1. PICK kind \in Kinds : ipc_send_request(c, kind)
    BY <1>6
  <2>2. CASE conn[c].serverOpen
    <3>1. /\ client[c] = "write" /\ UNCHANGED <<op, processed, server, rc>>
          /\ conn' = [conn EXCEPT ![c] = [conn[c] EXCEPT !.request = kind]]
          /\ client' = [client EXCEPT ![c] = "wait"]
      BY <2>1, <2>2 DEF ipc_send_request, serverVars
    <3>2. [conn[c] EXCEPT !.request = kind].inbox = conn[c].inbox
      BY <1>2, <3>1 DEF Connection
    <3>3. QED
      BY <1>1, <1>2, <3>1, <3>2 DEF NoNews
  <2>3. CASE ~conn[c].serverOpen
    <3>1. client[c] \in {"write", "wait"} /\ Hangup(c) /\ UNCHANGED <<files, serverVars, processed>> /\ ClientExits(c, NULL)
      BY <2>1, <2>3 DEF ipc_send_request
    <3>2. QED
      BY <1>5, <3>1
  <2>4. QED
    BY <2>2, <2>3
<1>7. CASE handle_responses(c)
  <2>1. /\ client[c] = "wait" /\ conn[c].inbox # <<>> /\ UNCHANGED <<op, processed, server>>
    BY <1>7 DEF handle_responses, serverVars
  <2>2. conn[c].inbox \in Seq(Response) /\ Len(conn[c].inbox) \in 1..Len(conn[c].inbox) /\ conn[c] # NULL
    BY <1>2, <2>1 DEF Connection
  <2>3. PICK i \in 1..Len(conn[c].inbox) :
          \/ /\ conn[c].inbox[i].done /\ ClientExits(c, conn[c].inbox[i].rc)
             /\ conn' = [conn EXCEPT ![c] = [conn[c] EXCEPT !.inbox = <<>>, !.clientOpen = FALSE]]
          \/ /\ conn' = [conn EXCEPT ![c] = [conn[c] EXCEPT !.inbox = <<>>]]
             /\ UNCHANGED <<client, rc>>
    BY <1>7, <2>2 DEF handle_responses
  <2>4. /\ [conn[c] EXCEPT !.inbox = <<>>, !.clientOpen = FALSE].inbox = <<>>
        /\ [conn[c] EXCEPT !.inbox = <<>>].inbox = <<>>
    BY <1>2, <2>1 DEF Connection
  <2>5. \A d \in Clients : NoNews(d)
    BY <1>1, <2>3, <2>4 DEF NoNews
  <2>6. QED
    BY <1>1, <2>1, <2>2, <2>3, <2>5 DEF ClientExits
<1>8. CASE ClientReadsEnd(c) \/ ClientTimesOut(c)
  <2>1. /\ client[c] \in {"write", "wait"} /\ Hangup(c) /\ UNCHANGED <<files, serverVars, processed>>
        /\ ClientExits(c, IPC_BAD_RESPONSE)
    BY <1>8 DEF ClientReadsEnd, ClientTimesOut
  <2>2. QED
    BY <1>5, <2>1
<1>9. CASE ClientKilled(c)
  <2>1. client[c] \in {"write", "wait"} /\ Hangup(c) /\ UNCHANGED <<files, serverVars, processed>> /\ ClientExits(c, NULL)
    BY <1>9 DEF ClientKilled
  <2>2. QED
    BY <1>5, <2>1
<1>10. QED
  BY <1>3, <1>4, <1>6, <1>7, <1>8, <1>9 DEF ClientSteps, ClientReads

(* Inboxes without news keep what is known of the responses.               *)
LEMMA NoNewsDone ==
    ASSUME RInv, NEW c \in Clients, NoNews(c), conn'[c] # NULL,
           \A t \in Servers : op'[t] # NULL /\ op'[t].client = c => op[t] # NULL /\ op[t].client = c,
           NEW i \in 1..Len(conn'[c].inbox)
    PROVE  /\ conn'[c].inbox[i].rc \in {EXIT_SUCCESS, IPC_ERROR, IPC_REQUEST_IN_PROGRESS}
           /\ conn'[c].inbox[i].done => \A t \in Servers : op'[t] # NULL => op'[t].client # c
<1>1. conn[c] # NULL /\ conn'[c].inbox = conn[c].inbox
  BY DEF NoNews
<1>2. QED
  BY <1>1 DEF RInv, DoneInv

(* Every step keeps what the refinement needs.                             *)
LEMMA RefinementNext ==
    ASSUME RInv, "bad" \notin Kinds, [Next]_vars
    PROVE  RInv'
<1>1. OneServer' /\ IInv'
  BY OneServerNext, NextInv DEF RInv, IInv, TypeOK
<1>2. /\ OneServer /\ IInv /\ OperationServed /\ DoneInv /\ LivingInv
      /\ conn \in [Clients -> Connection \cup {NULL}]
  BY DEF RInv, IInv, TypeOK
<1>3. SUFFICES OperationServed' /\ DoneInv' /\ LivingInv'
  BY <1>1 DEF RInv
<1>4. ASSUME SameOperations, UNCHANGED <<rc, client>>, \A c \in Clients : NoNews(c),
             \A t \in Servers : server[t] \in Serving => server'[t] \in Serving
      PROVE  OperationServed' /\ DoneInv' /\ LivingInv'
  <2>1. OperationServed' /\ LivingInv'
    BY <1>2, <1>4 DEF SameOperations, OperationServed, LivingInv
  <2>2. \A c \in Clients, t \in Servers : op'[t] # NULL /\ op'[t].client = c => op[t] # NULL /\ op[t].client = c
    BY <1>4 DEF SameOperations
  <2>3. DoneInv'
    BY <1>4, <2>2, NoNewsDone DEF DoneInv
  <2>4. QED
    BY <2>1, <2>3
<1>5. ASSUME NEW s \in Servers, handle_ipc_in_progress(s)
      PROVE  OperationServed' /\ DoneInv' /\ LivingInv'
  <2>1. /\ SameOperations /\ UNCHANGED <<processed, rc, client>>
        /\ \A t \in Servers : server[t] \in Serving => server'[t] \in Serving
    BY <1>5, InProgressDoes
  <2>2. PICK c \in Clients \ processed :
          /\ \A d \in Clients \ {c} : NoNews(d)
          /\ \A i \in 1..Len(conn'[c].inbox) : conn'[c].inbox[i].rc = IPC_REQUEST_IN_PROGRESS
    BY <1>5, InProgressDoes
  <2>3. OperationServed' /\ LivingInv'
    BY <1>2, <2>1 DEF SameOperations, OperationServed, LivingInv
  <2>4. \A d \in Clients, t \in Servers : op'[t] # NULL /\ op'[t].client = d => op[t] # NULL /\ op[t].client = d
    BY <2>1 DEF SameOperations
  <2>5. \A t \in Servers : op'[t] # NULL => op'[t].client # c
    BY <1>2, <2>2, <2>4 DEF IInv, OperationInv
  <2>6. DoneInv'
    BY <2>2, <2>4, <2>5, NoNewsDone DEF DoneInv
  <2>7. QED
    BY <2>3, <2>6
<1>6. ASSUME NEW s \in Servers, receive_ipc_request(s)
      PROVE  OperationServed' /\ DoneInv' /\ LivingInv'
  <2>1. PICK c \in Clients \ processed, done \in BOOLEAN :
             /\ op[s] = NULL /\ server[s] \in Serving
             /\ rc[c] # IPC_REQUEST_IN_PROGRESS
             /\ processed' = processed \cup {c} /\ UNCHANGED <<rc, client>>
             /\ done => op' = op
             /\ ~done => op'[s] # NULL /\ op'[s].client = c /\ \A t \in Servers \ {s} : op'[t] = op[t]
             /\ \A d \in Clients \ {c} : NoNews(d)
             /\ \A i \in 1..Len(conn'[c].inbox) : /\ conn'[c].inbox[i].rc \in {EXIT_SUCCESS, IPC_ERROR}
                                                  /\ conn'[c].inbox[i].done = done
             /\ \A t \in Servers : server[t] \in Serving => server'[t] \in Serving
    BY <1>6, ReceiveDoes
  <2>2. OperationServed' /\ LivingInv'
    BY <1>2, <2>1 DEF OperationServed, LivingInv
  <2>3. \A d \in Clients \ {c}, t \in Servers : op'[t] # NULL /\ op'[t].client = d => op[t] # NULL /\ op[t].client = d
    BY <2>1
  <2>4. done => \A t \in Servers : op'[t] # NULL => op'[t].client # c
    BY <1>2, <2>1 DEF IInv, OperationInv
  <2>5. DoneInv'
    BY <2>1, <2>3, <2>4, NoNewsDone DEF DoneInv
  <2>6. QED
    BY <2>2, <2>5
<1>7. ASSUME NEW s \in Servers, ActAndNotify(s)
      PROVE  OperationServed' /\ DoneInv' /\ LivingInv'
  <2>1. PICK c \in Clients, done \in BOOLEAN, r \in Response :
             /\ op[s] # NULL /\ op[s].client = c /\ UNCHANGED <<processed, rc, client>>
             /\ r.rc \in {EXIT_SUCCESS, IPC_ERROR} /\ r.done = done
             /\ done => op'[s] = NULL /\ \A t \in Servers \ {s} : op'[t] = op[t]
             /\ ~done => SameOperations
             /\ \A d \in Clients \ {c} : NoNews(d)
             /\ conn[c] \in Connection /\ conn'[c].inbox \in {conn[c].inbox, Append(conn[c].inbox, r)}
             /\ \A t \in Servers : server[t] \in Serving => server'[t] \in Serving
    BY <1>7, NotifyDoes
  <2>2. OperationServed' /\ LivingInv'
    BY <1>2, <2>1 DEF OperationServed, LivingInv, SameOperations
  <2>3. \A d \in Clients, t \in Servers : op'[t] # NULL /\ op'[t].client = d => op[t] # NULL /\ op[t].client = d
    BY <2>1 DEF SameOperations
  <2>4. done => \A t \in Servers : op'[t] # NULL => op'[t].client # c
    BY <1>2, <2>1, OneOperation
  <2>5. conn[c].inbox \in Seq(Response) /\ conn[c] # NULL
    BY <2>1, NullAssumption DEF Connection
  <2>6. \A i \in 1..Len(conn'[c].inbox) :
          conn'[c].inbox[i] = r \/ (i \in 1..Len(conn[c].inbox) /\ conn'[c].inbox[i] = conn[c].inbox[i])
    <3>1. CASE conn'[c].inbox = conn[c].inbox
      BY <3>1
    <3>2. CASE conn'[c].inbox = Append(conn[c].inbox, r)
      BY <2>5, <3>2
    <3>3. QED
      BY <2>1, <3>1, <3>2
  <2>7. \A i \in 1..Len(conn[c].inbox) :
          /\ conn[c].inbox[i].rc \in {EXIT_SUCCESS, IPC_ERROR, IPC_REQUEST_IN_PROGRESS} /\ ~conn[c].inbox[i].done
    BY <1>2, <2>1, <2>5 DEF DoneInv
  <2>8. \A i \in 1..Len(conn'[c].inbox) :
          /\ conn'[c].inbox[i].rc \in {EXIT_SUCCESS, IPC_ERROR, IPC_REQUEST_IN_PROGRESS}
          /\ conn'[c].inbox[i].done => done
    BY <2>1, <2>6, <2>7
  <2>9. DoneInv'
    BY <2>1, <2>3, <2>4, <2>8, NoNewsDone DEF DoneInv
  <2>10. QED
    BY <2>2, <2>9
<1>8. ASSUME NEW s \in Servers, ServerEnds(s)
      PROVE  OperationServed' /\ DoneInv' /\ LivingInv'
  <2>1. /\ op'[s] = NULL /\ \A t \in Servers \ {s} : op'[t] = op[t]
        /\ UNCHANGED <<processed, rc, client>>
        /\ \A c \in Clients : NoNews(c)
        /\ \A t \in Servers \ {s} : server'[t] = server[t]
    BY <1>8, EndsDoes
  <2>2. OperationServed' /\ LivingInv'
    BY <1>2, <2>1 DEF OperationServed, LivingInv
  <2>3. \A d \in Clients, t \in Servers : op'[t] # NULL /\ op'[t].client = d => op[t] # NULL /\ op[t].client = d
    BY <2>1
  <2>4. DoneInv'
    BY <2>1, <2>3, NoNewsDone DEF DoneInv
  <2>5. QED
    BY <2>2, <2>4
<1>9. ASSUME NEW c \in Clients, ClientSteps(c)
      PROVE  OperationServed' /\ DoneInv' /\ LivingInv'
  <2>1. /\ UNCHANGED <<op, server>> /\ \A d \in Clients : NoNews(d)
        /\ \A d \in Clients \ {c} : client'[d] = client[d]
        /\ client[c] # "end"
        /\ rc' = rc \/ (client'[c] = "end" /\ \E r : rc' = [rc EXCEPT ![c] = r])
    BY <1>9, ClientDoes
  <2>2. rc \in [Clients -> Int \cup {NULL}]
    BY <1>2 DEF IInv, TypeOK
  <2>3. OperationServed' /\ LivingInv'
    BY <1>2, <2>1, <2>2 DEF OperationServed, LivingInv
  <2>4. DoneInv'
    BY <2>1, NoNewsDone DEF DoneInv
  <2>5. QED
    BY <2>3, <2>4
<1>10. CASE UNCHANGED vars
  BY <1>4, <1>10 DEF vars, serverVars, clientVars, SameOperations, NoNews
<1>11. ASSUME NEW s \in Servers,
             \/ pid_file_open(s) \/ pid_file_lock(s) \/ pid_file_truncate(s) \/ pid_file_write(s)
             \/ create_socket_server_bind(s) \/ create_socket_server_listen(s) \/ socket_accept(s)
             \/ OtherEvent(s) \/ ActNoOperation(s) \/ PidReused(s) \/ ReceiveFails(s)
       PROVE  OperationServed' /\ DoneInv' /\ LivingInv'
  BY <1>4, <1>11, QuietDoes
<1>12. QED
  BY <1>5, <1>6, <1>7, <1>8, <1>9, <1>10, <1>11 DEF Next, ServerSteps

(* Every step of the processes is a step of Requests or none.              *)
LEMMA StepIsRequests ==
    ASSUME RInv, RInv', "bad" \notin Kinds, [Next]_vars
    PROVE  [Abstract!Next]_(Abstract!vars)
<1> DEFINE now == InProgress(op)
           then == InProgress(op')
<1>1. /\ \A s \in Servers : op[s] # NULL => now = op[s].client
      /\ (\A s \in Servers : op[s] = NULL) => now = NULL
  <2>1. \A s, t \in Servers : op[s] # NULL /\ op[t] # NULL => s = t
    BY OneOperation DEF RInv
  <2>2. QED
    BY <2>1, InProgressIs
<1>2. /\ \A s \in Servers : op'[s] # NULL => then = op'[s].client
      /\ (\A s \in Servers : op'[s] = NULL) => then = NULL
  <2>1. \A s, t \in Servers : op'[s] # NULL /\ op'[t] # NULL => s = t
    <3>1. /\ \A s \in Servers : op'[s] # NULL => server'[s] \in Serving
          /\ \A s \in Servers : server'[s] \in Stages \ {"off", "open", "dead"} => lock' = s
      BY DEF RInv, OneServer, OperationServed
    <3>2. QED
      BY <3>1 DEF Serving, Stages
  <2>2. QED
    BY <2>1, InProgressIs
<1>3. \A s \in Servers : op[s] # NULL => op[s].client \in Clients /\ op[s].client # NULL
  <2>1. \A s \in Servers : op[s] # NULL => op[s] \in Operation
    BY DEF RInv, IInv, TypeOK
  <2>2. QED
    BY <2>1, SessionAssumption DEF Operation
<1> HIDE DEF now, then
<1>4. ASSUME SameOperations, UNCHANGED <<processed, rc>>
      PROVE  UNCHANGED Abstract!vars
  <2>1. then = now
    BY <1>1, <1>2, <1>4 DEF SameOperations
  <2>2. QED
    BY <1>4, <2>1 DEF Abstract!vars, now, then
<1>5. ASSUME NEW s \in Servers, op'[s] = NULL, \A t \in Servers \ {s} : op'[t] = op[t], UNCHANGED <<processed, rc>>
      PROVE  [Abstract!Next]_(Abstract!vars)
  <2>1. CASE op[s] = NULL
    <3>1. SameOperations
      BY <1>5, <2>1 DEF SameOperations
    <3>2. QED
      BY <1>4, <1>5, <3>1
  <2>2. CASE op[s] # NULL
    <3>1. \A t \in Servers : op'[t] = NULL
      BY <1>5, <2>2, OneOperation DEF RInv
    <3>2. then = NULL /\ now # NULL
      BY <1>1, <1>2, <1>3, <2>2, <3>1
    <3>3. Abstract!Finish
      BY <1>5, <3>2 DEF Abstract!Finish, now, then
    <3>4. QED
      BY <3>3 DEF Abstract!Next
  <2>3. QED
    BY <2>1, <2>2
<1>6. ASSUME NEW s \in Servers, receive_ipc_request(s)
      PROVE  [Abstract!Next]_(Abstract!vars)
  <2>1. PICK c \in Clients \ processed, done \in BOOLEAN :
             /\ op[s] = NULL /\ server[s] \in Serving
             /\ rc[c] # IPC_REQUEST_IN_PROGRESS
             /\ processed' = processed \cup {c} /\ UNCHANGED <<rc, client>>
             /\ done => op' = op
             /\ ~done => op'[s] # NULL /\ op'[s].client = c /\ \A t \in Servers \ {s} : op'[t] = op[t]
             /\ \A d \in Clients \ {c} : NoNews(d)
             /\ \A i \in 1..Len(conn'[c].inbox) : /\ conn'[c].inbox[i].rc \in {EXIT_SUCCESS, IPC_ERROR}
                                                  /\ conn'[c].inbox[i].done = done
             /\ \A t \in Servers : server[t] \in Serving => server'[t] \in Serving
    BY <1>6, ReceiveDoes
  <2>2. \A t \in Servers : op[t] = NULL
    <3>1. ASSUME NEW t \in Servers, op[t] # NULL
          PROVE  FALSE
      <4>1. server[t] \in Serving /\ server[s] \in Serving
        BY <2>1, <3>1 DEF RInv, OperationServed
      <4>2. lock = t /\ lock = s
        BY <4>1 DEF RInv, OneServer, Serving, Stages
      <4>3. QED
        BY <2>1, <3>1, <4>2
    <3>2. QED
      BY <3>1
  <2>3. now = NULL
    BY <1>1, <2>2
  <2>4. then \in {NULL, c}
    <3>1. CASE done
      BY <1>2, <2>1, <2>2, <3>1
    <3>2. CASE ~done
      BY <1>2, <2>1, <3>2
    <3>3. QED
      BY <3>1, <3>2
  <2>5. Abstract!Take(c)
    BY <2>1, <2>3, <2>4 DEF Abstract!Take, Abstract!IPC_REQUEST_IN_PROGRESS, IPC_REQUEST_IN_PROGRESS, now, then
  <2>6. QED
    BY <2>5 DEF Abstract!Next
<1>7. ASSUME NEW s \in Servers, ActAndNotify(s)
      PROVE  [Abstract!Next]_(Abstract!vars)
  <2>1. /\ UNCHANGED <<processed, rc>>
        /\ \/ SameOperations
           \/ op'[s] = NULL /\ \A t \in Servers \ {s} : op'[t] = op[t]
    BY <1>7, NotifyDoes
  <2>2. QED
    BY <1>4, <1>5, <2>1
<1>8. ASSUME NEW s \in Servers, ServerEnds(s)
      PROVE  [Abstract!Next]_(Abstract!vars)
  BY <1>5, <1>8, EndsDoes
<1>9. ASSUME NEW c \in Clients, ClientSteps(c)
      PROVE  [Abstract!Next]_(Abstract!vars)
  <2>1. UNCHANGED <<op, processed>> /\ SameOperations /\ client[c] # "end"
    BY <1>9, ClientDoes DEF SameOperations
  <2>2. then = now /\ rc[c] = NULL /\ rc \in [Clients -> Int \cup {NULL}]
    BY <1>1, <1>2, <2>1 DEF RInv, LivingInv, IInv, TypeOK, now, then
  <2>3. CASE rc' = rc
    BY <1>4, <2>1, <2>3
  <2>4. ASSUME NEW r \in {NULL, EXIT_FAILURE, IPC_BAD_RESPONSE}, rc' = [rc EXCEPT ![c] = r]
        PROVE  [Abstract!Next]_(Abstract!vars)
    <3>1. CASE r = NULL
      <4>1. rc' = rc
        BY <2>2, <2>4, <3>1
      <4>2. QED
        BY <1>4, <2>1, <4>1
    <3>2. CASE r # NULL
      <4>1. r \in {1, 12}
        BY <2>4, <3>2 DEF EXIT_FAILURE, IPC_BAD_RESPONSE
      <4>2. Abstract!Tell(c, r) /\ r \in Abstract!Statuses
        BY <2>1, <2>2, <2>4, <4>1
           DEF Abstract!Tell, Abstract!Statuses, Abstract!Outcomes, Abstract!EXIT_SUCCESS, Abstract!EXIT_FAILURE,
               Abstract!IPC_ERROR, Abstract!IPC_BAD_RESPONSE, Abstract!IPC_REQUEST_IN_PROGRESS, now, then
      <4>3. QED
        BY <4>2 DEF Abstract!Next
    <3>3. QED
      BY <3>1, <3>2
  <2>5. ASSUME conn[c] # NULL, NEW i \in 1..Len(conn[c].inbox), conn[c].inbox[i].done,
               rc' = [rc EXCEPT ![c] = conn[c].inbox[i].rc]
        PROVE  [Abstract!Next]_(Abstract!vars)
    <3> DEFINE r == conn[c].inbox[i].rc
    <3>1. r \in {EXIT_SUCCESS, IPC_ERROR, IPC_REQUEST_IN_PROGRESS} /\ \A s \in Servers : op[s] # NULL => op[s].client # c
      BY <2>5 DEF RInv, DoneInv
    <3>2. Agrees(r, c)
      BY <2>5 DEF RInv, IInv, InboxInv
    <3>3. now # c
      <4>1. c # NULL
        BY SessionAssumption
      <4>2. QED
        BY <1>1, <3>1, <4>1
    <3> HIDE DEF r
    <3>4. /\ r \in {0, 2, 13}
          /\ r = 13 => c \notin processed
          /\ r \in {0, 2} => c \in processed
          /\ rc' = [rc EXCEPT ![c] = r]
      BY <2>5, <3>1, <3>2 DEF Agrees, EXIT_SUCCESS, IPC_ERROR, IPC_REQUEST_IN_PROGRESS, r
    <3>5. Abstract!Tell(c, r) /\ r \in Abstract!Statuses
      BY <2>1, <2>2, <3>3, <3>4
         DEF Abstract!Tell, Abstract!Statuses, Abstract!Outcomes, Abstract!EXIT_SUCCESS, Abstract!EXIT_FAILURE,
             Abstract!IPC_ERROR, Abstract!IPC_BAD_RESPONSE, Abstract!IPC_REQUEST_IN_PROGRESS, now, then
    <3>6. QED
      BY <3>5 DEF Abstract!Next
  <2>6. QED
    BY <1>9, <2>3, <2>4, <2>5, ClientDoes
<1>10. CASE UNCHANGED vars
  BY <1>4, <1>10 DEF vars, serverVars, clientVars, SameOperations
<1>11. ASSUME NEW s \in Servers, handle_ipc_in_progress(s)
       PROVE  UNCHANGED Abstract!vars
  BY <1>4, <1>11, InProgressDoes
<1>12. ASSUME NEW s \in Servers,
             \/ pid_file_open(s) \/ pid_file_lock(s) \/ pid_file_truncate(s) \/ pid_file_write(s)
             \/ create_socket_server_bind(s) \/ create_socket_server_listen(s) \/ socket_accept(s)
             \/ OtherEvent(s) \/ ActNoOperation(s) \/ PidReused(s) \/ ReceiveFails(s)
       PROVE  UNCHANGED Abstract!vars
  BY <1>4, <1>12, QuietDoes
<1>13. QED
  BY <1>6, <1>7, <1>8, <1>9, <1>10, <1>11, <1>12 DEF Next, ServerSteps

(* The processes implement Requests: where every request can be read, the  *)
(* requests of any number of clients are taken one at a time by any number *)
(* of servers that race, crash and start again, each at most once, and a   *)
(* client hears an outcome only of a request that was taken and is no      *)
(* longer worked at (pid_file_create, receive_ipc_request,                 *)
(* notify_ipc_operation, handle_responses).                                *)
THEOREM SessionImplementsRequests == "bad" \notin Kinds => (Spec => IsRequests)
<1> SUFFICES ASSUME "bad" \notin Kinds PROVE Spec => Abstract!Spec
  BY DEF IsRequests
<1>1. RInv /\ [Next]_vars => RInv'
  BY RefinementNext
<1>2. Init => Abstract!Init
  <2> SUFFICES ASSUME Init PROVE Abstract!Init
    OBVIOUS
  <2>1. InProgress(op) = NULL
    BY DEF Init, InProgress
  <2>2. QED
    BY <2>1 DEF Init, Abstract!Init
<1>3. RInv /\ RInv' /\ [Next]_vars => [Abstract!Next]_(Abstract!vars)
  BY StepIsRequests
<1>4. QED
  BY RefinementInit, <1>1, <1>2, <1>3, PTL DEF Spec, Abstract!Spec
=============================================================================
