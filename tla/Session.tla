------------------------------ MODULE Session ------------------------------
(***************************************************************************)
(* Server processes that start, lock the pid file, listen, serve and die,  *)
(* and client processes that look for the server, connect, ask and wait:   *)
(* src/src/process.c, src/src/sockets.c, src/src/client.c, and of          *)
(* src/src/ipc.c and src/src/server.c who talks to whom.  What requests do *)
(* is left to Displ and CfgFile: a request is answered "now", or "later"   *)
(* when displays settled; "bad" is one yaml_root_to_ipc_request cannot     *)
(* read.                                                                   *)
(*                                                                         *)
(* A step is a system call, or a handler between two that may wait.  A     *)
(* server stands for its pid.  flock, the socket file, the queue of        *)
(* connections and what a close does are external (the kernel).  Nobody    *)
(* removes the pid file.                                                   *)
(***************************************************************************)
EXTENDS Integers, Sequences, FiniteSets

CONSTANTS Servers, Clients,
          Kinds,      \* of requests: a subset of {"now", "later", "bad"}
          NULL,
          MaxTurns    \* of a server's loop without a request, while one is in progress

ASSUME SessionAssumption ==
  /\ NULL \notin Servers \cup Clients
  /\ "" \notin Servers /\ {"stdin", "closed"} \cap Clients = {}
  /\ Kinds \subseteq {"now", "later", "bad"} /\ NULL \notin Kinds
  /\ MaxTurns \in Nat

VARIABLES pidfile,    \* its content: NULL is no file, "" an empty one
          lock,       \* who holds the flock, or NULL
          sock,       \* who bound the socket file, or NULL
          server,     \* how far each server is
          reused,     \* servers that died and whose pid another process has
          queue,      \* of each server, the connections not yet accepted
          reading,    \* of each server, the client whose request it waits for
          op,         \* of each server, ipc_operation: [client, rc], or NULL
          fd0,        \* of each server, what descriptor 0 is: "stdin", "closed" or a client
          turns,
          client,     \* how far each client is
          conn,       \* of each client, its connection, or NULL
          rc,         \* of each client, its exit status, NULL before
          processed   \* clients whose request g_cfg_process_ipc_request has seen

files == <<pidfile, lock, sock>>
serverVars == <<server, reused, queue, reading, op, fd0, turns>>
clientVars == <<client, conn, rc>>
vars == <<files, serverVars, clientVars, processed>>

EXIT_SUCCESS == 0
EXIT_FAILURE == 1
IPC_ERROR == 2
IPC_BAD_REQUEST == 11
IPC_BAD_RESPONSE == 12
IPC_REQUEST_IN_PROGRESS == 13

Stages == {"off", "open", "locked", "cleared", "written", "bound", "loop", "read", "act", "dead"}

(* A connection: what the client wrote, the responses it has not read, and *)
(* which ends are open.                                                    *)
Response == [rc : Int, done : BOOLEAN]
Connection == [server : Servers, request : Kinds \cup {NULL}, inbox : Seq(Response),
               serverOpen : BOOLEAN, clientOpen : BOOLEAN]
Operation == [client : Clients, rc : Int]

ASSUME NullAssumption == NULL \notin Int \cup Connection \cup Operation

TypeOK ==
  /\ pidfile \in Servers \cup {NULL, ""}
  /\ lock \in Servers \cup {NULL} /\ sock \in Servers \cup {NULL}
  /\ server \in [Servers -> Stages]
  /\ reused \subseteq Servers
  /\ queue \in [Servers -> Seq(Clients)]
  /\ reading \in [Servers -> Clients \cup {NULL}]
  /\ op \in [Servers -> Operation \cup {NULL}]
  /\ fd0 \in [Servers -> Clients \cup {"stdin", "closed"}]
  /\ turns \in Nat
  /\ client \in [Clients -> {"start", "connect", "write", "wait", "end"}]
  /\ conn \in [Clients -> Connection \cup {NULL}]
  /\ rc \in [Clients -> Int \cup {NULL}]
  /\ processed \subseteq Clients

Init ==
  /\ pidfile = NULL /\ lock = NULL /\ sock = NULL
  /\ server = [s \in Servers |-> "off"] /\ reused = {}
  /\ queue = [s \in Servers |-> <<>>]
  /\ reading = [s \in Servers |-> NULL]
  /\ op = [s \in Servers |-> NULL]
  /\ fd0 = [s \in Servers |-> "stdin"]
  /\ turns = 0
  /\ client = [c \in Clients |-> "start"]
  /\ conn = [c \in Clients |-> NULL]
  /\ rc = [c \in Clients |-> NULL]
  /\ processed = {}

Alive(s) == server[s] \notin {"off", "dead"}
Goes(s, from, to) == server[s] = from /\ server' = [server EXCEPT ![s] = to]

-----------------------------------------------------------------------------
(* pid_file_create.                                                        *)

(* The file as it is, or a new one. *)
pid_file_open(s) ==
  /\ Goes(s, "off", "open")
  /\ pidfile' = IF pidfile = NULL THEN "" ELSE pidfile
  /\ UNCHANGED <<lock, sock, reused, queue, reading, op, fd0, turns, clientVars, processed>>

\* Mutant: an empty pid file, or one of a dead server, is taken for free.
pid_file_lock_stale(s) ==
  /\ server[s] = "open"
  /\ \/ /\ lock = NULL \/ pidfile = "" \/ (pidfile \in Servers /\ server[pidfile] = "dead")
        /\ lock' = s
        /\ server' = [server EXCEPT ![s] = "locked"]
     \/ /\ lock # NULL /\ pidfile # ""
        /\ server' = [server EXCEPT ![s] = "dead"]
        /\ UNCHANGED lock
  /\ UNCHANGED <<pidfile, sock, reused, queue, reading, op, fd0, turns, clientVars, processed>>

(* flock with LOCK_NB; the other's pid is only read to say who it is. *)
pid_file_lock(s) ==
  /\ server[s] = "open"
  /\ \/ /\ lock = NULL
        /\ lock' = s
        /\ server' = [server EXCEPT ![s] = "locked"]
     \/ /\ lock # NULL
        /\ server' = [server EXCEPT ![s] = "dead"]
        /\ UNCHANGED lock
  /\ UNCHANGED <<pidfile, sock, reused, queue, reading, op, fd0, turns, clientVars, processed>>

pid_file_truncate(s) ==
  /\ Goes(s, "locked", "cleared")
  /\ pidfile' = ""
  /\ UNCHANGED <<lock, sock, reused, queue, reading, op, fd0, turns, clientVars, processed>>

pid_file_write(s) ==
  /\ Goes(s, "cleared", "written")
  /\ pidfile' = s
  /\ UNCHANGED <<lock, sock, reused, queue, reading, op, fd0, turns, clientVars, processed>>

-----------------------------------------------------------------------------
(* create_socket_server: unlink and bind, then listen.                     *)

create_socket_server_bind(s) ==
  /\ Goes(s, "written", "bound")
  /\ sock' = s
  /\ UNCHANGED <<pidfile, lock, reused, queue, reading, op, fd0, turns, clientVars, processed>>

create_socket_server_listen(s) ==
  /\ Goes(s, "bound", "loop")
  /\ UNCHANGED <<files, reused, queue, reading, op, fd0, turns, clientVars, processed>>

(* The process ends: by a signal, with the display, or by a crash.         *)
ServerEnds(s) ==
  /\ Alive(s)
  /\ server' = [server EXCEPT ![s] = "dead"]
  /\ lock' = IF lock = s THEN NULL ELSE lock
  /\ conn' = [c \in Clients |-> IF conn[c] # NULL /\ conn[c].server = s THEN [conn[c] EXCEPT !.serverOpen = FALSE] ELSE conn[c]]
  /\ queue' = [queue EXCEPT ![s] = <<>>]
  /\ reading' = [reading EXCEPT ![s] = NULL]
  /\ op' = [op EXCEPT ![s] = NULL]
  /\ UNCHANGED <<pidfile, sock, reused, fd0, turns, client, rc, processed>>

(* Some other process gets the pid of a dead server. *)
PidReused(s) ==
  /\ server[s] = "dead"
  /\ s \notin reused
  /\ reused' = reused \cup {s}
  /\ UNCHANGED <<files, server, queue, reading, op, fd0, turns, clientVars, processed>>

-----------------------------------------------------------------------------
(* The client.                                                             *)

ClientExits(c, status) ==
  /\ client' = [client EXCEPT ![c] = "end"]
  /\ rc' = [rc EXCEPT ![c] = status]

Hangup(c) == conn' = [conn EXCEPT ![c] = IF conn[c] = NULL THEN NULL ELSE [conn[c] EXCEPT !.clientOpen = FALSE]]

(* kill(pid, 0) of the pid in the file. *)
pid_active_server == pidfile \in Servers /\ (Alive(pidfile) \/ pidfile \in reused)

ClientLooks(c) ==
  /\ client[c] = "start"
  /\ \/ /\ pid_active_server
        /\ client' = [client EXCEPT ![c] = "connect"]
        /\ UNCHANGED rc
     \/ /\ ~pid_active_server
        /\ ClientExits(c, EXIT_FAILURE)
  /\ UNCHANGED <<files, serverVars, conn, processed>>

Listening == {s \in Servers : server[s] \in {"loop", "read", "act"}}

create_socket_client(c) ==
  /\ client[c] = "connect"
  /\ \/ /\ sock \in Listening
        /\ conn' = [conn EXCEPT ![c] = [server |-> sock, request |-> NULL, inbox |-> <<>>,
                                        serverOpen |-> TRUE, clientOpen |-> TRUE]]
        /\ queue' = [queue EXCEPT ![sock] = Append(queue[sock], c)]
        /\ client' = [client EXCEPT ![c] = "write"]
        /\ UNCHANGED rc
     \/ /\ sock \notin Listening
        /\ ClientExits(c, EXIT_FAILURE)
        /\ UNCHANGED <<conn, queue>>
  /\ UNCHANGED <<files, server, reused, reading, op, fd0, turns, processed>>

(* A connection the server gave up on ends the client, by SIGPIPE. *)
ipc_send_request(c, kind) ==
  /\ client[c] = "write"
  /\ \/ /\ conn[c].serverOpen
        /\ conn' = [conn EXCEPT ![c] = [conn[c] EXCEPT !.request = kind]]
        /\ client' = [client EXCEPT ![c] = "wait"]
        /\ UNCHANGED rc
     \/ /\ ~conn[c].serverOpen
        /\ ClientExits(c, NULL)
        /\ Hangup(c)
  /\ UNCHANGED <<files, serverVars, processed>>

(* All that is there is read at once; the last response counts. *)
handle_responses(c) ==
  /\ client[c] = "wait"
  /\ conn[c].inbox # <<>>
  /\ \E response \in {conn[c].inbox[Len(conn[c].inbox)]} :
       \/ /\ response.done
          /\ ClientExits(c, response.rc)
          /\ conn' = [conn EXCEPT ![c] = [conn[c] EXCEPT !.inbox = <<>>, !.clientOpen = FALSE]]
       \/ /\ ~response.done
          /\ conn' = [conn EXCEPT ![c] = [conn[c] EXCEPT !.inbox = <<>>]]
          /\ UNCHANGED <<client, rc>>
  /\ UNCHANGED <<files, serverVars, processed>>

(* End of file, when the server closed the connection. *)
ClientReadsEnd(c) ==
  /\ client[c] = "wait"
  /\ conn[c].inbox = <<>>
  /\ ~conn[c].serverOpen
  /\ ClientExits(c, IPC_BAD_RESPONSE)
  /\ Hangup(c)
  /\ UNCHANGED <<files, serverVars, processed>>

(* CLIENT_TIMEOUT_SEC without a response. *)
ClientTimesOut(c) ==
  /\ client[c] = "wait"
  /\ conn[c].inbox = <<>>
  /\ conn[c].serverOpen
  /\ ClientExits(c, IPC_BAD_RESPONSE)
  /\ Hangup(c)
  /\ UNCHANGED <<files, serverVars, processed>>

(* The user stops the client. *)
ClientKilled(c) ==
  /\ client[c] \in {"write", "wait"}
  /\ ClientExits(c, NULL)
  /\ Hangup(c)
  /\ UNCHANGED <<files, serverVars, processed>>

-----------------------------------------------------------------------------
(* The server's loop.                                                      *)

Worse(a, b) == IF a < b THEN b ELSE a

(* The connections after a response to the client and maybe a close; a     *)
(* client that hung up gets none.                                          *)
Answered(conns, c, response, close) ==
  [conns EXCEPT ![c] = [conns[c] EXCEPT !.inbox = IF conns[c].clientOpen THEN Append(conns[c].inbox, response) ELSE conns[c].inbox,
                                        !.serverOpen = conns[c].serverOpen /\ ~close]]

(* accept: descriptor 0 is taken again where it was closed.  The server    *)
(* waits for what the client writes.                                       *)
socket_accept(s) ==
  /\ Goes(s, "loop", "read")
  /\ queue[s] # <<>>
  /\ reading' = [reading EXCEPT ![s] = queue[s][1]]
  /\ queue' = [queue EXCEPT ![s] = Tail(queue[s])]
  /\ fd0' = IF fd0[s] = "closed" THEN [fd0 EXCEPT ![s] = queue[s][1]] ELSE fd0
  /\ UNCHANGED <<files, reused, op, turns, clientVars, processed>>

(* Where the responses to the request go: an unreadable request leaves     *)
(* descriptor 0, and the descriptor of its connection is lost.             *)
Target(s, c) == IF conn[c].request = "bad" THEN fd0[s] ELSE c

Closed(s, c) == IF fd0[s] = c THEN [fd0 EXCEPT ![s] = "closed"] ELSE fd0

(* The error of the parser is captured for the operation in progress.      *)
Blamed(s, c) ==
  IF op[s] = NULL THEN NULL
  ELSE IF conn[c].request = "bad" THEN [op[s] EXCEPT !.rc = Worse(op[s].rc, IPC_ERROR)] ELSE op[s]

\* Mutant: the connection is not closed.
handle_ipc_in_progress_open(s) ==
  /\ Goes(s, "read", "act")
  /\ op[s] # NULL
  /\ \E c \in {reading[s]} :
       /\ conn[c].request # NULL
       /\ conn' = IF Target(s, c) \in Clients
                  THEN Answered(conn, Target(s, c), [rc |-> IPC_REQUEST_IN_PROGRESS, done |-> TRUE], FALSE) ELSE conn
       /\ fd0' = Closed(s, Target(s, c))
       /\ op' = [op EXCEPT ![s] = Blamed(s, c)]
  /\ reading' = [reading EXCEPT ![s] = NULL]
  /\ UNCHANGED <<files, reused, queue, turns, client, rc, processed>>

\* Mutant: the request is processed all the same.
handle_ipc_in_progress_goes_on(s) ==
  /\ Goes(s, "read", "act")
  /\ op[s] # NULL
  /\ \E c \in {reading[s]} :
       /\ conn[c].request # NULL
       /\ conn' = IF Target(s, c) \in Clients
                  THEN Answered(conn, Target(s, c), [rc |-> IPC_REQUEST_IN_PROGRESS, done |-> TRUE], TRUE) ELSE conn
       /\ fd0' = Closed(s, Target(s, c))
       /\ op' = [op EXCEPT ![s] = Blamed(s, c)]
  /\ reading' = [reading EXCEPT ![s] = NULL]
  /\ processed' = processed \cup {reading[s]}
  /\ UNCHANGED <<files, reused, queue, turns, client, rc>>

(* A request while another one is in progress. *)
handle_ipc_in_progress(s) ==
  /\ Goes(s, "read", "act")
  /\ op[s] # NULL
  /\ \E c \in {reading[s]} :
       /\ conn[c].request # NULL
       /\ conn' = IF Target(s, c) \in Clients
                  THEN Answered(conn, Target(s, c), [rc |-> IPC_REQUEST_IN_PROGRESS, done |-> TRUE], TRUE) ELSE conn
       /\ fd0' = Closed(s, Target(s, c))
       /\ op' = [op EXCEPT ![s] = Blamed(s, c)]
  /\ reading' = [reading EXCEPT ![s] = NULL]
  /\ UNCHANGED <<files, reused, queue, turns, client, rc, processed>>

(* receive_ipc_request and its notify_ipc_operation: "now" is done, and so *)
(* is what cannot be sent.                                                 *)
receive_ipc_request(s) ==
  /\ Goes(s, "read", "act")
  /\ op[s] = NULL
  /\ \E c \in {reading[s]}, status \in {EXIT_SUCCESS, IPC_ERROR} :
       /\ conn[c].request # NULL
       /\ conn[c].request = "bad" => status = IPC_ERROR
       /\ \E done \in {conn[c].request # "later" \/ ~conn[c].clientOpen} :
            /\ conn' = IF Target(s, c) \in Clients
                       THEN Answered(conn, Target(s, c), [rc |-> status, done |-> done], done) ELSE conn
            /\ fd0' = IF done THEN Closed(s, Target(s, c)) ELSE fd0
            /\ op' = IF done THEN op ELSE [op EXCEPT ![s] = [client |-> c, rc |-> status]]
       /\ processed' = IF conn[c].request = "bad" THEN processed ELSE processed \cup {c}
  /\ reading' = [reading EXCEPT ![s] = NULL]
  /\ turns' = 0
  /\ UNCHANGED <<files, reused, queue, client, rc>>

\* Mutant: the server waits for the client without a timeout.
ReceiveFails_patient(s) ==
  /\ Goes(s, "read", "act")
  /\ \E c \in {reading[s]} :
       /\ conn[c].request = NULL
       /\ ~conn[c].clientOpen
       /\ conn' = [conn EXCEPT ![c] = [conn[c] EXCEPT !.serverOpen = FALSE]]
       /\ fd0' = Closed(s, c)
  /\ op' = [op EXCEPT ![s] = IF op[s] = NULL THEN NULL ELSE [op[s] EXCEPT !.rc = Worse(op[s].rc, IPC_ERROR)]]
  /\ reading' = [reading EXCEPT ![s] = NULL]
  /\ UNCHANGED <<files, reused, queue, turns, client, rc, processed>>

(* Nothing came within SERVER_TIMEOUT_SEC, or the client is gone: the      *)
(* error is captured for the operation in progress.                        *)
ReceiveFails(s) ==
  /\ Goes(s, "read", "act")
  /\ \E c \in {reading[s]} :
       /\ conn[c].request = NULL
       /\ conn' = [conn EXCEPT ![c] = [conn[c] EXCEPT !.serverOpen = FALSE]]
       /\ fd0' = Closed(s, c)
  /\ op' = [op EXCEPT ![s] = IF op[s] = NULL THEN NULL ELSE [op[s] EXCEPT !.rc = Worse(op[s].rc, IPC_ERROR)]]
  /\ reading' = [reading EXCEPT ![s] = NULL]
  /\ UNCHANGED <<files, reused, queue, turns, client, rc, processed>>

(* Another event wakes the loop while an operation is in progress. *)
OtherEvent(s) ==
  /\ Goes(s, "loop", "act")
  /\ op[s] # NULL
  /\ UNCHANGED <<files, reused, queue, reading, op, fd0, turns, clientVars, processed>>

(* act and the notify_ipc_operation after it: done when displays settled,  *)
(* or when the client hung up.                                             *)
ActNoOperation(s) ==
  /\ Goes(s, "act", "loop")
  /\ op[s] = NULL
  /\ UNCHANGED <<files, reused, queue, reading, op, fd0, turns, clientVars, processed>>

\* Mutant: the response says done though the operation goes on.
ActAndNotify_done(s) ==
  /\ Goes(s, "act", "loop")
  /\ op[s] # NULL
  /\ \E c \in {op[s].client}, settled \in BOOLEAN, logged \in {EXIT_SUCCESS, IPC_ERROR} :
       /\ turns = MaxTurns => settled
       /\ \E done \in {settled \/ ~conn[c].clientOpen}, status \in {Worse(op[s].rc, logged)} :
            /\ conn' = Answered(conn, c, [rc |-> status, done |-> TRUE], done)
            /\ fd0' = IF done THEN Closed(s, c) ELSE fd0
            /\ op' = [op EXCEPT ![s] = IF done THEN NULL ELSE [op[s] EXCEPT !.rc = status]]
            /\ turns' = IF done THEN 0 ELSE turns + 1
  /\ UNCHANGED <<files, reused, queue, reading, client, rc, processed>>

ActAndNotify(s) ==
  /\ Goes(s, "act", "loop")
  /\ op[s] # NULL
  /\ \E c \in {op[s].client}, settled \in BOOLEAN, logged \in {EXIT_SUCCESS, IPC_ERROR} :
       /\ turns = MaxTurns => settled
       /\ \E done \in {settled \/ ~conn[c].clientOpen}, status \in {Worse(op[s].rc, logged)} :
            /\ conn' = Answered(conn, c, [rc |-> status, done |-> done], done)
            /\ fd0' = IF done THEN Closed(s, c) ELSE fd0
            /\ op' = [op EXCEPT ![s] = IF done THEN NULL ELSE [op[s] EXCEPT !.rc = status]]
            /\ turns' = IF done THEN 0 ELSE turns + 1
  /\ UNCHANGED <<files, reused, queue, reading, client, rc, processed>>

-----------------------------------------------------------------------------
ServerSteps(s) ==
  \/ pid_file_open(s) \/ pid_file_lock(s) \/ pid_file_truncate(s) \/ pid_file_write(s)
  \/ create_socket_server_bind(s) \/ create_socket_server_listen(s)
  \/ socket_accept(s) \/ receive_ipc_request(s) \/ handle_ipc_in_progress(s) \/ ReceiveFails(s)
  \/ OtherEvent(s) \/ ActNoOperation(s) \/ ActAndNotify(s)

ClientReads(c) == handle_responses(c) \/ ClientReadsEnd(c)

ClientSteps(c) ==
  \/ ClientLooks(c)
  \/ create_socket_client(c)
  \/ \E kind \in Kinds : ipc_send_request(c, kind)
  \/ ClientReads(c) \/ ClientTimesOut(c) \/ ClientKilled(c)

Next ==
  \/ \E s \in Servers : ServerSteps(s) \/ ServerEnds(s) \/ PidReused(s)
  \/ \E c \in Clients : ClientSteps(c)

(* A server that started goes on, past every wait for a client by the      *)
(* timeout of the socket, and clients read what is there.  That clients    *)
(* start, write in time or are patient is not assumed, and no one is       *)
(* required to start or end.                                               *)
Fairness ==
  /\ \A s \in Servers : WF_vars(Alive(s) /\ ServerSteps(s))
  /\ \A c \in Clients : WF_vars(ClientReads(c))

Spec == Init /\ [][Next]_vars /\ Fairness

-----------------------------------------------------------------------------
(* Properties.                                                             *)

(* Two servers that start at once, or one that starts while another one    *)
(* ends, race for the pid file.  Only one of them gets past flock, and the *)
(* pid file and the socket a client finds are the ones of the server that  *)
(* serves (pid_file_create, create_socket_server).                         *)
OneServer ==
  \A s \in Servers :
    /\ server[s] \in Stages \ {"off", "open", "dead"} => lock = s
    /\ server[s] \in Stages \ {"off", "open", "dead", "locked", "cleared"} => pidfile = s
    /\ server[s] \in {"bound", "loop", "read", "act"} => sock = s

(* The exit status tells what became of the request: turned away is not    *)
(* processed, and success or an error is of a request that was processed.  *)
(* (1 is both IPC_WARN and EXIT_FAILURE, and 12 tells nothing.)            *)
StatusTellsTruth ==
  \A c \in Clients :
    /\ rc[c] = IPC_REQUEST_IN_PROGRESS => c \notin processed
    /\ rc[c] \in {EXIT_SUCCESS, IPC_ERROR} => c \in processed

(* The server keeps no connection open that it is done with: every one is  *)
(* queued, or read from, or has the operation in progress.                 *)
InHand(c, s) ==
  \/ \E i \in DOMAIN queue[s] : queue[s][i] = c
  \/ reading[s] = c
  \/ op[s] # NULL /\ op[s].client = c

NoLeak == \A c \in Clients : conn[c] # NULL /\ conn[c].serverOpen => InHand(c, conn[c].server)

(* A client that waits is answered, or finds the connection closed: it     *)
(* never needs its own timeout, whatever other clients do.                 *)
NobodyHangs == \A c \in Clients : client[c] = "wait" ~> client[c] = "end"

(* The client of the operation in progress, of whichever server.           *)
InProgress(ops) ==
  IF \E s \in Servers : ops[s] # NULL THEN ops[CHOOSE s \in Servers : ops[s] # NULL].client ELSE NULL

Abstract == INSTANCE Requests WITH taken <- processed, current <- InProgress(op), told <- rc

(* The processes implement Requests: no two requests are worked at at the  *)
(* same time, though servers race, crash and start again, no request is    *)
(* taken twice, and no client hears an outcome while its request is still  *)
(* worked at, though it reads late, times out or is killed.                *)
IsRequests == Abstract!Spec

(* A client whose request could not be read and that still waits has an    *)
(* IPC_BAD_REQUEST to read (ipc.h: "used by server on receipt of bad       *)
(* message").                                                              *)
BadIsTold ==
  \A c \in Clients :
    client[c] = "wait" /\ conn[c].request = "bad" /\ Alive(conn[c].server) /\ ~InHand(c, conn[c].server) =>
      \E i \in DOMAIN conn[c].inbox : conn[c].inbox[i].rc = IPC_BAD_REQUEST

=============================================================================
