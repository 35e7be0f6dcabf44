------------------------------ MODULE Requests ------------------------------
(***************************************************************************)
(* What clients may rely on, whichever server processes come and go: the   *)
(* requests of all clients are taken one at a time, each at most once, and *)
(* a client is told an outcome only of a request that was taken and is no  *)
(* longer worked at, and to be turned away only if its request never is    *)
(* taken.  Session, the processes with their pid file, socket and          *)
(* connections, implements this.                                           *)
(***************************************************************************)
EXTENDS Integers

CONSTANTS Clients, NULL

VARIABLES taken,    \* clients whose request was taken
          current,  \* the client whose displays are being settled, or NULL
          told      \* of each client, its exit status, NULL before

vars == <<taken, current, told>>

(* What a client may exit with: the statuses of the server's responses,    *)
(* and those that tell nothing of the request.                             *)
EXIT_SUCCESS == 0
EXIT_FAILURE == 1
IPC_ERROR == 2
IPC_BAD_RESPONSE == 12
IPC_REQUEST_IN_PROGRESS == 13
Outcomes == {EXIT_SUCCESS, IPC_ERROR}
Statuses == Outcomes \cup {EXIT_FAILURE, IPC_BAD_RESPONSE, IPC_REQUEST_IN_PROGRESS}

Init ==
    /\ taken = {}
    /\ current = NULL
    /\ told = [c \in Clients |-> NULL]

(* The request is done at once, or becomes the one in progress. *)
Take(c) ==
    /\ current = NULL
    /\ c \notin taken
    /\ told[c] # IPC_REQUEST_IN_PROGRESS
    /\ taken' = taken \cup {c}
    /\ current' \in {NULL, c}
    /\ UNCHANGED told

(* The displays settled, the client is gone, or the server ended. *)
Finish ==
    /\ current # NULL
    /\ current' = NULL
    /\ UNCHANGED <<taken, told>>

Tell(c, status) ==
    /\ told[c] = NULL
    /\ status \in Outcomes => c \in taken /\ c # current
    /\ status = IPC_REQUEST_IN_PROGRESS => c \notin taken
    /\ told' = [told EXCEPT ![c] = status]
    /\ UNCHANGED <<taken, current>>

Next ==
    \/ Finish
    \/ \E c \in Clients : Take(c) \/ \E status \in Statuses : Tell(c, status)

Spec == Init /\ [][Next]_vars
=============================================================================
