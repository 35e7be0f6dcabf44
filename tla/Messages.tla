------------------------------ MODULE Messages ------------------------------
(***************************************************************************)
(* A client and the server talk (src/src/client.c, src/src/ipc.c): the     *)
(* command line becomes a request, the request YAML, the server reads it   *)
(* and answers once or more, and the client shows what it got.  The        *)
(* configuration of the server comes from its cfg.yaml.                    *)
(*                                                                         *)
(* What the server does about a request is modelled in CfgFile and Displ;  *)
(* here each answer carries any of Worlds: heads, lid and the lines logged *)
(* since the last answer.  An answer written before the last one was read  *)
(* joins it on the socket, where block sequences make one sequence.        *)
(***************************************************************************)
EXTENDS Args

CONSTANTS Cases,        \* [argv, file]: a command line and a cfg.yaml
          Worlds,       \* [heads, lid, lines]
          PlainForm,    \* for some files, one of version 2 without bad entries that says the same
          MaxAnswers

ASSUME MessagesAssumption == MaxAnswers \in Nat \ {0}

VARIABLES argv, file,
          cfg,        \* of the server, NULL before it is read
          cli,        \* what cli_parse left, NULL before
          wire,       \* the document that waits on the socket, or NULL
          request,    \* as the server received it, or NULL
          op,         \* ipc_operation, NULL before and after
          sent,       \* what was answered so far: [world, done] each
          shown,      \* what the client put out: lines and documents
          rc,         \* the client's exit status, NULL until it has one
          pc

vars == <<argv, file, cfg, cli, wire, request, op, sent, shown, rc, pc>>

IPC_SUCCESS == 0
IPC_WARN == 1
IPC_ERROR == 2
IPC_BAD_RESPONSE == 12
IPC_REQUEST_IN_PROGRESS == 13

load(document) == cfg_apply_defaults(OrElse(yaml_root_to_cfg(document), cfg_init))

Init ==
  /\ \E c \in Cases : argv = c.argv /\ file = c.file
  /\ cfg = NULL /\ cli = NULL /\ wire = NULL /\ request = NULL /\ op = NULL
  /\ sent = <<>> /\ shown = <<>> /\ rc = NULL
  /\ pc = "boot"

ServerLoads ==
  /\ pc = "boot"
  /\ pc' = "parse"
  /\ cfg' = load(file)
  /\ UNCHANGED <<argv, file, cli, wire, request, op, sent, shown, rc>>

(* Exits, starts a server, or goes on with a request. *)
CliParse ==
  /\ pc = "parse"
  /\ cli' = cli_parse(argv)
  /\ pc' = IF cli'.exit # NULL \/ cli'.ipc_request = NULL THEN "end" ELSE "send"
  /\ UNCHANGED <<argv, file, cfg, wire, request, op, sent, shown, rc>>

ipc_send_request ==
  /\ pc = "send"
  /\ pc' = "receive"
  /\ wire' = yaml_root_from_ipc_request(cli.ipc_request)
  /\ UNCHANGED <<argv, file, cfg, cli, request, op, sent, shown, rc>>

ipc_receive_request ==
  /\ pc = "receive"
  /\ pc' = "answer"
  /\ wire' = NULL
  /\ request' = yaml_root_to_ipc_request(wire)
  /\ op' = [request |-> request', done |-> FALSE, send_state |-> TRUE, rc |-> IPC_SUCCESS]
  /\ UNCHANGED <<argv, file, cfg, cli, sent, shown, rc>>

(* Another request is in progress: this one is read and turned away. *)
handle_ipc_in_progress ==
  /\ pc = "receive"
  /\ pc' = "answer"
  /\ request' = yaml_root_to_ipc_request(wire)
  /\ wire' = yaml_root_from_ipc_operation(
                [request |-> request', done |-> TRUE, send_state |-> FALSE, rc |-> IPC_REQUEST_IN_PROGRESS,
                 cfg |-> cfg, lid |-> NULL, heads |-> <<>>, log_cap_lines |-> <<>>])
  /\ sent' = <<[world |-> NULL, done |-> TRUE]>>
  /\ UNCHANGED <<argv, file, cfg, cli, op, shown, rc>>

\* Mutant: only the lines since the last answer count.
ipc_operation_update_rc_latest(was, lines) ==
  LET has(threshold) == \E i \in DOMAIN lines : lines[i].threshold = threshold
  IN  CASE has("ERROR") -> IPC_ERROR
        [] ~has("ERROR") /\ has("WARNING") -> IPC_WARN
        [] OTHER -> IPC_SUCCESS

(* The worst of what there was and what the lines since then say. *)
ipc_operation_update_rc(was, lines) ==
  LET has(threshold) == \E i \in DOMAIN lines : lines[i].threshold = threshold
  IN  CASE has("ERROR") /\ was < IPC_ERROR -> IPC_ERROR
        [] ~has("ERROR") /\ has("WARNING") /\ was < IPC_WARN -> IPC_WARN
        [] OTHER -> was

(* Requests that change displays may be answered again when they settled. *)
MayContinue == request.command \in {"CFG_SET", "CFG_DEL", "CFG_TOGGLE", "REAPPLY"} /\ Len(sent) + 1 < MaxAnswers

Joined(first, second) == IF first = NULL THEN second ELSE List(first.items \o second.items)

ipc_send_operation(world, done) ==
  /\ pc = "answer"
  /\ op # NULL
  /\ ~done => MayContinue
  /\ \E updated \in {ipc_operation_update_rc(op.rc, world.lines)} :
       /\ wire' = Joined(wire, yaml_root_from_ipc_operation(
                     [request |-> request, done |-> done, send_state |-> op.send_state, rc |-> updated,
                      cfg |-> cfg, lid |-> world.lid, heads |-> world.heads, log_cap_lines |-> world.lines]))
       /\ op' = IF done THEN NULL ELSE [op EXCEPT !.rc = updated]
  /\ sent' = Append(sent, [world |-> world, done |-> done])
  /\ file' = IF request.command = "CFG_WRITE" THEN yaml_root_from_cfg(cfg) ELSE file
  /\ UNCHANGED <<argv, cfg, cli, request, shown, rc, pc>>

(* The lines of a response, past the client's own threshold (default INFO). *)
log_cap_lines_playback(lines) ==
  SelectSeq(lines, LAMBDA l : Level(l.threshold) >= Level(OrElse(cli.threshold, "INFO")))

(* --yaml puts out the whole document, unless there was an error. *)
Output(response) ==
  IF cli.ipc_request.yaml /\ response.rc < IPC_ERROR THEN <<wire>> ELSE log_cap_lines_playback(response.log_cap_lines)

(* One turn of the loop of handle_responses.  Nothing to read is a read    *)
(* that timed out, or a server that went away.                             *)
handle_responses ==
  /\ pc = "answer"
  /\ \E responses \in {yaml_root_to_ipc_response_plist(wire)} :
       \/ /\ responses = NULL
          /\ rc' = IPC_BAD_RESPONSE
          /\ pc' = "end"
          /\ UNCHANGED shown
       \/ /\ responses # NULL
          /\ rc' = Last(responses).rc
          /\ shown' = shown \o FlattenSeq([i \in DOMAIN responses |-> Output(responses[i])])
          /\ pc' = IF Last(responses).done THEN "end" ELSE "answer"
  /\ wire' = NULL
  /\ UNCHANGED <<argv, file, cfg, cli, request, op, sent>>

Next ==
  \/ ServerLoads
  \/ CliParse
  \/ ipc_send_request
  \/ ipc_receive_request
  \/ handle_ipc_in_progress
  \/ \E world \in Worlds, done \in BOOLEAN : ipc_send_operation(world, done)
  \/ handle_responses
  \/ pc = "end" /\ UNCHANGED vars

Spec == Init /\ [][Next]_vars

-----------------------------------------------------------------------------
(* Properties.                                                             *)

(* What of a configuration YAML can carry: names that are no regular       *)
(* expressions and scales below a thousandth are lost, a mode is the one   *)
(* thing it is taken to say, and an empty DISABLED says so.                *)
Known(m) == SelectSeq(m, LAMBDA e : yaml_valid_name_desc(e.k))

Plainly(mode) ==
  CASE mode.max -> [mode_init EXCEPT !.max = TRUE]
    [] ~mode.max /\ mode.max_preferred_refresh -> [mode_init EXCEPT !.max_preferred_refresh = TRUE]
    [] OTHER -> mode

Carried(c) ==
  [c EXCEPT !.scales = SelectSeq(Known(@), LAMBDA e : e.v > 0),
            !.modes = [i \in DOMAIN Known(@) |-> [Known(@)[i] EXCEPT !.v = Plainly(@)]],
            !.transforms = Known(@),
            !.disableds = Known(@), !.disableds_empty = Known(c.disableds) = <<>>,
            !.order_name_desc = SelectSeq(@, yaml_valid_name_desc),
            !.adaptive_sync_off = SelectSeq(@, yaml_valid_name_desc)]

(* The server receives the request the command line made: written by       *)
(* yaml_root_from_ipc_request and read by yaml_root_to_ipc_request, every  *)
(* element keeps its value and none is made up.                            *)
RequestSurvives ==
  request # NULL =>
    request = [cli.ipc_request EXCEPT !.yaml = FALSE, !.cfg = IF @ = NULL THEN NULL ELSE Carried(@)]

(* A response read back has the heads, lid, configuration, lines and       *)
(* status of the operation it was written from, except for the overrides.  *)
NoOverrides(heads) == [i \in DOMAIN heads |-> [heads[i] EXCEPT !.overrided_enabled = "NoOverride"]]

(* The answers a batch of responses was made from: the last ones. *)
Answer(batch, i) == sent[Len(sent) - Len(batch) + i]

Survives(response, answer) ==
  /\ response.done = answer.done
  /\ \/ /\ answer.world = NULL
        /\ response.lid = NULL /\ response.heads = <<>> /\ response.cfg = NULL
     \/ /\ answer.world # NULL
        /\ response.lid = answer.world.lid
        /\ NoOverrides(response.heads) = NoOverrides(answer.world.heads)
        /\ response.cfg = Carried(cfg)

ResponseSurvives ==
  pc = "answer" /\ wire # NULL =>
    \A batch \in {yaml_root_to_ipc_response_plist(wire)} :
      batch # NULL /\ \A i \in DOMAIN batch : Survives(batch[i], Answer(batch, i))

(* ... and the overrides too (tst-yaml-unmarshal.c reads DISABLED: TRUE as *)
(* OverrideFalse).                                                         *)
OverrideSurvives ==
  pc = "answer" /\ wire # NULL =>
    \A batch \in {yaml_root_to_ipc_response_plist(wire)} : \A i \in DOMAIN batch : \A h \in DOMAIN batch[i].heads :
      batch[i].heads[h].overrided_enabled = Answer(batch, i).world.heads[h].overrided_enabled

(* A client that is done showed every line the server logged for it at or  *)
(* above its threshold, in order, however the answers met its reads, and   *)
(* exits with the worst of them; one that gave up showed the first of them.*)
Lines == FlattenSeq([i \in DOMAIN sent |-> IF sent[i].world = NULL THEN <<>> ELSE sent[i].world.lines])

Answered ==
  pc = "end" /\ rc # NULL =>
    CASE rc = IPC_BAD_RESPONSE -> ~cli.ipc_request.yaml => IsPrefix(shown, log_cap_lines_playback(Lines))
      [] rc = IPC_REQUEST_IN_PROGRESS -> Lines = <<>> /\ Len(sent) = 1
      [] OTHER -> /\ ~cli.ipc_request.yaml => shown = log_cap_lines_playback(Lines)
                  /\ rc = ipc_operation_update_rc(IPC_SUCCESS, Lines)

(* cfg.yaml written by the server says what the server has: reading it     *)
(* back changes nothing, nor does it need a migration again.               *)
WrittenReadsBack ==
  request # NULL /\ request.command = "CFG_WRITE" /\ sent # <<>> /\ Last(sent).world # NULL =>
    /\ load(file) = Carried(cfg)
    /\ ~IsV1(file)

(* A cfg.yaml of version 1 says what its form of version 2 says, with the  *)
(* lid condition its migration adds, and entries that cannot be read are   *)
(* as if they were not there.                                              *)
PlainSaysTheSame ==
  cfg # NULL => \A form \in PlainForm : form.file = file => cfg = load(form.plain)

=============================================================================
