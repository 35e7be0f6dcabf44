--------------------------------- MODULE Log ---------------------------------
(***************************************************************************)
(* src/src/log.c and the threshold of src/src/info/callback.c.  A line is  *)
(* its threshold and a number that tells it from the others; colours,      *)
(* prefixes, labels and the choice of stdout or stderr are left out.       *)
(*                                                                         *)
(* The state of the log is a record:                                       *)
(*   threshold, threshold_cli, suppressing   of active                     *)
(*   capturing    log_cap_lines_active                                     *)
(*   captured     what each list of captured lines holds                   *)
(*   printed      the output                                               *)
(***************************************************************************)
EXTENDS Integers, Sequences

CONSTANT CapLists   \* the lists lines may be captured in

DEBUG == 1
INFO == 2
WARNING == 3
ERROR == 4
FATAL == 5
LOG_THRESHOLD_DEFAULT == INFO

Line(n, threshold) == [n |-> n, threshold |-> threshold]

log_init == [threshold |-> LOG_THRESHOLD_DEFAULT, threshold_cli |-> FALSE, suppressing |-> FALSE,
             capturing |-> {}, captured |-> [c \in CapLists |-> <<>>], printed |-> <<>>]

print_line(log, line) ==
    IF line.threshold < log.threshold \/ log.suppressing THEN log
    ELSE [log EXCEPT !.printed = Append(log.printed, line)]

capture_line(log, line) ==
    [log EXCEPT !.captured = [c \in CapLists |-> IF c \in log.capturing THEN Append(log.captured[c], line)
                                                 ELSE log.captured[c]]]

(* Captured whatever the threshold. *)
log_line(log, line) == capture_line(print_line(log, line), line)

log_(log, threshold, n) == log_line(log, Line(n, threshold))
log_info(log, n) == log_line(log, Line(n, INFO))
log_warn(log, n) == log_line(log, Line(n, WARNING))

log_set_threshold(log, threshold, cli) ==
    IF threshold = 0 \/ (log.threshold_cli /\ ~cli) THEN log
    ELSE [log EXCEPT !.threshold = threshold, !.threshold_cli = cli]

log_suppress_start(log) == [log EXCEPT !.suppressing = TRUE]
log_suppress_stop(log) == [log EXCEPT !.suppressing = FALSE]

log_cap_lines_start(log, list) == [log EXCEPT !.capturing = log.capturing \cup {list}]
log_cap_lines_stop(log, list) == [log EXCEPT !.capturing = log.capturing \ {list}]

(* One turn of the loop: print_line of the line the iterator is at. *)
log_cap_lines_playback(log, list, it) == print_line(log, log.captured[list][it])

(* The callbacks that were executed, by level. *)
callback_with_cfg(calls, log, cfg, level) ==
    IF cfg.callback_cmd /\ level >= log.threshold THEN Append(calls, level) ELSE calls
=============================================================================
