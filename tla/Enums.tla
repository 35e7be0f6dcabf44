-------------------------------- MODULE Enums --------------------------------
(***************************************************************************)
(* src/src/enum.c: the tables of names and the look up of a value by name, *)
(* of a value by the start of a name, and of a name by value.  A value is  *)
(* named by its first name; NULL is the value 0, no value, and no name.    *)
(* Letter case is left out: every word is the upper case one.              *)
(***************************************************************************)
EXTENDS Integers, Sequences

CONSTANTS NULL,
          Starts   \* pairs <<word, name>>: the word is a start of the name

(* A table of the names that stand for themselves. *)
Own(names) == [i \in DOMAIN names |-> <<names[i], names[i]>>]

cfg_elements == Own(<<"ARRANGE", "ALIGN", "ORDER", "SCALING", "AUTO_SCALE", "SCALE", "SCALE_ROUND_TO",
                      "SCALE_ROUND_STRATEGY", "MODE", "VRR_OFF", "CALLBACK_CMD", "LAPTOP_DISPLAY_PREFIX",
                      "LAPTOP_LID_MONITOR", "TRANSFORM", "LOG_THRESHOLD", "DISABLED", "PLUGGED", "UNPLUGGED",
                      "ARRANGE_ALIGN", "AUTO_SCALE_DPI", "AUTO_SCALE_MIN", "AUTO_SCALE_MAX">>)
arranges == Own(<<"ROW", "COLUMN">>)
aligns == Own(<<"TOP", "MIDDLE", "BOTTOM", "LEFT", "RIGHT">>)
on_offs == <<<<"ON", "ON">>, <<"OFF", "OFF">>, <<"TRUE", "ON">>, <<"FALSE", "OFF">>, <<"YES", "ON">>, <<"NO", "OFF">>>>
ipc_commands == Own(<<"GET", "LIST", "REAPPLY", "CFG_SET", "CFG_DEL", "CFG_WRITE", "CFG_TOGGLE">>)
transforms == Own(<<"90", "180", "270", "FLIPPED", "FLIPPED-90", "FLIPPED-180", "FLIPPED-270">>)
log_thresholds == Own(<<"DEBUG", "INFO", "WARNING", "ERROR", "FATAL">>)
condition_lids == Own(<<"OPEN", "CLOSED", "NOT_PRESENT">>)
scale_round_strategies == Own(<<"NEAREST", "UP", "DOWN">>)

(* The first row that fits, or NULL. *)
FirstRow(table, fits) ==
  IF fits = {} THEN <<NULL, NULL>> ELSE table[CHOOSE i \in fits : \A j \in fits : i <= j]

Val(table, name) == FirstRow(table, {i \in DOMAIN table : table[i][1] = name})[2]

ValStart(table, name) ==
  FirstRow(table, {i \in DOMAIN table : table[i][1] = name \/ <<name, table[i][1]>> \in Starts})[2]

Name(table, val) == FirstRow(table, {i \in DOMAIN table : table[i][2] = val})[1]

(* The order of log_thresholds, 0 for none. *)
Level(threshold) ==
  IF threshold = NULL THEN 0
  ELSE CHOOSE i \in DOMAIN log_thresholds : log_thresholds[i][2] = threshold

(* SCALE_ROUND_TO in units of 1/Unit: 1 over it, truncated, if that is     *)
(* 8, 4, 2 or 1.                                                           *)
Unit == 100000

scale_round_to_val(scale_round_to) ==
  IF scale_round_to > 0 /\ Unit \div scale_round_to \in {8, 4, 2, 1} THEN Unit \div scale_round_to ELSE 0

=============================================================================
