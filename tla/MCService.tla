------------------------------ MODULE MCService ------------------------------
(***************************************************************************)
(* Two outputs, one of them there at the start; files with and without lid *)
(* monitoring, thresholds above and below the default, and compositors     *)
(* that announce the managers in either order, late, or not at all.        *)
(***************************************************************************)
EXTENDS Service

CONSTANTS o1, o2

Settings(monitor, threshold, dir) ==
    [laptop_lid_monitor |-> monitor, log_threshold |-> threshold, dir |-> dir, callback_cmd |-> threshold # INFO]

MCStartCfgs == {Settings(TRUE, INFO, TRUE), Settings(FALSE, ERROR, TRUE), Settings(TRUE, DEBUG, FALSE)}

Zwlr(old) == [type |-> "zwlr", output |-> NULL, old |-> old]
Zxdg == [type |-> "zxdg", output |-> NULL, old |-> FALSE]

MCGreetings == {<<Zxdg, Zwlr(FALSE), Global(o1)>>, <<Global(o1), Zxdg, Zwlr(FALSE)>>,
                <<Global(o1), Zwlr(FALSE)>>, <<Zxdg, Global(o1), Zwlr(TRUE)>>, <<Zxdg, Global(o1)>>}
=============================================================================
