----------------------------- MODULE MCCfgFile -----------------------------
(* CfgFile with two candidates, a laptop display and a monitor.            *)
EXTENDS CfgFile

CONSTANTS home, etc

MCCandidates == <<home, etc>>
MCNames == {"!^eDP", "eDP-1", "DP-1"}
MCClashes == {<<"!^eDP", "eDP-1">>}

Mode(w, h, hz, m, p) == [width |-> w, height |-> h, refresh_mhz |-> hz,
                         max |-> m, max_preferred_refresh |-> p]
DpMode(mode) == {[name |-> "DP-1", val |-> mode]}
Disable(name) == {[name |-> name, val |-> "always"]}

\* what a file of version 2 sets
File(cfg, disabled) == [cfg |-> cfg, disabled |-> disabled, v1 |-> NULL]

MCSaved ==
    {File([cfg_init EXCEPT !.arrange = "COL", !.auto_scale_dpi = 8], FALSE),
     File([cfg_init EXCEPT !.callback_cmd = "", !.modes = DpMode(Mode(-1, -1, -1, TRUE, TRUE))], TRUE),
     File([cfg_init EXCEPT !.align = "BOTTOM", !.modes = DpMode(Mode(1920, 0, -1, FALSE, FALSE)),
                           !.disableds = Disable("DP-1")], TRUE),
     [cfg |-> [cfg_init EXCEPT !.disableds = Disable("DP-1")], disabled |-> TRUE, v1 |-> "eDP-1"],
     Bad}

Req(command, cfg) == [command |-> command, cfg |-> cfg]

MCRequests ==
    {Req("CFG_SET", [cfg_init EXCEPT !.arrange = "COL", !.align = "RIGHT"]),
     Req("CFG_SET", [cfg_init EXCEPT !.arrange = "ROW"]),
     Req("CFG_SET", [cfg_init EXCEPT !.modes = DpMode(Mode(1920, -1, -1, FALSE, FALSE)),
                                     !.scales = {[name |-> "DP-1", val |-> 1]}]),
     Req("CFG_SET", [cfg_init EXCEPT !.callback_cmd = "command", !.order_name_desc = <<"DP-1", "eDP-1">>]),
     Req("CFG_SET", [cfg_init EXCEPT !.order_name_desc = <<"eDP-1", "DP-1">>]),
     Req("CFG_DEL", [cfg_init EXCEPT !.callback_cmd = ""]),
     Req("CFG_DEL", [cfg_init EXCEPT !.disableds = Disable("DP-1")]),
     Req("CFG_TOGGLE", [cfg_init EXCEPT !.disableds = Disable("eDP-1")]),
     Req("CFG_TOGGLE", [cfg_init EXCEPT !.scaling = "ON", !.adaptive_sync_off = {"DP-1"}]),
     Req("CFG_WRITE", cfg_init),
     Req("GET", cfg_init)}
=============================================================================
