------------------------------ MODULE MCDesire ------------------------------
(***************************************************************************)
(* The loops of desire over numbers: either mode_max over every order of   *)
(* up to four modes (two refreshes of the largest size, a size with as     *)
(* many pixels, and a smaller one with the highest refresh), or the layout *)
(* of three displays over rounds with different configurations.            *)
(***************************************************************************)
EXTENDS ModeScan, Layout, TLC

CONSTANTS wide60, wide75, tall60, small90,
          eDP, DP, HDMI   \* displays; the physical size of HDMI is not known

MCModes == {wide60, wide75, tall60, small90}

Size(w, h, mhz) == [width |-> w, height |-> h, refresh_mhz |-> mhz]
MCModeInfo == (wide60 :> Size(4, 2, 60000)) @@ (wide75 :> Size(4, 2, 75000))
           @@ (tall60 :> Size(2, 4, 60000)) @@ (small90 :> Size(3, 2, 90000))

MCAnnounced ==
    UNION {{s \in [1..n -> MCModes] : \A j, k \in 1..n : s[j] = s[k] => j = k} : n \in 0..4}

-----------------------------------------------------------------------------
MCHeads == <<eDP, DP, HDMI>>

Screen(w, h, w_mm, h_mm) == [width |-> w, height |-> h, width_mm |-> w_mm, height_mm |-> h_mm]

\* 133 dpi, 51 dpi and not known; lengths that no scale but 1 divides
MCScreens == {(eDP :> Screen(47, 31, 9, 6)) @@ (DP :> Screen(23, 37, 11, 19)) @@ (HDMI :> Screen(29, 17, 0, 0))}

\* what an x86 processor makes of it
MCInfinite == -2147483647 - 1

Named(exact, regex, fuzzy) == [exact |-> exact, regex |-> regex, fuzzy |-> fuzzy]

Default == [arrange |-> "ROW", align |-> "TOP", order |-> <<>>, scaling |-> "ON", auto_scale |-> "ON",
            auto_scale_dpi |-> 0, auto_scale_min |-> 1000, auto_scale_max |-> -1000,
            scale_round_to |-> 0, scale_round_strategy |-> "NEAREST",
            scales |-> <<>>, transforms |-> <<[name_desc |-> Named({DP}, {}, {DP, HDMI}), val |-> 3]>>]

Placed == {[Default EXCEPT !.arrange = arr[1], !.align = arr[2]] :
              arr \in {<<"ROW", "MIDDLE">>, <<"ROW", "BOTTOM">>, <<"COL", "LEFT">>,
                       <<"COL", "MIDDLE">>, <<"COL", "RIGHT">>}}

UserScales(s) == <<[name_desc |-> Named({}, {eDP}, {}), val |-> s],
                   [name_desc |-> Named({}, {eDP, HDMI}, {}), val |-> 1333]>>

Rounding == {[Default EXCEPT !.scale_round_to = to, !.scale_round_strategy = how,
                             !.scales = UserScales(1666), !.align = "MIDDLE"] :
                to \in {1, 4, 8}, how \in {"NEAREST", "UP", "DOWN"}}

Ranges == {[Default EXCEPT !.auto_scale_min = m[1], !.auto_scale_max = m[2], !.auto_scale_dpi = m[3],
                           !.scale_round_strategy = m[4], !.arrange = "COL"] :
              m \in {<<1100, 1300, 0, "UP">>, <<1600, 2000, 72, "DOWN">>, <<1500, 1200, 0, "NEAREST">>,
                     <<500, 2000, 100, "DOWN">>, <<1000, 2000, 100, "DOWN">>,
                     <<0, 100, 15, "UP">>, <<0, 125, 100, "DOWN">>, <<1000, 1250, 100, "UP">>}}

\* names that match in several kinds, and a part of all names
Ordered == {[Default EXCEPT !.order = o] :
               o \in {<<Named({HDMI}, {}, {HDMI})>>,
                      <<Named({}, {eDP, DP, HDMI}, {}), Named({DP}, {}, {})>>,
                      <<Named({}, {}, {eDP, DP, HDMI}), Named({}, {HDMI}, {}), Named({eDP}, {}, {eDP, DP})>>,
                      <<Named({DP}, {}, {eDP, DP, HDMI}), Named({}, {}, {eDP})>>}}

Unscaled == {[Default EXCEPT !.scaling = "OFF"], [Default EXCEPT !.auto_scale = "OFF"],
             [Default EXCEPT !.scales = UserScales(50)], [Default EXCEPT !.scales = UserScales(0)],
             [Default EXCEPT !.scales = UserScales(250)]}

MCLayoutCfgs == Placed \cup Rounding \cup Ranges \cup Ordered \cup Unscaled

-----------------------------------------------------------------------------
NoScan == modes = <<>> /\ i = 1 /\ max = NULL

NoLayout ==
    /\ g_cfg = Default /\ screen \in Screens /\ enabled = {}
    /\ scale = Zero(0) /\ transform = Zero(0) /\ scaled = Zero([width |-> 0, height |-> 0])
    /\ pos = Zero([x |-> 0, y |-> 0]) /\ loop = Start("none")
    /\ candidates = <<>> /\ buckets = <<>> /\ sorted = <<>>
    /\ tallest = 0 /\ widest = 0 /\ edge = 0 /\ rounds = 0

MCInit == (ScanInit /\ NoLayout) \/ (NoScan /\ LayoutInit)

MCNext == (ScanNext /\ UNCHANGED layoutVars) \/ (LayoutNext /\ UNCHANGED scanVars)

MCSpec == MCInit /\ [][MCNext]_<<scanVars, layoutVars>>
=============================================================================
