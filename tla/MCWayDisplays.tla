--------------------------- MODULE MCWayDisplays ---------------------------
(***************************************************************************)
(* A laptop panel eDP with one mode, and an external display HDMI with two *)
(* or three.  A cfg picks the heads, what HDMI offers, the configurations  *)
(* and what the environment does.                                          *)
(***************************************************************************)
EXTENDS WayDisplays, TLC

CONSTANTS eDP, HDMI, e1, h1, h2, h3, s1, s2

MCModes == {e1, h1, h2, h3}

Size(w, h, mhz) == [width |-> w, height |-> h, refresh_mhz |-> mhz]
MCModeInfo == (e1 :> Size(2, 1, 60000)) @@ (h1 :> Size(3, 2, 60000))
           @@ (h2 :> Size(3, 2, 75000)) @@ (h3 :> Size(2, 2, 60000))

Offering(modes) == [h \in Heads |-> IF h = HDMI THEN modes ELSE <<e1>>]
OneMode == Offering(<<h1>>)
TwoModes == Offering(<<h1, h2>>)
ThreeModes == Offering(<<h1, h3, h2>>)

\* the panel prefers its mode; HDMI prefers none and is given its largest
MCPreferred == [h \in Heads |-> IF h = HDMI THEN NULL ELSE e1]

MCScales == {s1, s2}
MCRounded == [s \in MCScales |-> s2]

-----------------------------------------------------------------------------
Base == [disableds |-> {}, adaptive_sync_off |-> {},
         modes |-> [h \in Heads |-> NULL],
         scales |-> [h \in Heads |-> s1],
         order |-> [h \in Heads |-> IF h = HDMI THEN 1 ELSE 2],
         laptop_lid_monitor |-> TRUE]

VrrOff == [Base EXCEPT !.adaptive_sync_off = {{h} : h \in Heads}]

\* the panel is disabled while the lid is closed
LidClosed == [VrrOff EXCEPT !.disableds =
    {[name_desc |-> {eDP},
      conditions |-> {[plugged |-> {}, unplugged |-> {}, lid |-> "LID_CLOSED"]}]}]

\* the panel is disabled while HDMI is plugged in, and HDMI has a user mode
Docked == [VrrOff EXCEPT
    !.disableds = {[name_desc |-> {eDP},
                    conditions |-> {[plugged |-> {{HDMI}}, unplugged |-> {}, lid |-> "any"]}]},
    !.modes = [h \in Heads |-> IF h = HDMI
                 THEN [width |-> 3, height |-> 2, refresh_mhz |-> 60000,
                       max |-> FALSE, max_preferred_refresh |-> FALSE]
                 ELSE NULL],
    !.scales = [h \in Heads |-> s2]]

\* HDMI has a user mode, another scale, and adaptive sync on
UserMode == [Base EXCEPT !.modes = Docked.modes, !.scales = Docked.scales]

\* HDMI is disabled while the lid is open
LidOpen == [VrrOff EXCEPT !.disableds =
    {[name_desc |-> {HDMI},
      conditions |-> {[plugged |-> {}, unplugged |-> {}, lid |-> "LID_OPEN"]}]}]

CfgsBase == {Base}
CfgsVrrOff == {VrrOff}
CfgsLid == {LidClosed}
CfgsDocked == {Docked}
CfgsReload == {LidClosed, Docked}
CfgsVrr == {Base, VrrOff}
CfgsUser == {LidOpen, UserMode}
=============================================================================
