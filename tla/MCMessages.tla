----------------------------- MODULE MCMessages -----------------------------
(***************************************************************************)
(* Command lines, files and server states for Messages: every command and  *)
(* element, arguments too few and too many, words that are no numbers,     *)
(* names that are no regular expressions, and files of both versions with  *)
(* good and bad entries.                                                   *)
(***************************************************************************)
EXTENDS Messages

MCStarts == {<<"COL", "COLUMN">>, <<"MID", "MIDDLE">>}
MCAnchored == [eDP |-> "!^eDP"]

N(n) == Number(n)
H == Unit \div 100       \* a hundredth
W(text) == Word(text)

Opt(opt) == Option(opt, NULL, "-option")
With(opt, optarg) == Option(opt, optarg, "-option")
S(element) == With("s", element)
D(element) == With("d", element)
T(element) == With("t", element)

MCArgvs == {
  <<>>, <<Opt("h")>>, <<Opt("v"), Opt("l")>>, <<Opt("x")>>, <<Opt("l")>>, <<Opt("l"), W("A")>>, <<W("A"), Opt("l")>>,
  <<Opt("y"), Opt("g")>>, <<Opt("g"), Opt("y")>>, <<With("L", "ERROR"), Opt("g")>>, <<With("L", "DEBUG"), Opt("r")>>,
  <<With("L", "LOUD"), Opt("g")>>, <<With("c", "path"), Opt("w")>>, <<Opt("y"), With("L", "ERROR"), Opt("r")>>,
  <<Opt("y"), D("SCALE"), W("A")>>,
  <<S("ARRANGE_ALIGN"), W("COL"), W("MID")>>, <<S("ARRANGE_ALIGN"), W("ROW"), W("A")>>, <<S("ARRANGE_ALIGN"), W("ROW")>>,
  <<S("ORDER"), W("B"), W("A"), W("B")>>, <<S("ORDER"), W("A"), Opt("y")>>, <<S("ORDER")>>,
  <<S("SCALING"), W("NO")>>, <<S("SCALING"), W("A")>>, <<S("AUTO_SCALE"), W("YES")>>, <<S("AUTO_SCALE"), W("A")>>,
  <<S("SCALE"), W("A"), N(175 * H)>>, <<S("SCALE"), W("A"), N(3)>>, <<S("SCALE"), W("A"), W("B")>>,
  <<S("MODE"), W("A"), W("MAX")>>, <<S("MODE"), W("A"), N(19 * Unit)>>, <<S("MODE"), W("A"), N(19 * Unit), N(10 * Unit)>>,
  <<S("MODE"), W("A"), N(19 * Unit), N(10 * Unit), N(5994 * H)>>, <<S("MODE"), W("A"), N(19 * Unit), N(10 * Unit), W("B")>>,
  <<S("TRANSFORM"), W("A"), W("FLIPPED-90")>>, <<S("TRANSFORM"), W("A"), W("B")>>,
  <<S("DISABLED"), W("A")>>, <<S("DISABLED"), W("![")>>, <<S("VRR_OFF"), W("A")>>, <<S("VRR_OFF"), W("A"), W("B")>>,
  <<S("CALLBACK_CMD"), W("command")>>, <<S("NOTHING"), W("A")>>, <<S("LOG_THRESHOLD"), W("ERROR")>>,
  <<D("MODE"), W("A")>>, <<D("TRANSFORM"), W("B")>>, <<D("DISABLED"), W("A")>>, <<D("CALLBACK_CMD")>>, <<D("ORDER"), W("A")>>,
  <<T("SCALING")>>, <<T("AUTO_SCALE")>>, <<T("DISABLED"), W("A")>>, <<T("VRR_OFF")>>, <<T("SCALE")>> }

-----------------------------------------------------------------------------
Pair(key, node) == <<W(key), node>>
Map1(key, node) == Mapping(<<Pair(key, node)>>)
Size(w, h) == <<Pair("WIDTH", N(w * Unit)), Pair("HEIGHT", N(h * Unit))>>
If(conditions) == Map1("IF", List(conditions))
Lid(word) == Map1("LID", W(word))

Plugged == Mapping(<<Pair("PLUGGED", List(<<W("A"), W("B"), W("A")>>)), Pair("UNPLUGGED", List(<<W("B")>>))>>)

Full == Mapping(<<
  Pair("ARRANGE", W("COL")), Pair("ALIGN", W("RIGHT")), Pair("ORDER", List(<<W("B"), W("A"), W("B")>>)), Pair("SCALING", W("NO")),
  Pair("AUTO_SCALE", W("FALSE")), Pair("SCALE_ROUND_TO", N(Unit \div 4)), Pair("SCALE_ROUND_STRATEGY", W("UP")),
  Pair("AUTO_SCALE_DPI", N(144 * Unit)), Pair("AUTO_SCALE_MIN", N(150 * H)), Pair("AUTO_SCALE_MAX", N(3 * Unit)),
  Pair("SCALE", Mapping(<<Pair("A", N(175 * H)), Pair("B", N(2 * Unit))>>)),
  Pair("MODE", Mapping(<<Pair("A", Mapping(Size(19, 10) \o <<Pair("HZ", N(5994 * H))>>)),
                         Pair("B", Mapping(Size(19, 10) \o <<Pair("MAX", W("YES"))>>))>>)),
  Pair("TRANSFORM", Map1("A", W("270"))), Pair("VRR_OFF", List(<<W("A")>>)), Pair("CALLBACK_CMD", W("")),
  Pair("LAPTOP_LID_MONITOR", W("OFF")), Pair("LOG_THRESHOLD", W("WARNING")),
  Pair("DISABLED", Mapping(<<Pair("A", Empty), Pair("B", If(<<Lid("OPEN"), Plugged>>))>>)) >>)

(* Lids are conditions of their own in whatever else there is. *)
LidEntry(name) == Pair(name, If(<<Lid("CLOSED")>>))
Named1(name, more) == Mapping(<<Pair("NAME_DESC", W(name))>> \o more)

V1 == Mapping(<<
  Pair("SCALE", List(<<Named1("A", <<Pair("SCALE", N(2 * Unit))>>), Named1("A", <<Pair("SCALE", N(3 * Unit))>>)>>)),
  Pair("MODE", List(<<Named1("B", Size(19, 10))>>)),
  Pair("TRANSFORM", List(<<Named1("A", <<Pair("TRANSFORM", W("90"))>>)>>)),
  Pair("DISABLED", List(<<W("A"), Named1("B", <<Pair("IF", List(<<Plugged>>))>>), Named1("B", <<Pair("IF", List(<<Plugged, Lid("OPEN")>>))>>), W("B")>>)) >>)

V1Plain == Mapping(<<
  Pair("SCALE", Map1("A", N(2 * Unit))), Pair("MODE", Map1("B", Mapping(Size(19, 10)))), Pair("TRANSFORM", Map1("A", W("90"))),
  Pair("DISABLED", Mapping(<<Pair("A", Empty), Pair("B", If(<<Plugged, Lid("OPEN")>>)), LidEntry("!^eDP-[0-9]")>>)) >>)

V1Prefix == Mapping(<<Pair("LAPTOP_DISPLAY_PREFIX", W("eDP")), Pair("ORDER", List(<<W("A")>>))>>)
V1PrefixPlain == Mapping(<<Pair("ORDER", List(<<W("A")>>)), Pair("DISABLED", Mapping(<<LidEntry("!^eDP")>>))>>)

(* Version 1 with an entry for the laptop display already. *)
V1Lid == Mapping(<<Pair("DISABLED", List(<<W("!^eDP-[0-9]")>>))>>)
V1LidPlain == Mapping(<<Pair("DISABLED", Map1("!^eDP-[0-9]", Empty))>>)

Bad == Mapping(<<
  Pair("ARRANGE", W("A")), Pair("ALIGN", List(<<>>)), Pair("ORDER", List(<<W("!["), W("A"), List(<<>>)>>)), Pair("SCALING", W("A")),
  Pair("NOTHING", W("A")), Pair("SCALE_ROUND_TO", N(Unit \div 3)), Pair("AUTO_SCALE_DPI", W("A")), Pair("AUTO_SCALE_MIN", W("A")),
  <<List(<<>>), W("A")>>,
  Pair("SCALE", Mapping(<<Pair("A", N(0)), Pair("![", N(Unit)), Pair("B", N(Unit)), Pair("B", N(2 * Unit))>>)),
  Pair("MODE", Mapping(<<Pair("A", Mapping(Size(19, 10) \o <<Pair("HZ", W("A"))>>)), Pair("B", W("MAX")),
                         Pair("C", Mapping(<<Pair("MAX", W("A"))>>))>>)),
  Pair("TRANSFORM", Mapping(<<Pair("A", W("45")), Pair("B", W("180"))>>)), Pair("VRR_OFF", W("A")), Pair("CALLBACK_CMD", List(<<>>)),
  Pair("LOG_THRESHOLD", W("A")), Pair("LAPTOP_LID_MONITOR", W("A")),
  Pair("DISABLED", Mapping(<<Pair("A", List(<<>>)), Pair("B", If(<<Lid("A"), Mapping(<<>>)>>)), Pair("![", Empty)>>)) >>)

BadPlain == Mapping(<<Pair("ORDER", List(<<W("A")>>)), Pair("SCALE", Map1("B", N(2 * Unit))), Pair("TRANSFORM", Map1("B", W("180"))),
                      Pair("DISABLED", Empty)>>)

V1Bad == Mapping(<<
  Pair("SCALE", List(<<W("A"), Named1("![", <<Pair("SCALE", N(Unit))>>), Named1("A", <<>>), Named1("B", <<Pair("SCALE", N(-Unit))>>)>>)),
  Pair("MODE", List(<<Mapping(Size(19, 10)), Named1("A", <<Pair("WIDTH", W("A"))>>)>>)),
  Pair("TRANSFORM", List(<<Named1("A", <<Pair("TRANSFORM", W("45"))>>)>>)),
  Pair("DISABLED", List(<<W("!["), List(<<>>), Mapping(<<>>)>>)) >>)

V1BadPlain == Map1("DISABLED", Mapping(<<LidEntry("!^eDP-[0-9]")>>))

MCPlainForm == {[file |-> V1, plain |-> V1Plain], [file |-> V1Prefix, plain |-> V1PrefixPlain], [file |-> V1Lid, plain |-> V1LidPlain],
                [file |-> Bad, plain |-> BadPlain], [file |-> V1Bad, plain |-> V1BadPlain]}

Files == {Full, Mapping(<<>>), W("A"), Map1("DISABLED", Empty), Map1("DISABLED", List(<<>>))} \cup {form.file : form \in MCPlainForm}

MCCases == {[argv |-> a, file |-> Full] : a \in MCArgvs}
           \cup {[argv |-> a, file |-> f] : a \in {<<Opt("g")>>, <<Opt("w")>>, <<Opt("r")>>}, f \in Files}

-----------------------------------------------------------------------------
M1 == [mode_init EXCEPT !.width = 19, !.height = 10, !.refresh_mhz = 59940]
M2 == [mode_init EXCEPT !.width = 19, !.height = 10, !.refresh_mhz = 60000]
M3 == [mode_init EXCEPT !.width = 25, !.height = 14, !.refresh_mhz = 143999]

State(enabled, x, transform, scale, mode) ==
  [enabled |-> enabled, x |-> x, y |-> -x, transform |-> transform, scale |-> scale, adaptive_sync |-> enabled, mode |-> mode]

HeadOf(name, cur, des, override) ==
  [name |-> name, width_mm |-> 300, modes |-> <<M1, M2>>, modes_failed |-> <<M3>>, mode_pref |-> M2,
   cur |-> cur, des |-> des, overrided_enabled |-> override]

Line(threshold) == [threshold |-> threshold, line |-> threshold]

MCWorlds == {
  [heads |-> <<>>, lid |-> NULL, lines |-> <<>>],
  [heads |-> <<HeadOf("A", State(TRUE, 0, NULL, 256, M1), State(FALSE, 12, "90", 341, M2), "NoOverride")>>,
   lid |-> NULL, lines |-> <<Line("DEBUG"), Line("INFO")>>],
  [heads |-> <<HeadOf("A", State(TRUE, 7, "FLIPPED", 448, M2), State(TRUE, -3, NULL, 299, NULL), "OverrideTrue"),
               HeadOf("B", HeadStateZero, State(TRUE, 1, "270", 1, M1), "OverrideFalse")>>,
   lid |-> [closed |-> TRUE, device_path |-> "device"], lines |-> <<Line("WARNING"), Line("INFO"), Line("WARNING")>>],
  [heads |-> <<>>, lid |-> [closed |-> FALSE, device_path |-> "device"], lines |-> <<Line("ERROR"), Line("WARNING")>>] }
=============================================================================
