------------------------------- MODULE Layout -------------------------------
(***************************************************************************)
(* The numbers of src/src/desire.c: the scale, the scaled size, the order  *)
(* and the position of every display, as the loops of desire compute them, *)
(* round after round (head.c: fixed and auto scale; mode.c: dpi).  Which   *)
(* displays are enabled and with which mode is decided elsewhere           *)
(* (HeadState, Mode): here it is an input of each round.                   *)
(*                                                                         *)
(* A wl_fixed_t is an integer in 1/256.  A double is a pair <<n, d>>, the  *)
(* number n/d.  SCALE, AUTO_SCALE_MIN and AUTO_SCALE_MAX are in 1/1000.  A *)
(* NAME_DESC is a record of the heads it matches exactly, as a regex and   *)
(* as a part of the name.                                                  *)
(***************************************************************************)
EXTENDS Integers, Sequences, FiniteSets

CONSTANTS Heads,      \* g_displ->heads in the order they arrived
          LayoutCfgs, \* the configurations a round may be run with
          Screens,    \* what the displays may be: mode and physical size of each
          MaxRounds,  \* bound on the rounds of desire
          INF_TO_INT32 \* what the build makes of an infinite double

SCALE_ROUND_TO_DEFAULT == 8
AUTO_SCALE_DPI_DEFAULT == 96

All == {Heads[k] : k \in DOMAIN Heads}

NameDesc == [exact : SUBSET All, regex : SUBSET All, fuzzy : SUBSET All]

(* What cfg_validate_fix and the readers of SCALE (yaml_map_into_scales),  *)
(* SCALE_ROUND_TO and AUTO_SCALE_DPI let through.                          *)
Valid(c) ==
    /\ c.scale_round_to \in {0, 1, 2, 4, 8}
    /\ c.auto_scale_dpi \in Nat /\ (c.auto_scale_dpi = 0 \/ c.auto_scale_dpi > SCALE_ROUND_TO_DEFAULT)
    /\ c.auto_scale_min \in Int /\ c.auto_scale_max \in Int
    /\ c.order \in Seq(NameDesc)
    /\ c.scales \in Seq([name_desc : NameDesc, val : Nat])
    /\ c.transforms \in Seq([name_desc : NameDesc, val : 0..7])

ASSUME LayoutAssumption ==
    /\ Heads \in Seq(All)
    /\ \A j, k \in DOMAIN Heads : Heads[j] = Heads[k] => j = k
    /\ MaxRounds \in Nat /\ INF_TO_INT32 \in Int
    /\ \A c \in LayoutCfgs : Valid(c)
    /\ Screens \subseteq [All -> [width : Nat \ {0}, height : Nat \ {0}, width_mm : Nat, height_mm : Nat]]

VARIABLES g_cfg, screen,
          enabled,     \* head->des.enabled, as desire_enabled and desire_mode leave it
          scale, transform, scaled, pos,   \* of head->des, and head->scaled
          loop,        \* where desire is: the loop it is in and its indexes
          candidates, buckets, sorted,     \* of desire_order
          tallest, widest, edge,           \* of desire_positions; edge is x or y
          rounds

inputs == <<g_cfg, screen, enabled>>
sizes == <<scale, transform, scaled>>
ordering == <<candidates, buckets, sorted>>
measures == <<tallest, widest, edge>>
layoutVars == <<inputs, sizes, pos, loop, ordering, measures, rounds>>

-----------------------------------------------------------------------------
(* Scales.                                                                 *)

RoundTo == IF g_cfg.scale_round_to # 0 THEN g_cfg.scale_round_to ELSE SCALE_ROUND_TO_DEFAULT
Dpi == IF g_cfg.auto_scale_dpi # 0 THEN g_cfg.auto_scale_dpi ELSE AUTO_SCALE_DPI_DEFAULT

Down(n, d) == n \div d
Up(n, d) == (n + d - 1) \div d
Nearest(n, d) == (2 * n + d) \div (2 * d)

(* The sum with a large double rounds a half to even. *)
wl_fixed_from_double(s) ==
    LET n == 256 * s[1]
        near == Nearest(n, s[2])
    IN  IF 2 * (n % s[2]) = s[2] /\ near % 2 = 1 THEN near - 1 ELSE near

head_get_fixed_scale(s) ==
    LET rounded(n, d) == CASE g_cfg.scale_round_strategy = "DOWN" -> Down(n, d)
                           [] g_cfg.scale_round_strategy = "UP" -> Up(n, d)
                           [] OTHER -> Nearest(n, d)
    IN  rounded(wl_fixed_from_double(s) * RoundTo, 256) * (256 \div RoundTo)

(* The mean of both directions; 0 when a physical size is not known. *)
mode_dpi(s) ==
    IF s.width_mm = 0 \/ s.height_mm = 0 THEN <<0, 1>>
    ELSE <<127 * (s.width * s.height_mm + s.height * s.width_mm), 10 * s.width_mm * s.height_mm>>

\* Mutant: a maximum below the minimum is not ignored.
ClampedMaxLast(dpi, least, most) ==
    IF most > 0 /\ dpi[1] > most * dpi[2] THEN <<most, 1>>
    ELSE IF dpi[1] < least * dpi[2] THEN <<least, 1>> ELSE dpi

Clamped(dpi, least, most) ==
    IF dpi[1] < least * dpi[2] THEN <<least, 1>>
    ELSE IF least <= most /\ dpi[1] > most * dpi[2] THEN <<most, 1>> ELSE dpi

(* min and max become whole steps of dpi, at least one. *)
head_auto_scale(s, min, max) ==
    LET dpi   == mode_dpi(s)
        step  == Dpi \div RoundTo
        least == step * Up(min * RoundTo, 1000)
        most  == step * (IF max < 0 THEN -Down(-max * RoundTo, 1000) ELSE Down(max * RoundTo, 1000))
        in    == Clamped(dpi, IF least < step THEN step ELSE least, most)
    IN  IF dpi[1] = 0 THEN head_get_fixed_scale(<<1, 1>>)
        ELSE head_get_fixed_scale(<<in[1], in[2] * Dpi>>)

head_matches_name_desc(h, name_desc) ==
    h \in name_desc.exact \cup name_desc.regex \cup name_desc.fuzzy

Matching(entries, h) == {k \in DOMAIN entries : head_matches_name_desc(h, entries[k].name_desc)}

(* simap_find: the value of the first entry that matches, or 0. *)
Found(entries, h) ==
    LET fits == Matching(entries, h)
    IN  IF fits = {} THEN 0 ELSE entries[CHOOSE k \in fits : \A j \in fits : k <= j].val

(* An entry of SCALE is found by its key; its value may be 0 thousandths. *)
desire_scale(h) ==
    IF g_cfg.scaling = "OFF" THEN head_get_fixed_scale(<<1, 1>>)
    ELSE IF Matching(g_cfg.scales, h) # {} THEN head_get_fixed_scale(<<Found(g_cfg.scales, h), 1000>>)
    ELSE IF g_cfg.auto_scale = "ON" THEN head_auto_scale(screen[h], g_cfg.auto_scale_min, g_cfg.auto_scale_max)
    ELSE head_get_fixed_scale(<<1, 1>>)

\* Mutant: the size is rounded to the nearest.
LengthNearest(length, f) == Nearest(length * RoundTo, f)

(* Wayland truncates when it calculates the size.  f is 0 for a display    *)
(* that was disabled with a scale that SCALE_ROUND_TO now has no step for. *)
Length(length, f) ==
    IF f = 0 THEN INF_TO_INT32 ELSE Down(length * RoundTo, f)

desired_scaled_length(s, length) == Length(length, Nearest(s * RoundTo, 256))

(* An odd transform is a turn by 90 or 270 degrees.  Nothing is computed   *)
(* for a scale of 0: the size of the last round stays.                     *)
desire_scaled_dimensions(h, s, t) ==
    IF s = 0 THEN scaled[h]
    ELSE LET turned == t % 2 = 1
         IN  [width  |-> desired_scaled_length(s, IF turned THEN screen[h].height ELSE screen[h].width),
              height |-> desired_scaled_length(s, IF turned THEN screen[h].width ELSE screen[h].height)]

-----------------------------------------------------------------------------
(* A round.  The desired state starts as the current one, which is what    *)
(* the last round asked for.                                               *)

Zero(v) == [h \in All |-> v]

Start(l) == [in |-> l, head |-> 1, kind |-> 1, cand |-> 1]

LayoutInit ==
    /\ g_cfg \in LayoutCfgs /\ screen \in Screens /\ enabled \in SUBSET All
    /\ scale = Zero(0) /\ transform = Zero(0) /\ scaled = Zero([width |-> 0, height |-> 0])
    /\ pos = Zero([x |-> 0, y |-> 0])
    /\ loop = Start("desire")
    /\ candidates = <<>> /\ buckets = <<>> /\ sorted = <<>>
    /\ tallest = 0 /\ widest = 0 /\ edge = 0
    /\ rounds = 1

(* The turn of a loop over the heads, and what follows the last turn. *)
Turn(l, next) ==
    /\ loop.in = l
    /\ loop.head <= Len(Heads)
    /\ loop' = IF loop.head < Len(Heads) THEN [loop EXCEPT !.head = @ + 1] ELSE Start(next)

(* A disabled head keeps its scale and transform and is measured too, by   *)
(* the mode it last had; one that was never on has no scale.               *)
DesireHead ==
    LET h == Heads[loop.head]
        s == IF h \in enabled THEN desire_scale(h) ELSE scale[h]
        t == IF h \in enabled THEN Found(g_cfg.transforms, h) ELSE transform[h]
    IN  /\ Turn("desire", "buckets")
        /\ scale' = [scale EXCEPT ![h] = s]
        /\ transform' = [transform EXCEPT ![h] = t]
        /\ scaled' = [scaled EXCEPT ![h] = desire_scaled_dimensions(h, s, t)]
        /\ UNCHANGED <<inputs, pos, ordering, measures, rounds>>

(* One bucket for each name of ORDER; all heads are candidates. *)
DesireOrder ==
    /\ loop.in = "buckets"
    /\ candidates' = Heads
    /\ buckets' = [k \in DOMAIN g_cfg.order |-> <<>>]
    /\ sorted' = <<>>
    /\ loop' = Start(IF g_cfg.order = <<>> THEN "sort" ELSE "fill")
    /\ UNCHANGED <<inputs, sizes, pos, measures, rounds>>

Kinds == <<"exact", "regex", "fuzzy">>

\* Mutant: the iterator moves on from the candidate it removed.
AfterRemovalNext(c) == c + 1

(* plist_it_remove steps back, so that the next candidate is not missed. *)
AfterRemoval(c) == c

WithoutAt(s, k) == SubSeq(s, 1, k - 1) \o SubSeq(s, k + 1, Len(s))

Matches(h, b, kind) == h \in g_cfg.order[b][Kinds[kind]]

(* The next candidate: it is moved to the bucket if it matches. *)
fill_order_bucket ==
    LET b == loop.head
        c == loop.cand
        h == candidates[c]
    IN  /\ loop.in = "fill" /\ c <= Len(candidates)
        /\ IF Matches(h, b, loop.kind)
           THEN /\ buckets' = [buckets EXCEPT ![b] = Append(@, h)]
                /\ candidates' = WithoutAt(candidates, c)
                /\ loop' = [loop EXCEPT !.cand = AfterRemoval(c)]
           ELSE /\ loop' = [loop EXCEPT !.cand = c + 1]
                /\ UNCHANGED <<candidates, buckets>>
        /\ UNCHANGED <<inputs, sizes, pos, sorted, measures, rounds>>

(* All buckets are filled with one kind before the next kind is tried. *)
fill_order_buckets ==
    /\ loop.in = "fill" /\ loop.cand > Len(candidates)
    /\ loop' = IF loop.head < Len(buckets) THEN [loop EXCEPT !.head = @ + 1, !.cand = 1]
               ELSE IF loop.kind < Len(Kinds) THEN [loop EXCEPT !.head = 1, !.kind = @ + 1, !.cand = 1]
               ELSE Start("sort")
    /\ UNCHANGED <<inputs, sizes, pos, ordering, measures, rounds>>

(* The buckets in the order of ORDER, then the remainder. *)
DesireSorted ==
    /\ loop.in = "sort"
    /\ IF loop.head <= Len(buckets)
       THEN sorted' = sorted \o buckets[loop.head] /\ loop' = [loop EXCEPT !.head = @ + 1]
       ELSE sorted' = sorted \o candidates /\ loop' = Start("measure")
    /\ tallest' = 0 /\ widest' = 0 /\ edge' = 0
    /\ UNCHANGED <<inputs, sizes, pos, candidates, buckets, rounds>>

Larger(a, b) == IF a > b THEN a ELSE b

FindTallestWidest ==
    LET h == sorted[loop.head]
    IN  /\ Turn("measure", "arrange")
        /\ tallest' = IF h \in enabled THEN Larger(scaled[h].height, tallest) ELSE tallest
        /\ widest' = IF h \in enabled THEN Larger(scaled[h].width, widest) ELSE widest
        /\ UNCHANGED <<inputs, sizes, pos, ordering, edge, rounds>>

(* The place of a length in the longest one. *)
Aligned(far, most, length) ==
    CASE g_cfg.align = far -> most - length
      [] g_cfg.align = "MIDDLE" -> Up(most - length, 2)
      [] OTHER -> 0

desire_position(h) ==
    IF g_cfg.arrange = "COL"
    THEN /\ pos' = [pos EXCEPT ![h] = [x |-> Aligned("RIGHT", widest, scaled[h].width), y |-> edge]]
         /\ edge' = edge + scaled[h].height
    ELSE /\ pos' = [pos EXCEPT ![h] = [x |-> edge, y |-> Aligned("BOTTOM", tallest, scaled[h].height)]]
         /\ edge' = edge + scaled[h].width

desire_positions ==
    LET h == sorted[loop.head]
    IN  /\ Turn("arrange", "done")
        /\ IF h \in enabled THEN desire_position(h) ELSE UNCHANGED <<pos, edge>>
        /\ UNCHANGED <<inputs, sizes, ordering, tallest, widest, rounds>>

(* The next call of desire: another configuration, other displays on. *)
Again ==
    /\ loop.in = "done"
    /\ rounds < MaxRounds
    /\ g_cfg' \in LayoutCfgs
    /\ enabled' \in SUBSET All
    /\ rounds' = rounds + 1
    /\ loop' = Start("desire")
    /\ UNCHANGED <<screen, sizes, pos, ordering, measures>>

LayoutNext ==
    \/ DesireHead \/ DesireOrder \/ fill_order_bucket \/ fill_order_buckets \/ DesireSorted
    \/ FindTallestWidest \/ desire_positions \/ Again

LayoutSpec == LayoutInit /\ [][LayoutNext]_layoutVars

-----------------------------------------------------------------------------
Done == loop.in = "done"

(* The size the compositor gives a display: the mode, turned, divided by   *)
(* the scale and cut off.                                                  *)
Logical(h) ==
    LET w == (screen[h].width * 256) \div scale[h]
        v == (screen[h].height * 256) \div scale[h]
    IN  IF transform[h] \in {1, 3, 5, 7} THEN [width |-> v, height |-> w] ELSE [width |-> w, height |-> v]

Apart(g, h, size) ==
    \/ pos[g].x + size[g].width <= pos[h].x
    \/ pos[h].x + size[h].width <= pos[g].x
    \/ pos[g].y + size[g].height <= pos[h].y
    \/ pos[h].y + size[h].height <= pos[g].y

(* With the sizes that the compositor gives them the enabled displays do   *)
(* not overlap, there is no gap in the row or column, and none reaches     *)
(* beyond the longest one: desired_scaled_length, by way of SCALE_ROUND_TO,*)
(* and desire_positions agree with the compositor's own arithmetic, after  *)
(* every round.  A SCALE that rounds to 0 is left out.                     *)
Tiled ==
    Done /\ (\A h \in enabled : scale[h] # 0) =>
        LET size == [h \in enabled |-> Logical(h)]
            start(h) == IF g_cfg.arrange = "COL" THEN pos[h].y ELSE pos[h].x
            end(h) == start(h) + (IF g_cfg.arrange = "COL" THEN size[h].height ELSE size[h].width)
            side(h) == IF g_cfg.arrange = "COL" THEN pos[h].x ELSE pos[h].y
            across(h) == IF g_cfg.arrange = "COL" THEN size[h].width ELSE size[h].height
        IN  /\ \A g, h \in enabled : g # h => Apart(g, h, size)
            /\ \A h \in enabled : start(h) = 0 \/ \E g \in enabled \ {h} : end(g) = start(h)
            /\ \A h \in enabled : /\ side(h) >= 0
                                  /\ \E g \in enabled : side(h) + across(h) <= across(g)

(* How a head is ordered: by the first name of ORDER that matches it in    *)
(* the best kind in which any name matches it.                             *)
Place(h) ==
    LET by(kind) == {k \in DOMAIN g_cfg.order : h \in g_cfg.order[k][kind]}
        first(ks) == CHOOSE k \in ks : \A j \in ks : k <= j
    IN  CASE by("exact") # {} -> <<first(by("exact")), 1>>
          [] by("exact") = {} /\ by("regex") # {} -> <<first(by("regex")), 2>>
          [] by("exact") = {} /\ by("regex") = {} /\ by("fuzzy") # {} -> <<first(by("fuzzy")), 3>>
          [] OTHER -> <<Len(g_cfg.order) + 1, 1>>

(* By the place in ORDER, and within a place as they arrived. *)
Precedes(g, h) ==
    LET p == Place(g)
        q == Place(h)
    IN  \/ p[1] < q[1]
        \/ p[1] = q[1] /\ p[2] < q[2]
        \/ p = q /\ \E a, b \in DOMAIN Heads : a < b /\ Heads[a] = g /\ Heads[b] = h

(* desire_order moves every head to the sorted list once, by its place in  *)
(* ORDER: an exact match, wherever it is, goes before a regex and a regex  *)
(* before a part of the name, and heads of the same place stay in the      *)
(* order they arrived in, although the candidates are removed while the    *)
(* iterator is on them.                                                    *)
OrderAsListed ==
    loop.in \in {"measure", "arrange", "done"} =>
        /\ Len(sorted) = Len(Heads)
        /\ {sorted[k] : k \in DOMAIN sorted} = All
        /\ \A j, k \in DOMAIN sorted : j < k => Precedes(sorted[j], sorted[k])

AutoScaled(h) ==
    /\ h \in enabled /\ g_cfg.scaling # "OFF" /\ Matching(g_cfg.scales, h) = {} /\ g_cfg.auto_scale = "ON"
    /\ screen[h].width_mm # 0 /\ screen[h].height_mm # 0

(* An auto scale is a whole number of steps.  It stays below               *)
(* AUTO_SCALE_MAX if there is a step between AUTO_SCALE_MIN and it, and    *)
(* above AUTO_SCALE_MIN if the steps divide AUTO_SCALE_DPI: no rounding of *)
(* dpi, of the fixed point or by SCALE_ROUND_STRATEGY takes it out again   *)
(* (head_auto_scale).  It is not 0, unless the steps do not divide         *)
(* AUTO_SCALE_DPI and SCALE_ROUND_STRATEGY is DOWN.                        *)
AutoScaleInRange ==
    Done => \A h \in All : AutoScaled(h) =>
        /\ scale[h] >= 0 /\ scale[h] % (256 \div RoundTo) = 0
        /\ Dpi % RoundTo = 0 \/ g_cfg.scale_round_strategy # "DOWN" => scale[h] > 0
        /\ (\E k \in 1..(16 * RoundTo) : /\ k * 1000 >= g_cfg.auto_scale_min * RoundTo
                                         /\ k * 1000 <= g_cfg.auto_scale_max * RoundTo) =>
              scale[h] * 1000 <= 256 * g_cfg.auto_scale_max
        /\ Dpi % RoundTo = 0 => scale[h] * 1000 >= 256 * g_cfg.auto_scale_min

(* What the manual says of AUTO_SCALE_MIN, with no condition on the dpi.   *)
AutoScaleMin ==
    Done => \A h \in All : AutoScaled(h) => scale[h] * 1000 >= 256 * g_cfg.auto_scale_min
=============================================================================
