---------------------------- MODULE DesireProofs ----------------------------
(***************************************************************************)
(* What desire computes: the loop of mode_max for every set of modes and   *)
(* every order (ModeScan), and the scales, the order and the positions of  *)
(* the displays for every list of heads and every configuration (Layout).  *)
(***************************************************************************)
EXTENDS ModeScan, Layout, SequenceTheorems, FiniteSetTheorems, TLAPS

ScanTypeOK == modes \in Seq(Modes) /\ i \in 1..(Len(modes) + 1)

(* The size and refresh of a mode are natural numbers, and modes of the    *)
(* same size have as many pixels.                                          *)
LEMMA ModeFacts ==
    /\ \A m \in Modes : /\ Area(m) \in Nat
                        /\ ModeInfo[m].refresh_mhz \in Nat
                        /\ mode_equal_res(ModeInfo[m], ModeInfo[m])
    /\ \A m, n \in Modes : mode_equal_res(ModeInfo[m], ModeInfo[n]) =>
                              /\ Area(m) = Area(n)
                              /\ mode_equal_res(ModeInfo[n], ModeInfo[m])
    /\ \A m, n, k \in Modes : mode_equal_res(ModeInfo[m], ModeInfo[n])
                              /\ mode_equal_res(ModeInfo[n], ModeInfo[k])
                              => mode_equal_res(ModeInfo[m], ModeInfo[k])
<1>1. ASSUME NEW m \in Modes
      PROVE  /\ ModeInfo[m].width \in Nat /\ ModeInfo[m].height \in Nat
             /\ ModeInfo[m].refresh_mhz \in Nat
  BY ModeAssumption DEF ModeRec
<1>2. \A x, y \in Nat : x * y \in Nat
  OBVIOUS
<1>3. QED
  BY <1>1, <1>2 DEF Area, mode_equal_res

(* One turn of the loop keeps what MaxOfSeen says.                         *)
LEMMA TurnKeepsMax ==
    ASSUME ScanTypeOK, MaxOfSeen, ScanNext
    PROVE  MaxOfSeen'
<1> DEFINE m == modes[i]
<1>1. /\ modes \in Seq(Modes) /\ i \in Nat /\ i >= 1 /\ i <= Len(modes) /\ Len(modes) \in Nat
      /\ modes' = modes /\ i' = i + 1 /\ m \in Modes
      /\ max' = IF Exceeds(m, max) THEN m ELSE max
  BY DEF ScanTypeOK, ScanNext
<1>2. Seen \subseteq Modes
  BY <1>1 DEF Seen
<1>3. Seen' = Seen \cup {m}
  BY <1>1 DEF Seen
<1> HIDE DEF m
<1>4. CASE i = 1
  <2>1. max = NULL /\ max' = m
    BY <1>1, <1>4 DEF MaxOfSeen, Exceeds
  <2>2. Seen = {}
    BY <1>4 DEF Seen
  <2>3. Seen' = {m}
    BY <1>3, <2>2
  <2>4. QED
    BY <1>1, <2>1, <2>3, ModeFacts DEF MaxOfSeen
<1>5. CASE i # 1
  <2>1. /\ max \in Seen /\ max \in Modes /\ max # NULL
        /\ \A n \in Seen : /\ Area(n) <= Area(max)
                           /\ mode_equal_res(ModeInfo[n], ModeInfo[max])
                                 => ModeInfo[n].refresh_mhz <= ModeInfo[max].refresh_mhz
    BY <1>2, <1>5, ModeAssumption DEF MaxOfSeen
  <2>2. ASSUME NEW n \in Seen \cup {m}
        PROVE  /\ Area(n) <= Area(max')
               /\ mode_equal_res(ModeInfo[n], ModeInfo[max'])
                     => ModeInfo[n].refresh_mhz <= ModeInfo[max'].refresh_mhz
    <3>1. n \in Modes
      BY <1>1, <1>2
    <3>2. CASE Area(m) > Area(max)
      <4>1. max' = m
        BY <1>1, <3>2 DEF Exceeds
      <4>2. QED
        BY <1>1, <2>1, <3>1, <3>2, <4>1, ModeFacts
    <3>3. CASE /\ ~(Area(m) > Area(max))
               /\ mode_equal_res(ModeInfo[m], ModeInfo[max])
               /\ ModeInfo[m].refresh_mhz > ModeInfo[max].refresh_mhz
      <4>1. max' = m
        BY <1>1, <3>3 DEF Exceeds
      <4>2. QED
        BY <1>1, <2>1, <3>1, <3>3, <4>1, ModeFacts
    <3>4. CASE ~Exceeds(m, max)
      <4>1. max' = max
        BY <1>1, <3>4
      <4>2. QED
        BY <1>1, <2>1, <3>1, <3>4, <4>1, ModeFacts DEF Exceeds
    <3>5. QED
      BY <2>1, <3>2, <3>3, <3>4 DEF Exceeds
  <2>3. max' \in Seen'
    BY <1>1, <1>3, <2>1
  <2>4. i' # 1
    BY <1>1
  <2>5. QED
    BY <1>3, <2>2, <2>3, <2>4 DEF MaxOfSeen
<1>6. QED
  BY <1>4, <1>5

(* mode_max finds, in every order of announcement, a mode with the most    *)
(* pixels and the highest refresh of its size.                             *)
THEOREM ModeMaxCorrect == ScanSpec => []MaxOfSeen
<1>1. ScanInit => ScanTypeOK /\ MaxOfSeen
  BY ScanAssumption DEF ScanInit, ScanTypeOK, MaxOfSeen
<1>2. ScanTypeOK /\ MaxOfSeen /\ [ScanNext]_scanVars => ScanTypeOK' /\ MaxOfSeen'
  <2> SUFFICES ASSUME ScanTypeOK, MaxOfSeen, [ScanNext]_scanVars
               PROVE  ScanTypeOK' /\ MaxOfSeen'
    OBVIOUS
  <2>1. CASE ScanNext
    <3>1. ScanTypeOK'
      BY <2>1 DEF ScanTypeOK, ScanNext
    <3>2. QED
      BY <2>1, <3>1, TurnKeepsMax
  <2>2. CASE UNCHANGED scanVars
    BY <2>2 DEF scanVars, ScanTypeOK, MaxOfSeen, Seen
  <2>3. QED
    BY <2>1, <2>2
<1>3. QED
  BY <1>1, <1>2, PTL DEF ScanSpec

-----------------------------------------------------------------------------
(* Scales.                                                                 *)

(* What integer division leaves is less than the divisor.                  *)
LEMMA DivFacts ==
    ASSUME NEW a \in Int, NEW b \in Nat \ {0}
    PROVE  /\ a \div b \in Int
           /\ b * (a \div b) <= a /\ a < b * (a \div b) + b
OBVIOUS

(* The quotient is the one number with that property.                      *)
LEMMA DivIs ==
    ASSUME NEW a \in Int, NEW b \in Nat \ {0}, NEW q \in Int, b * q <= a, a < b * q + b
    PROVE  a \div b = q
<1>1. /\ a \div b \in Int
      /\ b * (a \div b) <= a /\ a < b * (a \div b) + b
  BY DivFacts
<1> DEFINE p == a \div b
<1> HIDE DEF p
<1>2. b * p < b * q + b /\ b * q < b * p + b /\ p \in Int
  BY <1>1 DEF p
<1>3. p < q + 1 /\ q < p + 1
  <2>1. ASSUME p >= q + 1 PROVE FALSE
    BY <1>2, <2>1
  <2>2. ASSUME q >= p + 1 PROVE FALSE
    BY <1>2, <2>2
  <2>3. QED
    BY <1>2, <2>1, <2>2
<1>4. QED
  BY <1>2, <1>3 DEF p

(* A factor keeps the order.                                               *)
LEMMA MulMono ==
    ASSUME NEW a \in Int, NEW b \in Int, NEW c \in Nat, a <= b
    PROVE  a * c <= b * c
OBVIOUS

(* A quotient does not change when both numbers are multiplied.            *)
LEMMA DivMul ==
    ASSUME NEW a \in Int, NEW b \in Nat \ {0}, NEW u \in Nat \ {0}
    PROVE  (a * u) \div (b * u) = a \div b
<1> DEFINE q == a \div b
<1>1. q \in Int /\ b * q <= a /\ a < b * q + b
  BY DivFacts
<1> HIDE DEF q
<1>2. /\ a * u \in Int /\ b * u \in Nat \ {0} /\ b * q \in Int /\ b * q + b \in Int
      /\ (b * q) * u = (b * u) * q /\ (b * q + b) * u = (b * u) * q + b * u
  BY <1>1
<1>3. (b * u) * q <= a * u
  BY <1>1, <1>2, MulMono
<1>4. a * u < (b * u) * q + b * u
  BY <1>1, <1>2
<1>5. (a * u) \div (b * u) = q
  BY <1>1, <1>2, <1>3, <1>4, DivIs
<1>6. QED
  BY <1>5 DEF q

(* Rounding to the nearest does not pass a whole number.                   *)
LEMMA NearestRange ==
    ASSUME NEW n \in Int, NEW d \in Nat \ {0}, NEW m \in Int
    PROVE  /\ Nearest(n, d) \in Int
           /\ n <= m * d => Nearest(n, d) <= m
           /\ m * d <= n => m <= Nearest(n, d)
<1> DEFINE q == (2 * n + d) \div (2 * d)
<1>1. q \in Int /\ (2 * d) * q <= 2 * n + d /\ 2 * n + d < (2 * d) * q + 2 * d
  <2>1. 2 * n + d \in Int /\ 2 * d \in Nat \ {0}
    OBVIOUS
  <2>2. QED
    BY <2>1, DivFacts
<1>2. Nearest(n, d) = q
  BY DEF Nearest
<1> HIDE DEF q
<1> DEFINE r == d * q
           t == m * d
<1>3. r \in Int /\ t \in Int /\ (2 * d) * q = 2 * r
  BY <1>1
<1>4. 2 * r <= 2 * n + d /\ 2 * n + d < 2 * r + 2 * d
  BY <1>1, <1>3
<1>5. ASSUME n <= m * d PROVE q <= m
  <2>1. r < t + d
    BY <1>3, <1>4, <1>5
  <2>2. ASSUME q >= m + 1 PROVE FALSE
    <3>1. r >= t + d
      BY <1>1, <2>2
    <3>2. QED
      BY <1>3, <2>1, <3>1
  <2>3. QED
    BY <1>1, <2>2
<1>6. ASSUME m * d <= n PROVE m <= q
  <2>1. t < r + d
    BY <1>3, <1>4, <1>6
  <2>2. ASSUME m >= q + 1 PROVE FALSE
    <3>1. t >= r + d
      BY <1>1, <2>2
    <3>2. QED
      BY <1>3, <2>1, <3>1
  <2>3. QED
    BY <1>1, <2>2
<1>7. QED
  BY <1>1, <1>2, <1>5, <1>6

(* Neither does wl_fixed_from_double, in 1/256, although it rounds a half  *)
(* to even.                                                                *)
LEMMA FixedRange ==
    ASSUME NEW n \in Int, NEW d \in Nat \ {0}, NEW m \in Int
    PROVE  /\ wl_fixed_from_double(<<n, d>>) \in Int
           /\ 256 * n <= m * d => wl_fixed_from_double(<<n, d>>) <= m
           /\ m * d <= 256 * n => m <= wl_fixed_from_double(<<n, d>>)
<1> DEFINE a == 256 * n
           near == Nearest(a, d)
           tie == 2 * (a % d) = d /\ near % 2 = 1
<1>1. a \in Int
  OBVIOUS
<1>2. wl_fixed_from_double(<<n, d>>) = IF tie THEN near - 1 ELSE near
  BY DEF wl_fixed_from_double
<1> HIDE DEF a
<1>3. near \in Int /\ (a <= m * d => near <= m) /\ (m * d <= a => m <= near)
  BY <1>1, NearestRange
<1>4. ASSUME tie, m * d <= a PROVE m <= near - 1
  <2> DEFINE q == a \div d
  <2>1. q \in Int /\ a % d = a - d * q /\ d * q <= a /\ a < d * q + d
    BY <1>1, DivFacts
  <2>2. 2 * a = 2 * (d * q) + d
    BY <1>1, <1>4, <2>1
  <2>3. near = q + 1
    <3> HIDE DEF q
    <3>1. (2 * d) * (q + 1) = 2 * (d * q) + 2 * d /\ q + 1 \in Int
      BY <2>1
    <3>2. 2 * a + d = (2 * d) * (q + 1) /\ 2 * d \in Nat \ {0} /\ 2 * a + d \in Int
      BY <1>1, <2>1, <2>2, <3>1
    <3>3. (2 * a + d) \div (2 * d) = q + 1
      BY <3>1, <3>2, DivIs
    <3>4. QED
      BY <3>3 DEF Nearest
  <2>4. m <= q
    <3> HIDE DEF q
    <3> DEFINE t == m * d
               r == d * q
    <3>1. t \in Int /\ r \in Int /\ t < r + d
      BY <1>1, <1>4, <2>1
    <3>2. ASSUME m >= q + 1 PROVE FALSE
      <4>1. t >= r + d
        BY <2>1, <3>2
      <4>2. QED
        BY <3>1, <4>1
    <3>3. QED
      BY <2>1, <3>2
  <2>5. QED
    BY <2>1, <2>3, <2>4
<1>5. QED
  BY <1>2, <1>3, <1>4 DEF a

(* A step of the scale, in 1/256.                                          *)
Unit == 256 \div RoundTo

AStep(r, u) == (r = 1 /\ u = 256) \/ (r = 2 /\ u = 128) \/ (r = 4 /\ u = 64) \/ (r = 8 /\ u = 32)

(* The steps of a scale are whole numbers of 1/256: every SCALE_ROUND_TO   *)
(* divides 256. AUTO_SCALE_DPI, or its default, is more than a step.       *)
LEMMA RoundToFacts ==
    ASSUME g_cfg \in LayoutCfgs
    PROVE  /\ AStep(RoundTo, Unit)
           /\ Dpi \in Nat /\ Dpi > 8
<1>1. g_cfg.scale_round_to \in {0, 1, 2, 4, 8}
  BY LayoutAssumption DEF Valid
<1>2. RoundTo \in {1, 2, 4, 8}
  BY <1>1 DEF RoundTo, SCALE_ROUND_TO_DEFAULT
<1>3. 256 \div 1 = 256 /\ 256 \div 2 = 128 /\ 256 \div 4 = 64 /\ 256 \div 8 = 32
  OBVIOUS
<1>4. Dpi \in Nat /\ Dpi > 8
  BY LayoutAssumption DEF Valid, Dpi, AUTO_SCALE_DPI_DEFAULT, SCALE_ROUND_TO_DEFAULT
<1>5. QED
  BY <1>2, <1>3, <1>4 DEF Unit, AStep

(* The three strategies round to whole steps and not past a step.          *)
LEMMA StepRange ==
    ASSUME NEW f \in Int, NEW r \in Nat, NEW u \in Nat, NEW k \in Int,
           AStep(r, u),
           NEW j, j \in {Down(f * r, 256), Up(f * r, 256), Nearest(f * r, 256)}
    PROVE  /\ j \in Int
           /\ f <= k * u => j <= k
           /\ k * u <= f => k <= j
           /\ 128 <= f * r /\ j \in {Up(f * r, 256), Nearest(f * r, 256)} => 1 <= j
<1> DEFINE n == f * r
           m == k * u
<1>1. n \in Int /\ m \in Int
  OBVIOUS
<1>2. (f <= m => n <= 256 * k) /\ (m <= f => 256 * k <= n)
  BY DEF AStep
<1> HIDE DEF n, m
<1>3. CASE j = Down(n, 256) /\ j \notin {Up(n, 256), Nearest(n, 256)}
  <2>1. j \in Int /\ 256 * j <= n /\ n < 256 * j + 256
    BY <1>1, <1>3, DivFacts DEF Down
  <2>2. QED
    BY <1>1, <1>2, <1>3, <2>1 DEF n, m
<1>4. CASE j = Up(n, 256)
  <2>1. j \in Int /\ 256 * j <= n + 255 /\ n + 255 < 256 * j + 256
    BY <1>1, <1>4, DivFacts DEF Up
  <2>2. QED
    BY <1>1, <1>2, <2>1 DEF n, m
<1>5. CASE j = Nearest(n, 256)
  <2>1. j \in Int /\ 512 * j <= 2 * n + 256 /\ 2 * n + 256 < 512 * j + 512
    BY <1>1, <1>5, DivFacts DEF Nearest
  <2>2. QED
    BY <1>1, <1>2, <2>1 DEF n, m
<1>6. QED
  BY <1>3, <1>4, <1>5 DEF n

(* The scale that head_get_fixed_scale makes of a number, in steps.        *)
Rounded(s) ==
    CASE g_cfg.scale_round_strategy = "DOWN" -> Down(wl_fixed_from_double(s) * RoundTo, 256)
      [] g_cfg.scale_round_strategy = "UP" -> Up(wl_fixed_from_double(s) * RoundTo, 256)
      [] OTHER -> Nearest(wl_fixed_from_double(s) * RoundTo, 256)

(* A fixed scale is a whole number of steps, and between the same steps as *)
(* the number it is made from.                                             *)
LEMMA FixedScale ==
    ASSUME g_cfg \in LayoutCfgs, NEW n \in Int, NEW d \in Nat \ {0}, NEW k \in Int
    PROVE  LET u == Unit
               j == Rounded(<<n, d>>)
           IN  /\ head_get_fixed_scale(<<n, d>>) = j * u /\ j \in Int
               /\ 256 * n <= (k * u) * d => j <= k
               /\ (k * u) * d <= 256 * n => k <= j
               /\ u * d <= 512 * n /\ g_cfg.scale_round_strategy # "DOWN" => 1 <= j
<1> DEFINE u == Unit
           j == Rounded(<<n, d>>)
           f == wl_fixed_from_double(<<n, d>>)
<1>1. AStep(RoundTo, u)
  BY RoundToFacts
<1>2. head_get_fixed_scale(<<n, d>>) = j * u
  BY DEF head_get_fixed_scale, Rounded, Unit
<1>3. /\ j \in {Down(f * RoundTo, 256), Up(f * RoundTo, 256), Nearest(f * RoundTo, 256)}
      /\ g_cfg.scale_round_strategy # "DOWN" => j = Up(f * RoundTo, 256) \/ j = Nearest(f * RoundTo, 256)
  BY DEF Rounded
<1>4. f \in Int /\ k * u \in Int
  BY <1>1, FixedRange DEF AStep
<1>5. (256 * n <= (k * u) * d => f <= k * u) /\ ((k * u) * d <= 256 * n => k * u <= f)
  <2> HIDE DEF u
  <2> DEFINE m == k * u
  <2>1. m \in Int
    BY <1>4
  <2> HIDE DEF m
  <2>2. (256 * n <= m * d => f <= m) /\ (m * d <= 256 * n => m <= f)
    BY <2>1, FixedRange
  <2>3. QED
    BY <2>2 DEF m
<1>6. u * d <= 512 * n => 128 <= f * RoundTo
  <2> SUFFICES ASSUME u * d <= 512 * n PROVE 128 <= f * RoundTo
    OBVIOUS
  <2>1. ASSUME NEW m \in Int, m * d <= 256 * n PROVE m <= f
    BY <2>1, FixedRange
  <2> HIDE DEF u, f
  <2>2. QED
    BY <1>1, <1>4, <2>1 DEF AStep
<1>7. QED
  <2> HIDE DEF u, f, j
  <2>1. PICK r \in Nat, v \in Nat : r = RoundTo /\ v = u
    BY <1>1 DEF AStep
  <2>2. /\ j \in Int
        /\ f <= k * v => j <= k
        /\ k * v <= f => k <= j
        /\ 128 <= f * r /\ j \in {Up(f * r, 256), Nearest(f * r, 256)} => 1 <= j
    <3>1. AStep(r, v)
      BY <1>1, <2>1
    <3>2. j \in {Down(f * r, 256), Up(f * r, 256), Nearest(f * r, 256)}
      BY <1>3, <2>1
    <3>3. QED
      BY <1>4, <3>1, <3>2, StepRange
  <2>3. QED
    BY <1>2, <1>3, <1>5, <1>6, <2>1, <2>2 DEF u, j

(* How p/q dpi compare with k steps of the scale, for u of 1/256 a step.   *)
InSteps(r, u, step, dpi, q, k, p) ==
    /\ step * r <= dpi /\ p <= (step * k) * q => 256 * p <= (k * u) * (q * dpi)
    /\ step * r = dpi /\ (step * k) * q <= p => (k * u) * (q * dpi) <= 256 * p
    /\ dpi <= 2 * (step * r) /\ step * q <= p => u * (q * dpi) <= 512 * p

(* The comparisons of InSteps, from those of a step of dpi with the whole: *)
(* the products of four factors in head_auto_scale.                        *)
LEMMA StepProducts ==
    ASSUME NEW r \in Nat, NEW u \in Nat, AStep(r, u), NEW step \in Nat, NEW dpi \in Nat, NEW q \in Nat,
           NEW k \in Nat, NEW p \in Int
    PROVE  InSteps(r, u, step, dpi, q, k, p)
<1> DEFINE y == k * q
           z == y * dpi
           x == y * step
           v == q * dpi
           w == q * step
<1>1. /\ y \in Nat /\ z \in Nat /\ x \in Nat /\ v \in Nat /\ w \in Nat /\ step * r \in Nat
      /\ (step * k) * q = x /\ step * q = w
  OBVIOUS
<1>2. (k * u) * (q * dpi) = z * u /\ u * (q * dpi) = v * u
  BY <1>1 DEF AStep
<1>3. y * (step * r) = x * r /\ q * (step * r) = w * r
  BY <1>1 DEF AStep
<1>4. /\ step * r <= dpi => x * r <= z
      /\ step * r = dpi => x * r = z
      /\ dpi <= 2 * (step * r) => v <= 2 * (w * r)
  <2>1. \A a \in Nat, b \in Nat, c \in Nat : a <= b => c * a <= c * b
    OBVIOUS
  <2>2. step * r <= dpi => y * (step * r) <= y * dpi
    BY <1>1, <2>1
  <2>3. dpi <= 2 * (step * r) => q * dpi <= q * (2 * (step * r))
    BY <1>1, <2>1
  <2>4. q * (2 * (step * r)) = 2 * (q * (step * r))
    BY <1>1
  <2>5. step * r = dpi => y * (step * r) = y * dpi
    OBVIOUS
  <2>6. QED
    BY <1>3, <2>2, <2>3, <2>4, <2>5
<1> HIDE DEF x, y, z, v, w
<1>5. QED
  BY <1>1, <1>2, <1>4 DEF AStep, InSteps

(* A display whose physical size is known has a dpi that is not 0.         *)
LEMMA ModeDpi ==
    ASSUME NEW s \in [width : Nat \ {0}, height : Nat \ {0}, width_mm : Nat, height_mm : Nat],
           s.width_mm # 0, s.height_mm # 0
    PROVE  \E n, d \in Nat \ {0} : mode_dpi(s) = <<n, d>>
<1>1. \A a, b \in Nat \ {0} : a * b \in Nat \ {0}
  OBVIOUS
<1> DEFINE a == s.width * s.height_mm
           b == s.height * s.width_mm
           e == s.width_mm * s.height_mm
<1>2. a \in Nat \ {0} /\ b \in Nat \ {0} /\ e \in Nat \ {0}
  BY <1>1
<1>3. mode_dpi(s) = <<127 * (a + b), 10 * s.width_mm * s.height_mm>> /\ 10 * s.width_mm * s.height_mm = 10 * e
  BY DEF mode_dpi
<1> HIDE DEF a, b, e
<1>4. 127 * (a + b) \in Nat \ {0} /\ 10 * e \in Nat \ {0}
  BY <1>2
<1>5. QED
  BY <1>3, <1>4

(* A clamped dpi is at least the minimum, and at most a maximum that is    *)
(* not below the minimum.                                                  *)
LEMMA ClampedRange ==
    ASSUME NEW n \in Nat \ {0}, NEW d \in Nat \ {0}, NEW least \in Nat, NEW most \in Int
    PROVE  \E p \in Nat, q \in Nat \ {0} :
              /\ Clamped(<<n, d>>, least, most) = <<p, q>>
              /\ least * q <= p
              /\ least <= most => p <= most * q
<1>1. least * d \in Nat /\ most * d \in Int /\ least * 1 = least /\ most * 1 = most
  OBVIOUS
<1>2. CASE n < least * d
  BY <1>1, <1>2 DEF Clamped
<1>3. CASE ~(n < least * d) /\ least <= most /\ n > most * d
  BY <1>1, <1>3 DEF Clamped
<1>4. CASE ~(n < least * d) /\ ~(least <= most /\ n > most * d)
  BY <1>1, <1>4 DEF Clamped
<1>5. QED
  BY <1>2, <1>3, <1>4

(* The limits of head_auto_scale in steps.                                 *)
LeastStep(lo) == IF Up(lo * RoundTo, 1000) < 1 THEN 1 ELSE Up(lo * RoundTo, 1000)
MostStep(hi) == IF hi < 0 THEN -Down(-hi * RoundTo, 1000) ELSE Down(hi * RoundTo, 1000)

(* An auto scale is the rounding of a dpi between the limits.              *)
LEMMA AutoScaleIs ==
    ASSUME g_cfg \in LayoutCfgs,
           NEW s \in [width : Nat \ {0}, height : Nat \ {0}, width_mm : Nat, height_mm : Nat],
           s.width_mm # 0, s.height_mm # 0, NEW lo \in Int, NEW hi \in Int
    PROVE  LET step == Dpi \div RoundTo
           IN  \E p \in Nat, q \in Nat \ {0} :
                  /\ head_auto_scale(s, lo, hi) = head_get_fixed_scale(<<p, q * Dpi>>)
                  /\ (step * LeastStep(lo)) * q <= p
                  /\ LeastStep(lo) <= MostStep(hi) => p <= (step * MostStep(hi)) * q
<1> DEFINE step == Dpi \div RoundTo
           least == step * Up(lo * RoundTo, 1000)
           from == IF least < step THEN step ELSE least
           most == step * MostStep(hi)
<1>1. /\ RoundTo \in Nat \ {0} /\ RoundTo <= 8 /\ Dpi \in Nat /\ Dpi > 8
  BY RoundToFacts DEF AStep
<1>2. step \in Nat \ {0}
  <2>1. step \in Int /\ RoundTo * step <= Dpi /\ Dpi < RoundTo * step + RoundTo
    BY <1>1, DivFacts
  <2>2. QED
    BY <1>1, <2>1
<1>3. Up(lo * RoundTo, 1000) \in Int /\ MostStep(hi) \in Int
  <2>1. lo * RoundTo \in Int /\ hi * RoundTo \in Int /\ -hi * RoundTo \in Int
    BY <1>1
  <2>2. QED
    BY <2>1, DivFacts DEF Up, Down, MostStep
<1>4. from = step * LeastStep(lo) /\ LeastStep(lo) \in Nat \ {0}
  <2> DEFINE k == Up(lo * RoundTo, 1000)
  <2> HIDE DEF k, step
  <2>1. k \in Int /\ least = step * k
    BY <1>3 DEF k
  <2>2. k < 1 => step * k < step
    BY <1>2, <2>1
  <2>3. ~(k < 1) => ~(step * k < step)
    BY <1>2, <2>1
  <2>4. LeastStep(lo) = IF k < 1 THEN 1 ELSE k
    BY DEF LeastStep, k
  <2>5. QED
    BY <1>2, <2>1, <2>2, <2>3, <2>4
<1>5. PICK n \in Nat \ {0}, d \in Nat \ {0} : mode_dpi(s) = <<n, d>>
  BY ModeDpi
<1>6. head_auto_scale(s, lo, hi) =
         LET in == Clamped(<<n, d>>, from, most) IN head_get_fixed_scale(<<in[1], in[2] * Dpi>>)
  <2> HIDE DEF step
  <2>1. n # 0
    OBVIOUS
  <2>2. QED
    BY <1>5, <2>1 DEF head_auto_scale, MostStep, step
<1> HIDE DEF step, from, most, least
<1>7. from \in Nat /\ most \in Int
  BY <1>2, <1>3, <1>4 DEF most
<1>8. PICK p \in Nat, q \in Nat \ {0} :
              /\ Clamped(<<n, d>>, from, most) = <<p, q>>
              /\ from * q <= p
              /\ from <= most => p <= most * q
  BY <1>7, ClampedRange
<1>9. LeastStep(lo) <= MostStep(hi) => from <= most
  BY <1>2, <1>3, <1>4 DEF most
<1>10. QED
  <2>1. head_auto_scale(s, lo, hi) = head_get_fixed_scale(<<p, q * Dpi>>)
    BY <1>6, <1>8
  <2>2. QED
    BY <1>4, <1>8, <1>9, <2>1 DEF step, most

(* What AutoScaleInRange says of a scale, of the result of head_auto_scale *)
(* for every dpi, every limit and every strategy.                          *)
LEMMA AutoScaleRange ==
    ASSUME g_cfg \in LayoutCfgs,
           NEW s \in [width : Nat \ {0}, height : Nat \ {0}, width_mm : Nat, height_mm : Nat],
           s.width_mm # 0, s.height_mm # 0, NEW lo \in Int, NEW hi \in Int
    PROVE  LET a == head_auto_scale(s, lo, hi)
           IN  /\ a \in Int /\ a >= 0 /\ a % Unit = 0
               /\ Dpi % RoundTo = 0 \/ g_cfg.scale_round_strategy # "DOWN" => a > 0
               /\ (\E k \in Nat \ {0} : k * 1000 >= lo * RoundTo /\ k * 1000 <= hi * RoundTo) => a * 1000 <= 256 * hi
               /\ Dpi % RoundTo = 0 => a * 1000 >= 256 * lo
<1>1. PICK r \in Nat, u \in Nat, D \in Nat :
         r = RoundTo /\ u = Unit /\ D = Dpi /\ AStep(r, u) /\ D > 8
  BY RoundToFacts DEF AStep
<1>2. PICK step \in Int : step = Dpi \div RoundTo /\ r * step <= D /\ D < r * step + r /\ (D % r = 0 => step * r = D)
  <2>1. r \in Nat \ {0}
    BY <1>1 DEF AStep
  <2>2. D \div r \in Int /\ r * (D \div r) <= D /\ D < r * (D \div r) + r
    BY <2>1, DivFacts
  <2>3. D % r = D - r * (D \div r)
    BY <2>1
  <2> DEFINE q == D \div r
  <2> HIDE DEF q
  <2>4. q \in Int /\ (D % r = 0 => r * q = D) /\ r * q = q * r
    BY <2>1, <2>2, <2>3 DEF q
  <2>5. QED
    BY <1>1, <2>1, <2>2, <2>4 DEF q
<1>3. step \in Nat \ {0} /\ step * r <= D /\ D <= 2 * (step * r)
  BY <1>1, <1>2 DEF AStep
<1>4. PICK m \in Nat \ {0}, M \in Int :
         /\ m = LeastStep(lo) /\ M = MostStep(hi)
         /\ lo * r <= 1000 * m
         /\ hi >= 0 => 1000 * M <= hi * r
         /\ \A k \in Nat \ {0} : k * 1000 >= lo * r /\ k * 1000 <= hi * r => m <= k /\ k <= M /\ hi >= 0
  <2> DEFINE b == lo * r
             c == hi * r
             e == -hi * r
  <2>1. b \in Int /\ c \in Int /\ e \in Int
    OBVIOUS
  <2>2. c > 0 => hi >= 0
    BY <1>1 DEF AStep
  <2> HIDE DEF b, c, e
  <2>3. PICK x \in Int : x = Up(b, 1000) /\ 1000 * x <= b + 999 /\ b + 999 < 1000 * x + 1000
    BY <2>1, DivFacts DEF Up
  <2>4. PICK y \in Int : y = Down(c, 1000) /\ 1000 * y <= c /\ c < 1000 * y + 1000
    BY <2>1, DivFacts DEF Down
  <2>5. PICK z \in Int : z = Down(e, 1000)
    BY <2>1, DivFacts DEF Down
  <2>6. LeastStep(lo) = IF x < 1 THEN 1 ELSE x
    BY <1>1, <2>3 DEF LeastStep, b
  <2>7. MostStep(hi) = IF hi < 0 THEN -z ELSE y
    BY <1>1, <2>4, <2>5 DEF MostStep, c, e
  <2>8. /\ LeastStep(lo) \in Nat \ {0} /\ MostStep(hi) \in Int /\ b <= 1000 * LeastStep(lo)
        /\ hi >= 0 => 1000 * MostStep(hi) <= c
        /\ \A k \in Nat \ {0} : k * 1000 >= b /\ k * 1000 <= c => LeastStep(lo) <= k /\ k <= MostStep(hi) /\ hi >= 0
    BY <2>1, <2>2, <2>3, <2>4, <2>6, <2>7
  <2>9. QED
    BY <2>8 DEF b, c
<1>5. PICK p \in Nat, q \in Nat \ {0} :
           /\ head_auto_scale(s, lo, hi) = head_get_fixed_scale(<<p, q * Dpi>>)
           /\ ((Dpi \div RoundTo) * LeastStep(lo)) * q <= p
           /\ LeastStep(lo) <= MostStep(hi) => p <= ((Dpi \div RoundTo) * MostStep(hi)) * q
  BY AutoScaleIs
<1>6. /\ head_auto_scale(s, lo, hi) = head_get_fixed_scale(<<p, q * Dpi>>)
      /\ (step * m) * q <= p
      /\ m <= M => p <= (step * M) * q
  BY <1>2, <1>4, <1>5, Zenon
<1>7. ASSUME NEW k \in Nat
      PROVE  /\ p <= (step * k) * q => 256 * p <= (k * u) * (q * D)
             /\ step * r = D /\ (step * k) * q <= p => (k * u) * (q * D) <= 256 * p
             /\ step * q <= p => u * (q * D) <= 512 * p
  <2>1. step \in Nat /\ q \in Nat /\ p \in Int
    BY <1>3
  <2>2. InSteps(r, u, step, D, q, k, p)
    BY <1>1, <2>1, StepProducts
  <2>3. QED
    BY <1>3, <2>2 DEF InSteps
<1>8. PICK d \in Nat \ {0} : d = q * D
  BY <1>1
<1> DEFINE j == Rounded(<<p, d>>)
<1>9. ASSUME NEW k \in Int
      PROVE /\ head_auto_scale(s, lo, hi) = j * u /\ j \in Int
            /\ 256 * p <= (k * u) * d => j <= k
            /\ (k * u) * d <= 256 * p => k <= j
            /\ u * d <= 512 * p /\ g_cfg.scale_round_strategy # "DOWN" => 1 <= j
  BY <1>1, <1>6, <1>8, FixedScale
<1>10. j >= 0
  <2>1. (0 * u) * d = 0 /\ 0 <= 256 * p
    BY <1>1, <1>8
  <2>2. QED
    BY <1>9, <2>1
<1> HIDE DEF j
<1>11. g_cfg.scale_round_strategy # "DOWN" => 1 <= j
  <2>1. step * q <= p
    <3>1. step <= step * m /\ step * m \in Nat
      BY <1>3
    <3>2. step * q <= (step * m) * q
      BY <1>3, <3>1, MulMono
    <3>3. QED
      BY <1>3, <1>6, <3>1, <3>2
  <2>2. u * (q * D) <= 512 * p
    BY <1>3, <2>1, <1>7
  <2>3. QED
    BY <1>8, <1>9, <2>2
<1>12. D % r = 0 => m <= j
  <2> SUFFICES ASSUME D % r = 0 PROVE m <= j
    OBVIOUS
  <2>1. (m * u) * (q * D) <= 256 * p
    BY <1>2, <1>6, <1>7
  <2>2. QED
    BY <1>4, <1>8, <1>9, <2>1
<1>13. m <= M => j <= M
  <2> SUFFICES ASSUME m <= M PROVE j <= M
    OBVIOUS
  <2>1. M \in Nat
    BY <1>4
  <2>2. 256 * p <= (M * u) * (q * D)
    BY <1>6, <2>1, <1>7
  <2>3. QED
    BY <1>4, <1>8, <1>9, <2>2
<1>14. PICK a \in Int : a = head_auto_scale(s, lo, hi) /\ a = j * u
  BY <1>1, <1>9
<1>15. a >= 0 /\ (1 <= j => a > 0) /\ a % u = 0
  BY <1>1, <1>9, <1>10, <1>14 DEF AStep
<1>16. (m <= M /\ hi >= 0) => a * 1000 <= 256 * hi
  BY <1>1, <1>4, <1>9, <1>13, <1>14 DEF AStep
<1>17. D % r = 0 => a * 1000 >= 256 * lo
  BY <1>1, <1>4, <1>9, <1>12, <1>14 DEF AStep
<1>18. (\E k \in Nat \ {0} : k * 1000 >= lo * r /\ k * 1000 <= hi * r) => m <= M /\ hi >= 0
  BY <1>4
<1>19. D % r = 0 \/ g_cfg.scale_round_strategy # "DOWN" => a > 0
  BY <1>4, <1>9, <1>11, <1>12, <1>15
<1>20. QED
  BY <1>1, <1>14, <1>15, <1>16, <1>17, <1>18, <1>19

(* A set of natural numbers that is not empty has a least element.         *)
LEMMA LeastOf ==
    ASSUME NEW S \in SUBSET Nat, S # {}
    PROVE  \E k \in S : \A j \in S : k <= j
<1> DEFINE R == {p \in Nat \X Nat : p[1] < p[2]}
<1>1. OpToRel(<, Nat) = R
  BY DEF OpToRel
<1>2. IsWellFoundedOn(R, Nat)
  BY <1>1, NatLessThanWellFounded
<1>3. \E x \in S : \A y \in S : ~(<<y, x>> \in R)
  <2> HIDE DEF R
  <2>1. QED
    BY <1>2, WFMin
<1>4. PICK k \in S : \A y \in S : ~(<<y, k>> \in R)
  BY <1>3
<1>5. ASSUME NEW j \in S PROVE k <= j
  <2>1. ~(j < k)
    BY <1>4
  <2>2. QED
    BY <2>1
<1>6. QED
  BY <1>5

(* What simap_find returns is the value of an entry.                       *)
LEMMA FoundVal ==
    ASSUME NEW V, NEW entries \in Seq([name_desc : NameDesc, val : V]), NEW h
    PROVE  /\ Found(entries, h) \in V \cup {0}
           /\ Matching(entries, h) # {} => Found(entries, h) \in V
<1> DEFINE fits == Matching(entries, h)
           least == CHOOSE k \in fits : \A j \in fits : k <= j
<1>1. fits \subseteq 1..Len(entries) /\ fits \in SUBSET Nat
  BY DEF Matching
<1>2. CASE fits = {}
  BY <1>2 DEF Found
<1>3. CASE fits # {}
  <2>1. least \in fits
    <3>1. \E k \in fits : \A j \in fits : k <= j
      BY <1>1, <1>3, LeastOf
    <3> HIDE DEF fits
    <3>2. QED
      BY <3>1
  <2>2. entries[least].val \in V
    <3> HIDE DEF least, fits
    <3>1. least \in 1..Len(entries)
      BY <1>1, <2>1
    <3>2. entries[least] \in [name_desc : NameDesc, val : V]
      BY <3>1, ElementOfSeq
    <3>3. QED
      BY <3>2
  <2>3. Found(entries, h) = entries[least].val
    BY <1>3 DEF Found
  <2>4. QED
    BY <2>2, <2>3
<1>4. QED
  BY <1>2, <1>3

(* A desired scale is a whole number of steps.                             *)
LEMMA ScaleSteps ==
    ASSUME g_cfg \in LayoutCfgs, screen \in Screens, NEW h \in All
    PROVE  \E j \in Nat : desire_scale(h) = j * Unit
<1>1. ASSUME NEW n \in Nat, NEW d \in Nat \ {0}
      PROVE  \E j \in Nat : head_get_fixed_scale(<<n, d>>) = j * Unit
  <2>1. Unit \in Nat
    BY RoundToFacts DEF AStep
  <2>2. n \in Int /\ 0 \in Int
    OBVIOUS
  <2>3. /\ head_get_fixed_scale(<<n, d>>) = Rounded(<<n, d>>) * Unit /\ Rounded(<<n, d>>) \in Int
        /\ (0 * Unit) * d <= 256 * n => 0 <= Rounded(<<n, d>>)
    BY <2>2, FixedScale
  <2>4. (0 * Unit) * d <= 256 * n
    BY <2>1
  <2>5. QED
    BY <2>3, <2>4
<1>2. Valid(g_cfg) /\ screen[h] \in [width : Nat \ {0}, height : Nat \ {0}, width_mm : Nat, height_mm : Nat]
  BY LayoutAssumption
<1>3. \E j \in Nat : head_get_fixed_scale(<<1, 1>>) = j * Unit
  BY <1>1
<1>4. Matching(g_cfg.scales, h) # {} =>
         \E j \in Nat : head_get_fixed_scale(<<Found(g_cfg.scales, h), 1000>>) = j * Unit
  <2> SUFFICES ASSUME Matching(g_cfg.scales, h) # {}
               PROVE  \E j \in Nat : head_get_fixed_scale(<<Found(g_cfg.scales, h), 1000>>) = j * Unit
    OBVIOUS
  <2>1. PICK entries : entries = g_cfg.scales
    OBVIOUS
  <2>2. entries \in Seq([name_desc : NameDesc, val : Nat])
    BY <1>2, <2>1 DEF Valid
  <2>3. Found(entries, h) \in Nat
    BY <2>1, <2>2, FoundVal
  <2>4. QED
    BY <1>1, <2>1, <2>3
<1>5. \E j \in Nat : head_auto_scale(screen[h], g_cfg.auto_scale_min, g_cfg.auto_scale_max) = j * Unit
  <2>1. PICK s, lo, hi : s = screen[h] /\ lo = g_cfg.auto_scale_min /\ hi = g_cfg.auto_scale_max
    OBVIOUS
  <2>2. lo \in Int /\ hi \in Int
    BY <1>2, <2>1 DEF Valid
  <2>3. CASE s.width_mm = 0 \/ s.height_mm = 0
    <3>1. mode_dpi(s)[1] = 0
      BY <2>3 DEF mode_dpi
    <3>2. head_auto_scale(s, lo, hi) = head_get_fixed_scale(<<1, 1>>)
      BY <3>1 DEF head_auto_scale
    <3>3. QED
      BY <1>3, <2>1, <3>2
  <2>4. CASE ~(s.width_mm = 0 \/ s.height_mm = 0)
    <3>1. PICK p \in Nat, q \in Nat \ {0} :
             /\ head_auto_scale(s, lo, hi) = head_get_fixed_scale(<<p, q * Dpi>>)
             /\ ((Dpi \div RoundTo) * LeastStep(lo)) * q <= p
             /\ LeastStep(lo) <= MostStep(hi) => p <= ((Dpi \div RoundTo) * MostStep(hi)) * q
      <4>1. s \in [width : Nat \ {0}, height : Nat \ {0}, width_mm : Nat, height_mm : Nat]
        BY <1>2, <2>1
      <4>2. QED
        BY <2>2, <2>4, <4>1, AutoScaleIs
    <3>2. q * Dpi \in Nat \ {0}
      BY RoundToFacts
    <3>3. QED
      BY <1>1, <2>1, <3>1, <3>2
  <2>5. QED
    BY <2>3, <2>4
<1>6. QED
  BY <1>3, <1>4, <1>5 DEF desire_scale

(* For a whole number of steps the length of desired_scaled_length is the  *)
(* one the compositor computes from the scale itself.                      *)
LEMMA LengthIs ==
    ASSUME g_cfg \in LayoutCfgs, NEW j \in Nat \ {0}, NEW length \in Nat
    PROVE  /\ desired_scaled_length(j * Unit, length) = (length * 256) \div (j * Unit)
           /\ desired_scaled_length(j * Unit, length) \in Nat
<1>1. PICK r \in Nat \ {0}, u \in Nat \ {0} : r = RoundTo /\ u = Unit /\ AStep(r, u)
  BY RoundToFacts DEF AStep
<1>2. Nearest((j * u) * r, 256) = j
  <2>1. 2 * ((j * u) * r) + 256 = 512 * j + 256
    BY <1>1 DEF AStep
  <2>2. (2 * ((j * u) * r) + 256) \div (2 * 256) = j
    BY <2>1
  <2>3. QED
    BY <2>2 DEF Nearest
<1>3. desired_scaled_length(j * Unit, length) = (length * r) \div j
  BY <1>1, <1>2 DEF desired_scaled_length, Length, Down
<1> DEFINE a == length * r
<1>4. a \in Int /\ a \in Nat /\ a * u = length * 256
  BY <1>1 DEF AStep
<1> HIDE DEF a
<1>5. (a * u) \div (j * u) = a \div j
  BY <1>4, DivMul
<1>6. a \div j \in Nat
  <2>1. a \div j \in Int /\ j * (a \div j) <= a /\ a < j * (a \div j) + j
    BY <1>4, DivFacts
  <2> DEFINE q == a \div j
  <2> HIDE DEF q
  <2>2. q \in Int /\ a < j * q + j
    BY <2>1 DEF q
  <2>3. ASSUME q <= -1 PROVE FALSE
    BY <1>4, <2>2, <2>3
  <2>4. QED
    BY <2>2, <2>3 DEF q
<1>7. QED
  BY <1>1, <1>3, <1>4, <1>5, <1>6 DEF a

-----------------------------------------------------------------------------
(* The rounds of desire.                                                   *)

(* The loops of desire.                                                    *)
Phases == {"desire", "buckets", "fill", "sort", "measure", "arrange", "done"}

(* The ranges of the variables.                                            *)
LayoutTypeOK ==
    /\ g_cfg \in LayoutCfgs /\ screen \in Screens /\ enabled \in SUBSET All
    /\ scale \in [All -> Nat] /\ transform \in [All -> 0..7]
    /\ scaled \in [All -> [width : Int, height : Int]] /\ pos \in [All -> [x : Int, y : Int]]
    /\ loop \in [in : Phases, head : Nat \ {0}, kind : 1..3, cand : Nat \ {0}]
    /\ tallest \in Int /\ widest \in Int /\ edge \in Int

(* The heads that this round has measured: with the scale and the          *)
(* transform of the configuration, and the size the compositor will use.   *)
SizeOK(h) ==
    /\ scale[h] = desire_scale(h)
    /\ scale[h] # 0 => scaled[h] = Logical(h) /\ scaled[h].width >= 0 /\ scaled[h].height >= 0

SizeInv ==
    \A k \in DOMAIN Heads :
        Heads[k] \in enabled /\ (loop.in # "desire" \/ k < loop.head) => SizeOK(Heads[k])

(* Whether a name of ORDER has been tried with a kind of match.            *)
Tried(b, kind) ==
    \/ loop.in = "sort"
    \/ kind < loop.kind
    \/ kind = loop.kind /\ b < loop.head

Trying(b, kind) == loop.in = "fill" /\ b = loop.head /\ kind = loop.kind

(* Whether a head arrived before another.                                  *)
Arrived(g, h) == \E a, b \in DOMAIN Heads : a < b /\ Heads[a] = g /\ Heads[b] = h

(* The candidates are in the order they arrived in, and none matches a     *)
(* name and kind that it has been tried with.                              *)
CandidatesInv ==
    /\ candidates \in Seq(All)
    /\ \A j, k \in DOMAIN candidates : j < k => Arrived(candidates[j], candidates[k])
    /\ \A k \in DOMAIN candidates, b \in DOMAIN g_cfg.order, kind \in 1..3 :
          Tried(b, kind) \/ (Trying(b, kind) /\ k < loop.cand) => ~Matches(candidates[k], b, kind)

(* A bucket holds heads whose place is its name, in the order they go;     *)
(* those of the kind being tried arrived before the candidates that are    *)
(* left.                                                                   *)
BucketsInv ==
    /\ buckets \in Seq(Seq(All)) /\ Len(buckets) = Len(g_cfg.order)
    /\ \A b \in DOMAIN buckets : \A j \in DOMAIN buckets[b] : \E kind \in 1..3 :
          /\ Place(buckets[b][j]) = <<b, kind>>
          /\ \/ Tried(b, kind)
             \/ /\ Trying(b, kind)
                /\ \A k \in DOMAIN candidates : k >= loop.cand => Arrived(buckets[b][j], candidates[k])
    /\ \A b \in DOMAIN buckets : \A j, k \in DOMAIN buckets[b] :
          j < k => Precedes(buckets[b][j], buckets[b][k])

(* Where a head can be before it is sorted.                                *)
Waiting(h) ==
    \/ \E k \in DOMAIN candidates : candidates[k] = h
    \/ \E b \in DOMAIN buckets : (loop.in = "sort" => b >= loop.head) /\ \E j \in DOMAIN buckets[b] : buckets[b][j] = h

Sorted(h) == \E k \in DOMAIN sorted : sorted[k] = h

(* While the buckets are filled.                                           *)
FillInv ==
    loop.in = "fill" =>
        /\ loop.head \in 1..Len(buckets) /\ sorted = <<>>
        /\ CandidatesInv /\ BucketsInv
        /\ \A h \in All : Waiting(h)

(* The sorted list is in order.                                            *)
Increasing ==
    /\ sorted \in Seq(All)
    /\ \A j \in DOMAIN sorted : Place(sorted[j])[1] \in Nat /\ Place(sorted[j])[2] \in Nat
    /\ \A j, k \in DOMAIN sorted : j < k => Precedes(sorted[j], sorted[k])

(* While the buckets are emptied: what is sorted lies before them.         *)
SortInv ==
    loop.in = "sort" =>
        /\ loop.head \in 1..(Len(buckets) + 1)
        /\ CandidatesInv /\ BucketsInv /\ Increasing
        /\ \A j \in DOMAIN sorted : Place(sorted[j])[1] < loop.head
        /\ \A h \in All : Waiting(h) \/ Sorted(h)

(* After that.                                                             *)
SortedInv ==
    loop.in \in {"measure", "arrange", "done"} => Increasing /\ Len(sorted) = Len(Heads) /\ \A h \in All : Sorted(h)

(* No enabled display has a SCALE that rounds to 0.                        *)
AllScaled == \A h \in enabled : scale[h] # 0

(* Lengths and places, in the direction of the row or column and across    *)
(* it.                                                                     *)
Along(h) == IF g_cfg.arrange = "COL" THEN scaled[h].height ELSE scaled[h].width
Across(h) == IF g_cfg.arrange = "COL" THEN scaled[h].width ELSE scaled[h].height
From(h) == IF g_cfg.arrange = "COL" THEN pos[h].y ELSE pos[h].x
Side(h) == IF g_cfg.arrange = "COL" THEN pos[h].x ELSE pos[h].y
Most == IF g_cfg.arrange = "COL" THEN widest ELSE tallest

(* The enabled heads of the sorted list, and a value of each head of it.   *)
On == {k \in DOMAIN sorted : sorted[k] \in enabled}
OfSorted(val(_)) == [k \in DOMAIN sorted |-> val(sorted[k])]

(* most is the largest of the lengths of S before q, or 0.                 *)
Largest(S, q, length, most) ==
    /\ most >= 0
    /\ \A k \in S : k < q => length[k] <= most
    /\ most = 0 \/ \E k \in S : k < q /\ length[k] = most

(* While the tallest and the widest are looked for.                        *)
Heights == [k \in DOMAIN sorted |-> scaled[sorted[k]].height]
Widths == [k \in DOMAIN sorted |-> scaled[sorted[k]].width]

MeasureInv ==
    loop.in = "measure" /\ AllScaled =>
        /\ edge = 0
        /\ Largest(On, loop.head, Heights, tallest)
        /\ Largest(On, loop.head, Widths, widest)

(* The members of S before q follow on from each other, from 0 to far.     *)
Line(S, q, from, along, far) ==
    /\ far >= 0 /\ (far = 0 \/ \E k \in S : k < q /\ from[k] + along[k] = far)
    /\ \A k \in S : k < q =>
          /\ from[k] >= 0 /\ from[k] + along[k] <= far
          /\ from[k] = 0 \/ \E j \in S : j < k /\ from[j] + along[j] = from[k]
    /\ \A j, k \in S : j < k /\ k < q => from[j] + along[j] <= from[k]

(* They lie within the largest of them.                                    *)
Within(S, q, side, across, most) ==
    \A k \in S : k < q => side[k] >= 0 /\ side[k] + across[k] <= most

(* While the positions are assigned, and when they are.                    *)
Reached == IF loop.in = "done" THEN Len(Heads) + 1 ELSE loop.head

ArrangeInv ==
    loop.in \in {"arrange", "done"} /\ AllScaled =>
        /\ Largest(On, Len(Heads) + 1, OfSorted(Across), Most)
        /\ Line(On, Reached, OfSorted(From), OfSorted(Along), edge)
        /\ Within(On, Reached, OfSorted(Side), OfSorted(Across), Most)

(* The inductive invariant.                                                *)
LayoutInv == LayoutTypeOK /\ SizeInv /\ FillInv /\ SortInv /\ SortedInv /\ MeasureInv /\ ArrangeInv

(* The heads are a list without repetition.                                *)
LEMMA HeadsFacts ==
    /\ Len(Heads) \in Nat /\ DOMAIN Heads = 1..Len(Heads)
    /\ \A k \in 1..Len(Heads) : Heads[k] \in All
    /\ \A h \in All : \E k \in 1..Len(Heads) : Heads[k] = h
    /\ \A j, k \in 1..Len(Heads) : Heads[j] = Heads[k] => j = k
BY LayoutAssumption DEF All

(* desire_scaled_dimensions, for a scale of at least a step, is the size   *)
(* that the compositor gives the display.                                  *)
LEMMA DimensionsAre ==
    ASSUME g_cfg \in LayoutCfgs, screen \in Screens, NEW h \in All, NEW j \in Nat \ {0}, NEW t \in 0..7
    PROVE  LET w == (screen[h].width * 256) \div (j * Unit)
               v == (screen[h].height * 256) \div (j * Unit)
           IN  /\ desire_scaled_dimensions(h, j * Unit, t) =
                     IF t \in {1, 3, 5, 7} THEN [width |-> v, height |-> w] ELSE [width |-> w, height |-> v]
               /\ w \in Nat /\ v \in Nat
<1>1. PICK s : s = screen[h] /\ s.width \in Nat /\ s.height \in Nat
  BY LayoutAssumption
<1>2. j * Unit # 0
  BY RoundToFacts DEF AStep
<1> DEFINE w == (s.width * 256) \div (j * Unit)
           v == (s.height * 256) \div (j * Unit)
<1>3. /\ desired_scaled_length(j * Unit, s.width) = w /\ w \in Nat
      /\ desired_scaled_length(j * Unit, s.height) = v /\ v \in Nat
  BY <1>1, LengthIs
<1> HIDE DEF w, v
<1>4. CASE t \in {1, 3, 5, 7}
  <2>1. t % 2 = 1
    BY <1>4
  <2>2. desire_scaled_dimensions(h, j * Unit, t) = [width |-> v, height |-> w]
    BY <1>1, <1>2, <1>3, <2>1 DEF desire_scaled_dimensions
  <2>3. QED
    BY <1>1, <1>3, <1>4, <2>2 DEF w, v
<1>5. CASE t \notin {1, 3, 5, 7}
  <2>1. t \in {0, 2, 4, 6} /\ ~(t % 2 = 1)
    BY <1>5
  <2>2. desire_scaled_dimensions(h, j * Unit, t) = [width |-> w, height |-> v]
    BY <1>1, <1>2, <1>3, <2>1 DEF desire_scaled_dimensions
  <2>3. QED
    BY <1>1, <1>3, <1>5, <2>2 DEF w, v
<1>6. QED
  BY <1>4, <1>5

(* A size is a pair of integers, whatever the scale is: it may be one of   *)
(* an earlier configuration.                                               *)
LEMMA DimensionsType ==
    ASSUME LayoutTypeOK, NEW h \in All, NEW s \in Nat, NEW t \in 0..7
    PROVE  desire_scaled_dimensions(h, s, t) \in [width : Int, height : Int]
<1>1. RoundTo \in Nat
  BY RoundToFacts DEF AStep, LayoutTypeOK
<1>2. ASSUME NEW length \in Nat PROVE desired_scaled_length(s, length) \in Int
  <2>1. PICK f : f = Nearest(s * RoundTo, 256)
    OBVIOUS
  <2>2. f \in Int
    BY <1>1, <2>1, NearestRange
  <2>3. f >= 0
    <3>1. PICK n \in Nat : n = s * RoundTo
      BY <1>1
    <3>2. n \in Int /\ 0 \in Int /\ 256 \in Nat \ {0} /\ 0 * 256 <= n
      OBVIOUS
    <3>3. 0 <= Nearest(n, 256)
      BY <3>2, NearestRange
    <3>4. QED
      BY <2>1, <3>1, <3>3
  <2>4. f # 0 => Down(length * RoundTo, f) \in Int
    BY <1>1, <2>2, <2>3, DivFacts DEF Down
  <2>5. QED
    BY <2>1, <2>4, LayoutAssumption DEF desired_scaled_length, Length
<1>3. screen[h].width \in Nat /\ screen[h].height \in Nat /\ scaled[h] \in [width : Int, height : Int]
  BY LayoutAssumption DEF LayoutTypeOK
<1>4. QED
  BY <1>2, <1>3 DEF desire_scaled_dimensions

(* The scale and the transform that a head is given are in range.          *)
LEMMA ScaleType ==
    ASSUME LayoutTypeOK, NEW h \in All
    PROVE  desire_scale(h) \in Nat /\ Found(g_cfg.transforms, h) \in 0..7
<1>1. PICK j \in Nat : desire_scale(h) = j * Unit
  BY ScaleSteps DEF LayoutTypeOK
<1>2. Unit \in Nat
  BY RoundToFacts DEF AStep, LayoutTypeOK
<1>3. desire_scale(h) \in Nat
  BY <1>1, <1>2
<1>4. PICK entries : entries = g_cfg.transforms
  OBVIOUS
<1>5. entries \in Seq([name_desc : NameDesc, val : 0..7])
  BY <1>4, LayoutAssumption DEF LayoutTypeOK, Valid
<1>6. Found(entries, h) \in (0..7) \cup {0}
  BY <1>5, FoundVal
<1>7. QED
  BY <1>3, <1>4, <1>6

(* The place of a head, by the name that takes it.                         *)
LEMMA PlaceIs ==
    ASSUME g_cfg \in LayoutCfgs, NEW h, NEW b \in DOMAIN g_cfg.order, NEW kind \in 1..3, Matches(h, b, kind),
           \A d \in DOMAIN g_cfg.order, l \in 1..3 : l < kind \/ (l = kind /\ d < b) => ~Matches(h, d, l)
    PROVE  Place(h) = <<b, kind>>
<1> DEFINE by(l) == {k \in DOMAIN g_cfg.order : h \in g_cfg.order[k][l]}
           first(ks) == CHOOSE k \in ks : \A j \in ks : k <= j
<1>1. Kinds[1] = "exact" /\ Kinds[2] = "regex" /\ Kinds[3] = "fuzzy"
  BY DEF Kinds
<1>2. DOMAIN g_cfg.order \subseteq Nat
  BY LayoutAssumption DEF Valid
<1>3. b \in by(Kinds[kind]) /\ \A d \in by(Kinds[kind]) : b <= d
  BY <1>2 DEF Matches
<1>4. first(by(Kinds[kind])) = b
  <2> DEFINE B == by(Kinds[kind])
  <2>1. B \subseteq Nat /\ b \in B /\ \A d \in B : b <= d
    BY <1>2, <1>3
  <2> HIDE DEF B
  <2>2. ASSUME NEW k \in B, \A j \in B : k <= j PROVE k = b
    <3>1. k <= b /\ b <= k /\ k \in Nat /\ b \in Nat
      BY <2>1, <2>2
    <3>2. QED
      BY <3>1
  <2>3. QED
    BY <2>1, <2>2 DEF B
<1>5. /\ kind > 1 => by("exact") = {}
      /\ kind > 2 => by("regex") = {}
  BY <1>1 DEF Matches
<1>6. by(Kinds[kind]) # {}
  BY <1>3
<1> DEFINE E == by("exact")
           R == by("regex")
           F == by("fuzzy")
<1>7. Place(h) = CASE E # {} -> <<first(E), 1>>
                   [] E = {} /\ R # {} -> <<first(R), 2>>
                   [] E = {} /\ R = {} /\ F # {} -> <<first(F), 3>>
                   [] OTHER -> <<Len(g_cfg.order) + 1, 1>>
  BY DEF Place
<1>8. CASE kind = 1
  <2>1. E # {} /\ first(E) = b
    BY <1>1, <1>4, <1>6, <1>8
  <2> HIDE DEF E, R, F, first
  <2>2. QED
    BY <1>7, <1>8, <2>1
<1>9. CASE kind = 2
  <2>1. E = {} /\ R # {} /\ first(R) = b
    BY <1>1, <1>4, <1>5, <1>6, <1>9
  <2> HIDE DEF E, R, F, first
  <2>2. QED
    BY <1>7, <1>9, <2>1
<1>10. CASE kind = 3
  <2>1. E = {} /\ R = {} /\ F # {} /\ first(F) = b
    BY <1>1, <1>4, <1>5, <1>6, <1>10
  <2> HIDE DEF E, R, F, first
  <2>2. QED
    BY <1>7, <1>10, <2>1
<1>11. QED
  BY <1>8, <1>9, <1>10

(* The place of a head that no name of ORDER matches.                      *)
LEMMA PlaceNone ==
    ASSUME g_cfg \in LayoutCfgs, NEW h,
           \A d \in DOMAIN g_cfg.order, l \in 1..3 : ~Matches(h, d, l)
    PROVE  Place(h) = <<Len(g_cfg.order) + 1, 1>>
<1> DEFINE by(l) == {k \in DOMAIN g_cfg.order : h \in g_cfg.order[k][l]}
<1>1. Kinds[1] = "exact" /\ Kinds[2] = "regex" /\ Kinds[3] = "fuzzy"
  BY DEF Kinds
<1>2. by("exact") = {} /\ by("regex") = {} /\ by("fuzzy") = {}
  BY <1>1 DEF Matches
<1>3. QED
  BY <1>2 DEF Place

(* A step that keeps the inputs and the sizes keeps what SizeInv says of   *)
(* them.                                                                   *)
LEMMA SizeKept ==
    ASSUME SizeInv, loop.in # "desire", loop'.in # "desire", UNCHANGED <<inputs, sizes>>
    PROVE  SizeInv' /\ AllScaled' = AllScaled
<1>1. g_cfg' = g_cfg /\ screen' = screen /\ enabled' = enabled /\ scale' = scale /\ transform' = transform /\ scaled' = scaled
  BY DEF inputs, sizes
<1>2. ASSUME NEW h PROVE (desire_scale(h))' = desire_scale(h) /\ (Logical(h))' = Logical(h)
  BY <1>1 DEF desire_scale, head_get_fixed_scale, head_auto_scale, RoundTo, Dpi, Logical
<1>3. ASSUME NEW h PROVE SizeOK(h)' = SizeOK(h)
  BY <1>1, <1>2 DEF SizeOK
<1>4. AllScaled' = AllScaled
  BY <1>1 DEF AllScaled
<1>5. QED
  BY <1>1, <1>3, <1>4 DEF SizeInv

(* The places depend on the configuration only.                            *)
LEMMA PlaceKept ==
    ASSUME g_cfg' = g_cfg, NEW g, NEW h
    PROVE  (Place(h))' = Place(h) /\ (Precedes(g, h))' = Precedes(g, h)
<1>1. \A x : (Place(x))' = Place(x)
  BY DEF Place
<1>2. QED
  BY <1>1 DEF Precedes

(* A list without one member: the members after it move up.                *)
LEMMA WithoutAtIs ==
    ASSUME NEW S, NEW s \in Seq(S), NEW k \in 1..Len(s)
    PROVE  /\ WithoutAt(s, k) \in Seq(S) /\ Len(WithoutAt(s, k)) = Len(s) - 1
           /\ \A j \in 1..(Len(s) - 1) : j < k => WithoutAt(s, k)[j] = s[j]
           /\ \A j \in 1..(Len(s) - 1) : j >= k => WithoutAt(s, k)[j] = s[j + 1]
<1> DEFINE a == SubSeq(s, 1, k - 1)
           b == SubSeq(s, k + 1, Len(s))
<1>1. Len(s) \in Nat /\ k \in Nat /\ k >= 1 /\ k <= Len(s) /\ \A j \in 1..Len(s) : s[j] \in S
  OBVIOUS
<1>2. a \in Seq(S) /\ Len(a) = k - 1 /\ \A j \in 1..(k - 1) : a[j] = s[j]
  BY <1>1
<1>3. b \in Seq(S) /\ Len(b) = Len(s) - k /\ \A j \in 1..(Len(s) - k) : b[j] = s[k + j]
  BY <1>1
<1> HIDE DEF a, b
<1>4. /\ a \o b \in Seq(S) /\ Len(a \o b) = Len(a) + Len(b)
      /\ \A j \in 1..(Len(a) + Len(b)) : (a \o b)[j] = IF j <= Len(a) THEN a[j] ELSE b[j - Len(a)]
  BY <1>2, <1>3, ConcatProperties
<1>5. WithoutAt(s, k) = a \o b
  BY DEF WithoutAt, a, b
<1>6. Len(a \o b) = Len(s) - 1
  BY <1>1, <1>2, <1>3, <1>4
<1>7. ASSUME NEW j \in 1..(Len(s) - 1), j < k
      PROVE  (a \o b)[j] = s[j]
  <2>1. j \in 1..(Len(a) + Len(b)) /\ j <= Len(a) /\ j \in 1..(k - 1)
    BY <1>1, <1>2, <1>3, <1>7
  <2>2. (a \o b)[j] = a[j]
    BY <1>4, <2>1
  <2>3. QED
    BY <1>2, <2>1, <2>2
<1>8. ASSUME NEW j \in 1..(Len(s) - 1), j >= k
      PROVE  (a \o b)[j] = s[j + 1]
  <2>1. j \in 1..(Len(a) + Len(b)) /\ ~(j <= Len(a)) /\ j - Len(a) = j - (k - 1) /\ j - (k - 1) \in 1..(Len(s) - k)
    BY <1>1, <1>2, <1>3, <1>8
  <2>2. (a \o b)[j] = b[j - (k - 1)]
    BY <1>4, <2>1
  <2>3. b[j - (k - 1)] = s[k + (j - (k - 1))] /\ k + (j - (k - 1)) = j + 1
    BY <1>1, <1>3, <2>1
  <2>4. QED
    BY <2>2, <2>3
<1>9. QED
  BY <1>4, <1>5, <1>6, <1>7, <1>8

(* A candidate that matches goes to the end of the bucket. Those that stay *)
(* have not been taken by an earlier name or kind, and the ones after it   *)
(* in the list arrived later.                                              *)
LEMMA TakeCandidate ==
    ASSUME LayoutTypeOK, FillInv, fill_order_bucket, Matches(candidates[loop.cand], loop.head, loop.kind)
    PROVE  FillInv'
<1>1. /\ candidates \in Seq(All) /\ buckets \in Seq(Seq(All)) /\ loop.in = "fill"
      /\ loop.head \in 1..Len(buckets) /\ loop.cand \in Nat \ {0} /\ loop.kind \in 1..3
      /\ loop.cand <= Len(candidates)
  BY DEF FillInv, LayoutTypeOK, fill_order_bucket, CandidatesInv, BucketsInv
<1>2. PICK n \in Nat : n = Len(candidates)
  BY <1>1
<1>3. PICK x \in All : x = candidates[loop.cand]
  BY <1>1
<1>4. PICK b \in Nat, c \in Nat, l \in 1..3 : b = loop.head /\ c = loop.cand /\ l = loop.kind
  BY <1>1
<1>5. /\ b = loop.head /\ c = loop.cand /\ l = loop.kind /\ x = candidates[c] /\ n = Len(candidates)
      /\ b \in 1..Len(buckets) /\ c >= 1 /\ c <= n /\ c \in 1..n /\ Matches(x, b, l)
      /\ candidates \in Seq(All) /\ x \in All /\ buckets \in Seq(Seq(All))
  BY <1>1, <1>2, <1>3, <1>4
<1>6. /\ loop.in = "fill" /\ CandidatesInv /\ BucketsInv /\ \A h \in All : Waiting(h)
      /\ loop' = loop /\ buckets' = [buckets EXCEPT ![b] = Append(buckets[b], x)]
      /\ candidates' = WithoutAt(candidates, c) /\ g_cfg' = g_cfg
  BY <1>5 DEF FillInv, LayoutTypeOK, fill_order_bucket, AfterRemoval, inputs
<1>7. /\ candidates' \in Seq(All) /\ Len(candidates') = n - 1 /\ DOMAIN candidates' = 1..(n - 1)
      /\ DOMAIN candidates = 1..n
      /\ \A j \in 1..(n - 1) : j < c => candidates'[j] = candidates[j]
      /\ \A j \in 1..(n - 1) : j >= c => candidates'[j] = candidates[j + 1]
  <2>1. PICK w : w = candidates
    OBVIOUS
  <2>2. w \in Seq(All) /\ c \in 1..Len(w)
    BY <1>5, <2>1
  <2>3. /\ WithoutAt(w, c) \in Seq(All) /\ Len(WithoutAt(w, c)) = Len(w) - 1
        /\ \A j \in 1..(Len(w) - 1) : j < c => WithoutAt(w, c)[j] = w[j]
        /\ \A j \in 1..(Len(w) - 1) : j >= c => WithoutAt(w, c)[j] = w[j + 1]
    BY <2>2, WithoutAtIs
  <2>4. QED
    BY <1>5, <1>6, <2>1, <2>3
<1>8. PICK m \in Nat : /\ m = Len(buckets[b]) /\ buckets[b] \in Seq(All) /\ DOMAIN buckets[b] = 1..m
  <2>1. PICK w : w = buckets[b]
    OBVIOUS
  <2>2. w \in Seq(All)
    BY <1>5, <2>1, ElementOfSeq
  <2>3. Len(w) \in Nat /\ DOMAIN w = 1..Len(w)
    BY <2>2, LenProperties
  <2>4. QED
    BY <2>1, <2>2, <2>3
<1>9. /\ buckets' \in Seq(Seq(All)) /\ Len(buckets') = Len(buckets) /\ DOMAIN buckets' = DOMAIN buckets
      /\ DOMAIN buckets = 1..Len(buckets)
      /\ \A d \in DOMAIN buckets : d # b => buckets'[d] = buckets[d]
      /\ DOMAIN buckets'[b] = 1..(m + 1) /\ buckets'[b][m + 1] = x
      /\ \A j \in 1..m : buckets'[b][j] = buckets[b][j]
  <2> DEFINE y == Append(buckets[b], x)
  <2>1. y \in Seq(All) /\ Len(y) = m + 1 /\ DOMAIN y = 1..(m + 1) /\ y[m + 1] = x /\ \A j \in 1..m : y[j] = buckets[b][j]
    BY <1>5, <1>8
  <2> HIDE DEF y
  <2>2. buckets' = [buckets EXCEPT ![b] = y]
    BY <1>6 DEF y
  <2>3. buckets'[b] = y /\ \A d \in DOMAIN buckets : d # b => buckets'[d] = buckets[d]
    BY <1>5, <2>2
  <2>4. buckets' \in Seq(Seq(All)) /\ Len(buckets') = Len(buckets) /\ DOMAIN buckets' = DOMAIN buckets
    BY <1>5, <2>1, <2>2
  <2>5. QED
    BY <1>5, <2>1, <2>3, <2>4
<1>10. \A d, k : (Tried(d, k))' = Tried(d, k) /\ (Trying(d, k))' = Trying(d, k)
  BY <1>6 DEF Tried, Trying
<1>11. \A h, d, k : (Matches(h, d, k))' = Matches(h, d, k)
  BY <1>6 DEF Matches
<1>12. b \in DOMAIN g_cfg.order /\ DOMAIN g_cfg.order = DOMAIN buckets /\ Len(buckets) = Len(g_cfg.order)
  <2>1. g_cfg.order \in Seq(NameDesc)
    BY LayoutAssumption DEF LayoutTypeOK, Valid
  <2>2. QED
    BY <1>5, <1>6, <2>1 DEF BucketsInv
<1>13. Place(x) = <<b, l>>
  <2>1. ASSUME NEW d \in DOMAIN g_cfg.order, NEW k \in 1..3, k < l \/ (k = l /\ d < b)
        PROVE  ~Matches(x, d, k)
    <3>1. Tried(d, k)
      BY <1>5, <2>1 DEF Tried
    <3>2. c \in DOMAIN candidates
      BY <1>5, <1>7
    <3>3. QED
      BY <1>5, <1>6, <3>1, <3>2 DEF CandidatesInv
  <2>2. g_cfg \in LayoutCfgs
    BY DEF LayoutTypeOK
  <2>3. QED
    BY <1>5, <1>12, <2>1, <2>2, PlaceIs
<1>14. Trying(b, l)
  BY <1>5, <1>6 DEF Trying
<1>15. \A j, k \in 1..n : j < k => Arrived(candidates[j], candidates[k])
  BY <1>6, <1>7 DEF CandidatesInv
<1>16. CandidatesInv'
  <2>1. ASSUME NEW j \in 1..(n - 1), NEW k \in 1..(n - 1), j < k
        PROVE  (Arrived(candidates[j], candidates[k]))'
    <3>1. PICK p \in 1..n, q \in 1..n : p < q /\ candidates'[j] = candidates[p] /\ candidates'[k] = candidates[q]
      <4>1. CASE k < c
        <5>1. j \in 1..n /\ k \in 1..n /\ j < c /\ k < c
          BY <1>5, <2>1, <4>1
        <5>2. candidates'[j] = candidates[j] /\ candidates'[k] = candidates[k]
          BY <1>7, <5>1
        <5>3. QED
          BY <2>1, <5>1, <5>2
      <4>2. CASE j < c /\ k >= c
        <5>1. j \in 1..n /\ k + 1 \in 1..n /\ j < k + 1
          BY <2>1
        <5>2. candidates'[j] = candidates[j] /\ candidates'[k] = candidates[k + 1]
          BY <1>7, <4>2
        <5>3. QED
          BY <5>1, <5>2
      <4>3. CASE j >= c
        <5>1. j + 1 \in 1..n /\ k + 1 \in 1..n /\ j + 1 < k + 1 /\ k >= c
          BY <1>5, <2>1, <4>3
        <5>2. candidates'[j] = candidates[j + 1] /\ candidates'[k] = candidates[k + 1]
          BY <1>7, <4>3, <5>1
        <5>3. QED
          BY <5>1, <5>2
      <4>4. QED
        BY <1>5, <4>1, <4>2, <4>3
    <3>2. QED
      BY <1>15, <3>1 DEF Arrived
  <2>2. ASSUME NEW k \in 1..(n - 1), NEW d \in DOMAIN g_cfg.order, NEW kind \in 1..3,
               Tried(d, kind) \/ (Trying(d, kind) /\ k < c)
        PROVE  ~Matches(candidates'[k], d, kind)
    <3>1. PICK p \in 1..n : candidates'[k] = candidates[p] /\ (k < c => p < c)
      <4>1. CASE k < c
        BY <1>5, <1>7, <4>1
      <4>2. CASE k >= c
        BY <1>5, <1>7, <4>2
      <4>3. QED
        BY <1>5, <4>1, <4>2
    <3>2. QED
      BY <1>5, <1>6, <1>7, <2>2, <3>1 DEF CandidatesInv
  <2>3. QED
    BY <1>5, <1>6, <1>7, <1>10, <1>11, <2>1, <2>2 DEF CandidatesInv
<1>17. ASSUME NEW d \in DOMAIN buckets, NEW j \in DOMAIN buckets[d]
       PROVE  \E kind \in 1..3 :
                 /\ Place(buckets[d][j]) = <<d, kind>>
                 /\ \/ Tried(d, kind)
                    \/ /\ Trying(d, kind)
                       /\ \A k \in 1..n : k >= c => Arrived(buckets[d][j], candidates[k])
  BY <1>5, <1>6, <1>7 DEF BucketsInv
<1>18. \A y : (\A k \in 1..n : k >= c => Arrived(y, candidates[k])) =>
               \A k \in 1..(n - 1) : k >= c => Arrived(y, candidates'[k])
  <2> SUFFICES ASSUME NEW y, \A k \in 1..n : k >= c => Arrived(y, candidates[k]), NEW k \in 1..(n - 1), k >= c
               PROVE  Arrived(y, candidates'[k])
    OBVIOUS
  <2>1. candidates'[k] = candidates[k + 1] /\ k + 1 \in 1..n /\ k + 1 >= c
    BY <1>5, <1>7
  <2>2. QED
    BY <2>1
<1>19. ASSUME NEW d \in DOMAIN buckets, NEW j \in DOMAIN buckets'[d]
       PROVE  \E kind \in 1..3 :
                 /\ Place(buckets'[d][j]) = <<d, kind>>
                 /\ \/ Tried(d, kind)
                    \/ /\ Trying(d, kind)
                       /\ \A k \in 1..(n - 1) : k >= c => Arrived(buckets'[d][j], candidates'[k])
  <2>1. CASE d = b /\ j = m + 1
    <3>1. ASSUME NEW k \in 1..(n - 1), k >= c PROVE Arrived(x, candidates'[k])
      <4>1. candidates'[k] = candidates[k + 1] /\ k + 1 \in 1..n /\ c \in 1..n /\ c < k + 1
        BY <1>5, <1>7, <3>1
      <4>2. QED
        BY <1>5, <1>15, <4>1
    <3>2. buckets'[d][j] = x
      BY <1>9, <2>1
    <3>3. QED
      BY <1>5, <1>13, <1>14, <2>1, <3>1, <3>2
  <2>2. CASE ~(d = b /\ j = m + 1)
    <3>1. j \in DOMAIN buckets[d] /\ buckets'[d][j] = buckets[d][j]
      <4>1. CASE d # b
        BY <1>9, <4>1
      <4>2. CASE d = b
        <5>1. j \in 1..(m + 1) /\ j # m + 1
          BY <1>9, <2>2, <4>2
        <5>2. j \in 1..m
          BY <5>1
        <5>3. QED
          BY <1>8, <1>9, <4>2, <5>2
      <4>3. QED
        BY <4>1, <4>2
    <3>2. PICK y : y = buckets[d][j]
      OBVIOUS
    <3>3. PICK kind \in 1..3 :
                 /\ Place(y) = <<d, kind>>
                 /\ \/ Tried(d, kind)
                    \/ /\ Trying(d, kind)
                       /\ \A k \in 1..n : k >= c => Arrived(y, candidates[k])
      BY <1>17, <3>1, <3>2
    <3>4. QED
      BY <1>18, <3>1, <3>2, <3>3
  <2>3. QED
    BY <2>1, <2>2
<1>20. ASSUME NEW d \in DOMAIN buckets, NEW j \in DOMAIN buckets'[d], NEW k \in DOMAIN buckets'[d], j < k
       PROVE  Precedes(buckets'[d][j], buckets'[d][k])
  <2>1. CASE d = b /\ k = m + 1
    <3>1. j \in DOMAIN buckets[b] /\ buckets'[d][j] = buckets[b][j] /\ buckets'[d][k] = x
      BY <1>8, <1>9, <1>20, <2>1
    <3>2. PICK y : y = buckets[b][j]
      OBVIOUS
    <3>3. PICK kind \in 1..3 :
                 /\ Place(y) = <<b, kind>>
                 /\ \/ Tried(b, kind)
                    \/ /\ Trying(b, kind)
                       /\ \A e \in 1..n : e >= c => Arrived(y, candidates[e])
      BY <1>5, <1>9, <1>17, <3>1, <3>2
    <3>4. CASE Tried(b, kind)
      <4>1. kind < l
        BY <1>5, <1>6, <3>4 DEF Tried
      <4>2. QED
        BY <1>5, <1>13, <3>1, <3>2, <3>3, <4>1 DEF Precedes
    <3>5. CASE Trying(b, kind) /\ \A e \in 1..n : e >= c => Arrived(y, candidates[e])
      <4>1. kind = l /\ Arrived(y, x)
        <5>1. c \in 1..n /\ c >= c /\ candidates[c] = x
          BY <1>5
        <5>2. Arrived(y, candidates[c])
          BY <3>5, <5>1
        <5>3. kind = l
          BY <1>5, <3>5 DEF Trying
        <5>4. QED
          BY <5>1, <5>2, <5>3
      <4>2. QED
        BY <1>13, <3>1, <3>2, <3>3, <4>1 DEF Precedes, Arrived
    <3>6. QED
      BY <3>3, <3>4, <3>5
  <2>2. CASE ~(d = b /\ k = m + 1)
    <3>1. /\ j \in DOMAIN buckets[d] /\ k \in DOMAIN buckets[d]
          /\ buckets'[d][j] = buckets[d][j] /\ buckets'[d][k] = buckets[d][k]
      <4>1. CASE d # b
        BY <1>9, <4>1
      <4>2. CASE d = b
        <5>1. j \in 1..(m + 1) /\ k \in 1..(m + 1) /\ k # m + 1
          BY <1>9, <2>2, <4>2
        <5>2. j \in 1..m /\ k \in 1..m
          BY <1>20, <5>1
        <5>3. QED
          BY <1>8, <1>9, <4>2, <5>2
      <4>3. QED
        BY <4>1, <4>2
    <3>2. QED
      BY <1>6, <1>20, <3>1 DEF BucketsInv
  <2>3. QED
    BY <2>1, <2>2
<1>21. BucketsInv'
  <2>1. \A y : (Place(y))' = Place(y)
    BY <1>6, PlaceKept
  <2>2. \A y, z : (Precedes(y, z))' = Precedes(y, z)
    BY <1>6, PlaceKept
  <2>3. \A y, z : (Arrived(y, z))' = Arrived(y, z)
    BY DEF Arrived
  <2>4. ASSUME NEW d \in DOMAIN buckets', NEW j \in DOMAIN buckets'[d]
        PROVE  \E kind \in 1..3 :
                 /\ (Place(buckets[d][j]))' = <<d, kind>>
                 /\ \/ Tried(d, kind)'
                    \/ /\ Trying(d, kind)'
                       /\ \A k \in DOMAIN candidates' : k >= loop'.cand => (Arrived(buckets[d][j], candidates[k]))'
    <3>1. PICK y : y = buckets'[d][j]
      OBVIOUS
    <3>2. PICK kind \in 1..3 :
                 /\ Place(y) = <<d, kind>>
                 /\ \/ Tried(d, kind)
                    \/ /\ Trying(d, kind)
                       /\ \A k \in 1..(n - 1) : k >= c => Arrived(y, candidates'[k])
      BY <1>9, <1>19, <3>1
    <3>3. (Place(buckets[d][j]))' = <<d, kind>>
      BY <1>6, <3>1, <3>2 DEF Place
    <3>4. QED
      BY <1>5, <1>6, <1>7, <1>10, <3>1, <3>2, <3>3 DEF Arrived
  <2>5. ASSUME NEW d \in DOMAIN buckets', NEW j \in DOMAIN buckets'[d], NEW k \in DOMAIN buckets'[d], j < k
        PROVE  (Precedes(buckets[d][j], buckets[d][k]))'
    <3>1. PICK y, z : y = buckets'[d][j] /\ z = buckets'[d][k]
      OBVIOUS
    <3>2. Precedes(y, z)
      BY <1>9, <1>20, <2>5, <3>1
    <3>3. (Place(buckets[d][j]))' = Place(y) /\ (Place(buckets[d][k]))' = Place(z)
      BY <1>6, <3>1 DEF Place
    <3>4. QED
      BY <3>1, <3>2, <3>3 DEF Precedes
  <2>6. QED
    BY <1>6, <1>9, <1>12, <2>4, <2>5 DEF BucketsInv
<1>22. ASSUME NEW h \in All PROVE Waiting(h)'
  <2>1. CASE \E k \in 1..n : candidates[k] = h
    <3>1. PICK k \in 1..n : candidates[k] = h
      BY <2>1
    <3>2. CASE k = c
      <4>1. b \in DOMAIN buckets' /\ m + 1 \in DOMAIN buckets'[b] /\ buckets'[b][m + 1] = h
        BY <1>5, <1>9, <3>1, <3>2
      <4>2. QED
        BY <1>6, <4>1 DEF Waiting
    <3>3. CASE k # c
      <4>1. PICK p \in 1..(n - 1) : candidates'[p] = candidates[k]
        <5>1. CASE k < c
          <6>1. k \in 1..(n - 1) /\ candidates'[k] = candidates[k]
            BY <1>5, <1>7, <5>1
          <6>2. QED
            BY <6>1
        <5>2. CASE k > c
          <6>1. k - 1 \in 1..(n - 1) /\ candidates'[k - 1] = candidates[k]
            BY <1>5, <1>7, <5>2
          <6>2. QED
            BY <6>1
        <5>3. QED
          BY <1>5, <3>3, <5>1, <5>2
      <4>2. QED
        BY <1>7, <3>1, <4>1 DEF Waiting
    <3>4. QED
      BY <3>2, <3>3
  <2>2. CASE \E d \in DOMAIN buckets : \E j \in DOMAIN buckets[d] : buckets[d][j] = h
    <3>0. PICK d \in DOMAIN buckets : \E j \in DOMAIN buckets[d] : buckets[d][j] = h
      BY <2>2
    <3>1. PICK j \in DOMAIN buckets[d] : buckets[d][j] = h
      BY <3>0
    <3>2. d \in DOMAIN buckets' /\ j \in DOMAIN buckets'[d] /\ buckets'[d][j] = h
      <4>1. CASE d # b
        BY <1>9, <3>1, <4>1
      <4>2. CASE d = b
        <5>1. j \in 1..m /\ j \in 1..(m + 1)
          BY <1>8, <4>2
        <5>2. QED
          BY <1>9, <3>1, <4>2, <5>1
      <4>3. QED
        BY <4>1, <4>2
    <3>3. QED
      BY <1>6, <3>2 DEF Waiting
  <2>3. QED
    BY <1>6, <1>7, <2>1, <2>2 DEF Waiting
<1>23. QED
  <2>1. sorted' = <<>>
    BY <1>6 DEF FillInv, fill_order_bucket
  <2>2. QED
    BY <1>5, <1>6, <1>9, <1>16, <1>21, <1>22, <2>1 DEF FillInv

(* A candidate that does not match stays, and has now been tried with this *)
(* name and kind.                                                          *)
LEMMA SkipCandidate ==
    ASSUME LayoutTypeOK, FillInv, fill_order_bucket, ~Matches(candidates[loop.cand], loop.head, loop.kind)
    PROVE  FillInv'
<1>1. /\ loop.in = "fill" /\ CandidatesInv /\ BucketsInv /\ sorted = <<>> /\ \A h \in All : Waiting(h)
      /\ loop.head \in 1..Len(buckets) /\ loop.cand \in Nat /\ loop.kind \in 1..3
      /\ loop'.in = "fill" /\ loop'.head = loop.head /\ loop'.kind = loop.kind /\ loop'.cand = loop.cand + 1
      /\ candidates' = candidates /\ buckets' = buckets /\ sorted' = sorted /\ g_cfg' = g_cfg
  BY DEF FillInv, LayoutTypeOK, fill_order_bucket, inputs
<1>2. \A d, k : (Tried(d, k))' = Tried(d, k) /\ (Trying(d, k))' = Trying(d, k)
  BY <1>1 DEF Tried, Trying
<1>3. \A h, d, k : (Matches(h, d, k))' = Matches(h, d, k)
  BY <1>1 DEF Matches
<1>4. \A x, y : (Place(y))' = Place(y) /\ (Precedes(x, y))' = Precedes(x, y)
  BY <1>1, PlaceKept
<1>5. DOMAIN candidates \subseteq Nat
  BY <1>1 DEF CandidatesInv
<1>6. CandidatesInv'
  <2>1. ASSUME NEW k \in DOMAIN candidates, NEW d \in DOMAIN g_cfg.order, NEW kind \in 1..3,
               Tried(d, kind) \/ (Trying(d, kind) /\ k < loop.cand + 1)
        PROVE  ~Matches(candidates[k], d, kind)
    <3>1. CASE Tried(d, kind) \/ (Trying(d, kind) /\ k < loop.cand)
      BY <1>1, <3>1 DEF CandidatesInv
    <3>2. CASE Trying(d, kind) /\ k = loop.cand
      BY <3>2 DEF Trying
    <3>3. QED
      BY <1>1, <1>5, <2>1, <3>1, <3>2
  <2>2. \A j, k \in DOMAIN candidates : j < k => Arrived(candidates[j], candidates[k])
    BY <1>1 DEF CandidatesInv
  <2>3. candidates \in Seq(All)
    BY <1>1 DEF CandidatesInv
  <2>4. QED
    BY <1>1, <1>2, <1>3, <2>1, <2>2, <2>3 DEF CandidatesInv, Arrived
<1>7. BucketsInv'
  <2>1. ASSUME NEW d \in DOMAIN buckets, NEW j \in DOMAIN buckets[d]
        PROVE  \E kind \in 1..3 :
                  /\ Place(buckets[d][j]) = <<d, kind>>
                  /\ \/ Tried(d, kind)
                     \/ /\ Trying(d, kind)
                        /\ \A k \in DOMAIN candidates : k >= loop.cand + 1 => Arrived(buckets[d][j], candidates[k])
    <3>1. PICK kind \in 1..3 :
                  /\ Place(buckets[d][j]) = <<d, kind>>
                  /\ \/ Tried(d, kind)
                     \/ /\ Trying(d, kind)
                        /\ \A k \in DOMAIN candidates : k >= loop.cand => Arrived(buckets[d][j], candidates[k])
      BY <1>1 DEF BucketsInv
    <3>2. \A k \in DOMAIN candidates : k >= loop.cand + 1 => k >= loop.cand
      BY <1>1, <1>5
    <3>3. QED
      BY <3>1, <3>2
  <2>2. /\ buckets \in Seq(Seq(All)) /\ Len(buckets) = Len(g_cfg.order)
        /\ \A b \in DOMAIN buckets : \A j, k \in DOMAIN buckets[b] : j < k => Precedes(buckets[b][j], buckets[b][k])
    BY <1>1 DEF BucketsInv
  <2>3. ASSUME NEW d \in DOMAIN buckets', NEW j \in DOMAIN buckets'[d]
        PROVE  \E kind \in 1..3 :
                 /\ (Place(buckets[d][j]))' = <<d, kind>>
                 /\ \/ Tried(d, kind)'
                    \/ /\ Trying(d, kind)'
                       /\ \A k \in DOMAIN candidates' : k >= loop'.cand => (Arrived(buckets[d][j], candidates[k]))'
    <3>1. PICK y : y = buckets'[d][j]
      OBVIOUS
    <3>2. PICK kind \in 1..3 :
                  /\ Place(y) = <<d, kind>>
                  /\ \/ Tried(d, kind)
                     \/ /\ Trying(d, kind)
                        /\ \A k \in DOMAIN candidates : k >= loop.cand + 1 => Arrived(y, candidates[k])
      BY <1>1, <2>1, <3>1
    <3>3. (Place(buckets[d][j]))' = <<d, kind>>
      BY <1>1, <3>1, <3>2 DEF Place
    <3>4. QED
      BY <1>1, <1>2, <3>1, <3>2, <3>3 DEF Arrived
  <2>4. ASSUME NEW d \in DOMAIN buckets', NEW j \in DOMAIN buckets'[d], NEW k \in DOMAIN buckets'[d], j < k
        PROVE  (Precedes(buckets[d][j], buckets[d][k]))'
    <3>1. PICK y, z : y = buckets'[d][j] /\ z = buckets'[d][k]
      OBVIOUS
    <3>2. Precedes(y, z)
      BY <1>1, <2>2, <2>4, <3>1
    <3>3. (Place(buckets[d][j]))' = Place(y) /\ (Place(buckets[d][k]))' = Place(z)
      BY <1>1, <3>1 DEF Place
    <3>4. QED
      BY <3>1, <3>2, <3>3 DEF Precedes
  <2>5. QED
    BY <1>1, <2>2, <2>3, <2>4 DEF BucketsInv
<1>8. \A h \in All : Waiting(h)'
  BY <1>1 DEF Waiting
<1>9. QED
  BY <1>1, <1>6, <1>7, <1>8 DEF FillInv

(* At the end of the candidates the name has been tried with the kind, so  *)
(* the next name, the next kind or the sorting may begin.                  *)
LEMMA NextBucket ==
    ASSUME LayoutTypeOK, FillInv, fill_order_buckets
    PROVE  FillInv' /\ SortInv'
<1>1. /\ loop.in = "fill" /\ CandidatesInv /\ BucketsInv /\ sorted = <<>> /\ \A h \in All : Waiting(h)
      /\ loop.head \in 1..Len(buckets) /\ loop.cand \in Nat /\ loop.kind \in 1..3 /\ loop.cand > Len(candidates)
      /\ candidates' = candidates /\ buckets' = buckets /\ sorted' = sorted /\ g_cfg' = g_cfg
  BY DEF FillInv, LayoutTypeOK, fill_order_buckets, inputs, ordering
<1>2. \/ /\ loop'.in = "fill" /\ loop'.cand = 1
         /\ \/ loop'.head = loop.head + 1 /\ loop'.kind = loop.kind /\ loop.head < Len(buckets)
            \/ loop'.head = 1 /\ loop'.kind = loop.kind + 1 /\ loop.head >= Len(buckets) /\ loop.kind < 3
      \/ loop'.in = "sort" /\ loop'.head = 1 /\ loop'.cand = 1 /\ loop.head >= Len(buckets) /\ loop.kind >= 3
  <2>1. Len(Kinds) = 3
    BY DEF Kinds
  <2>2. loop \in [in : Phases, head : Nat \ {0}, kind : 1..3, cand : Nat \ {0}]
    BY DEF LayoutTypeOK
  <2>3. Len(buckets) \in Nat
    BY <1>1 DEF BucketsInv
  <2>4. CASE loop.head < Len(buckets)
    BY <1>1, <2>2, <2>4 DEF fill_order_buckets
  <2>5. CASE ~(loop.head < Len(buckets)) /\ loop.kind < 3
    BY <1>1, <2>1, <2>2, <2>3, <2>5 DEF fill_order_buckets
  <2>6. CASE ~(loop.head < Len(buckets)) /\ ~(loop.kind < 3)
    <3>1. loop' = Start("sort")
      BY <2>1, <2>6 DEF fill_order_buckets
    <3>2. QED
      BY <1>1, <2>3, <2>6, <3>1 DEF Start
  <2>7. QED
    BY <2>4, <2>5, <2>6
<1>3. /\ Len(buckets) \in Nat /\ DOMAIN buckets = 1..Len(buckets) /\ DOMAIN g_cfg.order = 1..Len(buckets)
      /\ Len(candidates) \in Nat /\ DOMAIN candidates = 1..Len(candidates)
  <2>1. g_cfg.order \in Seq(NameDesc)
    BY LayoutAssumption DEF LayoutTypeOK, Valid
  <2>2. QED
    BY <1>1, <2>1 DEF BucketsInv, CandidatesInv
<1>4. ASSUME NEW d \in 1..Len(buckets), NEW kind \in 1..3
      PROVE  Tried(d, kind)' <=> Tried(d, kind) \/ Trying(d, kind)
  <2>1. CASE loop'.in = "sort" /\ loop.head >= Len(buckets) /\ loop.kind >= 3
    BY <1>1, <1>3, <2>1 DEF Tried, Trying
  <2>2. CASE loop'.in = "fill" /\ loop'.head = loop.head + 1 /\ loop'.kind = loop.kind
    BY <1>1, <1>3, <2>2 DEF Tried, Trying
  <2>3. CASE loop'.in = "fill" /\ loop'.head = 1 /\ loop'.kind = loop.kind + 1 /\ loop.head >= Len(buckets)
    BY <1>1, <1>3, <2>3 DEF Tried, Trying
  <2>4. QED
    BY <1>2, <2>1, <2>2, <2>3
<1>5. \A h, d, k : (Matches(h, d, k))' = Matches(h, d, k)
  BY <1>1 DEF Matches
<1>6. CandidatesInv'
  <2>1. ASSUME NEW k \in DOMAIN candidates, NEW d \in DOMAIN g_cfg.order, NEW kind \in 1..3,
               Tried(d, kind)' \/ (Trying(d, kind)' /\ k < loop'.cand)
        PROVE  ~Matches(candidates[k], d, kind)
    <3>1. k \in Nat /\ k >= 1 /\ k < loop.cand
      BY <1>1, <1>3
    <3>2. Tried(d, kind) \/ (Trying(d, kind) /\ k < loop.cand)
      BY <1>2, <1>3, <1>4, <2>1, <3>1
    <3>3. QED
      BY <1>1, <3>2 DEF CandidatesInv
  <2>2. candidates \in Seq(All) /\ \A j, k \in DOMAIN candidates : j < k => Arrived(candidates[j], candidates[k])
    BY <1>1 DEF CandidatesInv
  <2>3. QED
    BY <1>1, <1>5, <2>1, <2>2 DEF CandidatesInv, Arrived
<1>7. BucketsInv'
  <2>1. ASSUME NEW d \in DOMAIN buckets', NEW j \in DOMAIN buckets'[d]
        PROVE  \E kind \in 1..3 : (Place(buckets[d][j]))' = <<d, kind>> /\ Tried(d, kind)'
    <3>1. PICK y : y = buckets'[d][j]
      OBVIOUS
    <3>2. PICK kind \in 1..3 : Place(y) = <<d, kind>> /\ (Tried(d, kind) \/ Trying(d, kind))
      BY <1>1, <3>1 DEF BucketsInv
    <3>3. (Place(buckets[d][j]))' = <<d, kind>>
      BY <1>1, <3>1, <3>2 DEF Place
    <3>4. Tried(d, kind)'
      BY <1>1, <1>3, <1>4, <3>2
    <3>5. QED
      BY <3>3, <3>4
  <2>2. /\ buckets \in Seq(Seq(All)) /\ Len(buckets) = Len(g_cfg.order)
        /\ \A b \in DOMAIN buckets : \A j, k \in DOMAIN buckets[b] : j < k => Precedes(buckets[b][j], buckets[b][k])
    BY <1>1 DEF BucketsInv
  <2>3. ASSUME NEW d \in DOMAIN buckets', NEW j \in DOMAIN buckets'[d], NEW k \in DOMAIN buckets'[d], j < k
        PROVE  (Precedes(buckets[d][j], buckets[d][k]))'
    <3>1. PICK y, z : y = buckets'[d][j] /\ z = buckets'[d][k]
      OBVIOUS
    <3>2. Precedes(y, z)
      BY <1>1, <2>2, <2>3, <3>1
    <3>3. (Place(buckets[d][j]))' = Place(y) /\ (Place(buckets[d][k]))' = Place(z)
      BY <1>1, <3>1 DEF Place
    <3>4. QED
      BY <3>1, <3>2, <3>3 DEF Precedes
  <2>4. QED
    BY <1>1, <2>1, <2>2, <2>3 DEF BucketsInv
<1>8. \A h \in All : Waiting(h)'
  <2>1. loop'.in = "sort" => \A b \in DOMAIN buckets : b >= loop'.head
    BY <1>2, <1>3
  <2>2. QED
    BY <1>1, <2>1 DEF Waiting
<1>9. Increasing' /\ sorted' = <<>> /\ DOMAIN sorted' = {}
  BY <1>1 DEF Increasing
<1>10. FillInv'
  BY <1>1, <1>2, <1>3, <1>6, <1>7, <1>8, <1>9 DEF FillInv
<1>11. SortInv'
  BY <1>1, <1>2, <1>3, <1>6, <1>7, <1>8, <1>9 DEF SortInv
<1>12. QED
  BY <1>10, <1>11

(* Before the first name is tried every head is a candidate.               *)
LEMMA OrderStarts ==
    ASSUME LayoutTypeOK, DesireOrder
    PROVE  FillInv' /\ SortInv'
<1>1. /\ candidates' = Heads /\ buckets' = [k \in DOMAIN g_cfg.order |-> <<>>] /\ sorted' = <<>> /\ g_cfg' = g_cfg
      /\ loop' = Start(IF g_cfg.order = <<>> THEN "sort" ELSE "fill")
  BY DEF DesireOrder, inputs
<1>2. g_cfg.order \in Seq(NameDesc) /\ g_cfg'.order = g_cfg.order
  BY <1>1, LayoutAssumption DEF LayoutTypeOK, Valid
<1>3. PICK n \in Nat : n = Len(g_cfg.order) /\ DOMAIN g_cfg.order = 1..n /\ (g_cfg.order = <<>> <=> n = 0)
  BY <1>2
<1>4. /\ buckets' \in Seq(Seq(All)) /\ Len(buckets') = n /\ DOMAIN buckets' = 1..n
      /\ \A b \in 1..n : buckets'[b] = <<>>
  <2>1. <<>> \in Seq(All)
    OBVIOUS
  <2>2. buckets' \in [1..n -> Seq(All)] /\ \A b \in 1..n : buckets'[b] = <<>>
    BY <1>1, <1>3, <2>1
  <2>3. QED
    BY <2>2
<1>5. loop'.head = 1 /\ loop'.kind = 1 /\ loop'.cand = 1 /\ loop'.in \in {"fill", "sort"} /\ (loop'.in = "sort" <=> n = 0)
  BY <1>1, <1>3 DEF Start
<1>6. CandidatesInv'
  <2>1. candidates' \in Seq(All) /\ DOMAIN candidates' = 1..Len(Heads)
    BY <1>1, LayoutAssumption
  <2>2. ASSUME NEW k \in DOMAIN candidates', NEW b \in DOMAIN g_cfg'.order, NEW kind \in 1..3,
               Tried(b, kind)' \/ (Trying(b, kind)' /\ k < loop'.cand)
        PROVE  FALSE
    <3>1. b \in 1..n /\ k \in 1..Len(Heads) /\ n # 0
      BY <1>2, <1>3, <2>1
    <3>2. QED
      BY <1>5, <2>2, <3>1 DEF Tried, Trying
  <2>3. \A j, k \in DOMAIN candidates' : j < k => (Arrived(candidates[j], candidates[k]))'
    BY <1>1 DEF Arrived
  <2>4. QED
    BY <2>1, <2>2, <2>3 DEF CandidatesInv
<1>7. BucketsInv'
  <2>1. \A b \in DOMAIN buckets' : DOMAIN buckets'[b] = {}
    BY <1>4
  <2>2. QED
    BY <1>2, <1>3, <1>4, <2>1 DEF BucketsInv
<1>8. \A h \in All : Waiting(h)'
  BY <1>1 DEF Waiting, All
<1>9. Increasing' /\ DOMAIN sorted' = {}
  BY <1>1 DEF Increasing
<1>10. FillInv'
  <2>1. loop'.in = "fill" => loop'.head \in 1..Len(buckets')
    BY <1>4, <1>5
  <2>2. QED
    BY <1>1, <1>6, <1>7, <1>8, <2>1 DEF FillInv
<1>11. SortInv'
  <2>1. loop'.head \in 1..(Len(buckets') + 1)
    BY <1>4, <1>5
  <2>2. QED
    BY <1>6, <1>7, <1>8, <1>9, <2>1 DEF SortInv
<1>12. QED
  BY <1>10, <1>11

(* A bucket, or the remainder, that lies behind all that is sorted is put  *)
(* behind it.                                                              *)
LEMMA Joined ==
    ASSUME Increasing, NEW e \in Seq(All), NEW p \in Nat, g_cfg' = g_cfg, sorted' = sorted \o e,
           \A j \in DOMAIN sorted : Place(sorted[j])[1] < p,
           \A j \in DOMAIN e : Place(e[j])[1] = p /\ Place(e[j])[2] \in Nat,
           \A j, k \in DOMAIN e : j < k => Precedes(e[j], e[k])
    PROVE  /\ Increasing'
           /\ \A j \in DOMAIN sorted' : (Place(sorted[j])[1])' < p + 1
           /\ \A h : Sorted(h) \/ (\E k \in DOMAIN e : e[k] = h) => Sorted(h)'
<1>1. PICK n \in Nat, m \in Nat : n = Len(sorted) /\ m = Len(e) /\ DOMAIN sorted = 1..n /\ DOMAIN e = 1..m /\ sorted \in Seq(All)
  <2>1. sorted \in Seq(All)
    BY DEF Increasing
  <2>2. Len(sorted) \in Nat /\ DOMAIN sorted = 1..Len(sorted)
    BY <2>1
  <2>3. Len(e) \in Nat /\ DOMAIN e = 1..Len(e)
    OBVIOUS
  <2>4. QED
    BY <2>1, <2>2, <2>3
<1>2. /\ sorted' \in Seq(All) /\ Len(sorted') = n + m /\ DOMAIN sorted' = 1..(n + m)
      /\ \A j \in 1..n : sorted'[j] = sorted[j]
      /\ \A j \in 1..(n + m) : j > n => j - n \in 1..m /\ sorted'[j] = e[j - n]
      /\ \A j \in 1..m : n + j \in 1..(n + m) /\ sorted'[n + j] = e[j]
  <2>1. PICK w : w = sorted
    OBVIOUS
  <2>2. w \in Seq(All) /\ Len(w) = n /\ sorted' = w \o e
    BY <1>1, <2>1
  <2>3. /\ w \o e \in Seq(All) /\ Len(w \o e) = Len(w) + Len(e)
        /\ \A j \in 1..(Len(w) + Len(e)) : (w \o e)[j] = IF j <= Len(w) THEN w[j] ELSE e[j - Len(w)]
    BY <2>2, ConcatProperties
  <2>4. /\ sorted' \in Seq(All) /\ Len(sorted') = n + m /\ DOMAIN sorted' = 1..(n + m)
        /\ \A j \in 1..(n + m) : sorted'[j] = IF j <= n THEN w[j] ELSE e[j - n]
    BY <1>1, <2>2, <2>3
  <2>5. \A j \in 1..m : n + j \in 1..(n + m) /\ ~(n + j <= n) /\ (n + j) - n = j
    BY <1>1
  <2>6. ASSUME NEW j \in 1..m PROVE n + j \in 1..(n + m) /\ sorted'[n + j] = e[j]
    <3>1. sorted'[n + j] = e[(n + j) - n]
      BY <2>4, <2>5
    <3>2. QED
      BY <2>5, <3>1
  <2>7. \A j \in 1..n : j \in 1..(n + m) /\ j <= n
    BY <1>1
  <2>8. \A j \in 1..(n + m) : j > n => j - n \in 1..m /\ ~(j <= n)
    BY <1>1
  <2>9. QED
    BY <2>1, <2>4, <2>6, <2>7, <2>8
<1>3. \A j \in 1..n : Place(sorted[j])[1] \in Nat /\ Place(sorted[j])[2] \in Nat /\ Place(sorted[j])[1] < p
  BY <1>1 DEF Increasing
<1> DEFINE y(j) == sorted'[j]
           q(j) == Place(y(j))[1]
<1>4. \A j \in 1..(n + m) :
         /\ q(j) \in Nat /\ Place(y(j))[2] \in Nat /\ q(j) < p + 1
         /\ j <= n => q(j) < p
         /\ j > n => q(j) = p
  <2> SUFFICES ASSUME NEW j \in 1..(n + m)
               PROVE  /\ q(j) \in Nat /\ Place(y(j))[2] \in Nat /\ q(j) < p + 1
                      /\ j <= n => q(j) < p
                      /\ j > n => q(j) = p
    OBVIOUS
  <2>1. CASE j <= n
    <3>1. j \in 1..n /\ sorted'[j] = sorted[j]
      BY <1>2, <2>1
    <3>2. q(j) \in Nat /\ Place(y(j))[2] \in Nat /\ q(j) < p
      BY <1>3, <3>1
    <3> HIDE DEF q
    <3>3. ~(j > n) /\ q(j) < p + 1
      BY <2>1, <3>2
    <3>4. QED
      BY <3>2, <3>3
  <2>2. CASE j > n
    <3>1. j - n \in 1..m /\ sorted'[j] = e[j - n]
      BY <1>2, <2>2
    <3>2. q(j) = p /\ Place(y(j))[2] \in Nat
      BY <1>1, <3>1
    <3> HIDE DEF q
    <3>3. ~(j <= n) /\ q(j) < p + 1 /\ q(j) \in Nat
      BY <2>2, <3>2
    <3>4. QED
      BY <3>2, <3>3
  <2>3. j <= n \/ j > n
    OBVIOUS
  <2>4. QED
    BY <2>1, <2>2, <2>3
<1>5. ASSUME NEW j \in 1..(n + m), NEW k \in 1..(n + m), j < k
      PROVE  Precedes(sorted'[j], sorted'[k])
  <2>1. CASE k <= n
    <3>1. j \in 1..n /\ k \in 1..n /\ sorted'[j] = sorted[j] /\ sorted'[k] = sorted[k]
      BY <1>2, <1>5, <2>1
    <3>2. QED
      BY <1>1, <1>5, <3>1 DEF Increasing
  <2>2. CASE j <= n /\ k > n
    <3>1. q(j) < p /\ q(k) = p
      BY <1>4, <2>2
    <3>2. q(j) < q(k)
      BY <3>1
    <3>3. QED
      BY <3>2 DEF Precedes
  <2>3. CASE j > n
    <3>1. k > n /\ j - n < k - n
      BY <1>5, <2>3
    <3>2. j - n \in 1..m /\ sorted'[j] = e[j - n]
      BY <1>2, <2>3
    <3>3. k - n \in 1..m /\ sorted'[k] = e[k - n]
      BY <1>2, <3>1
    <3>4. QED
      BY <1>1, <3>1, <3>2, <3>3
  <2>4. k <= n \/ (j <= n /\ k > n) \/ j > n
    OBVIOUS
  <2>5. QED
    BY <2>1, <2>2, <2>3, <2>4
<1>6. \A h : (Place(h))' = Place(h)
  BY PlaceKept
<1>7. ASSUME NEW j \in DOMAIN sorted'
      PROVE  (Place(sorted[j])[1])' \in Nat /\ (Place(sorted[j])[2])' \in Nat /\ (Place(sorted[j])[1])' < p + 1
  <2>1. PICK z : z = sorted'[j]
    OBVIOUS
  <2>2. Place(z)[1] \in Nat /\ Place(z)[2] \in Nat /\ Place(z)[1] < p + 1
    BY <1>2, <1>4, <2>1
  <2>3. (Place(sorted[j]))' = Place(z)
    BY <2>1 DEF Place
  <2>4. QED
    BY <2>2, <2>3
<1>8. ASSUME NEW j \in DOMAIN sorted', NEW k \in DOMAIN sorted', j < k
      PROVE  (Precedes(sorted[j], sorted[k]))'
  <2>1. PICK x, z : x = sorted'[j] /\ z = sorted'[k]
    OBVIOUS
  <2>2. Precedes(x, z)
    BY <1>2, <1>5, <1>8, <2>1
  <2>3. (Place(sorted[j]))' = Place(x) /\ (Place(sorted[k]))' = Place(z)
    BY <2>1 DEF Place
  <2>4. QED
    BY <2>1, <2>2, <2>3 DEF Precedes
<1>9. ASSUME NEW h, Sorted(h) \/ (\E k \in DOMAIN e : e[k] = h)
      PROVE  Sorted(h)'
  <2>1. CASE Sorted(h)
    <3>1. PICK k \in 1..n : sorted[k] = h
      BY <1>1, <2>1 DEF Sorted
    <3>2. k \in DOMAIN sorted' /\ sorted'[k] = h
      BY <1>2, <3>1
    <3>3. QED
      BY <3>2 DEF Sorted
  <2>2. CASE \E k \in DOMAIN e : e[k] = h
    <3>1. PICK k \in 1..m : e[k] = h
      BY <1>1, <2>2
    <3>2. n + k \in DOMAIN sorted' /\ sorted'[n + k] = h
      BY <1>2, <3>1
    <3>3. QED
      BY <3>2 DEF Sorted
  <2>3. QED
    BY <1>9, <2>1, <2>2
<1>10. QED
  BY <1>2, <1>7, <1>8, <1>9 DEF Increasing

(* No head is in the sorted list twice: none precedes itself.              *)
LEMMA SortedDistinct ==
    ASSUME Increasing
    PROVE  \A j, k \in DOMAIN sorted : sorted[j] = sorted[k] => j = k
<1>1. DOMAIN sorted \subseteq Nat
  BY DEF Increasing
<1>2. ASSUME NEW j \in DOMAIN sorted, NEW k \in DOMAIN sorted, j < k, sorted[j] = sorted[k]
      PROVE  FALSE
  <2>1. PICK g : g = sorted[j]
    OBVIOUS
  <2>2. Precedes(g, g) /\ Place(g)[1] \in Nat /\ Place(g)[2] \in Nat
    BY <1>2, <2>1 DEF Increasing
  <2>3. PICK a \in DOMAIN Heads, b \in DOMAIN Heads : a < b /\ Heads[a] = g /\ Heads[b] = g
    BY <2>2 DEF Precedes
  <2>4. QED
    BY <2>3, HeadsFacts
<1>3. QED
  BY <1>1, <1>2

(* A list of all heads without repetition is as long as the list of heads. *)
LEMMA SortedOnce ==
    ASSUME Increasing, \A h \in All : Sorted(h)
    PROVE  Len(sorted) = Len(Heads)
<1>1. PICK n \in Nat, m \in Nat : n = Len(sorted) /\ m = Len(Heads) /\ DOMAIN sorted = 1..n /\ DOMAIN Heads = 1..m
                                 /\ \A k \in 1..n : sorted[k] \in All
  <2>1. sorted \in Seq(All)
    BY DEF Increasing
  <2>2. Len(sorted) \in Nat /\ DOMAIN sorted = 1..Len(sorted) /\ \A k \in 1..Len(sorted) : sorted[k] \in All
    BY <2>1
  <2>3. QED
    BY <2>2, HeadsFacts
<1>2. \A j, k \in 1..n : sorted[j] = sorted[k] => j = k
  BY <1>1, SortedDistinct
<1> DEFINE f == [k \in 1..n |-> sorted[k]]
           g == [k \in 1..m |-> Heads[k]]
<1>3. f \in Bijection(1..n, All)
  <2>1. f \in [1..n -> All] /\ \A j, k \in 1..n : f[j] = f[k] => j = k
    BY <1>1, <1>2
  <2>2. \A h \in All : \E k \in 1..n : f[k] = h
    BY <1>1 DEF Sorted
  <2>3. QED
    BY <2>1, <2>2 DEF Bijection, Injection, Surjection, IsInjective
<1>4. g \in Bijection(1..m, All)
  <2>1. g \in [1..m -> All] /\ \A j, k \in 1..m : g[j] = g[k] => j = k
    BY <1>1, HeadsFacts
  <2>2. \A h \in All : \E k \in 1..m : g[k] = h
    BY <1>1, HeadsFacts
  <2>3. QED
    BY <2>1, <2>2 DEF Bijection, Injection, Surjection, IsInjective
<1>5. Cardinality(1..n) = n /\ IsFiniteSet(1..n) /\ Cardinality(1..m) = m /\ IsFiniteSet(1..m)
  <2>1. 1 \in Int /\ n \in Int /\ m \in Int
    OBVIOUS
  <2>2. /\ IsFiniteSet(1..n) /\ Cardinality(1..n) = IF 1 > n THEN 0 ELSE n - 1 + 1
        /\ IsFiniteSet(1..m) /\ Cardinality(1..m) = IF 1 > m THEN 0 ELSE m - 1 + 1
    BY <2>1, FS_Interval
  <2>3. QED
    BY <2>2
<1>6. Cardinality(All) = n /\ Cardinality(All) = m
  <2>1. ExistsBijection(1..n, All) /\ ExistsBijection(1..m, All)
    BY <1>3, <1>4 DEF ExistsBijection
  <2>2. QED
    BY <1>5, <2>1, FS_Bijection
<1>7. QED
  BY <1>1, <1>6

(* A turn of the loop that empties the buckets, and the end of it.         *)
LEMMA NextSorted ==
    ASSUME LayoutTypeOK, SortInv, DesireSorted
    PROVE  SortInv' /\ SortedInv'
<1>1. /\ loop.in = "sort" /\ CandidatesInv /\ BucketsInv /\ Increasing /\ \A h \in All : Waiting(h) \/ Sorted(h)
      /\ loop.head \in 1..(Len(buckets) + 1)
      /\ \A j \in DOMAIN sorted : Place(sorted[j])[1] < loop.head
      /\ candidates' = candidates /\ buckets' = buckets /\ g_cfg' = g_cfg
  BY DEF SortInv, DesireSorted, inputs
<1>2. candidates \in Seq(All) /\ buckets \in Seq(Seq(All)) /\ Len(buckets) = Len(g_cfg.order)
  BY <1>1 DEF CandidatesInv, BucketsInv
<1>3. PICK n \in Nat : n = Len(buckets) /\ DOMAIN buckets = 1..n /\ DOMAIN g_cfg.order = 1..n /\ Len(g_cfg.order) = n
  <2>1. g_cfg.order \in Seq(NameDesc)
    BY LayoutAssumption DEF LayoutTypeOK, Valid
  <2>2. QED
    BY <1>2, <2>1
<1>4. PICK p \in Nat : p = loop.head /\ p \in 1..(n + 1)
  BY <1>1, <1>3
<1>5. CASE p <= n
  <2>1. sorted' = sorted \o buckets[p] /\ loop' = [loop EXCEPT !.head = loop.head + 1]
    BY <1>3, <1>4, <1>5 DEF DesireSorted
  <2>2. loop'.in = "sort" /\ loop'.head = p + 1
    BY <1>1, <1>4, <2>1 DEF LayoutTypeOK
  <2>3. p \in 1..n /\ p \in DOMAIN buckets
    BY <1>3, <1>4, <1>5
  <2>4. PICK e \in Seq(All) : e = buckets[p]
    BY <1>2, <1>3, <2>3, ElementOfSeq
  <2>5. ASSUME NEW j \in DOMAIN e PROVE Place(e[j])[1] = p /\ Place(e[j])[2] \in Nat
    <3>1. PICK kind \in 1..3 : Place(e[j]) = <<p, kind>>
      BY <1>1, <2>3, <2>4 DEF BucketsInv
    <3>2. QED
      BY <3>1
  <2>6. \A j, k \in DOMAIN e : j < k => Precedes(e[j], e[k])
    BY <1>1, <2>3, <2>4 DEF BucketsInv
  <2>7. sorted' = sorted \o e /\ \A j \in DOMAIN sorted : Place(sorted[j])[1] < p
    BY <1>1, <1>4, <2>1, <2>4
  <2>8. /\ Increasing' /\ \A j \in DOMAIN sorted' : (Place(sorted[j])[1])' < p + 1
        /\ \A h : Sorted(h) \/ (\E k \in DOMAIN e : e[k] = h) => Sorted(h)'
    BY <1>1, <2>5, <2>6, <2>7, Joined
  <2>9. CandidatesInv'
    <3>1. \A d, k : Tried(d, k) /\ Tried(d, k)'
      BY <1>1, <2>2 DEF Tried
    <3>2. \A h, d, k : (Matches(h, d, k))' = Matches(h, d, k)
      BY <1>1 DEF Matches
    <3>3. /\ \A j, k \in DOMAIN candidates : j < k => Arrived(candidates[j], candidates[k])
          /\ \A k \in DOMAIN candidates, b \in DOMAIN g_cfg.order, kind \in 1..3 : ~Matches(candidates[k], b, kind)
      BY <1>1, <3>1 DEF CandidatesInv
    <3>4. QED
      BY <1>1, <1>2, <3>2, <3>3 DEF CandidatesInv, Arrived
  <2>10. BucketsInv'
    <3>1. ASSUME NEW d \in DOMAIN buckets', NEW j \in DOMAIN buckets'[d]
          PROVE  \E kind \in 1..3 : (Place(buckets[d][j]))' = <<d, kind>> /\ Tried(d, kind)'
      <4>1. PICK y : y = buckets'[d][j]
        OBVIOUS
      <4>2. PICK kind \in 1..3 : Place(y) = <<d, kind>>
        BY <1>1, <4>1 DEF BucketsInv
      <4>3. (Place(buckets[d][j]))' = <<d, kind>>
        BY <1>1, <4>1, <4>2 DEF Place
      <4>4. QED
        BY <2>2, <4>3 DEF Tried
    <3>2. ASSUME NEW d \in DOMAIN buckets', NEW j \in DOMAIN buckets'[d], NEW k \in DOMAIN buckets'[d], j < k
          PROVE  (Precedes(buckets[d][j], buckets[d][k]))'
      <4>1. PICK y, z : y = buckets'[d][j] /\ z = buckets'[d][k]
        OBVIOUS
      <4>2. Precedes(y, z)
        BY <1>1, <3>2, <4>1 DEF BucketsInv
      <4>3. (Place(buckets[d][j]))' = Place(y) /\ (Place(buckets[d][k]))' = Place(z)
        BY <1>1, <4>1 DEF Place
      <4>4. QED
        BY <4>1, <4>2, <4>3 DEF Precedes
    <3>3. QED
      BY <1>1, <1>2, <3>1, <3>2 DEF BucketsInv
  <2>11. ASSUME NEW h \in All PROVE Waiting(h)' \/ Sorted(h)'
    <3>1. CASE Sorted(h)
      BY <2>8, <3>1
    <3>2. CASE \E k \in DOMAIN candidates : candidates[k] = h
      BY <1>1, <3>2 DEF Waiting
    <3>3. CASE \E d \in DOMAIN buckets : d >= p /\ \E j \in DOMAIN buckets[d] : buckets[d][j] = h
      <4>1. PICK d \in DOMAIN buckets : d >= p /\ \E j \in DOMAIN buckets[d] : buckets[d][j] = h
        BY <3>3
      <4>2. CASE d = p
        BY <2>4, <2>8, <4>1, <4>2
      <4>3. CASE d # p
        <5>1. d >= p + 1
          BY <1>3, <4>1, <4>3
        <5>2. QED
          BY <1>1, <2>2, <4>1, <5>1 DEF Waiting
      <4>4. QED
        BY <4>2, <4>3
    <3>4. QED
      BY <1>1, <1>4, <3>1, <3>2, <3>3 DEF Waiting
  <2>12. p + 1 \in 1..(n + 1)
    BY <2>3
  <2>13. SortInv'
    BY <1>1, <1>3, <2>2, <2>8, <2>9, <2>10, <2>11, <2>12 DEF SortInv
  <2>14. QED
    BY <2>2, <2>13 DEF SortedInv
<1>6. CASE p = n + 1
  <2>1. sorted' = sorted \o candidates /\ loop' = Start("measure")
    BY <1>3, <1>4, <1>6 DEF DesireSorted
  <2>2. loop'.in = "measure"
    BY <2>1 DEF Start
  <2>3. PICK e \in Seq(All) : e = candidates
    BY <1>2
  <2>4. ASSUME NEW j \in DOMAIN e PROVE Place(e[j]) = <<p, 1>>
    <3>1. \A d \in DOMAIN g_cfg.order, l \in 1..3 : ~Matches(e[j], d, l)
      <4>1. \A d, k : Tried(d, k)
        BY <1>1 DEF Tried
      <4>2. QED
        BY <1>1, <2>3, <4>1 DEF CandidatesInv
    <3>2. g_cfg \in LayoutCfgs
      BY DEF LayoutTypeOK
    <3>3. Place(e[j]) = <<Len(g_cfg.order) + 1, 1>>
      BY <3>1, <3>2, PlaceNone
    <3>4. QED
      BY <1>3, <1>6, <3>3
  <2>5. \A j \in DOMAIN e : Place(e[j])[1] = p /\ Place(e[j])[2] \in Nat
    BY <2>4
  <2>6. ASSUME NEW j \in DOMAIN e, NEW k \in DOMAIN e, j < k PROVE Precedes(e[j], e[k])
    <3>1. Arrived(e[j], e[k])
      BY <1>1, <2>3, <2>6 DEF CandidatesInv
    <3>2. Place(e[j]) = Place(e[k])
      BY <2>4
    <3>3. QED
      BY <3>1, <3>2 DEF Precedes, Arrived
  <2>7. sorted' = sorted \o e /\ \A j \in DOMAIN sorted : Place(sorted[j])[1] < p
    BY <1>1, <1>4, <2>1, <2>3
  <2>8. /\ Increasing'
        /\ \A h : Sorted(h) \/ (\E k \in DOMAIN e : e[k] = h) => Sorted(h)'
    BY <1>1, <2>5, <2>6, <2>7, Joined
  <2>9. ASSUME NEW h \in All PROVE Sorted(h)'
    <3>1. \A d \in DOMAIN buckets : ~(d >= loop.head)
      BY <1>3, <1>4, <1>6
    <3>2. Sorted(h) \/ \E k \in DOMAIN e : e[k] = h
      BY <1>1, <2>3, <3>1 DEF Waiting
    <3>3. QED
      BY <2>8, <3>2
  <2>10. Len(sorted') = Len(Heads)
    <3>1. (Increasing /\ (\A h \in All : Sorted(h)) => Len(sorted) = Len(Heads))'
      BY SortedOnce, PTL
    <3>2. QED
      BY <2>8, <2>9, <3>1
  <2>11. QED
    BY <2>2, <2>8, <2>9, <2>10 DEF SortInv, SortedInv
<1>7. QED
  BY <1>4, <1>5, <1>6

(* A turn of a loop that looks for the largest.                            *)
LEMMA LargestGrows ==
    ASSUME NEW N \in Nat, NEW p \in 1..N, NEW S \in SUBSET (1..N), NEW f \in [1..N -> Int], NEW T \in Int, NEW T2,
           Largest(S, p, f, T), T2 = IF p \in S THEN Larger(f[p], T) ELSE T
    PROVE  Largest(S, p + 1, f, T2) /\ T2 \in Int
<1>1. /\ T >= 0 /\ \A k \in S : k < p => f[k] <= T
      /\ T = 0 \/ \E k \in S : k < p /\ f[k] = T
  BY DEF Largest
<1>2. \A k \in S : k \in Int /\ f[k] \in Int /\ (k < p + 1 <=> k < p \/ k = p)
  OBVIOUS
<1>3. CASE p \notin S \/ ~(f[p] > T)
  <2>1. T2 = T
    BY <1>3 DEF Larger
  <2>2. \A k \in S : k < p + 1 => f[k] <= T
    BY <1>1, <1>2, <1>3
  <2>3. QED
    BY <1>1, <1>2, <2>1, <2>2 DEF Largest
<1>4. CASE p \in S /\ f[p] > T
  <2>1. T2 = f[p] /\ f[p] \in Int /\ T2 >= 0
    BY <1>1, <1>4 DEF Larger
  <2>2. \A k \in S : k < p + 1 => f[k] <= T2
    BY <1>1, <1>2, <1>4, <2>1
  <2>3. p \in S /\ p < p + 1 /\ f[p] = T2
    BY <1>4, <2>1
  <2>4. QED
    BY <2>1, <2>2, <2>3 DEF Largest
<1>5. QED
  BY <1>3, <1>4

(* A turn of the loop that puts the displays one behind the other.         *)
LEMMA LineGrows ==
    ASSUME NEW N \in Nat, NEW p \in 1..N, NEW S \in SUBSET (1..N), p \in S,
           NEW from \in [1..N -> Int], NEW along \in [1..N -> Int], NEW far \in Int,
           NEW from2 \in [1..N -> Int], from2[p] = far, \A k \in 1..N : k # p => from2[k] = from[k],
           along[p] >= 0, Line(S, p, from, along, far)
    PROVE  Line(S, p + 1, from2, along, far + along[p])
<1>1. /\ far >= 0 /\ (far = 0 \/ \E k \in S : k < p /\ from[k] + along[k] = far)
      /\ \A k \in S : k < p =>
            /\ from[k] >= 0 /\ from[k] + along[k] <= far
            /\ from[k] = 0 \/ \E j \in S : j < k /\ from[j] + along[j] = from[k]
      /\ \A j, k \in S : j < k /\ k < p => from[j] + along[j] <= from[k]
  BY DEF Line
<1>2. \A k \in S : /\ k \in Int /\ from[k] \in Int /\ along[k] \in Int /\ (k < p + 1 <=> k < p \/ k = p)
                   /\ k < p => from2[k] = from[k]
  OBVIOUS
<1>3. PICK e \in Int : e = far + along[p] /\ e >= far /\ e >= 0
  BY <1>1, <1>2
<1>4. p \in S /\ p < p + 1 /\ from2[p] + along[p] = e
  BY <1>2, <1>3
<1>5. ASSUME NEW k \in S, k < p + 1
      PROVE  /\ from2[k] >= 0 /\ from2[k] + along[k] <= e
             /\ from2[k] = 0 \/ \E j \in S : j < k /\ from2[j] + along[j] = from2[k]
  <2>1. CASE k = p
    <3>1. from2[k] >= 0 /\ from2[k] + along[k] <= e
      BY <1>1, <1>3, <1>4, <2>1
    <3>2. CASE far = 0
      BY <2>1, <3>1, <3>2
    <3>3. CASE far # 0
      <4>1. PICK j \in S : j < p /\ from[j] + along[j] = far
        BY <1>1, <3>3
      <4>2. from2[j] + along[j] = from2[k] /\ j < k
        BY <1>2, <2>1, <4>1
      <4>3. QED
        BY <3>1, <4>2
    <3>4. QED
      BY <3>2, <3>3
  <2>2. CASE k < p
    <3>1. from2[k] = from[k] /\ from[k] >= 0 /\ from[k] + along[k] <= far /\ from[k] + along[k] \in Int
      BY <1>1, <1>2, <2>2
    <3>2. from2[k] >= 0 /\ from2[k] + along[k] <= e
      <4>1. PICK x \in Int : x = from[k] + along[k] /\ x <= far
        BY <3>1
      <4>2. x <= e
        BY <1>3, <4>1
      <4>3. QED
        BY <3>1, <4>1, <4>2
    <3>3. CASE from[k] = 0
      BY <3>1, <3>2, <3>3
    <3>4. CASE from[k] # 0
      <4>1. PICK j \in S : j < k /\ from[j] + along[j] = from[k]
        BY <1>1, <2>2, <3>4
      <4>2. j < p
        BY <1>2, <2>2, <4>1
      <4>3. from2[j] + along[j] = from2[k]
        BY <1>2, <3>1, <4>1, <4>2
      <4>4. QED
        BY <3>2, <4>1, <4>3
    <3>5. QED
      BY <3>3, <3>4
  <2>3. QED
    BY <1>2, <1>5, <2>1, <2>2
<1>6. ASSUME NEW j \in S, NEW k \in S, j < k, k < p + 1
      PROVE  from2[j] + along[j] <= from2[k]
  <2>1. j < p /\ from2[j] = from[j]
    BY <1>2, <1>6
  <2>2. CASE k = p
    BY <1>1, <2>1, <2>2
  <2>3. CASE k < p
    BY <1>1, <1>2, <1>6, <2>1, <2>3
  <2>4. QED
    BY <1>2, <1>6, <2>2, <2>3
<1>7. Line(S, p + 1, from2, along, e)
  BY <1>3, <1>4, <1>5, <1>6 DEF Line
<1>8. QED
  BY <1>3, <1>7

(* A turn of a loop over the heads is not past the end, and the last one   *)
(* leads to the next loop.                                                 *)
LEMMA TurnIs ==
    ASSUME LayoutTypeOK, NEW l \in Phases, NEW next \in Phases, Turn(l, next)
    PROVE  /\ loop.in = l /\ loop.head \in 1..Len(Heads) /\ Len(Heads) \in Nat
           /\ loop' \in [in : Phases, head : Nat \ {0}, kind : 1..3, cand : Nat \ {0}]
           /\ \/ loop'.in = l /\ loop'.head = loop.head + 1
              \/ loop'.in = next /\ loop'.head = 1 /\ loop.head = Len(Heads)
<1>1. loop \in [in : Phases, head : Nat \ {0}, kind : 1..3, cand : Nat \ {0}]
  BY DEF LayoutTypeOK
<1>2. Len(Heads) \in Nat /\ loop.in = l /\ loop.head <= Len(Heads)
  BY HeadsFacts DEF Turn
<1>3. loop.head \in 1..Len(Heads)
  BY <1>1, <1>2
<1>4. CASE loop.head < Len(Heads)
  <2>1. loop' = [loop EXCEPT !.head = loop.head + 1]
    BY <1>4 DEF Turn
  <2>2. QED
    BY <1>1, <1>2, <1>3, <2>1
<1>5. CASE ~(loop.head < Len(Heads))
  <2>1. loop' = [in |-> next, head |-> 1, kind |-> 1, cand |-> 1]
    BY <1>5 DEF Turn, Start
  <2>2. loop.head = Len(Heads)
    BY <1>1, <1>2, <1>5
  <2>3. QED
    BY <1>2, <1>3, <2>1, <2>2
<1>6. QED
  BY <1>4, <1>5

(* Once they are sorted, the heads are the members of the list, at the     *)
(* same indexes.                                                           *)
LEMMA SortedFacts ==
    ASSUME SortedInv, loop.in \in {"measure", "arrange", "done"}
    PROVE  /\ Len(Heads) \in Nat /\ DOMAIN sorted = 1..Len(Heads)
           /\ \A k \in 1..Len(Heads) : sorted[k] \in All
           /\ \A h \in All : \E k \in 1..Len(Heads) : sorted[k] = h
<1>1. sorted \in Seq(All) /\ Len(sorted) = Len(Heads) /\ \A h \in All : Sorted(h)
  BY DEF SortedInv, Increasing
<1>2. Len(sorted) \in Nat /\ DOMAIN sorted = 1..Len(sorted) /\ \A k \in 1..Len(sorted) : sorted[k] \in All
  BY <1>1
<1>3. QED
  BY <1>1, <1>2 DEF Sorted

(* A turn of the first loop of desire.                                     *)
LEMMA HeadDesired ==
    ASSUME LayoutTypeOK, SizeInv, DesireHead
    PROVE  LayoutTypeOK' /\ SizeInv'
<1>1. /\ loop.in = "desire" /\ loop.head \in 1..Len(Heads) /\ Len(Heads) \in Nat
      /\ loop' \in [in : Phases, head : Nat \ {0}, kind : 1..3, cand : Nat \ {0}]
      /\ \/ loop'.in = "desire" /\ loop'.head = loop.head + 1
         \/ loop'.in = "buckets" /\ loop'.head = 1 /\ loop.head = Len(Heads)
  BY TurnIs DEF DesireHead, Phases
<1>2. PICK h \in All : h = Heads[loop.head]
  BY <1>1, HeadsFacts
<1>3. PICK s, t : /\ s = IF h \in enabled THEN desire_scale(h) ELSE scale[h]
                  /\ t = IF h \in enabled THEN Found(g_cfg.transforms, h) ELSE transform[h]
  OBVIOUS
<1>4. /\ scale' = [scale EXCEPT ![h] = s] /\ transform' = [transform EXCEPT ![h] = t]
      /\ scaled' = [scaled EXCEPT ![h] = desire_scaled_dimensions(h, s, t)]
      /\ g_cfg' = g_cfg /\ screen' = screen /\ enabled' = enabled /\ pos' = pos
      /\ tallest' = tallest /\ widest' = widest /\ edge' = edge
  BY <1>2, <1>3 DEF DesireHead, inputs, measures
<1>5. s \in Nat /\ t \in 0..7
  BY <1>3, ScaleType DEF LayoutTypeOK
<1>6. desire_scaled_dimensions(h, s, t) \in [width : Int, height : Int]
  BY <1>5, DimensionsType
<1>7. LayoutTypeOK'
  BY <1>1, <1>4, <1>5, <1>6 DEF LayoutTypeOK
<1>8. \A g : (desire_scale(g))' = desire_scale(g)
  BY <1>4 DEF desire_scale, head_get_fixed_scale, head_auto_scale, RoundTo, Dpi
<1>9. h \in enabled => SizeOK(h)'
  <2> SUFFICES ASSUME h \in enabled PROVE SizeOK(h)'
    OBVIOUS
  <2>1. scale'[h] = s /\ transform'[h] = t /\ scaled'[h] = desire_scaled_dimensions(h, s, t) /\ s = desire_scale(h)
    BY <1>3, <1>4 DEF LayoutTypeOK
  <2>2. ASSUME s # 0
        PROVE  scaled'[h] = (Logical(h))' /\ scaled'[h].width >= 0 /\ scaled'[h].height >= 0
    <3>1. g_cfg \in LayoutCfgs /\ screen \in Screens
      BY DEF LayoutTypeOK
    <3>2. PICK j \in Nat : s = j * Unit
      BY <2>1, <3>1, ScaleSteps
    <3>3. j # 0
      <4>1. Unit \in Nat
        BY <3>1, RoundToFacts DEF AStep
      <4>2. QED
        BY <2>2, <3>2, <4>1
    <3>4. PICK w \in Nat, v \in Nat :
             /\ w = (screen[h].width * 256) \div s /\ v = (screen[h].height * 256) \div s
             /\ desire_scaled_dimensions(h, s, t) =
                   IF t \in {1, 3, 5, 7} THEN [width |-> v, height |-> w] ELSE [width |-> w, height |-> v]
      <4>1. LET w == (screen[h].width * 256) \div (j * Unit)
                v == (screen[h].height * 256) \div (j * Unit)
            IN  /\ desire_scaled_dimensions(h, j * Unit, t) =
                      IF t \in {1, 3, 5, 7} THEN [width |-> v, height |-> w] ELSE [width |-> w, height |-> v]
                /\ w \in Nat /\ v \in Nat
        <5>1. j \in Nat \ {0}
          BY <3>3
        <5>2. QED
          BY <1>5, <3>1, <5>1, DimensionsAre
      <4>2. QED
        BY <3>2, <4>1
    <3>5. (Logical(h))' = IF t \in {1, 3, 5, 7} THEN [width |-> v, height |-> w] ELSE [width |-> w, height |-> v]
      BY <1>4, <2>1, <3>4 DEF Logical
    <3>6. QED
      BY <2>1, <3>4, <3>5
  <2>3. QED
    BY <1>8, <2>1, <2>2 DEF SizeOK
<1>10. ASSUME NEW g \in All, g # h, SizeOK(g) PROVE SizeOK(g)'
  <2>1. scale'[g] = scale[g] /\ transform'[g] = transform[g] /\ scaled'[g] = scaled[g]
    BY <1>4, <1>10 DEF LayoutTypeOK
  <2>2. (Logical(g))' = Logical(g)
    BY <1>4, <2>1 DEF Logical
  <2>3. QED
    BY <1>8, <1>10, <2>1, <2>2 DEF SizeOK
<1>11. SizeInv'
  <2> SUFFICES ASSUME NEW k \in 1..Len(Heads), Heads[k] \in enabled, loop'.in # "desire" \/ k < loop'.head
               PROVE  SizeOK(Heads[k])'
    BY <1>4, HeadsFacts DEF SizeInv
  <2>1. k <= loop.head
    BY <1>1
  <2>2. PICK g \in All : g = Heads[k]
    BY HeadsFacts
  <2>3. CASE k = loop.head
    BY <1>2, <1>9, <2>3
  <2>4. CASE k < loop.head
    <3>1. g # h
      BY <1>1, <1>2, <2>2, <2>4, HeadsFacts
    <3>2. SizeOK(g)
      BY <2>2, <2>4, HeadsFacts DEF SizeInv
    <3>3. QED
      BY <1>10, <2>2, <3>1, <3>2
  <2>5. QED
    BY <1>1, <2>1, <2>3, <2>4
<1>12. QED
  BY <1>7, <1>11

(* A turn of the loop that finds the tallest and the widest.               *)
LEMMA Measured ==
    ASSUME LayoutTypeOK, SortedInv, MeasureInv, FindTallestWidest
    PROVE  MeasureInv' /\ ArrangeInv' /\ tallest' \in Int /\ widest' \in Int
<1>1. /\ loop.in = "measure" /\ loop.head \in 1..Len(Heads) /\ Len(Heads) \in Nat
      /\ \/ loop'.in = "measure" /\ loop'.head = loop.head + 1
         \/ loop'.in = "arrange" /\ loop'.head = 1 /\ loop.head = Len(Heads)
  BY TurnIs DEF FindTallestWidest, Phases
<1>2. PICK N \in Nat, p \in Nat : N = Len(Heads) /\ p = loop.head /\ p \in 1..N
  BY <1>1
<1>3. /\ DOMAIN sorted = 1..N /\ \A k \in 1..N : sorted[k] \in All
      /\ \A h \in All : \E k \in 1..N : sorted[k] = h
  BY <1>1, <1>2, SortedFacts
<1>4. /\ g_cfg' = g_cfg /\ enabled' = enabled /\ scale' = scale /\ scaled' = scaled /\ sorted' = sorted /\ edge' = edge
      /\ tallest' = (IF sorted[p] \in enabled THEN Larger(scaled[sorted[p]].height, tallest) ELSE tallest)
      /\ widest' = (IF sorted[p] \in enabled THEN Larger(scaled[sorted[p]].width, widest) ELSE widest)
  BY <1>2 DEF FindTallestWidest, inputs, sizes, ordering
<1>5. PICK S, high, wide, T, W, T2, W2 :
         /\ S = On /\ high = Heights /\ wide = Widths
         /\ T = tallest /\ W = widest /\ T2 = tallest' /\ W2 = widest'
  OBVIOUS
<1>6. /\ S \in SUBSET (1..N) /\ high \in [1..N -> Int] /\ wide \in [1..N -> Int] /\ T \in Int /\ W \in Int
      /\ \A k \in 1..N : high[k] = scaled[sorted[k]].height /\ wide[k] = scaled[sorted[k]].width
      /\ \A k \in 1..N : k \in S <=> sorted[k] \in enabled
  BY <1>3, <1>5 DEF On, Heights, Widths, LayoutTypeOK
<1>7. /\ T2 = IF p \in S THEN Larger(high[p], T) ELSE T
      /\ W2 = IF p \in S THEN Larger(wide[p], W) ELSE W
  BY <1>2, <1>4, <1>5, <1>6
<1>8. T2 \in Int /\ W2 \in Int
  <2>1. high[p] \in Int /\ wide[p] \in Int
    BY <1>2, <1>6
  <2>2. QED
    BY <1>6, <1>7, <2>1 DEF Larger
<1>9. AllScaled' = AllScaled /\ On' = On /\ Heights' = Heights /\ Widths' = Widths
  BY <1>4 DEF AllScaled, On, Heights, Widths
<1>10. AllScaled => Largest(S, p + 1, high, T2) /\ Largest(S, p + 1, wide, W2) /\ edge = 0
  <2> SUFFICES ASSUME AllScaled
               PROVE  Largest(S, p + 1, high, T2) /\ Largest(S, p + 1, wide, W2) /\ edge = 0
    OBVIOUS
  <2>1. Largest(S, p, high, T) /\ Largest(S, p, wide, W) /\ edge = 0
    BY <1>1, <1>2, <1>5 DEF MeasureInv
  <2>2. Largest(S, p + 1, high, T2)
    BY <1>2, <1>6, <1>7, <2>1, LargestGrows
  <2>3. Largest(S, p + 1, wide, W2)
    BY <1>2, <1>6, <1>7, <2>1, LargestGrows
  <2>4. QED
    BY <2>1, <2>2, <2>3
<1>11. MeasureInv'
  <2> SUFFICES ASSUME loop'.in = "measure", AllScaled
               PROVE  edge' = 0 /\ Largest(On', loop'.head, Heights', tallest') /\ Largest(On', loop'.head, Widths', widest')
    BY <1>9 DEF MeasureInv, Largest
  <2>1. loop'.head = p + 1
    BY <1>1, <1>2
  <2>2. QED
    BY <1>4, <1>5, <1>9, <1>10, <2>1
<1>12. ArrangeInv'
  <2> SUFFICES ASSUME loop'.in \in {"arrange", "done"}, AllScaled
               PROVE  /\ (Largest(On, Len(Heads) + 1, OfSorted(Across), Most))'
                      /\ (Line(On, Reached, OfSorted(From), OfSorted(Along), edge))'
                      /\ (Within(On, Reached, OfSorted(Side), OfSorted(Across), Most))'
    BY <1>9 DEF ArrangeInv
  <2>1. loop'.in = "arrange" /\ loop'.head = 1 /\ p = N /\ Reached' = 1 /\ edge' = 0
    BY <1>1, <1>2, <1>4, <1>10 DEF Reached
  <2>2. (OfSorted(Across))' = IF g_cfg.arrange = "COL" THEN wide ELSE high
    BY <1>4, <1>5 DEF OfSorted, Across, Widths, Heights
  <2>3. Most' = IF g_cfg.arrange = "COL" THEN W2 ELSE T2
    BY <1>4, <1>5 DEF Most
  <2>4. (Largest(On, Len(Heads) + 1, OfSorted(Across), Most))'
    <3>1. Largest(On', N + 1, (OfSorted(Across))', Most')
      BY <1>5, <1>9, <1>10, <2>1, <2>2, <2>3
    <3>2. QED
      BY <1>2, <3>1 DEF Largest
  <2>5. \A k \in On' : ~(k < 1)
    BY <1>5, <1>6, <1>9
  <2>6. (Line(On, Reached, OfSorted(From), OfSorted(Along), edge))'
    BY <2>1, <2>5 DEF Line
  <2>7. (Within(On, Reached, OfSorted(Side), OfSorted(Across), Most))'
    BY <2>1, <2>5 DEF Within
  <2>8. QED
    BY <2>4, <2>6, <2>7
<1>13. QED
  BY <1>5, <1>8, <1>11, <1>12

(* An aligned length lies in the longest one.                              *)
LEMMA AlignedWithin ==
    ASSUME NEW most \in Int, NEW length \in Int, length <= most, NEW far
    PROVE  LET a == Aligned(far, most, length) IN a \in Int /\ a >= 0 /\ a + length <= most
<1>1. PICK d \in Nat : d = most - length
  OBVIOUS
<1>2. Up(d, 2) \in Nat /\ Up(d, 2) <= d
  <2>1. Up(d, 2) = (d + 1) \div 2
    BY DEF Up
  <2>2. QED
    BY <2>1
<1> DEFINE a == Aligned(far, most, length)
<1>3. a = d \/ a = Up(d, 2) \/ a = 0
  BY <1>1 DEF Aligned
<1> HIDE DEF a
<1>4. a \in Int /\ a >= 0 /\ a <= d
  BY <1>1, <1>2, <1>3
<1>5. a + length <= most
  BY <1>1, <1>4
<1>6. QED
  BY <1>4, <1>5 DEF a

(* A turn of the loop of desire_positions: the next enabled head is put at *)
(* the edge.                                                               *)
LEMMA Arranged ==
    ASSUME LayoutTypeOK, SizeInv, SortedInv, ArrangeInv, desire_positions
    PROVE  ArrangeInv' /\ pos' \in [All -> [x : Int, y : Int]] /\ edge' \in Int
<1>1. /\ loop.in = "arrange" /\ loop.head \in 1..Len(Heads) /\ Len(Heads) \in Nat
      /\ \/ loop'.in = "arrange" /\ loop'.head = loop.head + 1
         \/ loop'.in = "done" /\ loop'.head = 1 /\ loop.head = Len(Heads)
  BY TurnIs DEF desire_positions, Phases
<1>2. PICK N \in Nat, p \in Nat : N = Len(Heads) /\ p = loop.head /\ p \in 1..N
  BY <1>1
<1>3. /\ DOMAIN sorted = 1..N /\ \A k \in 1..N : sorted[k] \in All
      /\ \A j, k \in 1..N : sorted[j] = sorted[k] => j = k
  BY <1>1, <1>2, SortedFacts, SortedDistinct DEF SortedInv
<1>4. PICK h \in All : h = sorted[p]
  BY <1>2, <1>3
<1>5. /\ g_cfg' = g_cfg /\ enabled' = enabled /\ scale' = scale /\ scaled' = scaled /\ sorted' = sorted
      /\ tallest' = tallest /\ widest' = widest
      /\ h \in enabled => desire_position(h)
      /\ h \notin enabled => pos' = pos /\ edge' = edge
  BY <1>2, <1>4 DEF desire_positions, inputs, sizes, ordering
<1>6. PICK S, from, along, side, across, from2, side2, far, far2, most :
         /\ S = On /\ from = OfSorted(From) /\ along = OfSorted(Along) /\ side = OfSorted(Side) /\ across = OfSorted(Across)
         /\ from2 = (OfSorted(From))' /\ side2 = (OfSorted(Side))' /\ far = edge /\ far2 = edge' /\ most = Most
  OBVIOUS
<1>7. /\ On' = S /\ (OfSorted(Along))' = along /\ (OfSorted(Across))' = across /\ Most' = most /\ AllScaled' = AllScaled
      /\ Reached = p /\ Reached' = p + 1
  <2>1. On' = S /\ AllScaled' = AllScaled /\ Most' = most
    BY <1>5, <1>6 DEF On, AllScaled, Most
  <2>2. (OfSorted(Along))' = along /\ (OfSorted(Across))' = across
    BY <1>5, <1>6 DEF OfSorted, Along, Across
  <2>3. Reached = p /\ Reached' = p + 1
    BY <1>1, <1>2 DEF Reached
  <2>4. QED
    BY <2>1, <2>2, <2>3
<1>8. /\ S \in SUBSET (1..N) /\ far \in Int /\ most \in Int
      /\ \A k \in 1..N : k \in S <=> sorted[k] \in enabled
      /\ from \in [1..N -> Int] /\ along \in [1..N -> Int] /\ side \in [1..N -> Int] /\ across \in [1..N -> Int]
      /\ along[p] = Along(h) /\ across[p] = Across(h)
  <2>1. \A g \in All : From(g) \in Int /\ Along(g) \in Int /\ Side(g) \in Int /\ Across(g) \in Int
    BY DEF From, Along, Side, Across, LayoutTypeOK
  <2>2. S \in SUBSET (1..N) /\ \A k \in 1..N : k \in S <=> sorted[k] \in enabled
    BY <1>3, <1>6 DEF On
  <2>3. far \in Int /\ most \in Int
    BY <1>6 DEF Most, LayoutTypeOK
  <2>4. QED
    BY <1>2, <1>3, <1>4, <1>6, <2>1, <2>2, <2>3 DEF OfSorted
<1>9. CASE h \notin enabled
  <2>1. p \notin S /\ from2 = from /\ side2 = side /\ far2 = far
    BY <1>2, <1>4, <1>5, <1>6, <1>8, <1>9 DEF OfSorted, From, Side
  <2>2. \A k \in S : k < p + 1 <=> k < p
    BY <1>2, <1>8, <2>1
  <2>3. ASSUME AllScaled
        PROVE  /\ Largest(S, N + 1, across, most) /\ Line(S, p + 1, from2, along, far2)
               /\ Within(S, p + 1, side2, across, most)
    <3>1. Largest(S, N + 1, across, most) /\ Line(S, p, from, along, far) /\ Within(S, p, side, across, most)
      BY <1>1, <1>2, <1>6, <1>7, <2>3 DEF ArrangeInv
    <3>2. Line(S, p + 1, from, along, far)
      BY <2>2, <3>1 DEF Line
    <3>3. Within(S, p + 1, side, across, most)
      BY <2>2, <3>1 DEF Within
    <3>4. QED
      BY <2>1, <3>1, <3>2, <3>3
  <2>4. ArrangeInv'
    <3> SUFFICES ASSUME AllScaled
                 PROVE  /\ (Largest(On, Len(Heads) + 1, OfSorted(Across), Most))'
                        /\ (Line(On, Reached, OfSorted(From), OfSorted(Along), edge))'
                        /\ (Within(On, Reached, OfSorted(Side), OfSorted(Across), Most))'
      BY <1>7 DEF ArrangeInv
    <3>1. QED
      BY <1>2, <1>6, <1>7, <2>3 DEF Largest, Line, Within
  <2>5. QED
    BY <1>5, <1>9, <2>4 DEF LayoutTypeOK
<1>10. CASE h \in enabled
  <2>1. PICK a : a = IF g_cfg.arrange = "COL" THEN Aligned("RIGHT", widest, scaled[h].width)
                     ELSE Aligned("BOTTOM", tallest, scaled[h].height)
    OBVIOUS
  <2>2. /\ pos' = [pos EXCEPT ![h] = IF g_cfg.arrange = "COL" THEN [x |-> a, y |-> edge] ELSE [x |-> edge, y |-> a]]
        /\ edge' = edge + Along(h)
    BY <1>5, <1>10, <2>1 DEF desire_position, Along
  <2>3. a \in Int
    <3>1. ASSUME NEW most2 \in Int, NEW length \in Int, NEW side3 PROVE Aligned(side3, most2, length) \in Int
      BY DEF Aligned, Up
    <3>2. scaled[h].width \in Int /\ scaled[h].height \in Int /\ widest \in Int /\ tallest \in Int
      BY DEF LayoutTypeOK
    <3>3. QED
      BY <2>1, <3>1, <3>2
  <2>4. pos' \in [All -> [x : Int, y : Int]] /\ edge' \in Int
    <3>1. pos \in [All -> [x : Int, y : Int]] /\ edge \in Int /\ Along(h) \in Int
      BY DEF LayoutTypeOK, Along
    <3>2. QED
      BY <2>2, <2>3, <3>1
  <2>5. /\ from2[p] = far /\ side2[p] = a /\ from2 \in [1..N -> Int]
        /\ \A k \in 1..N : k # p => from2[k] = from[k] /\ side2[k] = side[k]
    <3>1. \A g \in All : (From(g))' \in Int
      BY <2>4 DEF From
    <3>2. (From(h))' = edge /\ (Side(h))' = a
      BY <1>5, <2>2 DEF From, Side, LayoutTypeOK
    <3>3. \A g \in All : g # h => (From(g))' = From(g) /\ (Side(g))' = Side(g)
      BY <1>5, <2>2 DEF From, Side, LayoutTypeOK
    <3>4. PICK F, D : F = [g \in All |-> (From(g))'] /\ D = [g \in All |-> (Side(g))']
      OBVIOUS
    <3>5. /\ F \in [All -> Int] /\ F[h] = edge /\ D[h] = a
          /\ \A g \in All : g # h => F[g] = From(g) /\ D[g] = Side(g)
      BY <3>1, <3>2, <3>3, <3>4
    <3>6. from2 = [k \in 1..N |-> F[sorted[k]]] /\ side2 = [k \in 1..N |-> D[sorted[k]]]
      BY <1>3, <1>5, <1>6, <3>4 DEF OfSorted, From, Side
    <3>7. from = [k \in 1..N |-> From(sorted[k])] /\ side = [k \in 1..N |-> Side(sorted[k])]
      BY <1>3, <1>6 DEF OfSorted
    <3>8. from2[p] = far /\ side2[p] = a /\ from2 \in [1..N -> Int]
      BY <1>2, <1>3, <1>4, <1>6, <3>5, <3>6
    <3>9. ASSUME NEW k \in 1..N, k # p PROVE from2[k] = from[k] /\ side2[k] = side[k]
      <4>1. sorted[k] \in All /\ sorted[k] # h
        BY <1>2, <1>3, <1>4, <3>9
      <4>2. QED
        BY <3>5, <3>6, <3>7, <4>1
    <3>10. QED
      BY <3>8, <3>9
  <2>6. ASSUME AllScaled
        PROVE  /\ Largest(S, N + 1, across, most) /\ Line(S, p + 1, from2, along, far2)
               /\ Within(S, p + 1, side2, across, most)
    <3>1. Largest(S, N + 1, across, most) /\ Line(S, p, from, along, far) /\ Within(S, p, side, across, most)
      BY <1>1, <1>2, <1>6, <1>7, <2>6 DEF ArrangeInv
    <3>2. p \in S /\ p < N + 1
      BY <1>2, <1>4, <1>8, <1>10
    <3>3. along[p] >= 0
      <4>1. PICK k \in DOMAIN Heads : Heads[k] = h
        BY HeadsFacts
      <4>2. SizeOK(h)
        BY <1>1, <1>10, <4>1 DEF SizeInv
      <4>3. QED
        BY <1>8, <1>10, <2>6, <4>2 DEF SizeOK, AllScaled, Along
    <3>4. a >= 0 /\ a + across[p] <= most
      <4>1. across[p] \in Int /\ across[p] <= most
        BY <1>2, <1>8, <3>1, <3>2 DEF Largest
      <4>2. \E d : a = Aligned(d, most, across[p])
        BY <1>6, <1>8, <2>1 DEF Most, Across
      <4>3. QED
        BY <1>8, <4>1, <4>2, AlignedWithin
    <3>5. far2 = far + along[p]
      BY <1>6, <1>8, <2>2
    <3>6. Line(S, p + 1, from2, along, far2)
      <4>1. \A k \in 1..N : k # p => from2[k] = from[k]
        BY <2>5
      <4>2. /\ from2 \in [1..N -> Int] /\ from2[p] = far /\ p \in 1..N /\ p \in S /\ S \in SUBSET (1..N)
            /\ from \in [1..N -> Int] /\ along \in [1..N -> Int] /\ far \in Int /\ Line(S, p, from, along, far)
        BY <1>2, <1>8, <2>5, <3>1, <3>2
      <4>3. Line(S, p + 1, from2, along, far + along[p])
        BY <3>3, <4>1, <4>2, LineGrows
      <4>4. QED
        BY <3>5, <4>3
    <3>7. Within(S, p + 1, side2, across, most)
      <4>1. ASSUME NEW k \in S, k < p + 1 PROVE side2[k] >= 0 /\ side2[k] + across[k] <= most
        <5>1. CASE k = p
          BY <2>5, <3>4, <5>1
        <5>2. CASE k # p
          <6>1. k \in 1..N /\ k < p
            BY <1>2, <1>8, <4>1, <5>2
          <6>2. side2[k] = side[k]
            BY <2>5, <5>2, <6>1
          <6>3. QED
            BY <3>1, <6>1, <6>2 DEF Within
        <5>3. QED
          BY <5>1, <5>2
      <4>2. QED
        BY <4>1 DEF Within
    <3>8. QED
      BY <3>1, <3>6, <3>7
  <2>7. ArrangeInv'
    <3> SUFFICES ASSUME AllScaled
                 PROVE  /\ (Largest(On, Len(Heads) + 1, OfSorted(Across), Most))'
                        /\ (Line(On, Reached, OfSorted(From), OfSorted(Along), edge))'
                        /\ (Within(On, Reached, OfSorted(Side), OfSorted(Across), Most))'
      BY <1>7 DEF ArrangeInv
    <3>1. QED
      BY <1>2, <1>6, <1>7, <2>6 DEF Largest, Line, Within
  <2>8. QED
    BY <2>4, <2>7
<1>11. QED
  BY <1>9, <1>10

(* What is said of the sorted list is kept by a step that does not write   *)
(* it.                                                                     *)
LEMMA SortedKept ==
    ASSUME SortedInv, loop.in \in {"measure", "arrange", "done"}, sorted' = sorted, g_cfg' = g_cfg
    PROVE  SortedInv'
<1>1. Increasing /\ Len(sorted) = Len(Heads) /\ \A h \in All : Sorted(h)
  BY DEF SortedInv
<1>2. \A h : (Place(h))' = Place(h)
  BY PlaceKept
<1>3. ASSUME NEW j \in DOMAIN sorted
      PROVE  (Place(sorted[j])[1])' \in Nat /\ (Place(sorted[j])[2])' \in Nat
  <2>1. (Place(sorted[j]))' = Place(sorted[j])
    BY DEF Place
  <2>2. QED
    BY <1>1, <2>1 DEF Increasing
<1>4. ASSUME NEW j \in DOMAIN sorted, NEW k \in DOMAIN sorted, j < k
      PROVE  (Precedes(sorted[j], sorted[k]))'
  <2>1. (Place(sorted[j]))' = Place(sorted[j]) /\ (Place(sorted[k]))' = Place(sorted[k])
    BY DEF Place
  <2>2. Precedes(sorted[j], sorted[k])
    BY <1>1, <1>4 DEF Increasing
  <2>3. QED
    BY <2>1, <2>2 DEF Precedes
<1>5. Increasing'
  BY <1>1, <1>3, <1>4 DEF Increasing
<1>6. QED
  BY <1>1, <1>5 DEF SortedInv, Sorted

(* The state before the first round.                                       *)
LEMMA LayoutStarts == LayoutInit => LayoutInv
<1> SUFFICES ASSUME LayoutInit PROVE LayoutInv
  OBVIOUS
<1>1. loop = [in |-> "desire", head |-> 1, kind |-> 1, cand |-> 1]
  BY DEF LayoutInit, Start
<1>2. LayoutTypeOK
  BY <1>1 DEF LayoutInit, LayoutTypeOK, Zero, Phases
<1>3. SizeInv
  BY <1>1, HeadsFacts DEF SizeInv
<1>4. FillInv /\ SortInv /\ SortedInv /\ MeasureInv /\ ArrangeInv
  BY <1>1 DEF FillInv, SortInv, SortedInv, MeasureInv, ArrangeInv
<1>5. QED
  BY <1>2, <1>3, <1>4 DEF LayoutInv

(* The invariant is about the variables of desire only.                    *)
LEMMA LayoutStutters ==
    ASSUME LayoutInv, UNCHANGED layoutVars
    PROVE  LayoutInv'
<1>1. /\ g_cfg' = g_cfg /\ screen' = screen /\ enabled' = enabled /\ scale' = scale /\ transform' = transform
      /\ scaled' = scaled /\ pos' = pos /\ loop' = loop /\ candidates' = candidates /\ buckets' = buckets
      /\ sorted' = sorted /\ tallest' = tallest /\ widest' = widest /\ edge' = edge
  BY DEF layoutVars, inputs, sizes, ordering, measures
<1>2. LayoutTypeOK'
  BY <1>1 DEF LayoutInv, LayoutTypeOK
<1>3. SizeInv'
  <2>1. ASSUME NEW h PROVE (desire_scale(h))' = desire_scale(h) /\ (Logical(h))' = Logical(h)
    BY <1>1 DEF desire_scale, head_get_fixed_scale, head_auto_scale, RoundTo, Dpi, Logical
  <2>2. ASSUME NEW h PROVE SizeOK(h)' = SizeOK(h)
    BY <1>1, <2>1 DEF SizeOK
  <2>3. QED
    BY <1>1, <2>2 DEF LayoutInv, SizeInv
<1>4. CandidatesInv' = CandidatesInv /\ BucketsInv' = BucketsInv /\ Increasing' = Increasing
  <2>1. CandidatesInv' = CandidatesInv
    BY <1>1 DEF CandidatesInv, Tried, Trying, Matches, Arrived
  <2>2. BucketsInv' = BucketsInv
    BY <1>1 DEF BucketsInv, Tried, Trying, Arrived, Place, Precedes
  <2>3. Increasing' = Increasing
    BY <1>1 DEF Increasing, Place, Precedes
  <2>4. QED
    BY <2>1, <2>2, <2>3
<1>5. \A h : Waiting(h)' = Waiting(h) /\ Sorted(h)' = Sorted(h)
  BY <1>1 DEF Waiting, Sorted
<1>6. FillInv'
  BY <1>1, <1>4, <1>5 DEF LayoutInv, FillInv
<1>7. SortInv'
  <2>1. \A j : (Place(sorted[j]))' = Place(sorted[j])
    BY <1>1 DEF Place
  <2>2. QED
    BY <1>1, <1>4, <1>5, <2>1 DEF LayoutInv, SortInv
<1>8. SortedInv'
  BY <1>1, <1>4, <1>5 DEF LayoutInv, SortedInv
<1>9. MeasureInv'
  BY <1>1 DEF LayoutInv, MeasureInv, AllScaled, On, Heights, Widths, Largest
<1>10. ArrangeInv'
  BY <1>1 DEF LayoutInv, ArrangeInv, AllScaled, On, OfSorted, From, Along, Side, Across, Most, Reached, Largest, Line, Within
<1>11. QED
  BY <1>2, <1>3, <1>6, <1>7, <1>8, <1>9, <1>10 DEF LayoutInv

(* Every step of desire keeps the invariant.                               *)
LEMMA LayoutKeeps ==
    ASSUME LayoutInv, LayoutNext
    PROVE  LayoutInv'
<1>1. LayoutTypeOK /\ SizeInv /\ FillInv /\ SortInv /\ SortedInv /\ MeasureInv /\ ArrangeInv
  BY DEF LayoutInv
<1>2. /\ loop \in [in : Phases, head : Nat \ {0}, kind : 1..3, cand : Nat \ {0}]
      /\ \A l \in Phases : Start(l) \in [in : Phases, head : Nat \ {0}, kind : 1..3, cand : Nat \ {0}] /\ Start(l).in = l
      /\ \A l : Start(l).head = 1
  BY <1>1 DEF LayoutTypeOK, Start
<1>3. CASE DesireHead
  <2>1. LayoutTypeOK' /\ SizeInv'
    BY <1>1, <1>3, HeadDesired
  <2>2. loop'.in \in {"desire", "buckets"}
    BY <1>1, <1>3, TurnIs DEF DesireHead, Phases
  <2>3. FillInv' /\ SortInv' /\ SortedInv' /\ MeasureInv' /\ ArrangeInv'
    BY <2>2 DEF FillInv, SortInv, SortedInv, MeasureInv, ArrangeInv
  <2>4. QED
    BY <2>1, <2>3 DEF LayoutInv
<1>4. CASE DesireOrder
  <2>1. /\ loop.in = "buckets" /\ loop' = Start(IF g_cfg.order = <<>> THEN "sort" ELSE "fill")
        /\ UNCHANGED <<inputs, sizes>> /\ UNCHANGED <<pos, measures>>
    BY <1>4 DEF DesireOrder
  <2>2. loop'.in \in {"sort", "fill"} /\ loop' \in [in : Phases, head : Nat \ {0}, kind : 1..3, cand : Nat \ {0}]
    BY <1>2, <2>1 DEF Phases
  <2>3. LayoutTypeOK'
    BY <1>1, <2>1, <2>2 DEF LayoutTypeOK, inputs, sizes, measures
  <2>4. SizeInv'
    BY <1>1, <2>1, <2>2, SizeKept
  <2>5. FillInv' /\ SortInv'
    BY <1>1, <1>4, OrderStarts
  <2>6. SortedInv' /\ MeasureInv' /\ ArrangeInv'
    BY <2>2 DEF SortedInv, MeasureInv, ArrangeInv
  <2>7. QED
    BY <2>3, <2>4, <2>5, <2>6 DEF LayoutInv
<1>5. CASE fill_order_bucket
  <2>1. /\ loop.in = "fill" /\ loop' \in {[loop EXCEPT !.cand = AfterRemoval(loop.cand)], [loop EXCEPT !.cand = loop.cand + 1]}
        /\ UNCHANGED <<inputs, sizes>> /\ UNCHANGED <<pos, measures>>
    BY <1>5 DEF fill_order_bucket
  <2>2. loop'.in = "fill" /\ loop' \in [in : Phases, head : Nat \ {0}, kind : 1..3, cand : Nat \ {0}]
    BY <1>2, <2>1 DEF AfterRemoval
  <2>3. LayoutTypeOK'
    BY <1>1, <2>1, <2>2 DEF LayoutTypeOK, inputs, sizes, measures
  <2>4. SizeInv'
    BY <1>1, <2>1, <2>2, SizeKept
  <2>5. FillInv'
    BY <1>1, <1>5, TakeCandidate, SkipCandidate
  <2>6. SortInv' /\ SortedInv' /\ MeasureInv' /\ ArrangeInv'
    BY <2>2 DEF SortInv, SortedInv, MeasureInv, ArrangeInv
  <2>7. QED
    BY <2>3, <2>4, <2>5, <2>6 DEF LayoutInv
<1>6. CASE fill_order_buckets
  <2>1. /\ loop.in = "fill"
        /\ loop' \in {[loop EXCEPT !.head = loop.head + 1, !.cand = 1], Start("sort")}
                      \cup {[loop EXCEPT !.head = 1, !.kind = k, !.cand = 1] : k \in 1..3}
        /\ UNCHANGED <<inputs, sizes>> /\ UNCHANGED <<pos, measures>>
    <3>1. Len(Kinds) = 3
      BY DEF Kinds
    <3>2. loop.kind < 3 => loop.kind + 1 \in 1..3
      BY <1>2
    <3>3. QED
      BY <1>6, <3>1, <3>2 DEF fill_order_buckets
  <2>2. loop'.in \in {"fill", "sort"} /\ loop' \in [in : Phases, head : Nat \ {0}, kind : 1..3, cand : Nat \ {0}]
    <3>1. CASE loop' = [loop EXCEPT !.head = loop.head + 1, !.cand = 1]
      <4>1. loop.in = "fill" /\ loop.head + 1 \in Nat \ {0}
        BY <1>2, <2>1
      <4>2. PICK n \in Nat \ {0} : loop' = [loop EXCEPT !.head = n, !.cand = 1]
        BY <3>1, <4>1
      <4>3. QED
        BY <1>2, <4>1, <4>2
    <3>2. CASE loop' = Start("sort")
      BY <1>2, <3>2 DEF Phases
    <3>3. ASSUME NEW k \in 1..3, loop' = [loop EXCEPT !.head = 1, !.kind = k, !.cand = 1]
          PROVE  loop'.in = "fill" /\ loop' \in [in : Phases, head : Nat \ {0}, kind : 1..3, cand : Nat \ {0}]
      BY <1>2, <2>1, <3>3
    <3>4. QED
      BY <2>1, <3>1, <3>2, <3>3
  <2>3. LayoutTypeOK'
    BY <1>1, <2>1, <2>2 DEF LayoutTypeOK, inputs, sizes, measures
  <2>4. SizeInv'
    BY <1>1, <2>1, <2>2, SizeKept
  <2>5. FillInv' /\ SortInv'
    BY <1>1, <1>6, NextBucket
  <2>6. SortedInv' /\ MeasureInv' /\ ArrangeInv'
    BY <2>2 DEF SortedInv, MeasureInv, ArrangeInv
  <2>7. QED
    BY <2>3, <2>4, <2>5, <2>6 DEF LayoutInv
<1>7. CASE DesireSorted
  <2>1. /\ loop.in = "sort" /\ loop' \in {[loop EXCEPT !.head = loop.head + 1], Start("measure")}
        /\ tallest' = 0 /\ widest' = 0 /\ edge' = 0
        /\ UNCHANGED <<inputs, sizes>> /\ UNCHANGED pos
    BY <1>7 DEF DesireSorted
  <2>2. /\ loop'.in \in {"sort", "measure"} /\ loop' \in [in : Phases, head : Nat \ {0}, kind : 1..3, cand : Nat \ {0}]
        /\ loop'.in = "measure" => loop'.head = 1
    BY <1>2, <2>1 DEF Start, Phases
  <2>3. LayoutTypeOK'
    BY <1>1, <2>1, <2>2 DEF LayoutTypeOK, inputs, sizes
  <2>4. SizeInv'
    BY <1>1, <2>1, <2>2, SizeKept
  <2>5. SortInv' /\ SortedInv'
    BY <1>1, <1>7, NextSorted
  <2>6. FillInv' /\ ArrangeInv'
    BY <2>2 DEF FillInv, ArrangeInv
  <2>7. MeasureInv'
    <3> SUFFICES ASSUME loop'.in = "measure"
                 PROVE  (Largest(On, loop.head, Heights, tallest))' /\ (Largest(On, loop.head, Widths, widest))'
      BY <2>1 DEF MeasureInv
    <3>1. \A k \in On' : ~(k < loop'.head)
      <4>1. DOMAIN sorted' = 1..Len(sorted') /\ Len(sorted') \in Nat
        BY <2>5 DEF SortedInv, Increasing
      <4>2. QED
        BY <2>2, <4>1 DEF On
    <3>2. QED
      BY <2>1, <3>1 DEF Largest
  <2>8. QED
    BY <2>3, <2>4, <2>5, <2>6, <2>7 DEF LayoutInv
<1>8. CASE FindTallestWidest
  <2>1. /\ loop.in = "measure" /\ loop'.in \in {"measure", "arrange"}
        /\ loop' \in [in : Phases, head : Nat \ {0}, kind : 1..3, cand : Nat \ {0}]
    BY <1>1, <1>8, TurnIs DEF FindTallestWidest, Phases
  <2>2. UNCHANGED <<inputs, sizes>> /\ UNCHANGED <<pos, ordering, edge>>
    BY <1>8 DEF FindTallestWidest
  <2>3. MeasureInv' /\ ArrangeInv' /\ tallest' \in Int /\ widest' \in Int
    BY <1>1, <1>8, Measured
  <2>4. LayoutTypeOK'
    BY <1>1, <2>1, <2>2, <2>3 DEF LayoutTypeOK, inputs, sizes
  <2>5. SizeInv'
    BY <1>1, <2>1, <2>2, SizeKept
  <2>6. SortedInv'
    BY <1>1, <2>1, <2>2, SortedKept DEF inputs, ordering
  <2>7. FillInv' /\ SortInv'
    BY <2>1 DEF FillInv, SortInv
  <2>8. QED
    BY <2>3, <2>4, <2>5, <2>6, <2>7 DEF LayoutInv
<1>9. CASE desire_positions
  <2>1. /\ loop.in = "arrange" /\ loop'.in \in {"arrange", "done"}
        /\ loop' \in [in : Phases, head : Nat \ {0}, kind : 1..3, cand : Nat \ {0}]
    BY <1>1, <1>9, TurnIs DEF desire_positions, Phases
  <2>2. UNCHANGED <<inputs, sizes>> /\ UNCHANGED <<ordering, tallest, widest>>
    BY <1>9 DEF desire_positions
  <2>3. ArrangeInv' /\ pos' \in [All -> [x : Int, y : Int]] /\ edge' \in Int
    BY <1>1, <1>9, Arranged
  <2>4. LayoutTypeOK'
    BY <1>1, <2>1, <2>2, <2>3 DEF LayoutTypeOK, inputs, sizes
  <2>5. SizeInv'
    BY <1>1, <2>1, <2>2, SizeKept
  <2>6. SortedInv'
    BY <1>1, <2>1, <2>2, SortedKept DEF inputs, ordering
  <2>7. FillInv' /\ SortInv' /\ MeasureInv'
    BY <2>1 DEF FillInv, SortInv, MeasureInv
  <2>8. QED
    BY <2>3, <2>4, <2>5, <2>6, <2>7 DEF LayoutInv
<1>10. CASE Again
  <2>1. /\ loop' = Start("desire") /\ g_cfg' \in LayoutCfgs /\ enabled' \in SUBSET All
        /\ UNCHANGED <<screen, sizes, pos, measures>>
    BY <1>10 DEF Again
  <2>2. /\ loop'.in = "desire" /\ loop'.head = 1
        /\ loop' \in [in : Phases, head : Nat \ {0}, kind : 1..3, cand : Nat \ {0}]
    BY <1>2, <2>1 DEF Phases
  <2>3. LayoutTypeOK'
    BY <1>1, <2>1, <2>2 DEF LayoutTypeOK, sizes, measures
  <2>4. SizeInv'
    BY <2>2, HeadsFacts DEF SizeInv
  <2>5. FillInv' /\ SortInv' /\ SortedInv' /\ MeasureInv' /\ ArrangeInv'
    BY <2>2 DEF FillInv, SortInv, SortedInv, MeasureInv, ArrangeInv
  <2>6. QED
    BY <2>3, <2>4, <2>5 DEF LayoutInv
<1>11. QED
  BY <1>3, <1>4, <1>5, <1>6, <1>7, <1>8, <1>9, <1>10 DEF LayoutNext

(* The inductive invariant holds in every round, for every list of heads,  *)
(* every configuration that validation lets through and every size of the  *)
(* displays.                                                               *)
THEOREM LayoutInvariant == LayoutSpec => []LayoutInv
<1>1. LayoutInv /\ [LayoutNext]_layoutVars => LayoutInv'
  BY LayoutKeeps, LayoutStutters
<1>2. QED
  BY LayoutStarts, <1>1, PTL DEF LayoutSpec

(* desire_order is a stable sort by the place in ORDER: every head is in   *)
(* the list once, after the heads of an earlier name, of a better kind of  *)
(* match, and those that arrived before it.                                *)
THEOREM OrderAlwaysAsListed == LayoutSpec => []OrderAsListed
<1>1. LayoutInv => OrderAsListed
  <2> SUFFICES ASSUME LayoutInv, loop.in \in {"measure", "arrange", "done"}
               PROVE  /\ Len(sorted) = Len(Heads) /\ {sorted[k] : k \in DOMAIN sorted} = All
                      /\ \A j, k \in DOMAIN sorted : j < k => Precedes(sorted[j], sorted[k])
    BY DEF OrderAsListed
  <2>1. Increasing /\ Len(sorted) = Len(Heads) /\ \A h \in All : Sorted(h)
    BY DEF LayoutInv, SortedInv
  <2>2. {sorted[k] : k \in DOMAIN sorted} = All
    <3>1. \A k \in DOMAIN sorted : sorted[k] \in All
      BY <2>1 DEF Increasing
    <3>2. QED
      BY <2>1, <3>1 DEF Sorted
  <2>3. QED
    BY <2>1, <2>2 DEF Increasing
<1>2. QED
  BY <1>1, LayoutInvariant, PTL

(* head_auto_scale stays within AUTO_SCALE_MIN and AUTO_SCALE_MAX after    *)
(* every rounding, for every AUTO_SCALE_DPI, SCALE_ROUND_TO, strategy,     *)
(* mode and physical size.                                                 *)
THEOREM AutoScaleAlwaysInRange == LayoutSpec => []AutoScaleInRange
<1>1. LayoutInv => AutoScaleInRange
  <2> SUFFICES ASSUME LayoutInv, Done, NEW h \in All, AutoScaled(h)
               PROVE  /\ scale[h] >= 0 /\ scale[h] % (256 \div RoundTo) = 0
                      /\ Dpi % RoundTo = 0 \/ g_cfg.scale_round_strategy # "DOWN" => scale[h] > 0
                      /\ (\E k \in 1..(16 * RoundTo) : /\ k * 1000 >= g_cfg.auto_scale_min * RoundTo
                                                       /\ k * 1000 <= g_cfg.auto_scale_max * RoundTo) =>
                            scale[h] * 1000 <= 256 * g_cfg.auto_scale_max
                      /\ Dpi % RoundTo = 0 => scale[h] * 1000 >= 256 * g_cfg.auto_scale_min
    BY DEF AutoScaleInRange
  <2>1. g_cfg \in LayoutCfgs /\ screen \in Screens /\ loop.in = "done"
    BY DEF LayoutInv, LayoutTypeOK, Done
  <2>2. PICK lo, hi, s : lo = g_cfg.auto_scale_min /\ hi = g_cfg.auto_scale_max /\ s = screen[h]
    OBVIOUS
  <2>3. /\ lo \in Int /\ hi \in Int /\ s.width_mm # 0 /\ s.height_mm # 0
        /\ s \in [width : Nat \ {0}, height : Nat \ {0}, width_mm : Nat, height_mm : Nat]
    BY <2>1, <2>2, LayoutAssumption DEF Valid, AutoScaled
  <2>4. scale[h] = head_auto_scale(s, lo, hi)
    <3>1. PICK k \in DOMAIN Heads : Heads[k] = h
      BY HeadsFacts
    <3>2. SizeOK(h)
      BY <2>1, <3>1 DEF LayoutInv, SizeInv, AutoScaled
    <3>3. QED
      BY <2>2, <3>2 DEF SizeOK, desire_scale, AutoScaled
  <2>5. LET a == head_auto_scale(s, lo, hi)
        IN  /\ a \in Int /\ a >= 0 /\ a % Unit = 0
            /\ Dpi % RoundTo = 0 \/ g_cfg.scale_round_strategy # "DOWN" => a > 0
            /\ (\E k \in Nat \ {0} : k * 1000 >= lo * RoundTo /\ k * 1000 <= hi * RoundTo) => a * 1000 <= 256 * hi
            /\ Dpi % RoundTo = 0 => a * 1000 >= 256 * lo
    BY <2>1, <2>3, AutoScaleRange
  <2>6. 1..(16 * RoundTo) \subseteq Nat \ {0}
    BY <2>1, RoundToFacts DEF AStep
  <2>7. QED
    BY <2>2, <2>4, <2>5, <2>6 DEF Unit
<1>2. QED
  BY <1>1, LayoutInvariant, PTL

(* The displays never overlap, leave no gap and do not reach beyond the    *)
(* longest one, in the sizes the compositor computes, for every list of    *)
(* heads, ORDER, ARRANGE, ALIGN, scale and transform.                      *)
THEOREM AlwaysTiled == LayoutSpec => []Tiled
<1>1. LayoutInv => Tiled
  <2> SUFFICES ASSUME LayoutInv, Done, AllScaled PROVE Tiled
    BY DEF Tiled, AllScaled
  <2> DEFINE size == [h \in enabled |-> Logical(h)]
             N == Len(Heads)
  <2>1. loop.in = "done" /\ LayoutTypeOK /\ SizeInv /\ SortedInv /\ ArrangeInv /\ Reached = N + 1
    BY DEF LayoutInv, Done, Reached
  <2>2. /\ N \in Nat /\ DOMAIN sorted = 1..N /\ \A k \in 1..N : sorted[k] \in All
        /\ \A h \in All : \E k \in 1..N : sorted[k] = h
    BY <2>1, SortedFacts
  <2>3. \A j, k \in 1..N : sorted[j] = sorted[k] => j = k
    BY <2>1, <2>2, SortedDistinct DEF SortedInv
  <2>4. \A h \in enabled : size[h] = scaled[h] /\ scaled[h].width >= 0 /\ scaled[h].height >= 0
    <3> SUFFICES ASSUME NEW h \in enabled PROVE size[h] = scaled[h] /\ scaled[h].width >= 0 /\ scaled[h].height >= 0
      OBVIOUS
    <3>1. h \in All
      BY <2>1 DEF LayoutTypeOK
    <3>2. PICK k \in DOMAIN Heads : Heads[k] = h
      BY <3>1, HeadsFacts
    <3>3. SizeOK(h)
      BY <2>1, <3>2 DEF SizeInv
    <3>4. QED
      BY <3>3 DEF SizeOK, AllScaled
  <2>5. PICK S, from, along, side, across :
           /\ S = On /\ from = OfSorted(From) /\ along = OfSorted(Along) /\ side = OfSorted(Side) /\ across = OfSorted(Across)
    OBVIOUS
  <2>6. Largest(S, N + 1, across, Most) /\ Line(S, N + 1, from, along, edge) /\ Within(S, N + 1, side, across, Most)
    BY <2>1, <2>5 DEF ArrangeInv
  <2>7. /\ \A k \in S : k \in 1..N /\ k < N + 1 /\ sorted[k] \in enabled
        /\ \A h \in enabled : \E k \in S : sorted[k] = h
        /\ \A k \in S : /\ from[k] = From(sorted[k]) /\ along[k] = Along(sorted[k])
                        /\ side[k] = Side(sorted[k]) /\ across[k] = Across(sorted[k])
    <3>1. \A k \in S : k \in 1..N /\ k < N + 1 /\ sorted[k] \in enabled
      BY <2>2, <2>5 DEF On
    <3>2. \A h \in enabled : \E k \in S : sorted[k] = h
      BY <2>1, <2>2, <2>5 DEF On, LayoutTypeOK
    <3>3. QED
      BY <2>2, <2>5, <3>1, <3>2 DEF OfSorted
  <2>8. \A h \in enabled : /\ From(h) \in Int /\ Along(h) \in Int /\ Side(h) \in Int /\ Across(h) \in Int /\ Across(h) >= 0
    BY <2>1, <2>4 DEF LayoutTypeOK, From, Along, Side, Across
  <2>9. ASSUME NEW g \in enabled, NEW h \in enabled, g # h PROVE Apart(g, h, size)
    <3>1. PICK j \in S, k \in S : sorted[j] = g /\ sorted[k] = h
      BY <2>7
    <3>2. j \in 1..N /\ k \in 1..N /\ j # k
      BY <2>7, <2>9, <3>1
    <3>3. From(g) + Along(g) <= From(h) \/ From(h) + Along(h) <= From(g)
      <4>1. CASE j < k
        BY <2>6, <2>7, <3>1, <4>1 DEF Line
      <4>2. CASE k < j
        BY <2>6, <2>7, <3>1, <4>2 DEF Line
      <4>3. QED
        BY <3>2, <4>1, <4>2
    <3>4. QED
      BY <2>4, <3>3 DEF Apart, From, Along
  <2>10. ASSUME NEW h \in enabled PROVE From(h) = 0 \/ \E g \in enabled \ {h} : From(g) + Along(g) = From(h)
    <3>1. PICK k \in S : sorted[k] = h
      BY <2>7
    <3>2. from[k] = 0 \/ \E j \in S : j < k /\ from[j] + along[j] = from[k]
      BY <2>6, <2>7 DEF Line
    <3>3. CASE from[k] = 0
      BY <2>7, <3>1, <3>3
    <3>4. CASE \E j \in S : j < k /\ from[j] + along[j] = from[k]
      <4>1. PICK j \in S : j < k /\ from[j] + along[j] = from[k]
        BY <3>4
      <4>2. sorted[j] \in enabled /\ From(sorted[j]) + Along(sorted[j]) = From(h)
        BY <2>7, <3>1, <4>1
      <4>3. sorted[j] # h
        <5>1. j \in 1..N /\ k \in 1..N /\ j # k
          BY <2>7, <4>1
        <5>2. QED
          BY <2>3, <3>1, <5>1
      <4>4. QED
        BY <4>2, <4>3
    <3>5. QED
      BY <3>2, <3>3, <3>4
  <2>11. ASSUME NEW h \in enabled PROVE Side(h) >= 0 /\ \E g \in enabled : Side(h) + Across(h) <= Across(g)
    <3>1. PICK k \in S : sorted[k] = h
      BY <2>7
    <3>2. Side(h) >= 0 /\ Side(h) + Across(h) <= Most
      BY <2>6, <2>7, <3>1 DEF Within
    <3>3. CASE Most = 0
      BY <2>8, <3>2, <3>3
    <3>4. CASE Most # 0
      <4>1. PICK j \in S : across[j] = Most
        BY <2>6, <3>4 DEF Largest
      <4>2. sorted[j] \in enabled /\ Across(sorted[j]) = Most
        BY <2>7, <4>1
      <4>3. QED
        BY <3>2, <4>2
    <3>5. QED
      BY <3>3, <3>4
  <2>12. QED
    BY <2>4, <2>9, <2>10, <2>11 DEF Tiled, From, Along, Side, Across
<1>2. QED
  BY <1>1, LayoutInvariant, PTL
=============================================================================
