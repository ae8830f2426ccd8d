---------------------------- MODULE VerifiedProofs ----------------------------
(***************************************************************************)
(* On verified code the operand stack and the handlers are those the         *)
(* compiler laid out, for any such code and any capacities.                 *)
(* The argument: the frames have points x, of their chunks, and places b and *)
(* f from which their operands and their handlers start (Laid).  There are   *)
(* six ways a step can go; each leads from one layout to another.            *)
(***************************************************************************)
EXTENDS VerifiedCode, BytecodeVMProofs, WellFoundedInduction

\* A frame that waits for a call has the result on top of what its regions found.
Waits(y) == y.height >= 1 /\ \A i \in DOMAIN y.open : y.open[i] <= y.height - 1

\* The frames fr, sp operands and the handlers tr are laid out for the points pts.
LaidFrames(pts, fr, x, b, f) ==
    /\ x \in [1..Len(fr) -> PointType] /\ b \in [1..Len(fr) -> Nat] /\ f \in [1..Len(fr) -> Nat]
    /\ \A d \in 1..Len(fr) : x[d] \in pts[fr[d].chunk] /\ x[d].at = fr[d].ip
    /\ b[1] = 0 /\ f[1] = 0
    /\ \A d \in 1..Len(fr) : d # Len(fr) =>
          /\ Waits(x[d])
          /\ b[d + 1] = b[d] + x[d].height - 1
          /\ f[d + 1] = f[d] + Len(x[d].open)
    /\ \A d, e \in 1..Len(fr) : d < e => /\ b[d] + x[d].height - 1 <= b[e]
                                         /\ f[d] + Len(x[d].open) <= f[e]

LaidHandler(pts, fr, h, t, x, b, f) ==
    /\ h.depth \in 1..Len(fr)
    /\ f[h.depth] < t /\ t <= f[h.depth] + Len(x[h.depth].open)
    /\ h.sp = b[h.depth] + x[h.depth].open[t - f[h.depth]]
    /\ Caught(h.ip, x[h.depth], t - f[h.depth]) \in pts[fr[h.depth].chunk]

Laid(pts, fr, sp, tr, x, b, f) ==
    /\ LaidFrames(pts, fr, x, b, f)
    /\ sp = b[Len(fr)] + x[Len(fr)].height
    /\ Len(tr) = f[Len(fr)] + Len(x[Len(fr)].open)
    /\ \A t \in 1..Len(tr) : LaidHandler(pts, fr, tr[t], t, x, b, f)

\* A stack of frames g of which the first n are those of fr, the last at ip i.
Keeps(fr, g, n, i) ==
    /\ Len(g) >= n
    /\ \A j \in 1..n : g[j].chunk = fr[j].chunk
    /\ \A j \in 1..n : j # n => g[j].ip = fr[j].ip
    /\ g[n].ip = i

VInv ==
    /\ IInv
    /\ Verified(prog, points)
    /\ status = "run" => \E x, b, f : Laid(points, frames, Sp, tries, x, b, f)

-----------------------------------------------------------------------------
(* From one layout to another *)

LEMMA LeqTransitive ==
  ASSUME NEW m \in Int, NEW n \in Int, NEW k \in Int, m <= n, n <= k
  PROVE  m <= k
OBVIOUS

LEMMA FurtherUp ==
  ASSUME NEW m \in Nat, NEW n \in Nat, NEW k \in Nat, NEW j \in Nat
  PROVE  /\ m + n <= k => m + n <= k + j
         /\ m + n - 1 <= k /\ j >= 1 => m + n - 1 <= k + j - 1
OBVIOUS

LEMMA PointParts ==
  ASSUME NEW y \in PointType
  PROVE  y.at \in Nat /\ y.height \in Nat /\ y.open \in Seq(Nat) /\ Len(y.open) \in Nat
BY DEF PointType

LEMMA LaidInOrder ==
  ASSUME NEW pts, NEW fr, NEW x, NEW b, NEW f, LaidFrames(pts, fr, x, b, f),
         NEW d \in 1..Len(fr), NEW e \in 1..Len(fr), d < e
  PROVE  b[d] + x[d].height - 1 <= b[e] /\ f[d] + Len(x[d].open) <= f[e]
BY DEF LaidFrames

\* The frames above n go, frame n goes on to point y with its first k regions.
Cuts(pts, fr, x, g, n, y, k) ==
    /\ n \in 1..Len(fr) /\ y \in PointType
    /\ Keeps(fr, g, n, y.at) /\ Len(g) = n /\ y \in pts[fr[n].chunk]
    /\ k \in 0..Len(x[n].open) /\ y.open = SubSeq(x[n].open, 1, k)

LEMMA LaidCut ==
  ASSUME NEW pts, NEW fr, NEW sp, NEW tr, NEW x, NEW b, NEW f,
         Laid(pts, fr, sp, tr, x, b, f), Len(fr) \in Nat, tr \in Seq(Handler),
         NEW g, NEW n, NEW y, NEW k, Cuts(pts, fr, x, g, n, y, k)
  PROVE  \E x2, b2, f2 : Laid(pts, g, b[n] + y.height, SubSeq(tr, 1, f[n] + k), x2, b2, f2)
<1> /\ n \in 1..Len(fr) /\ y \in PointType
    /\ Keeps(fr, g, n, y.at) /\ Len(g) = n /\ y \in pts[fr[n].chunk]
    /\ k \in 0..Len(x[n].open) /\ y.open = SubSeq(x[n].open, 1, k)
  BY DEF Cuts
<1> DEFINE D == Len(fr)
           x2 == [d \in 1..n |-> IF d = n THEN y ELSE x[d]]
           b2 == [d \in 1..n |-> b[d]]
           f2 == [d \in 1..n |-> f[d]]
           m == f[n] + k
<1>1. /\ n \in Nat /\ D \in 1..D /\ 1 \in 1..n /\ n \in 1..n
      /\ x \in [1..D -> PointType] /\ b \in [1..D -> Nat] /\ f \in [1..D -> Nat]
  BY DEF Laid, LaidFrames
<1>2. \A d \in 1..n : d \in 1..D /\ (d # n => d + 1 \in 1..n)
  BY <1>1
<1>3. /\ x2 \in [1..n -> PointType] /\ x2[n] = y
      /\ b2 \in [1..n -> Nat] /\ f2 \in [1..n -> Nat]
      /\ \A d \in 1..n : b2[d] = b[d] /\ f2[d] = f[d] /\ (d # n => x2[d] = x[d])
  BY <1>1, <1>2
<1> HIDE DEF x2, b2, f2
<1>4. /\ x[n].open \in Seq(Nat) /\ Len(x[n].open) \in Nat /\ f[n] \in Nat /\ m \in Nat
  <2>1. x[n] \in PointType /\ f[n] \in Nat
    BY <1>1
  <2>2. x[n].open \in Seq(Nat) /\ Len(x[n].open) \in Nat
    BY <2>1, PointParts
  <2> QED
    BY <2>1, <2>2
<1>5. m <= Len(tr) /\ Len(tr) \in Nat
  <2>1. Len(tr) \in Nat /\ Len(tr) = f[D] + Len(x[D].open) /\ f[D] \in Nat
        /\ Len(x[D].open) \in Nat
    <3>1. x[D] \in PointType /\ f[D] \in Nat
      BY <1>1
    <3> QED
      BY <3>1, PointParts DEF Laid
  <2>2. n # D => f[n] + Len(x[n].open) <= f[D]
    BY <1>1 DEF Laid, LaidFrames
  <2>3. f[n] + Len(x[n].open) <= Len(tr)
    <3>1. CASE n = D
      <4>1. Len(tr) = f[n] + Len(x[n].open)
        BY <2>1, <3>1
      <4> QED
        BY <2>1, <4>1
    <3>2. CASE n # D
      <4>1. f[n] + Len(x[n].open) \in Int /\ f[D] \in Int /\ Len(tr) \in Int
        BY <1>4, <2>1
      <4>2. f[D] <= Len(tr)
        BY <2>1
      <4>3. f[n] + Len(x[n].open) <= f[D]
        BY <2>2, <3>2
      <4> QED
        BY <4>1, <4>2, <4>3, LeqTransitive
    <3> QED
      BY <3>1, <3>2
  <2> DEFINE u == f[n]
             w == Len(x[n].open)
             l == Len(tr)
  <2>4. /\ u \in Nat /\ w \in Nat /\ l \in Nat
        /\ k \in 0..w /\ u + w <= l
    BY <1>4, <2>1, <2>3
  <2> HIDE DEF u, w, l
  <2>5. u + k <= l
    BY <2>4
  <2> QED
    BY <2>1, <2>5 DEF u, l
<1>6. LaidFrames(pts, g, x2, b2, f2)
  <2>1. \A d \in 1..n : x2[d] \in pts[g[d].chunk] /\ x2[d].at = g[d].ip
    <3> TAKE d \in 1..n
    <3>1. CASE d = n
      BY <1>3, <3>1 DEF Keeps
    <3>2. CASE d # n
      <4>1. x[d] \in pts[fr[d].chunk] /\ x[d].at = fr[d].ip
        BY <1>2 DEF Laid, LaidFrames
      <4>2. g[d].chunk = fr[d].chunk /\ g[d].ip = fr[d].ip
        BY <3>2 DEF Keeps
      <4> QED
        BY <1>3, <3>2, <4>1, <4>2
    <3> QED
      BY <3>1, <3>2
  <2>2. \A d \in 1..n : d # n => /\ Waits(x2[d])
                                 /\ b2[d + 1] = b2[d] + x2[d].height - 1
                                 /\ f2[d + 1] = f2[d] + Len(x2[d].open)
    <3> TAKE d \in 1..n
    <3> HAVE d # n
    <3>1. d # D /\ d + 1 \in 1..n
      BY <1>1, <1>2
    <3> QED
      BY <1>2, <1>3, <3>1 DEF Laid, LaidFrames
  <2>3. \A d, e \in 1..n : d < e => /\ b2[d] + x2[d].height - 1 <= b2[e]
                                    /\ f2[d] + Len(x2[d].open) <= f2[e]
    <3> TAKE d, e \in 1..n
    <3> HAVE d < e
    <3>1. x2[d] = x[d]
      BY <1>1, <1>3
    <3> QED
      BY <1>2, <1>3, <3>1 DEF Laid, LaidFrames
  <2>4. b2[1] = 0 /\ f2[1] = 0
    BY <1>1, <1>3 DEF Laid, LaidFrames
  <2> QED
    BY <1>3, <2>1, <2>2, <2>3, <2>4 DEF LaidFrames
<1>7. Len(y.open) = k /\ \A i \in 1..k : /\ y.open[i] = x[n].open[i]
                                         /\ SubSeq(y.open, 1, i - 1) = SubSeq(x[n].open, 1, i - 1)
  <2> DEFINE o == x[n].open
  <2>1. o \in Seq(Nat) /\ k \in 0..Len(o) /\ y.open = SubSeq(o, 1, k)
    BY <1>4
  <2> HIDE DEF o
  <2>2. Len(y.open) = k /\ \A i \in 1..k : y.open[i] = o[i]
    BY <2>1
  <2>3. \A i \in 1..k : SubSeq(y.open, 1, i - 1) = SubSeq(o, 1, i - 1)
    BY <2>1, <2>2
  <2> QED
    BY <2>2, <2>3 DEF o
<1>8. Len(SubSeq(tr, 1, m)) = m /\ \A t \in 1..m : SubSeq(tr, 1, m)[t] = tr[t] /\ t \in 1..Len(tr)
  <2> HIDE DEF m
  <2> QED
    BY <1>4, <1>5
<1>9. ASSUME NEW t \in 1..m
      PROVE  LaidHandler(pts, g, tr[t], t, x2, b2, f2)
  <2> DEFINE d == tr[t].depth
  <2>1. LaidHandler(pts, fr, tr[t], t, x, b, f)
    BY <1>8 DEF Laid
  <2>2. d \in 1..D /\ f[d] \in Nat /\ t \in Nat
    BY <1>1, <1>8, <2>1 DEF LaidHandler
  <2>3. d <= n
    <3> SUFFICES ASSUME n < d PROVE FALSE
      BY <1>1, <2>2
    <3>1. f[n] + Len(x[n].open) <= f[d] /\ f[d] < t
      BY <2>1, <2>2 DEF Laid, LaidFrames, LaidHandler
    <3>2. t \in Nat /\ t <= f[n] + k /\ k <= Len(x[n].open) /\ k \in Nat
      BY <1>4
    <3> DEFINE u == f[n]
               w == Len(x[n].open)
               v == f[d]
    <3>3. /\ u \in Nat /\ w \in Nat /\ v \in Nat
          /\ u + w <= v /\ v < t /\ t <= u + k /\ k <= w
      BY <1>4, <2>2, <3>1, <3>2
    <3> HIDE DEF u, v, w, d, m
    <3> QED
      BY <3>2, <3>3
  <2>4. d \in 1..n /\ g[d].chunk = fr[d].chunk
    <3>1. d \in 1..n
      BY <1>1, <2>2, <2>3
    <3> QED
      BY <3>1 DEF Keeps
  <2>5. CASE d # n
    BY <1>3, <2>1, <2>4, <2>5 DEF LaidHandler
  <2>6. CASE d = n
    <3>1. t - f[n] \in 1..k /\ f[n] < t /\ t <= f[n] + k
      <4> DEFINE u == f[n]
      <4>1. u < t /\ t <= u + k /\ u \in Nat /\ t \in Nat
        BY <1>4, <2>1, <2>2, <2>6 DEF LaidHandler
      <4> HIDE DEF u, d, m
      <4>2. t - u \in 1..k /\ u < t /\ t <= u + k
        BY <4>1
      <4> QED
        BY <4>2 DEF u
    <3>2. /\ y.open[t - f[n]] = x[n].open[t - f[n]]
          /\ Caught(tr[t].ip, y, t - f[n]) = Caught(tr[t].ip, x[n], t - f[n])
      BY <1>7, <3>1 DEF Caught
    <3>3. /\ f2[n] < t /\ t <= f2[n] + Len(x2[n].open) /\ f2[n] = f[n]
      BY <1>1, <1>3, <1>7, <3>1
    <3>4. /\ tr[t].sp = b[n] + x[n].open[t - f[n]]
          /\ Caught(tr[t].ip, x[n], t - f[n]) \in pts[fr[n].chunk]
      BY <2>1, <2>6 DEF LaidHandler
    <3>5. /\ tr[t].sp = b2[n] + x2[n].open[t - f2[n]]
          /\ Caught(tr[t].ip, x2[n], t - f2[n]) \in pts[g[n].chunk]
      BY <1>1, <1>3, <2>4, <2>6, <3>2, <3>3, <3>4
    <3>6. tr[t].depth = n /\ n \in 1..Len(g)
      BY <1>1, <2>6
    <3> HIDE DEF d, m
    <3> QED
      BY <3>3, <3>5, <3>6, Zenon DEF LaidHandler
  <2> QED
    BY <2>5, <2>6
<1>10. \A t \in 1..Len(SubSeq(tr, 1, m)) : LaidHandler(pts, g, SubSeq(tr, 1, m)[t], t, x2, b2, f2)
  BY <1>8, <1>9
<1>11. b[n] + y.height = b2[n] + x2[n].height /\ m = f2[n] + Len(x2[n].open)
  BY <1>3, <1>7
<1>12. Laid(pts, g, b[n] + y.height, SubSeq(tr, 1, m), x2, b2, f2)
  <2> HIDE DEF m
  <2> QED
    BY <1>6, <1>8, <1>10, <1>11 DEF Laid
<1> QED
  BY <1>12

\* The frame on top opens a region with handler h and goes on to y.
OpensRegion(pts, fr, sp, x, g, y, h) ==
    /\ y \in PointType /\ Keeps(fr, g, Len(fr), y.at) /\ Len(g) = Len(fr)
    /\ y \in pts[fr[Len(fr)].chunk] /\ y.height = x[Len(fr)].height
    /\ y.open = Append(x[Len(fr)].open, y.height)
    /\ h \in Handler /\ h.depth = Len(fr) /\ h.sp = sp
    /\ Point(h.ip, y.height + 1, x[Len(fr)].open) \in pts[fr[Len(fr)].chunk]

LEMMA LaidOpen ==
  ASSUME NEW pts, NEW fr, NEW sp, NEW tr, NEW x, NEW b, NEW f,
         Laid(pts, fr, sp, tr, x, b, f),
         Len(fr) \in Nat \ {0}, tr \in Seq(Handler),
         NEW g, NEW y, NEW h, OpensRegion(pts, fr, sp, x, g, y, h)
  PROVE  \E x2, b2, f2 : Laid(pts, g, sp, Append(tr, h), x2, b2, f2)
<1> /\ y \in PointType /\ Keeps(fr, g, Len(fr), y.at) /\ Len(g) = Len(fr)
    /\ y \in pts[fr[Len(fr)].chunk] /\ y.height = x[Len(fr)].height
    /\ y.open = Append(x[Len(fr)].open, y.height)
    /\ h \in Handler /\ h.depth = Len(fr) /\ h.sp = sp
    /\ Point(h.ip, y.height + 1, x[Len(fr)].open) \in pts[fr[Len(fr)].chunk]
  BY DEF OpensRegion
<1> DEFINE D == Len(fr)
           x2 == [x EXCEPT ![D] = y]
           o == x[D].open
           n == Len(o)
<1>1. /\ D \in 1..D
      /\ x \in [1..D -> PointType] /\ b \in [1..D -> Nat] /\ f \in [1..D -> Nat]
  BY DEF Laid, LaidFrames
<1>2. /\ x2 \in [1..D -> PointType] /\ x2[D] = y
      /\ \A d \in 1..D : d # D => x2[d] = x[d]
  BY <1>1
<1> HIDE DEF x2
<1>3. o \in Seq(Nat) /\ n \in Nat /\ y.height \in Nat /\ b[D] \in Nat /\ f[D] \in Nat
  BY <1>1 DEF PointType
<1>4. /\ Len(y.open) = n + 1 /\ y.open[n + 1] = y.height
      /\ \A i \in 1..n : /\ y.open[i] = o[i]
                         /\ SubSeq(y.open, 1, i - 1) = SubSeq(o, 1, i - 1)
      /\ SubSeq(y.open, 1, n) = o
  <2>1. y.open = Append(o, y.height)
    OBVIOUS
  <2> HIDE DEF o
  <2>2. Len(y.open) = n + 1 /\ y.open[n + 1] = y.height /\ \A i \in 1..n : y.open[i] = o[i]
    BY <1>3, <2>1
  <2>3. \A i \in 1..n : SubSeq(y.open, 1, i - 1) = SubSeq(o, 1, i - 1)
    BY <1>3, <2>1, <2>2
  <2>4. SubSeq(y.open, 1, n) = o
    BY <1>3, <2>1, <2>2
  <2> QED
    BY <2>2, <2>3, <2>4
<1>5. LaidFrames(pts, g, x2, b, f)
  <2>1. \A d \in 1..D : x2[d] \in pts[g[d].chunk] /\ x2[d].at = g[d].ip
    <3> TAKE d \in 1..D
    <3>1. g[d].chunk = fr[d].chunk
      BY DEF Keeps
    <3>2. CASE d = D
      BY <1>2, <3>1, <3>2 DEF Keeps
    <3>3. CASE d # D
      <4>1. x[d] \in pts[fr[d].chunk] /\ x[d].at = fr[d].ip
        BY DEF Laid, LaidFrames
      <4>2. g[d].ip = fr[d].ip
        BY <3>3 DEF Keeps
      <4> QED
        BY <1>2, <3>1, <3>3, <4>1, <4>2
    <3> QED
      BY <3>2, <3>3
  <2>2. \A d \in 1..D : d # D => /\ Waits(x2[d])
                                 /\ b[d + 1] = b[d] + x2[d].height - 1
                                 /\ f[d + 1] = f[d] + Len(x2[d].open)
    BY <1>2 DEF Laid, LaidFrames
  <2>3. \A d, e \in 1..D : d < e => /\ b[d] + x2[d].height - 1 <= b[e]
                                    /\ f[d] + Len(x2[d].open) <= f[e]
    <3> TAKE d, e \in 1..D
    <3> HAVE d < e
    <3>1. x2[d] = x[d]
      BY <1>2
    <3> QED
      BY <3>1 DEF Laid, LaidFrames
  <2> QED
    BY <1>1, <1>2, <2>1, <2>2, <2>3 DEF Laid, LaidFrames
<1>6. Len(tr) \in Nat /\ Len(tr) = f[D] + n /\ Len(Append(tr, h)) = Len(tr) + 1
  BY DEF Laid
<1>7. ASSUME NEW t \in 1..Len(tr)
      PROVE  LaidHandler(pts, g, tr[t], t, x2, b, f)
  <2> DEFINE d == tr[t].depth
  <2>1. LaidHandler(pts, fr, tr[t], t, x, b, f)
    BY DEF Laid
  <2>2. d \in 1..D /\ g[d].chunk = fr[d].chunk /\ f[d] \in Nat
    BY <1>1, <2>1 DEF LaidHandler, Keeps
  <2>3. CASE d # D
    BY <1>2, <2>1, <2>2, <2>3 DEF LaidHandler
  <2>4. CASE d = D
    <3>1. t - f[D] \in 1..n
      <4>1. f[D] < t /\ t <= f[D] + n
        BY <2>1, <2>4 DEF LaidHandler
      <4> DEFINE u == f[D]
      <4>2. t \in Nat /\ u \in Nat /\ n \in Nat /\ u < t /\ t <= u + n
        BY <1>3, <1>6, <4>1
      <4> HIDE DEF n, u
      <4>3. t - u \in 1..n
        BY <4>2
      <4> QED
        BY <4>3 DEF u
    <3>2. /\ x2[D].open[t - f[D]] = o[t - f[D]]
          /\ Caught(tr[t].ip, y, t - f[D]) = Caught(tr[t].ip, x[D], t - f[D])
      BY <1>2, <1>4, <3>1 DEF Caught
    <3>3. t <= f[D] + Len(x2[D].open)
      <4>1. Len(x2[D].open) = n + 1 /\ t \in Nat
        BY <1>2, <1>4, <1>6
      <4> HIDE DEF n
      <4> QED
        BY <1>3, <3>1, <4>1
    <3> QED
      BY <1>2, <2>1, <2>2, <2>4, <3>2, <3>3 DEF LaidHandler
  <2> QED
    BY <2>3, <2>4
<1>8. LaidHandler(pts, g, h, Len(tr) + 1, x2, b, f)
  <2>1. (Len(tr) + 1) - f[D] = n + 1
    BY <1>3, <1>6
  <2>2. f[D] < Len(tr) + 1 /\ Len(tr) + 1 <= f[D] + Len(x2[D].open)
    <3> DEFINE u == f[D]
               l == Len(tr)
               w == Len(x2[D].open)
    <3>1. w = n + 1 /\ l = u + n /\ u \in Nat /\ n \in Nat
      BY <1>2, <1>3, <1>4, <1>6
    <3> HIDE DEF n, u, l, w
    <3>2. u < l + 1 /\ l + 1 <= u + w
      BY <3>1
    <3> QED
      BY <3>2 DEF u, l, w
  <2>3. h.sp = b[D] + y.open[n + 1]
    BY <1>4 DEF Laid
  <2>4. Caught(h.ip, y, n + 1) = Point(h.ip, y.height + 1, o)
    <3>1. (n + 1) - 1 = n
      BY <1>3
    <3>2. y.open[n + 1] = y.height /\ SubSeq(y.open, 1, (n + 1) - 1) = o
      BY <1>4, <3>1
    <3> HIDE DEF n, o
    <3> QED
      BY <3>2, Zenon DEF Caught
  <2>5. g[D].chunk = fr[D].chunk
    BY <1>1 DEF Keeps
  <2>6. Caught(h.ip, x2[D], (Len(tr) + 1) - f[D]) \in pts[g[D].chunk]
    BY <1>2, <2>1, <2>4, <2>5
  <2>7. h.sp = b[D] + x2[D].open[(Len(tr) + 1) - f[D]]
    BY <1>2, <2>1, <2>3
  <2>8. h.depth \in 1..Len(g)
    BY <1>1
  <2>9. h.depth = D
    OBVIOUS
  <2> HIDE DEF x2, n, o, D
  <2> QED
    BY <2>2, <2>6, <2>7, <2>8, <2>9, Zenon DEF LaidHandler
<1>9. \A t \in 1..Len(Append(tr, h)) : LaidHandler(pts, g, Append(tr, h)[t], t, x2, b, f)
  BY <1>6, <1>7, <1>8
<1>10. sp = b[Len(g)] + x2[Len(g)].height
  BY <1>2 DEF Laid
<1>11. Len(Append(tr, h)) = f[Len(g)] + Len(x2[Len(g)].open)
  <2>1. Len(x2[D].open) = n + 1
    BY <1>2, <1>4
  <2>2. Len(Append(tr, h)) = f[D] + (n + 1)
    <3> DEFINE u == f[D]
               l == Len(tr)
               w == Len(Append(tr, h))
    <3>1. w = l + 1 /\ l = u + n /\ u \in Nat /\ n \in Nat
      BY <1>3, <1>6
    <3> HIDE DEF n, u, l, w
    <3>2. w = u + (n + 1)
      BY <3>1
    <3> QED
      BY <3>2 DEF u, w
  <2> QED
    BY <2>1, <2>2
<1> QED
  BY <1>5, <1>9, <1>10, <1>11 DEF Laid

\* The frame on top waits at y for the call of a chunk, which starts.
EntersChunk(pts, fr, x, b, g, y, sp2) ==
    /\ y \in PointType /\ Keeps(fr, g, Len(fr), y.at) /\ Len(g) = Len(fr) + 1
    /\ y \in pts[fr[Len(fr)].chunk] /\ y.open = x[Len(fr)].open /\ Waits(y)
    /\ FirstPoint \in pts[g[Len(fr) + 1].chunk] /\ g[Len(fr) + 1].ip = 1
    /\ sp2 = b[Len(fr)] + y.height - 1

LEMMA LaidEnter ==
  ASSUME NEW pts, NEW fr, NEW sp, NEW tr, NEW x, NEW b, NEW f,
         Laid(pts, fr, sp, tr, x, b, f), Len(fr) \in Nat \ {0}, Len(tr) \in Nat,
         NEW g, NEW y, NEW sp2, EntersChunk(pts, fr, x, b, g, y, sp2)
  PROVE  \E x2, b2, f2 : Laid(pts, g, sp2, tr, x2, b2, f2)
<1> /\ y \in PointType /\ Keeps(fr, g, Len(fr), y.at) /\ Len(g) = Len(fr) + 1
    /\ y \in pts[fr[Len(fr)].chunk] /\ y.open = x[Len(fr)].open /\ Waits(y)
    /\ FirstPoint \in pts[g[Len(fr) + 1].chunk] /\ g[Len(fr) + 1].ip = 1
    /\ sp2 = b[Len(fr)] + y.height - 1
  BY DEF EntersChunk
<1> DEFINE D == Len(fr)
           x2 == [d \in 1..D + 1 |-> IF d < D THEN x[d] ELSE IF d = D THEN y ELSE FirstPoint]
           b2 == [d \in 1..D + 1 |-> IF d <= D THEN b[d] ELSE sp2]
           f2 == [d \in 1..D + 1 |-> IF d <= D THEN f[d] ELSE Len(tr)]
<1>1. /\ D \in 1..D
      /\ x \in [1..D -> PointType] /\ b \in [1..D -> Nat] /\ f \in [1..D -> Nat]
  BY DEF Laid, LaidFrames
<1>2. y.height \in Nat /\ y.height >= 1 /\ sp2 \in Nat /\ b[D] \in Nat /\ f[D] \in Nat
  <2>1. y.height \in Nat /\ y.height >= 1 /\ b[D] \in Nat /\ f[D] \in Nat
    BY <1>1 DEF PointType, Waits
  <2> QED
    BY <2>1
<1>3. FirstPoint \in PointType /\ FirstPoint.at = 1 /\ FirstPoint.height = 0
      /\ FirstPoint.open = <<>> /\ Len(FirstPoint.open) = 0
  BY DEF FirstPoint, Point, PointType
<1>4. /\ x2 \in [1..D + 1 -> PointType] /\ b2 \in [1..D + 1 -> Nat] /\ f2 \in [1..D + 1 -> Nat]
      /\ \A d \in 1..D : b2[d] = b[d] /\ f2[d] = f[d] /\ (d # D => x2[d] = x[d])
      /\ x2[D] = y /\ x2[D + 1] = FirstPoint /\ b2[D + 1] = sp2 /\ f2[D + 1] = Len(tr)
  <2>1. /\ D \in Nat /\ D + 1 \in 1..D + 1 /\ ~(D + 1 <= D) /\ ~(D + 1 < D) /\ D + 1 # D
        /\ \A d \in 1..D : d \in 1..D + 1 /\ d <= D /\ (d # D => d < D)
        /\ \A d \in 1..D + 1 : d \in 1..D \/ d = D + 1
    BY <1>1
  <2>2. /\ \A d \in 1..D : b2[d] = b[d] /\ f2[d] = f[d] /\ (d # D => x2[d] = x[d])
        /\ x2[D] = y /\ x2[D + 1] = FirstPoint /\ b2[D + 1] = sp2 /\ f2[D + 1] = Len(tr)
    BY <1>1, <2>1
  <2>3. x2 \in [1..D + 1 -> PointType]
    <3>1. \A d \in 1..D + 1 : (IF d < D THEN x[d] ELSE IF d = D THEN y ELSE FirstPoint)
                                  \in PointType
      BY <1>1, <1>3, <2>1
    <3> QED
      BY <3>1
  <2>4. b2 \in [1..D + 1 -> Nat]
    BY <1>1, <1>2, <2>1
  <2>5. f2 \in [1..D + 1 -> Nat]
    BY <1>1, <1>2, <2>1
  <2> QED
    BY <2>2, <2>3, <2>4, <2>5
<1> HIDE DEF x2, b2, f2
<1>5. \A d \in 1..D : x2[d].open = x[d].open
  BY <1>4
<1>6. Len(tr) = f[D] + Len(x[D].open)
  BY DEF Laid
<1>7. LaidFrames(pts, g, x2, b2, f2)
  <2>1. \A d \in 1..D + 1 : x2[d] \in pts[g[d].chunk] /\ x2[d].at = g[d].ip
    <3> TAKE d \in 1..D + 1
    <3>1. CASE d = D + 1
      BY <1>3, <1>4, <3>1
    <3>2. CASE d # D + 1
      <4>1. d \in 1..D
        BY <3>2
      <4>2. CASE d = D
        BY <1>1, <1>4, <4>2 DEF Keeps
      <4>3. CASE d # D
        BY <1>4, <4>1, <4>3 DEF Laid, LaidFrames, Keeps
      <4> QED
        BY <4>2, <4>3
    <3> QED
      BY <3>1, <3>2
  <2>2. \A d \in 1..D + 1 : d # D + 1 => /\ Waits(x2[d])
                                         /\ b2[d + 1] = b2[d] + x2[d].height - 1
                                         /\ f2[d + 1] = f2[d] + Len(x2[d].open)
    <3> TAKE d \in 1..D + 1
    <3> HAVE d # D + 1
    <3>1. d \in 1..D
      OBVIOUS
    <3>2. CASE d = D
      BY <1>1, <1>4, <1>6, <3>2
    <3>3. CASE d # D
      <4>1. d + 1 \in 1..D
        BY <3>1, <3>3
      <4> QED
        BY <1>4, <3>1, <3>3, <4>1 DEF Laid, LaidFrames
    <3> QED
      BY <3>2, <3>3
  <2>3. \A d, e \in 1..D + 1 : d < e => /\ b2[d] + x2[d].height - 1 <= b2[e]
                                        /\ f2[d] + Len(x2[d].open) <= f2[e]
    <3> TAKE d, e \in 1..D + 1
    <3> HAVE d < e
    <3>1. d \in 1..D
      OBVIOUS
    <3>2. CASE e \in 1..D
      <4>1. x2[d] = x[d] /\ b2[d] = b[d] /\ f2[d] = f[d] /\ b2[e] = b[e] /\ f2[e] = f[e]
        BY <1>4, <3>1, <3>2
      <4> QED
        BY <3>1, <3>2, <4>1 DEF Laid, LaidFrames
    <3>3. CASE e = D + 1 /\ d = D
      BY <1>1, <1>2, <1>4, <1>6, <3>3
    <3>4. CASE e = D + 1 /\ d # D
      <4>1. x2[d] = x[d] /\ b2[d] = b[d] /\ f2[d] = f[d] /\ b2[e] = sp2 /\ f2[e] = Len(tr)
        BY <1>4, <3>1, <3>4
      <4>2. b[d] + x[d].height - 1 <= b[D] /\ f[d] + Len(x[d].open) <= f[D]
        <5>1. d < D /\ d \in 1..D /\ D \in 1..D
          BY <1>1, <3>1, <3>4
        <5> QED
          BY <5>1 DEF Laid, LaidFrames
      <4>3. b[d] \in Nat /\ x[d].height \in Nat /\ f[d] \in Nat /\ Len(x[d].open) \in Nat
            /\ Len(x[D].open) \in Nat
        <5>1. x[d] \in PointType /\ x[D] \in PointType /\ b[d] \in Nat /\ f[d] \in Nat
          BY <1>1, <3>1
        <5> QED
          BY <5>1, PointParts
      <4>4. b[d] + x[d].height - 1 <= b[D] + y.height - 1
        BY <1>2, <4>2, <4>3, FurtherUp
      <4>5. f[d] + Len(x[d].open) <= f[D] + Len(x[D].open)
        BY <1>2, <4>2, <4>3, FurtherUp
      <4> QED
        BY <1>6, <4>1, <4>4, <4>5
    <3> QED
      BY <3>2, <3>3, <3>4
  <2>4. b2[1] = 0 /\ f2[1] = 0
    BY <1>1, <1>4 DEF Laid, LaidFrames
  <2> QED
    BY <1>4, <2>1, <2>2, <2>3, <2>4 DEF LaidFrames
<1>8. \A t \in 1..Len(tr) : LaidHandler(pts, g, tr[t], t, x2, b2, f2)
  <2> TAKE t \in 1..Len(tr)
  <2>1. LaidHandler(pts, fr, tr[t], t, x, b, f)
    BY DEF Laid
  <2>2. /\ tr[t].depth \in 1..D /\ tr[t].depth \in 1..Len(g)
        /\ g[tr[t].depth].chunk = fr[tr[t].depth].chunk
    BY <2>1 DEF LaidHandler, Keeps
  <2> QED
    BY <1>4, <1>5, <2>1, <2>2 DEF LaidHandler, Caught
<1>9. sp2 = b2[Len(g)] + x2[Len(g)].height
  BY <1>2, <1>3, <1>4
<1>10. Len(tr) = f2[Len(g)] + Len(x2[Len(g)].open)
  BY <1>3, <1>4
<1> QED
  BY <1>7, <1>8, <1>9, <1>10 DEF Laid

-----------------------------------------------------------------------------
(* What the instructions do to the frames and to the height of the stack *)

\* The running frame goes on at i, with n operands less and m results.
Continue(i, n, m) ==
    /\ Len(frames') = Depth /\ Keeps(frames, frames', Depth, i)
    /\ Sp' = (Sp - n) + m
    /\ tries' = tries

Targets ==
    IF Ins.op = "JUMP" THEN {Ins.a}
    ELSE IF Ins.op = "POP_JUMP_IF" THEN {Ins.a, Cur.ip + 1}
    ELSE {Cur.ip + 1}

LEMMA FailFails ==
  ASSUME NEW e, Fail(e)
  PROVE  status' = "failed"
BY DEF Fail, Stop

LEMMA AtControl ==
  ASSUME TypeOK, status = "run", NEW i \in Nat
  PROVE  /\ Len(At(i)) = Depth /\ Keeps(frames, At(i), Depth, i)
         /\ \A j \in 1..Depth : At(i)[j] \in Frame(Len(objs))
<1> DEFINE r == [Cur EXCEPT !.ip = i]
<1>1. /\ frames \in Seq(Frame(Len(objs)))
      /\ Depth \in 1..Len(frames) /\ Depth = Len(frames) /\ Cur \in Frame(Len(objs))
  BY RunningFrame DEF TypeOK, Depth
<1>2. r \in Frame(Len(objs)) /\ r.ip = i /\ r.chunk = Cur.chunk
  BY <1>1 DEF Frame
<1>3. At(i) = [frames EXCEPT ![Depth] = r]
  BY DEF At, Cur
<1> HIDE DEF r
<1>4. /\ Len(At(i)) = Depth
      /\ At(i) \in Seq(Frame(Len(objs)))
      /\ \A j \in 1..Len(frames) : At(i)[j] = IF j = Depth THEN r ELSE frames[j]
  BY <1>1, <1>2, <1>3, ExceptSeq
<1>5. \A j \in 1..Depth : At(i)[j] \in Frame(Len(objs))
  BY <1>1, <1>4, ElementOfSeq
<1> QED
  BY <1>1, <1>2, <1>4, <1>5 DEF Keeps, Cur

LEMMA ReplaceControl ==
  ASSUME TypeOK, NEW op, Fetched(op), NEW n \in Nat, n <= Sp, NEW v, Replace(n, v)
  PROVE  status' = "failed" \/ Continue(Cur.ip + 1, n, 1)
<1>1. CASE Sp - n >= StackCap
  BY <1>1, FailFails DEF Replace
<1>2. CASE ~(Sp - n >= StackCap)
  <2>1. stack' = Append(Under(n), v) /\ frames' = At(Cur.ip + 1) /\ tries' = tries
    BY <1>2 DEF Replace, Advance
  <2>2. Len(stack') = (Sp - n) + 1
    BY <2>1, Operands
  <2> QED
    BY <2>1, <2>2, AtControl, FetchedInstr DEF Continue, Sp
<1> QED
  BY <1>1, <1>2

LEMMA AllocateControl ==
  ASSUME TypeOK, NEW op, Fetched(op), NEW n \in Nat, n <= Sp, NEW k, NEW tag, NEW items,
         Allocate(n, k, tag, items)
  PROVE  status' = "failed" \/ Continue(Cur.ip + 1, n, 1)
<1> DEFINE ref == [k |-> k, v |-> Len(objs) + 1]
<1>1. CASE Sp - n >= StackCap
  BY <1>1, FailFails DEF Allocate
<1>2. CASE ~(Sp - n >= StackCap)
  <2>1. /\ stack' = Append(Under(n), ref)
        /\ frames' = At(Cur.ip + 1) /\ tries' = tries
    BY <1>2 DEF Allocate, Advance
  <2> HIDE DEF ref
  <2>2. Len(stack') = (Sp - n) + 1
    BY <2>1, Operands
  <2> QED
    BY <2>1, <2>2, AtControl, FetchedInstr DEF Continue, Sp
<1> QED
  BY <1>1, <1>2

LEMMA JumpControl ==
  ASSUME TypeOK, NEW op, Fetched(op), NEW n \in Nat, n <= Sp, NEW target, JumpTo(n, target)
  PROVE  status' = "failed" \/ Continue(target, n, 0)
<1>1. CASE target \in 1..Len(Code) + 1
  <2>1. frames' = At(target) /\ target \in Nat /\ stack' = Under(n) /\ tries' = tries
    BY <1>1, RunningFrame, FetchedInstr DEF JumpTo
  <2>2. Len(stack') = (Sp - n) + 0
    BY <2>1, Operands
  <2> QED
    BY <2>1, <2>2, AtControl, FetchedInstr DEF Continue, Sp
<1>2. CASE ~(target \in 1..Len(Code) + 1)
  BY <1>2, FailFails DEF JumpTo
<1> QED
  BY <1>1, <1>2

\* The instructions on values, locals and jumps do what Pops, Pushes and the
\* targets of After say, or stop the call.
LEMMA LocalControl ==
  ASSUME TypeOK, Local, Pops(prog, Ins) <= Sp
  PROVE  /\ status = "run" /\ Ins \in Instr
         /\ Ins.op \notin {"RETURN", "THROW", "TRY_ENTER", "TRY_EXIT"}
         /\ \/ status' = "failed"
            \/ \E i \in Targets : Continue(i, Pops(prog, Ins), Pushes(Ins))
<1> DEFINE Goal == \/ status' = "failed"
                   \/ \E i \in Targets : Continue(i, Pops(prog, Ins), Pushes(Ins))
<1>0. ASSUME NEW op, Fetched(op)
      PROVE  status = "run" /\ Ins \in Instr /\ Ins.op = op /\ Sp \in Nat /\ Ins.a \in Nat
  BY <1>0, FetchedInstr, RunningFrame DEF Fetched, Instr
<1>1. CASE PushConst \/ LoadLocal \/ GetUpvalue
  <2>1. PICK op \in {"PUSH_CONST", "LOAD_LOCAL", "GET_UPVALUE"} : Fetched(op)
    BY <1>1 DEF PushConst, LoadLocal, GetUpvalue
  <2>2. /\ Ins.op = op /\ Pops(prog, Ins) = 0 /\ Pushes(Ins) = 1
        /\ Targets = {Cur.ip + 1} /\ Sp \in Nat
    BY <1>0, <2>1 DEF Pops, Pushes, Targets
  <2>3. status' = "failed" \/ \E v : Replace(0, v)
    BY <1>1, FailFails DEF PushConst, LoadLocal, GetUpvalue
  <2>4. Goal
    BY <2>1, <2>2, <2>3, ReplaceControl
  <2> QED
    BY <1>0, <2>1, <2>4
<1>2. CASE Dup
  <2>1. /\ Fetched("DUP") /\ Ins.op = "DUP" /\ Pops(prog, Ins) = 1 /\ Pushes(Ins) = 2
        /\ Targets = {Cur.ip + 1} /\ Sp \in Nat
    BY <1>0, <1>2 DEF Dup, Pops, Pushes, Targets
  <2>2. status' = "failed" \/ Continue(Cur.ip + 1, 0, 1)
    BY <1>2, <2>1, FailFails, ReplaceControl DEF Dup
  <2>3. (Sp - 0) + 1 = (Sp - 1) + 2
    BY <2>1
  <2>4. Continue(Cur.ip + 1, 0, 1) => Continue(Cur.ip + 1, 1, 2)
    BY <2>3 DEF Continue
  <2>5. Goal
    BY <2>1, <2>2, <2>4
  <2> QED
    BY <1>0, <2>1, <2>5
<1>3. CASE Arith \/ Equal \/ Order \/ IndexInt
  <2>1. PICK op \in {"ARITH", "EQUAL", "ORDER", "INDEX_INT"} : Fetched(op)
    BY <1>3 DEF Arith, Equal, Order, IndexInt
  <2>2. /\ Ins.op = op /\ Pops(prog, Ins) = 2 /\ Pushes(Ins) = 1
        /\ Targets = {Cur.ip + 1} /\ Sp \in Nat
    BY <1>0, <2>1 DEF Pops, Pushes, Targets
  <2>3. status' = "failed" \/ \E v : Replace(2, v)
    BY <1>3, FailFails DEF Arith, Equal, Order, IndexInt
  <2>4. Goal
    BY <2>1, <2>2, <2>3, ReplaceControl
  <2> QED
    BY <1>0, <2>1, <2>4
<1>4. CASE Neg \/ Not \/ ExnIsPrim \/ GetField \/ GetFieldNamed \/ ArrayLen
  <2>1. PICK op \in {"NEG", "NOT", "EXN_IS_PRIM", "GET_FIELD", "GET_FIELD_NAMED", "ARRAY_LEN"} :
          Fetched(op)
    BY <1>4 DEF Neg, Not, ExnIsPrim, GetField, GetFieldNamed, ArrayLen
  <2>2. /\ Ins.op = op /\ Pops(prog, Ins) = 1 /\ Pushes(Ins) = 1
        /\ Targets = {Cur.ip + 1} /\ Sp \in Nat
    BY <1>0, <2>1 DEF Pops, Pushes, Targets
  <2>3. status' = "failed" \/ \E v : Replace(1, v)
    <3>1. CASE Neg \/ Not \/ ExnIsPrim \/ GetField \/ ArrayLen
      BY <3>1, FailFails DEF Neg, Not, ExnIsPrim, GetField, ArrayLen
    <3>2. CASE GetFieldNamed
      BY <3>2, FailFails, Zenon DEF GetFieldNamed
    <3> QED
      BY <1>4, <3>1, <3>2
  <2>4. Goal
    BY <2>1, <2>2, <2>3, ReplaceControl
  <2> QED
    BY <1>0, <2>1, <2>4
<1>5. CASE Pop
  <2>1. /\ Fetched("POP") /\ Ins.op = "POP" /\ Pops(prog, Ins) = 1 /\ Pushes(Ins) = 0
        /\ Targets = {Cur.ip + 1} /\ Sp \in Nat
    BY <1>0, <1>5 DEF Pop, Pops, Pushes, Targets
  <2>2. Goal
    BY <1>5, <2>1, FailFails, JumpControl DEF Pop
  <2> QED
    BY <1>0, <2>1, <2>2
<1>6. CASE Jump
  <2>1. /\ Fetched("JUMP") /\ Ins.op = "JUMP" /\ Pops(prog, Ins) = 0 /\ Pushes(Ins) = 0
        /\ Targets = {Ins.a} /\ Sp \in Nat
    BY <1>0, <1>6 DEF Jump, Pops, Pushes, Targets
  <2>2. Goal
    BY <1>6, <2>1, JumpControl DEF Jump
  <2> QED
    BY <1>0, <2>1, <2>2
<1>7. CASE PopJumpIf
  <2>1. /\ Fetched("POP_JUMP_IF") /\ Ins.op = "POP_JUMP_IF" /\ Pops(prog, Ins) = 1 /\ Pushes(Ins) = 0
        /\ Targets = {Ins.a, Cur.ip + 1} /\ Sp \in Nat
    BY <1>0, <1>7 DEF PopJumpIf, Pops, Pushes, Targets
  <2>2. Goal
    BY <1>7, <2>1, FailFails, JumpControl DEF PopJumpIf
  <2> QED
    BY <1>0, <2>1, <2>2
<1>8. CASE SeqNew
  <2>1. /\ Fetched("SEQ_NEW") /\ Ins.op = "SEQ_NEW" /\ Pops(prog, Ins) = Ins.a /\ Pushes(Ins) = 1
        /\ Targets = {Cur.ip + 1} /\ Ins.a \in Nat
    BY <1>0, <1>8 DEF SeqNew, Pops, Pushes, Targets
  <2>2. Goal
    BY <1>8, <2>1, FailFails, AllocateControl DEF SeqNew
  <2> QED
    BY <1>0, <2>1, <2>2
<1>9. CASE StructNew
  <2>1. /\ Fetched("STRUCT_NEW") /\ Ins.op = "STRUCT_NEW"
        /\ Pops(prog, Ins) = Len(prog.layouts[Ins.a]) /\ Pushes(Ins) = 1
        /\ Targets = {Cur.ip + 1}
    BY <1>0, <1>9 DEF StructNew, Pops, Pushes, Targets
  <2>2. Ins.a \in DOMAIN prog.layouts => Len(prog.layouts[Ins.a]) \in Nat
    <3>1. prog.layouts \in Seq(Seq(Nat))
      BY <1>0, <2>1, RunningFrame DEF Program
    <3> QED
      BY <3>1
  <2>3. Goal
    BY <1>9, <2>1, <2>2, FailFails, AllocateControl DEF StructNew
  <2> QED
    BY <1>0, <2>1, <2>3
<1>10. CASE Closure
  <2>1. /\ Fetched("CLOSURE") /\ Ins.op = "CLOSURE" /\ Pops(prog, Ins) = 0 /\ Pushes(Ins) = 1
        /\ Targets = {Cur.ip + 1} /\ Sp \in Nat
    BY <1>0, <1>10 DEF Closure, Pops, Pushes, Targets
  <2>2. Goal
    BY <1>10, <2>1, FailFails, AllocateControl DEF Closure
  <2> QED
    BY <1>0, <2>1, <2>2
<1>11. CASE StoreLocal
  <2>1. /\ Fetched("STORE_LOCAL") /\ Ins.op = "STORE_LOCAL" /\ Pops(prog, Ins) = 1 /\ Pushes(Ins) = 0
        /\ Targets = {Cur.ip + 1} /\ Sp \in Nat
    BY <1>0, <1>11 DEF StoreLocal, Pops, Pushes, Targets
  <2>2. Goal
    <3>1. CASE status' = "failed"
      BY <3>1
    <3>2. CASE status' # "failed"
      <4> DEFINE fs == At(Cur.ip + 1)
                 ls == [Cur.locals EXCEPT ![Ins.a] = Peek(1)]
      <4>1. frames' = [fs EXCEPT ![Depth].locals = ls] /\ stack' = Under(1) /\ tries' = tries
        BY <1>11, <3>2, FailFails DEF StoreLocal, Advance
      <4>2. /\ Len(fs) = Depth /\ Keeps(frames, fs, Depth, Cur.ip + 1)
            /\ \A j \in 1..Depth : fs[j] \in Frame(Len(objs))
        BY <1>0, <2>1, AtControl, FetchedInstr
      <4>3. fs \in Seq(Frame(Len(objs))) /\ Depth \in Nat
        BY <1>0, <2>1, AtType, FetchedInstr, RunningFrame
      <4> HIDE DEF fs, ls
      <4>4. Len(frames') = Depth
        BY <4>1, <4>2
      <4>5. /\ \A j \in 1..Depth : frames'[j].chunk = fs[j].chunk
            /\ \A j \in 1..Depth : frames'[j].ip = fs[j].ip
        <5>1. \A j \in 1..Depth : frames'[j].chunk = fs[j].chunk
          BY <4>1, <4>2, <4>3 DEF Frame
        <5>2. \A j \in 1..Depth : frames'[j].ip = fs[j].ip
          BY <4>1, <4>2, <4>3 DEF Frame
        <5> QED
          BY <5>1, <5>2
      <4>6. Keeps(frames, frames', Depth, Cur.ip + 1)
        <5>1. Depth \in 1..Depth
          BY <1>0, <2>1, RunningFrame
        <5> QED
          BY <4>2, <4>4, <4>5, <5>1 DEF Keeps
      <4>7. Len(stack') = (Sp - 1) + 0
        BY <2>1, <4>1, Operands
      <4> QED
        BY <2>1, <4>1, <4>4, <4>6, <4>7 DEF Continue, Sp
    <3> QED
      BY <3>1, <3>2
  <2> QED
    BY <1>0, <2>1, <2>2
<1>12. CASE SetUpvalue
  <2>1. /\ Fetched("SET_UPVALUE") /\ Ins.op = "SET_UPVALUE" /\ Pops(prog, Ins) = 1 /\ Pushes(Ins) = 0
        /\ Targets = {Cur.ip + 1} /\ Sp \in Nat
    BY <1>0, <1>12 DEF SetUpvalue, Pops, Pushes, Targets
  <2>2. Goal
    <3>1. CASE status' = "failed"
      BY <3>1
    <3>2. CASE status' # "failed"
      <4>1. frames' = At(Cur.ip + 1) /\ stack' = Under(1) /\ tries' = tries
        BY <1>12, <3>2, FailFails DEF SetUpvalue, Advance
      <4>2. Len(Under(1)) = Sp - 1
        <5>1. 1 <= Sp
          BY <2>1
        <5> QED
          BY <5>1, Operands
      <4>3. Len(stack') = (Sp - 1) + 0
        BY <2>1, <4>1, <4>2
      <4> QED
        BY <2>1, <4>1, <4>3, AtControl, FetchedInstr DEF Continue, Sp
    <3> QED
      BY <3>1, <3>2
  <2> QED
    BY <1>0, <2>1, <2>2
<1>13. CASE Swap
  <2>1. /\ Fetched("SWAP") /\ Ins.op = "SWAP" /\ Pops(prog, Ins) = 2 /\ Pushes(Ins) = 2
        /\ Targets = {Cur.ip + 1} /\ Sp \in Nat
    BY <1>0, <1>13 DEF Swap, Pops, Pushes, Targets
  <2>2. Goal
    <3>1. CASE status' = "failed"
      BY <3>1
    <3>2. CASE status' # "failed"
      <4>1. /\ frames' = At(Cur.ip + 1) /\ tries' = tries
            /\ stack' = Append(Append(Under(2), Peek(1)), Peek(2))
        BY <1>13, <3>2, FailFails DEF Swap, Advance
      <4>2. Under(2) \in Seq(Value(Len(objs))) /\ Len(Under(2)) = Sp - 2
            /\ Peek(1) \in Value(Len(objs)) /\ Peek(2) \in Value(Len(objs))
        BY <2>1, Operands
      <4>3. Len(stack') = (Sp - 2) + 2
        BY <2>1, <4>1, <4>2
      <4> QED
        BY <2>1, <4>1, <4>3, AtControl, FetchedInstr DEF Continue, Sp
    <3> QED
      BY <3>1, <3>2
  <2> QED
    BY <1>0, <2>1, <2>2
<1> QED
  BY <1>1, <1>2, <1>3, <1>4, <1>5, <1>6, <1>7, <1>8, <1>9, <1>10, <1>11, <1>12, <1>13 DEF Local

LEMMA EnterControl ==
  ASSUME TypeOK, NEW op, Fetched(op), NEW c, NEW clo, NEW n \in Nat, n <= Sp, Enter(c, clo, n)
  PROVE  \/ status' = "failed"
         \/ /\ Len(frames') = Depth + 1 /\ Keeps(frames, frames', Depth, Cur.ip + 1)
            /\ frames'[Depth + 1].chunk \in DOMAIN prog.chunks /\ frames'[Depth + 1].ip = 1
            /\ Sp' = Sp - n /\ tries' = tries
<1> DEFINE r == [chunk |-> c, ip |-> 1, clo |-> clo, act |-> acts + 1,
                 locals |-> [i \in 1..prog.chunks[c].nlocals |->
                                IF i <= Ins.b THEN stack[Sp - Ins.b + i] ELSE Zero]]
           fs == At(Cur.ip + 1)
<1>1. SUFFICES ASSUME status' # "failed"
               PROVE  /\ Len(frames') = Depth + 1 /\ Keeps(frames, frames', Depth, Cur.ip + 1)
                      /\ frames'[Depth + 1].chunk \in DOMAIN prog.chunks
                      /\ frames'[Depth + 1].ip = 1
                      /\ Sp' = Sp - n /\ tries' = tries
  OBVIOUS
<1>2. /\ c \in DOMAIN prog.chunks
      /\ frames' = Append(fs, r) /\ stack' = Under(n) /\ tries' = tries
  BY <1>1, FailFails DEF Enter, Advance
<1>3. r.chunk = c /\ r.ip = 1
  OBVIOUS
<1>4. /\ Len(fs) = Depth /\ fs \in Seq(Frame(Len(objs))) /\ Depth \in 1..Depth
      /\ Keeps(frames, fs, Depth, Cur.ip + 1)
  BY AtControl, AtType, FetchedInstr, RunningFrame
<1> HIDE DEF r, fs
<1>5. /\ Len(frames') = Depth + 1 /\ frames'[Depth + 1] = r
      /\ \A j \in 1..Depth : frames'[j] = fs[j]
  BY <1>2, <1>4
<1>6. Keeps(frames, frames', Depth, Cur.ip + 1)
  BY <1>4, <1>5 DEF Keeps
<1>7. Sp' = Sp - n
  BY <1>2, Operands DEF Sp
<1> QED
  BY <1>2, <1>3, <1>5, <1>6, <1>7

LEMMA LeaveControl ==
  ASSUME TypeOK, NEW op, Fetched(op), 1 <= Sp, NEW v, Leave(1, v)
  PROVE  \/ status' # "run"
         \/ /\ Depth > 1 /\ Len(frames') = Depth - 1
            /\ Keeps(frames, frames', Depth - 1, frames[Depth - 1].ip)
            /\ Sp' = Sp /\ DropHandlers
<1>1. SUFFICES ASSUME status' = "run"
               PROVE  /\ Depth > 1 /\ Len(frames') = Depth - 1
                      /\ Keeps(frames, frames', Depth - 1, frames[Depth - 1].ip)
                      /\ Sp' = Sp /\ DropHandlers
  OBVIOUS
<1>2. Depth \in 1..MaxDepth /\ MaxDepth \in Nat /\ Sp \in Nat
  BY RunningFrame, FetchedInstr, CapsAssumption
<1>3. /\ Depth # 1 /\ frames' = SubSeq(frames, 1, Depth - 1)
      /\ stack' = Append(Under(1), v) /\ DropHandlers
  BY <1>1 DEF Leave, Stop, Fail
<1>4. Depth - 1 \in 1..Depth /\ Depth - 1 \in 0..Depth
  BY <1>2, <1>3
<1>5. Len(frames') = Depth - 1 /\ \A j \in 1..Depth - 1 : frames'[j] = frames[j]
  BY <1>3, <1>4, FramesPrefix
<1>6. Keeps(frames, frames', Depth - 1, frames[Depth - 1].ip)
  <2>1. Depth - 1 \in 1..Depth - 1 /\ Depth - 1 \in Nat
    BY <1>4
  <2> QED
    BY <1>5, <2>1 DEF Keeps
<1>7. Under(1) \in Seq(Value(Len(objs))) /\ Len(Under(1)) = Sp - 1
  BY Operands
<1>8. Sp' = Sp
  <2>1. Len(stack') = (Sp - 1) + 1
    BY <1>3, <1>7
  <2> QED
    BY <1>2, <2>1 DEF Sp
<1> QED
  BY <1>2, <1>3, <1>5, <1>6, <1>8

LEMMA TryControl ==
  ASSUME TypeOK, TryEnter \/ TryExit
  PROVE  \/ status' = "failed"
         \/ /\ Len(frames') = Depth /\ Keeps(frames, frames', Depth, Cur.ip + 1) /\ Sp' = Sp
            /\ TryEnter => tries' = Append(tries, [depth |-> Depth, ip |-> Ins.a,
                                                   sp |-> Sp, act |-> Cur.act])
            /\ TryExit => tries' = SubSeq(tries, 1, Len(tries) - 1)
<1>1. PICK op \in {"TRY_ENTER", "TRY_EXIT"} : Fetched(op)
  BY DEF TryEnter, TryExit
<1>2. TryEnter <=> ~TryExit
  BY DEF TryEnter, TryExit, Fetched
<1>3. SUFFICES ASSUME status' # "failed"
               PROVE  /\ Len(frames') = Depth /\ Keeps(frames, frames', Depth, Cur.ip + 1)
                      /\ Sp' = Sp
                      /\ TryEnter => tries' = Append(tries, [depth |-> Depth, ip |-> Ins.a,
                                                             sp |-> Sp, act |-> Cur.act])
                      /\ TryExit => tries' = SubSeq(tries, 1, Len(tries) - 1)
  OBVIOUS
<1>4. frames' = At(Cur.ip + 1) /\ stack' = stack
  BY <1>3, FailFails DEF TryEnter, TryExit, Advance
<1>5. /\ TryEnter => tries' = Append(tries, [depth |-> Depth, ip |-> Ins.a,
                                             sp |-> Sp, act |-> Cur.act])
      /\ TryExit => tries' = SubSeq(tries, 1, Len(tries) - 1)
  BY <1>3, FailFails DEF TryEnter, TryExit
<1>6. Len(frames') = Depth /\ Keeps(frames, frames', Depth, Cur.ip + 1)
  BY <1>1, <1>4, AtControl, FetchedInstr
<1> QED
  BY <1>4, <1>5, <1>6 DEF Sp

\* No step changes the program.
LEMMA ProgStays ==
  ASSUME [Next]_vars
  PROVE  prog' = prog
<1>1. \A n, v : Replace(n, v) => prog' = prog
  BY DEF Replace, Fail, Stop
<1>2. \A n, k, tag, items : Allocate(n, k, tag, items) => prog' = prog
  BY DEF Allocate, Fail, Stop
<1>3. \A n, target : JumpTo(n, target) => prog' = prog
  BY DEF JumpTo, Fail, Stop
<1>4. \A e : Fail(e) => prog' = prog
  BY DEF Fail, Stop
<1>5. \A n, v : Leave(n, v) => prog' = prog
  BY DEF Leave, Fail, Stop
<1>6. \A c, clo, n : Enter(c, clo, n) => prog' = prog
  BY DEF Enter, Fail, Stop
<1>7. \A h, ex : Unwind(h, ex) => prog' = prog
  BY DEF Unwind, Fail, Stop
<1>8. CASE PushConst \/ LoadLocal \/ GetUpvalue \/ StoreLocal \/ SetUpvalue
  BY <1>1, <1>4, <1>8, Zenon DEF PushConst, LoadLocal, GetUpvalue, StoreLocal, SetUpvalue
<1>9. CASE Dup \/ Swap \/ Arith \/ Neg \/ Equal \/ Order \/ Not \/ ExnIsPrim
  BY <1>1, <1>4, <1>9, Zenon DEF Dup, Swap, Arith, Neg, Equal, Order, Not, ExnIsPrim
<1>10. CASE GetField \/ GetFieldNamed \/ ArrayLen \/ IndexInt
  BY <1>1, <1>4, <1>10, Zenon DEF GetField, GetFieldNamed, ArrayLen, IndexInt
<1>11. CASE Pop \/ Jump \/ PopJumpIf
  BY <1>3, <1>4, <1>11, Zenon DEF Pop, Jump, PopJumpIf
<1>12. CASE SeqNew \/ StructNew \/ Closure
  BY <1>2, <1>4, <1>12, Zenon DEF SeqNew, StructNew, Closure
<1>13. CASE Call \/ CallClosure
  BY <1>4, <1>6, <1>13, Zenon DEF Call, CallClosure
<1>14. CASE Return \/ Throw
  BY <1>4, <1>5, <1>7, <1>14, Zenon DEF Return, Throw
<1>15. CASE TryEnter \/ TryExit
  BY <1>4, <1>15, Zenon DEF TryEnter, TryExit
<1>16. CASE FellOffTheEnd \/ Stopped \/ UNCHANGED vars
  BY <1>4, <1>16, Zenon DEF FellOffTheEnd, Stopped, vars
<1> QED
  BY <1>8, <1>9, <1>10, <1>11, <1>12, <1>13, <1>14, <1>15, <1>16 DEF Next, Execute

-----------------------------------------------------------------------------
(* Where the running frame is *)

\* The running frame is at a sound point of its chunk, with its operands there.
LEMMA AtPoint ==
  ASSUME IInv, Verified(prog, points), status = "run", NEW x, NEW b, NEW f,
         Laid(points, frames, Sp, tries, x, b, f)
  PROVE  /\ Depth \in 1..Depth /\ Depth \in Nat \ {0}
         /\ points[Cur.chunk] \subseteq PointType /\ FirstPoint \in points[Cur.chunk]
         /\ x[Depth] \in points[Cur.chunk] /\ x[Depth] \in PointType
         /\ x[Depth].at = Cur.ip /\ Cur.ip \in DOMAIN Code
         /\ Sound(prog, prog.chunks[Cur.chunk], x[Depth])
         /\ After(prog, Code, x[Depth]) \subseteq points[Cur.chunk]
         /\ \A y \in points[Cur.chunk] : x[Depth].at = y.at => x[Depth] = y
         /\ Ins \in Instr /\ Ins = Code[x[Depth].at]
         /\ b[Depth] \in Nat /\ f[Depth] \in Nat
         /\ Sp = b[Depth] + x[Depth].height
         /\ Len(tries) = f[Depth] + Len(x[Depth].open)
         /\ Pops(prog, Ins) \in Nat /\ Pops(prog, Ins) <= x[Depth].height /\ Pops(prog, Ins) <= Sp
<1>1. TypeOK
  BY DEF IInv
<1>2. /\ Depth \in 1..Depth /\ Depth \in Nat \ {0} /\ Cur \in Frame(Len(objs))
      /\ Cur.chunk \in DOMAIN prog.chunks /\ Code \in Seq(Instr) /\ prog \in Program
  BY <1>1, RunningFrame
<1>3. /\ x \in [1..Depth -> PointType] /\ b[Depth] \in Nat /\ f[Depth] \in Nat
      /\ x[Depth] \in points[Cur.chunk] /\ x[Depth].at = Cur.ip
      /\ Sp = b[Depth] + x[Depth].height
      /\ Len(tries) = f[Depth] + Len(x[Depth].open)
  BY <1>2 DEF Laid, LaidFrames, Depth, Cur
<1>4. /\ points[Cur.chunk] \subseteq PointType /\ FirstPoint \in points[Cur.chunk]
      /\ Sound(prog, prog.chunks[Cur.chunk], x[Depth])
      /\ After(prog, Code, x[Depth]) \subseteq points[Cur.chunk]
      /\ \A y \in points[Cur.chunk] : x[Depth].at = y.at => x[Depth] = y
  BY <1>2, <1>3 DEF Verified, Code
<1>5. Cur.ip \in DOMAIN Code /\ Ins \in Instr /\ Ins = Code[x[Depth].at]
  <2>1. Cur.ip \in DOMAIN Code
    BY <1>3, <1>4 DEF Sound, Code
  <2>2. Code[Cur.ip] \in Instr
    BY <1>2, <2>1, ElementOfSeq
  <2> QED
    BY <1>3, <2>1, <2>2 DEF Ins
<1>6. /\ Ins.op = "STRUCT_NEW" => Ins.a \in DOMAIN prog.layouts
      /\ x[Depth].height >= Pops(prog, Ins)
  BY <1>3, <1>4 DEF Sound, Code, Ins
<1>7. Pops(prog, Ins) \in Nat
  <2>1. Ins.a \in Nat /\ Ins.b \in Nat
    BY <1>5 DEF Instr
  <2>2. Ins.op = "STRUCT_NEW" => Len(prog.layouts[Ins.a]) \in Nat
    <3>1. prog.layouts \in Seq(Seq(Nat))
      BY <1>2 DEF Program
    <3> QED
      BY <1>6, <3>1
  <2> QED
    BY <2>1, <2>2 DEF Pops
<1>8. x[Depth].height \in Nat
  BY <1>2, <1>3 DEF PointType
<1>9. Pops(prog, Ins) <= x[Depth].height /\ Pops(prog, Ins) <= Sp
  BY <1>3, <1>6, <1>7, <1>8
<1> QED
  BY <1>2, <1>3, <1>4, <1>5, <1>7, <1>9

\* The frame that called goes on with the result, its handlers are the last ones.
LEMMA Returned ==
  ASSUME IInv, Verified(prog, points), status = "run", NEW x, NEW b, NEW f,
         Laid(points, frames, Sp, tries, x, b, f), Depth > 1,
         x[Depth].height = 1, Len(x[Depth].open) = 0,
         Len(frames') = Depth - 1, Keeps(frames, frames', Depth - 1, frames[Depth - 1].ip),
         Sp' = Sp, DropHandlers
  PROVE  \E x2, b2, f2 : Laid(points, frames', Sp', tries', x2, b2, f2)
<1> DEFINE n == Depth - 1
           k == Len(x[n].open)
<1>1. TypeOK /\ tries \in Seq(Handler) /\ Len(tries) \in Nat
  BY DEF IInv, TypeOK
<1>2. /\ Depth \in Nat \ {0} /\ b[Depth] \in Nat /\ f[Depth] \in Nat
      /\ Sp = b[Depth] + x[Depth].height /\ Len(tries) = f[Depth] + Len(x[Depth].open)
  BY AtPoint
<1>3. n \in 1..Depth /\ n # Depth /\ n + 1 = Depth
  BY <1>2
<1>4. /\ x[n] \in PointType /\ b[n] \in Nat /\ f[n] \in Nat
      /\ x[n] \in points[frames[n].chunk] /\ x[n].at = frames[n].ip
      /\ b[n + 1] = b[n] + x[n].height - 1 /\ f[n + 1] = f[n] + k
  BY <1>3 DEF Laid, LaidFrames, Depth
<1>5. x[n].open \in Seq(Nat) /\ k \in 0..k /\ x[n].height \in Nat
      /\ x[n].open = SubSeq(x[n].open, 1, k)
  <2>1. x[n].open \in Seq(Nat) /\ k \in Nat /\ x[n].height \in Nat
    BY <1>4, PointParts
  <2> QED
    BY <2>1
<1>6. Len(tries) = f[n] + k
  BY <1>2, <1>3, <1>4
<1>7. \A t \in 1..Len(tries) : tries[t].depth \in Nat /\ tries[t].depth < Depth
  <2> TAKE t \in 1..Len(tries)
  <2>1. LaidHandler(points, frames, tries[t], t, x, b, f)
    BY DEF Laid
  <2>2. tries[t].depth \in 1..Depth /\ f[tries[t].depth] < t
    BY <2>1 DEF LaidHandler, Depth
  <2>3. tries[t].depth # Depth
    BY <1>1, <1>2, <2>2
  <2> QED
    BY <1>2, <2>2, <2>3
<1>8. tries' = tries
  <2>1. PICK c \in 0..Len(tries) : /\ \A i \in c + 1 .. Len(tries) : tries[i].depth >= Depth
                                   /\ tries' = SubSeq(tries, 1, c)
    BY DEF DropHandlers
  <2>2. c = Len(tries)
    <3> SUFFICES ASSUME c # Len(tries) PROVE FALSE
      OBVIOUS
    <3>1. Len(tries) \in c + 1 .. Len(tries) /\ Len(tries) \in 1..Len(tries)
      BY <1>1
    <3>2. tries[Len(tries)].depth >= Depth /\ tries[Len(tries)].depth < Depth
      BY <1>7, <2>1, <3>1
    <3>3. tries[Len(tries)].depth \in Nat
      BY <1>7, <3>1
    <3> QED
      BY <1>2, <3>2, <3>3
  <2> QED
    BY <1>1, <2>1, <2>2
<1>9. SubSeq(tries, 1, f[n] + k) = tries
  BY <1>1, <1>6
<1>10. b[n] + x[n].height = Sp'
  <2> DEFINE u == b[n]
             w == x[n].height
             v == b[Depth]
  <2>1. u \in Nat /\ w \in Nat /\ v = u + w - 1 /\ Sp' = v + 1
    BY <1>2, <1>3, <1>4, <1>5
  <2> HIDE DEF u, v, w, n
  <2>2. u + w = Sp'
    BY <2>1
  <2> QED
    BY <2>2 DEF u, w
<1>11. \E x2, b2, f2 : Laid(points, frames', b[n] + x[n].height, SubSeq(tries, 1, f[n] + k),
                            x2, b2, f2)
  <2>1. Cuts(points, frames, x, frames', n, x[n], k)
    BY <1>2, <1>3, <1>4, <1>5 DEF Cuts, Depth
  <2>2. Len(frames) \in Nat /\ tries \in Seq(Handler)
    BY <1>1, <1>2 DEF Depth
  <2> HIDE DEF n, k
  <2> QED
    BY <2>1, <2>2, LaidCut, Zenon
<1> QED
  BY <1>8, <1>9, <1>10, <1>11

-----------------------------------------------------------------------------
(* One step *)

\* The next state, if the call goes on, is laid out.
Goes == status' = "run" => \E x, b, f : Laid(points, frames', Sp', tries', x, b, f)

LEMMA LocalGoes ==
  ASSUME IInv, Verified(prog, points), status = "run", NEW x, NEW b, NEW f,
         Laid(points, frames, Sp, tries, x, b, f), Local
  PROVE  Goes
<1> DEFINE X == x[Depth]
           pops == Pops(prog, Ins)
           pushes == Pushes(Ins)
           k == Len(X.open)
<1>1. /\ Depth \in 1..Depth /\ Depth \in Nat \ {0}
      /\ X \in PointType /\ X.at = Cur.ip
      /\ points[Cur.chunk] \subseteq PointType
      /\ After(prog, Code, X) \subseteq points[Cur.chunk]
      /\ Ins = Code[X.at] /\ b[Depth] \in Nat /\ f[Depth] \in Nat
      /\ Sp = b[Depth] + X.height /\ Len(tries) = f[Depth] + k
      /\ pops \in Nat /\ pops <= X.height /\ pops <= Sp
  BY AtPoint
<1>2. TypeOK /\ tries \in Seq(Handler) /\ Len(tries) \in Nat
  BY DEF IInv, TypeOK
<1>3. X.height \in Nat /\ X.open \in Seq(Nat) /\ k \in Nat
  BY <1>1, PointParts
<1>4. pushes \in Nat
  BY DEF Pushes
<1>5. /\ Ins.op \notin {"RETURN", "THROW", "TRY_ENTER", "TRY_EXIT"}
      /\ status' = "failed" \/ \E i \in Targets : Continue(i, pops, pushes)
  BY <1>1, <1>2, LocalControl
<1>6. SUFFICES ASSUME NEW i \in Targets, Continue(i, pops, pushes)
               PROVE  \E x2, b2, f2 : Laid(points, frames', Sp', tries', x2, b2, f2)
  BY <1>5 DEF Goes
<1> DEFINE y == Point(i, X.height - pops + pushes, X.open)
<1>7. y \in After(prog, Code, X)
  <2>1. CASE Ins.op = "JUMP"
    BY <1>1, <2>1, <1>6 DEF After, Targets
  <2>2. CASE Ins.op = "POP_JUMP_IF"
    BY <1>1, <2>2, <1>6 DEF After, Targets
  <2>3. CASE Ins.op \notin {"JUMP", "POP_JUMP_IF"}
    BY <1>1, <1>5, <2>3, <1>6 DEF After, Targets
  <2> QED
    BY <2>1, <2>2, <2>3
<1>8. y \in points[Cur.chunk] /\ y \in PointType
  BY <1>1, <1>7
<1>9. y.at = i /\ y.height = X.height - pops + pushes /\ y.open = X.open
  BY DEF Point
<1> HIDE DEF y
<1>10. Cuts(points, frames, x, frames', Depth, y, k)
  <2>1. X.open = SubSeq(X.open, 1, k) /\ k \in 0..k
    BY <1>3
  <2> HIDE DEF k
  <2>2. k = Len(X.open)
    BY DEF k
  <2> QED
    BY <1>1, <1>6, <1>8, <1>9, <2>1, <2>2 DEF Cuts, Continue, Depth, Cur
<1>11. SubSeq(tries, 1, f[Depth] + k) = tries
  BY <1>1, <1>2
<1>12. Sp' = b[Depth] + y.height
  <2>1. Sp' = (Sp - pops) + pushes
    BY <1>6 DEF Continue
  <2> DEFINE u == b[Depth]
             w == X.height
             v == y.height
  <2>2. /\ u \in Nat /\ w \in Nat /\ pops \in Nat /\ pushes \in Nat
        /\ Sp = u + w /\ v = w - pops + pushes
    BY <1>1, <1>3, <1>4, <1>9
  <2> HIDE DEF pops, pushes, X, u, v, w
  <2>3. Sp' = u + v
    BY <2>1, <2>2
  <2> QED
    BY <2>3 DEF u, v
<1>13. tries' = tries
  BY <1>6 DEF Continue
<1>14. \E x2, b2, f2 : Laid(points, frames', b[Depth] + y.height,
                            SubSeq(tries, 1, f[Depth] + k), x2, b2, f2)
  <2>1. Len(frames) \in Nat
    BY <1>1 DEF Depth
  <2> HIDE DEF k
  <2> QED
    BY <1>2, <1>10, <2>1, LaidCut, Zenon
<1> QED
  BY <1>11, <1>12, <1>13, <1>14

LEMMA CallGoes ==
  ASSUME IInv, Verified(prog, points), status = "run", NEW x, NEW b, NEW f,
         Laid(points, frames, Sp, tries, x, b, f), Call \/ CallClosure
  PROVE  Goes
<1> DEFINE X == x[Depth]
           n == Pops(prog, Ins)
<1>1. /\ Depth \in 1..Depth /\ Depth \in Nat \ {0}
      /\ X \in PointType /\ X.at = Cur.ip
      /\ points[Cur.chunk] \subseteq PointType
      /\ Sound(prog, prog.chunks[Cur.chunk], X)
      /\ After(prog, Code, X) \subseteq points[Cur.chunk]
      /\ Ins \in Instr /\ Ins = Code[X.at] /\ b[Depth] \in Nat /\ f[Depth] \in Nat
      /\ Sp = b[Depth] + X.height
      /\ n \in Nat /\ n <= X.height /\ n <= Sp
  BY AtPoint
<1>2. TypeOK /\ tries \in Seq(Handler) /\ Len(tries) \in Nat
  BY DEF IInv, TypeOK
<1>3. X.height \in Nat /\ X.open \in Seq(Nat)
  BY <1>1, PointParts
<1>4. PICK op \in {"CALL", "CALL_CLOSURE"} : Fetched(op)
  BY DEF Call, CallClosure
<1>5. Ins.op = op /\ Pushes(Ins) = 1
  BY <1>4 DEF Fetched, Pushes
<1>6. status' = "failed" \/ \E c, clo : Enter(c, clo, n)
  <2>1. CASE Call
    BY <2>1, FailFails DEF Call, Fetched, Pops
  <2>2. CASE CallClosure
    BY <2>2, FailFails DEF CallClosure, Fetched, Pops
  <2> QED
    BY <2>1, <2>2
<1>7. SUFFICES ASSUME status' = "run"
               PROVE  \E x2, b2, f2 : Laid(points, frames', Sp', tries', x2, b2, f2)
  BY DEF Goes
<1>8. /\ Len(frames') = Depth + 1 /\ Keeps(frames, frames', Depth, Cur.ip + 1)
      /\ frames'[Depth + 1].chunk \in DOMAIN prog.chunks /\ frames'[Depth + 1].ip = 1
      /\ Sp' = Sp - n /\ tries' = tries
  BY <1>1, <1>2, <1>4, <1>6, <1>7, EnterControl
<1> DEFINE y == Point(Cur.ip + 1, X.height - n + 1, X.open)
<1>9. y \in After(prog, Code, X)
  BY <1>1, <1>4, <1>5 DEF After
<1>10. y \in points[Cur.chunk] /\ y \in PointType
  BY <1>1, <1>9
<1>11. y.at = Cur.ip + 1 /\ y.height = X.height - n + 1 /\ y.open = X.open
  BY DEF Point
<1> HIDE DEF y
<1>12. Waits(y)
  <2>1. \A i \in DOMAIN X.open : X.open[i] <= X.height - n
    BY <1>1 DEF Sound, Code
  <2>2. X.height - n = y.height - 1 /\ y.height >= 1
    <3> HIDE DEF n, X
    <3> QED
      BY <1>1, <1>3, <1>11
  <2> QED
    BY <1>11, <2>1, <2>2 DEF Waits
<1>13. FirstPoint \in points[frames'[Depth + 1].chunk]
  BY <1>8 DEF Verified
<1>14. Sp' = b[Depth] + y.height - 1
  <2> HIDE DEF n, X
  <2> QED
    BY <1>1, <1>3, <1>8, <1>11
<1>15. EntersChunk(points, frames, x, b, frames', y, Sp')
  BY <1>1, <1>8, <1>10, <1>11, <1>12, <1>13, <1>14 DEF EntersChunk, Depth, Cur
<1>16. \E x2, b2, f2 : Laid(points, frames', Sp', tries, x2, b2, f2)
  <2>1. Len(frames) \in Nat \ {0}
    BY <1>1 DEF Depth
  <2> QED
    BY <1>2, <1>15, <2>1, LaidEnter, Zenon
<1> QED
  BY <1>8, <1>16

LEMMA TryGoes ==
  ASSUME IInv, Verified(prog, points), status = "run", NEW x, NEW b, NEW f,
         Laid(points, frames, Sp, tries, x, b, f), TryEnter \/ TryExit
  PROVE  Goes
<1> DEFINE X == x[Depth]
           k == Len(X.open)
<1>1. /\ Depth \in 1..Depth /\ Depth \in Nat \ {0}
      /\ X \in PointType /\ X.at = Cur.ip
      /\ points[Cur.chunk] \subseteq PointType
      /\ Sound(prog, prog.chunks[Cur.chunk], X)
      /\ After(prog, Code, X) \subseteq points[Cur.chunk]
      /\ Ins \in Instr /\ Ins = Code[X.at] /\ b[Depth] \in Nat /\ f[Depth] \in Nat
      /\ Sp = b[Depth] + X.height /\ Len(tries) = f[Depth] + k
  BY AtPoint
<1>2. TypeOK /\ tries \in Seq(Handler) /\ Len(tries) \in Nat
  BY DEF IInv, TypeOK
<1>3. X.height \in Nat /\ X.open \in Seq(Nat) /\ k \in Nat
  BY <1>1, PointParts
<1>4. SUFFICES ASSUME status' = "run"
               PROVE  \E x2, b2, f2 : Laid(points, frames', Sp', tries', x2, b2, f2)
  BY DEF Goes
<1>5. /\ Len(frames') = Depth /\ Keeps(frames, frames', Depth, Cur.ip + 1) /\ Sp' = Sp
      /\ TryEnter => tries' = Append(tries, [depth |-> Depth, ip |-> Ins.a,
                                             sp |-> Sp, act |-> Cur.act])
      /\ TryExit => tries' = SubSeq(tries, 1, Len(tries) - 1)
  BY <1>2, <1>4, TryControl
<1>6. X.height - 0 + 0 = X.height
  BY <1>3
<1>7. Len(frames) \in Nat \ {0}
  BY <1>1 DEF Depth
<1>8. CASE TryEnter
  <2> DEFINE y == Point(Cur.ip + 1, X.height, Append(X.open, X.height))
             h == [depth |-> Depth, ip |-> Ins.a, sp |-> Sp, act |-> Cur.act]
             c == Point(Ins.a, X.height + 1, X.open)
  <2>1. Ins.op = "TRY_ENTER" /\ Pops(prog, Ins) = 0 /\ Pushes(Ins) = 0
    BY <1>8 DEF TryEnter, Fetched, Pops, Pushes
  <2>2. After(prog, Code, X) = {c, y}
    <3>1. X.height - Pops(prog, Ins) + Pushes(Ins) = X.height
      BY <1>6, <2>1
    <3> QED
      BY <1>1, <2>1, <3>1 DEF After
  <2>3. y \in points[Cur.chunk] /\ y \in PointType /\ c \in points[Cur.chunk]
    BY <1>1, <2>2
  <2>4. y.at = Cur.ip + 1 /\ y.height = X.height /\ y.open = Append(X.open, X.height)
    BY DEF Point
  <2>5. h \in Handler /\ h.depth = Depth /\ h.sp = Sp /\ h.ip = Ins.a
    <3>1. Cur \in Frame(Len(objs)) /\ Sp \in Nat /\ Ins.a \in Nat
      BY <1>1, <1>2, RunningFrame DEF Instr
    <3>2. Cur.act \in Nat
      BY <3>1 DEF Frame
    <3> QED
      BY <1>1, <3>1, <3>2 DEF Handler
  <2>6. Point(h.ip, y.height + 1, X.open) = c
    BY <2>4, <2>5
  <2>7. tries' = Append(tries, h)
    BY <1>5, <1>8
  <2> HIDE DEF y, h, c
  <2>8. OpensRegion(points, frames, Sp, x, frames', y, h)
    BY <1>1, <1>5, <2>3, <2>4, <2>5, <2>6 DEF OpensRegion, Depth, Cur
  <2>9. \E x2, b2, f2 : Laid(points, frames', Sp, Append(tries, h), x2, b2, f2)
    BY <1>2, <1>7, <2>8, LaidOpen, Zenon
  <2> QED
    BY <1>5, <2>7, <2>9
<1>9. CASE TryExit
  <2> DEFINE y == Point(Cur.ip + 1, X.height, SubSeq(X.open, 1, k - 1))
             j == k - 1
  <2>1. Ins.op = "TRY_EXIT" /\ Pops(prog, Ins) = 0 /\ Pushes(Ins) = 0
    BY <1>9 DEF TryExit, Fetched, Pops, Pushes
  <2>2. After(prog, Code, X) = {y}
    <3>1. X.height - Pops(prog, Ins) + Pushes(Ins) = X.height
      BY <1>6, <2>1
    <3> QED
      BY <1>1, <2>1, <3>1 DEF After
  <2>3. y \in points[Cur.chunk] /\ y \in PointType
    BY <1>1, <2>2
  <2>4. y.at = Cur.ip + 1 /\ y.height = X.height /\ y.open = SubSeq(X.open, 1, j)
    BY DEF Point
  <2>5. k > 0
    BY <1>1, <2>1 DEF Sound, Code, Ins
  <2>6. j \in 0..k /\ f[Depth] + j = Len(tries) - 1
    <3> HIDE DEF k
    <3> QED
      BY <1>1, <1>3, <2>5
  <2> HIDE DEF y, j
  <2>7. Cuts(points, frames, x, frames', Depth, y, j)
    BY <1>1, <1>5, <2>3, <2>4, <2>6 DEF Cuts, Depth, Cur
  <2>8. \E x2, b2, f2 : Laid(points, frames', b[Depth] + y.height,
                             SubSeq(tries, 1, f[Depth] + j), x2, b2, f2)
    BY <1>2, <1>7, <2>7, LaidCut, Zenon
  <2>9. tries' = SubSeq(tries, 1, f[Depth] + j) /\ Sp' = b[Depth] + y.height
    BY <1>1, <1>5, <1>9, <2>4, <2>6
  <2> QED
    BY <2>8, <2>9
<1> QED
  BY <1>8, <1>9

LEMMA ReturnGoes ==
  ASSUME IInv, Verified(prog, points), status = "run", NEW x, NEW b, NEW f,
         Laid(points, frames, Sp, tries, x, b, f), NEW op, Fetched(op), NEW v, Leave(1, v),
         1 <= Sp, Depth > 1 => x[Depth].height = 1 /\ Len(x[Depth].open) = 0
  PROVE  Goes
<1>1. SUFFICES ASSUME status' = "run"
               PROVE  \E x2, b2, f2 : Laid(points, frames', Sp', tries', x2, b2, f2)
  BY DEF Goes
<1>2. /\ Depth > 1 /\ Len(frames') = Depth - 1
      /\ Keeps(frames, frames', Depth - 1, frames[Depth - 1].ip)
      /\ Sp' = Sp /\ DropHandlers
  BY <1>1, LeaveControl DEF IInv
<1> QED
  BY <1>2, Returned, Zenon

\* The point of the frame that handles the exception thrown.
LEMMA UnwindGoes ==
  ASSUME IInv, Verified(prog, points), status = "run", NEW x, NEW b, NEW f,
         Laid(points, frames, Sp, tries, x, b, f), Fetched("THROW"), tries # <<>>,
         NEW ex, Unwind(tries[Len(tries)], ex)
  PROVE  Goes
<1> DEFINE X == x[Depth]
           l == Len(tries)
           h == tries[l]
           n == h.depth
           Y == x[n]
           i == l - f[n]
           j == i - 1
           y == Caught(h.ip, Y, i)
           m == Least(Sp - 1, h.sp)
<1>1. /\ Depth \in 1..Depth /\ Depth \in Nat \ {0}
      /\ X \in PointType /\ X.at = Cur.ip
      /\ Sound(prog, prog.chunks[Cur.chunk], X)
      /\ Ins = Code[X.at] /\ b[Depth] \in Nat
      /\ Sp = b[Depth] + X.height
      /\ Pops(prog, Ins) \in Nat /\ Pops(prog, Ins) <= X.height
  BY AtPoint
<1>2. TypeOK /\ tries \in Seq(Handler) /\ l \in Nat
      /\ stack \in Seq(Value(Len(objs))) /\ Sp \in Nat
  BY DEF IInv, TypeOK, Sp
<1>3. Pops(prog, Ins) = 1
  BY DEF Fetched, Pops
<1>4. l \in 1..l
  BY <1>2
<1>5. /\ n \in 1..Depth /\ f[n] < l /\ l <= f[n] + Len(Y.open)
      /\ h.sp = b[n] + Y.open[i] /\ y \in points[frames[n].chunk]
  BY <1>4 DEF Laid, LaidHandler, Depth
<1>6. /\ Y \in PointType /\ f[n] \in Nat /\ b[n] \in Nat
      /\ frames[n].chunk \in DOMAIN prog.chunks
  <2> HIDE DEF n
  <2>1. /\ x \in [1..Depth -> PointType]
        /\ f \in [1..Depth -> Nat] /\ b \in [1..Depth -> Nat]
    BY DEF Laid, LaidFrames, Depth
  <2>2. frames[n].chunk \in DOMAIN prog.chunks
    BY <1>2, <1>5 DEF Depth, TypeOK
  <2> QED
    BY <1>5, <2>1, <2>2
<1>7. /\ Y.open \in Seq(Nat) /\ Len(Y.open) \in Nat /\ Y.height \in Nat /\ X.height \in Nat
      /\ n \in Nat
  <2>1. n \in Nat
    <3> HIDE DEF n
    <3> QED
      BY <1>1, <1>5
  <2> HIDE DEF X, Y
  <2> QED
    BY <1>1, <1>6, <2>1, PointParts
<1>8. i \in 1..Len(Y.open) /\ j \in 0..Len(Y.open) /\ f[n] + j = l - 1
  <2> DEFINE u == f[n]
             w == Len(Y.open)
  <2>1. u \in Nat /\ w \in Nat /\ u < l /\ l <= u + w /\ l \in Nat
    BY <1>2, <1>5, <1>6, <1>7
  <2> HIDE DEF u, w, l
  <2>2. l - u \in 1..w /\ (l - u) - 1 \in 0..w /\ u + ((l - u) - 1) = l - 1
    BY <2>1
  <2> QED
    BY <2>2, Zenon DEF u, w, l
<1>9. Y.open[i] \in Nat /\ h.sp \in Nat
  <2> HIDE DEF Y, i
  <2>1. Y.open[i] \in Nat
    BY <1>7, <1>8
  <2> HIDE DEF n
  <2> QED
    BY <1>5, <1>6, <2>1
<1>10. y \in PointType
  BY <1>5, <1>6 DEF Verified
<1>11. y.at = h.ip /\ y.height = Y.open[i] + 1 /\ y.open = SubSeq(Y.open, 1, j)
  BY DEF Caught, Point
<1>12. h.sp <= Sp - 1
  <2>1. CASE n = Depth
    <3>1. Y.open[i] <= X.height - 1
      <4>1. \A k \in DOMAIN X.open : X.open[k] <= X.height - 1
        <5> HIDE DEF X
        <5>1. \A k \in DOMAIN X.open : X.open[k] <= X.height - Pops(prog, Ins)
          BY <1>1 DEF Sound, Code, Ins
        <5> QED
          BY <1>3, <5>1
      <4>2. Y = X
        BY <2>1
      <4>3. i \in DOMAIN Y.open
        <5> HIDE DEF i, Y
        <5> QED
          BY <1>7, <1>8
      <4> HIDE DEF i, X, Y
      <4> QED
        BY <4>1, <4>2, <4>3
    <3>2. h.sp = b[Depth] + Y.open[i]
      BY <1>5, <2>1
    <3> DEFINE o == Y.open[i]
               hgt == X.height
               base == b[Depth]
    <3>3. /\ h.sp = base + o /\ o <= hgt - 1 /\ Sp = base + hgt
          /\ o \in Nat /\ hgt \in Nat /\ base \in Nat
      BY <1>1, <1>7, <1>9, <3>1, <3>2
    <3> HIDE DEF o, hgt, base
    <3> QED
      BY <3>3
  <2>2. CASE n # Depth
    <3>1. n < Depth
      BY <1>1, <1>5, <2>2
    <3>2. Waits(Y) /\ b[n] + Y.height - 1 <= b[Depth]
      BY <1>1, <1>5, <2>2, <3>1 DEF Laid, LaidFrames, Depth
    <3>3. Y.open[i] <= Y.height - 1
      BY <1>8, <3>2 DEF Waits
    <3>4. b[Depth] <= Sp - 1
      <4>1. X.height >= 1
        BY <1>1, <1>3
      <4> QED
        BY <1>1, <1>7, <4>1
    <3> DEFINE o == Y.open[i]
               hgt == Y.height
               base == b[n]
    <3>5. /\ h.sp = base + o /\ o <= hgt - 1 /\ base + hgt - 1 <= b[Depth]
          /\ o \in Nat /\ hgt \in Nat /\ base \in Nat /\ b[Depth] \in Nat
      BY <1>1, <1>5, <1>6, <1>7, <1>9, <3>2, <3>3
    <3> HIDE DEF o, hgt, base
    <3>6. h.sp <= b[Depth]
      BY <3>5
    <3> QED
      BY <1>1, <1>2, <1>9, <3>4, <3>6
  <2> QED
    BY <2>1, <2>2
<1>13. Least(Depth, n) = n /\ m = h.sp
  <2>1. n <= Depth /\ Sp - 1 \in Int
    BY <1>1, <1>2, <1>5
  <2> QED
    BY <1>1, <1>7, <1>9, <1>12, <2>1 DEF Least
<1>14. SUFFICES ASSUME status' = "run"
                PROVE  \E x2, b2, f2 : Laid(points, frames', Sp', tries', x2, b2, f2)
  BY DEF Goes
<1>15. /\ frames' = [SubSeq(frames, 1, n) EXCEPT ![n].ip = h.ip]
       /\ stack' = Append(SubSeq(stack, 1, m), ex)
       /\ tries' = SubSeq(tries, 1, l - 1)
  BY <1>13, <1>14 DEF Unwind, Fail, Stop
<1>16. Len(frames') = n /\ Keeps(frames, frames', n, y.at)
  <2> DEFINE fs == SubSeq(frames, 1, n)
             r == [fs[n] EXCEPT !.ip = h.ip]
  <2>1. n \in 0..Depth /\ n \in 1..n
    BY <1>5, <1>7
  <2>2. fs \in Seq(Frame(Len(objs))) /\ Len(fs) = n /\ \A d \in 1..n : fs[d] = frames[d]
    BY <1>2, <2>1, FramesPrefix
  <2>3. fs[n] \in Frame(Len(objs)) /\ h.ip \in Nat
    <3>1. h \in Handler
      BY <1>2, <1>4, ElementOfSeq
    <3>2. n \in 1..Len(fs)
      BY <2>1, <2>2
    <3>3. fs[n] \in Frame(Len(objs))
      BY <2>2, <3>2, ElementOfSeq
    <3> QED
      BY <3>1, <3>3 DEF Handler
  <2>4. r \in Frame(Len(objs)) /\ r.ip = h.ip /\ r.chunk = fs[n].chunk
    BY <2>3 DEF Frame
  <2>5. frames' = [fs EXCEPT ![n] = r]
    BY <1>15
  <2> HIDE DEF fs, r
  <2>6. Len(frames') = n /\ \A d \in 1..n : frames'[d] = IF d = n THEN r ELSE fs[d]
    BY <2>1, <2>2, <2>4, <2>5, ExceptSeq
  <2>7. y.at = h.ip /\ n \in Nat
    BY <1>7, <1>11
  <2> HIDE DEF y, h, n
  <2>8. \A d \in 1..n : frames'[d].chunk = frames[d].chunk
    BY <2>2, <2>4, <2>6
  <2>9. \A d \in 1..n : d # n => frames'[d].ip = frames[d].ip
    BY <2>2, <2>6
  <2>10. frames'[n].ip = y.at
    BY <2>1, <2>4, <2>6, <2>7
  <2> QED
    BY <2>6, <2>7, <2>8, <2>9, <2>10 DEF Keeps
<1>17. Sp' = b[n] + y.height
  <2>1. m \in 0..Sp
    BY <1>2, <1>9, <1>12, <1>13
  <2> HIDE DEF m
  <2>2. Len(SubSeq(stack, 1, m)) = m /\ SubSeq(stack, 1, m) \in Seq(Value(Len(objs)))
    BY <1>2, <2>1 DEF Sp
  <2>3. Sp' = m + 1
    BY <1>15, <2>2 DEF Sp
  <2>4. m = b[n] + Y.open[i] /\ y.height = Y.open[i] + 1
    BY <1>5, <1>11, <1>13
  <2> HIDE DEF y, Y, i, n
  <2> QED
    BY <1>6, <1>9, <2>3, <2>4
<1>18. Cuts(points, frames, x, frames', n, y, j)
  BY <1>5, <1>8, <1>10, <1>11, <1>16 DEF Cuts, Depth
<1>19. tries' = SubSeq(tries, 1, f[n] + j)
  BY <1>8, <1>15
<1>20. \E x2, b2, f2 : Laid(points, frames', b[n] + y.height, SubSeq(tries, 1, f[n] + j),
                            x2, b2, f2)
  <2>1. Len(frames) \in Nat
    BY <1>1 DEF Depth
  <2> HIDE DEF n, y, j
  <2> QED
    BY <1>2, <1>18, <2>1, LaidCut, Zenon
<1> QED
  BY <1>17, <1>19, <1>20

LEMMA HereIs ==
  ASSUME IInv, Verified(prog, points), status = "run", NEW x, NEW b, NEW f,
         Laid(points, frames, Sp, tries, x, b, f), NEW d \in 1..Depth
  PROVE  Here(d) = x[d]
<1>1. /\ x[d] \in points[frames[d].chunk] /\ x[d].at = frames[d].ip
      /\ frames[d].chunk \in DOMAIN prog.chunks
  BY DEF Laid, LaidFrames, Depth, IInv, TypeOK
<1>2. \A y \in points[frames[d].chunk] : x[d].at = y.at => x[d] = y
  BY <1>1 DEF Verified
<1> QED
  BY <1>1, <1>2 DEF Here

LEMMA ExitGoes ==
  ASSUME IInv, Verified(prog, points), status = "run", NEW x, NEW b, NEW f,
         Laid(points, frames, Sp, tries, x, b, f), SignalLeavesNothing, Return \/ Throw
  PROVE  Goes
<1>1. /\ Depth \in 1..Depth /\ x[Depth] \in PointType
      /\ Sound(prog, prog.chunks[Cur.chunk], x[Depth])
      /\ Ins = Code[x[Depth].at] /\ f[Depth] \in Nat
      /\ Len(tries) = f[Depth] + Len(x[Depth].open)
      /\ Pops(prog, Ins) <= Sp
  BY AtPoint
<1>2. Len(x[Depth].open) \in Nat
  BY <1>1, PointParts
<1>3. \A e : Fail(e) => Goes
  BY FailFails DEF Goes
<1>4. CASE Return
  <2>1. Fetched("RETURN") /\ Ins.op = "RETURN" /\ Pops(prog, Ins) = 1
    BY <1>4 DEF Return, Fetched, Pops
  <2>2. x[Depth].height = 1 /\ Len(x[Depth].open) = 0
    BY <1>1, <2>1 DEF Sound, Code, Ins
  <2>3. CASE Leave(1, Peek(1))
    BY <1>1, <2>1, <2>2, <2>3, ReturnGoes
  <2> QED
    BY <1>3, <1>4, <2>3 DEF Return
<1>5. CASE Throw
  <2>1. Fetched("THROW") /\ Ins.op = "THROW" /\ Pops(prog, Ins) = 1
    BY <1>5 DEF Throw, Fetched, Pops
  <2>2. CASE tries # <<>> /\ Unwind(tries[Len(tries)], Peek(1))
    BY <2>1, <2>2, UnwindGoes
  <2>3. CASE tries = <<>> /\ IsReturnSignal(Peek(1)) /\ Leave(1, objs[Peek(1).v].items[2])
    <3>1. Len(x[Depth].open) = 0
      <4>1. Len(tries) = 0
        BY <2>3
      <4> QED
        BY <1>1, <1>2, <4>1
    <3>2. Sp > 0
      BY <1>1, <2>1, RunningFrame DEF IInv
    <3>3. Depth > 1 => x[Depth].height = 1
      BY <1>1, <2>1, <2>3, <3>2, HereIs DEF SignalLeavesNothing
    <3> QED
      BY <1>1, <2>1, <2>3, <3>1, <3>3, ReturnGoes
  <2> QED
    BY <1>3, <1>5, <2>2, <2>3 DEF Throw
<1> QED
  BY <1>4, <1>5

LEMMA StepGoes ==
  ASSUME VInv, SignalLeavesNothing, [VNext]_<<vars, points>>
  PROVE  VInv'
<1>1. IInv /\ Verified(prog, points) /\ [Next]_vars /\ points' = points
  BY DEF VInv, VNext
<1>2. IInv'
  BY <1>1, StepHolds
<1>3. prog' = prog
  BY <1>1, ProgStays
<1>4. Verified(prog, points)'
  BY <1>1, <1>3, Zenon
<1>5. (\E x, b, f : Laid(points, frames, Sp, tries, x, b, f))' <=>
          \E x, b, f : Laid(points, frames', Sp', tries', x, b, f)
  BY <1>1, Zenon
<1>6. Goes
  <2>1. CASE Stopped \/ UNCHANGED vars
    <3>1. UNCHANGED vars
      BY <2>1 DEF Stopped
    <3>2. status' = status /\ frames' = frames /\ tries' = tries /\ Sp' = Sp
      BY <3>1 DEF vars, Sp
    <3> QED
      BY <3>2 DEF VInv, Goes
  <2>2. CASE Execute
    <3>1. CASE FellOffTheEnd
      BY <3>1, FailFails DEF FellOffTheEnd, Goes
    <3>2. CASE ~FellOffTheEnd
      <4>1. Local \/ Call \/ CallClosure \/ TryEnter \/ TryExit \/ Return \/ Throw
        BY <2>2, <3>2 DEF Execute, Local
      <4>2. status = "run"
        <5>1. CASE Local
          BY <5>1 DEF Local, Fetched, PushConst, LoadLocal, GetUpvalue, Dup, Arith, Neg, Equal,
             Order, Not, ExnIsPrim, Pop, Jump, PopJumpIf, GetField, GetFieldNamed, ArrayLen,
             IndexInt, SeqNew, StructNew, Closure, StoreLocal, SetUpvalue, Swap
        <5>2. CASE ~Local
          BY <4>1, <5>2 DEF Call, CallClosure, TryEnter, TryExit, Return, Throw, Fetched
        <5> QED
          BY <5>1, <5>2
      <4>3. PICK x, b, f : Laid(points, frames, Sp, tries, x, b, f)
        BY <4>2 DEF VInv
      <4> QED
        BY <1>1, <4>1, <4>2, <4>3, LocalGoes, CallGoes, TryGoes, ExitGoes
    <3> QED
      BY <3>1, <3>2
  <2> QED
    BY <1>1, <2>1, <2>2 DEF Next
<1>7. (status = "run" => \E x, b, f : Laid(points, frames, Sp, tries, x, b, f))'
  BY <1>5, <1>6 DEF Goes
<1> QED
  BY <1>2, <1>4, <1>7 DEF VInv

LEMMA InitGoes ==
  ASSUME VInit
  PROVE  VInv
<1>1. Init /\ Verified(prog, points) /\ IInv
  BY InitHolds DEF VInit
<1>2. ASSUME status = "run"
      PROVE  \E x, b, f : Laid(points, frames, Sp, tries, x, b, f)
  <2> DEFINE x == [d \in 1..1 |-> FirstPoint]
             b == [d \in 1..1 |-> 0]
             r == frames[1]
  <2>1. /\ stack = <<>> /\ tries = <<>> /\ prog.entry \in DOMAIN prog.chunks
        /\ Len(frames) = 1 /\ r.chunk = prog.entry /\ r.ip = 1
    BY <1>1, <1>2 DEF Init, Start
  <2>2. FirstPoint \in points[r.chunk] /\ FirstPoint \in PointType
    BY <1>1, <2>1 DEF Verified
  <2>3. FirstPoint.at = 1 /\ FirstPoint.height = 0 /\ Len(FirstPoint.open) = 0
    BY DEF FirstPoint, Point
  <2>4. /\ x \in [1..1 -> PointType] /\ b \in [1..1 -> Nat] /\ x[1] = FirstPoint /\ b[1] = 0
        /\ \A d \in 1..1 : d = 1
    BY <2>2
  <2> HIDE DEF x, b, r
  <2>5. LaidFrames(points, frames, x, b, b)
    BY <2>1, <2>2, <2>3, <2>4 DEF LaidFrames, r
  <2>6. Sp = 0 /\ Len(tries) = 0
    BY <2>1 DEF Sp
  <2>7. Laid(points, frames, Sp, tries, x, b, b)
    BY <2>1, <2>3, <2>4, <2>5, <2>6 DEF Laid
  <2> QED
    BY <2>7
<1> QED
  BY <1>1, <1>2 DEF VInv

LEMMA VInvariance == VSpec /\ []SignalLeavesNothing => []VInv
<1>1. VInit => VInv
  BY InitGoes
<1>2. VInv /\ SignalLeavesNothing /\ [VNext]_<<vars, points>> => VInv'
  BY StepGoes
<1> QED
  BY <1>1, <1>2, PTL DEF VSpec

-----------------------------------------------------------------------------
(* The frames have the operands and handlers of their marks *)

Below == {ss \in Nat \X Nat : ss[1] < ss[2]}

LEMMA LeastElement ==
  ASSUME NEW S \in SUBSET Nat, S # {}
  PROVE  \E m \in S : \A n \in S : m <= n
<1>1. IsWellFoundedOn(Below, Nat)
  BY NatLessThanWellFounded DEF Below, OpToRel
<1>2. PICK m \in S : \A n \in S : ~(<<n, m>> \in Below)
  BY <1>1, WFMin
<1>3. \A n \in S : ~(n < m)
  BY <1>2 DEF Below
<1> QED
  BY <1>3

LEMMA MarkIs ==
  ASSUME IInv, Verified(prog, points), status = "run", NEW x, NEW b, NEW f,
         Laid(points, frames, Sp, tries, x, b, f)
  PROVE  \A d \in 1..Depth : Mark[d] = [sp |-> b[d], ntry |-> f[d]]
<1> DEFINE MarkOf(M, d) == IF d = 1
                          THEN [sp |-> 0, ntry |-> 0]
                          ELSE [sp |-> M[d - 1].sp + Here(d - 1).height - 1,
                                ntry |-> M[d - 1].ntry + Len(Here(d - 1).open)]
           W == [d \in 1..Depth |-> [sp |-> b[d], ntry |-> f[d]]]
<1>1. DOMAIN frames = 1..Depth /\ Depth \in Nat
  BY StateFacts
<1>2. ASSUME NEW d \in 1..Depth
      PROVE  W[d] = MarkOf(W, d)
  <2>1. CASE d = 1
    BY <2>1 DEF Laid, LaidFrames
  <2>2. CASE d # 1
    <3>1. d - 1 \in 1..Depth /\ d - 1 # Depth /\ (d - 1) + 1 = d
      BY <1>1, <2>2
    <3>2. /\ b[d] = b[d - 1] + x[d - 1].height - 1
          /\ f[d] = f[d - 1] + Len(x[d - 1].open)
      BY <3>1 DEF Laid, LaidFrames, Depth
    <3>3. Here(d - 1) = x[d - 1]
      BY <3>1, HereIs
    <3> QED
      BY <2>2, <3>1, <3>2, <3>3
  <2> QED
    BY <2>1, <2>2
<1>3. W = [d \in DOMAIN frames |-> MarkOf(W, d)]
  BY <1>1, <1>2
<1>4. Mark = [d \in DOMAIN frames |-> MarkOf(Mark, d)]
  BY <1>3 DEF Mark
<1> HIDE DEF MarkOf
<1>5. SUFFICES ASSUME NEW e \in 1..Depth, Mark[e] # W[e]
               PROVE  FALSE
  OBVIOUS
<1> DEFINE S == {d \in 1..Depth : Mark[d] # W[d]}
<1>6. PICK d \in S : \A c \in S : d <= c
  <2>1. S \in SUBSET Nat /\ S # {}
    BY <1>5
  <2> HIDE DEF S
  <2> QED
    BY <2>1, LeastElement
<1>7. Mark[d] = MarkOf(Mark, d) /\ W[d] = MarkOf(W, d)
  BY <1>1, <1>2, <1>4, <1>6
<1>8. CASE d = 1
  BY <1>6, <1>7, <1>8 DEF MarkOf
<1>9. CASE d # 1
  <2>1. d - 1 \in 1..Depth /\ ~(d <= d - 1)
    BY <1>1, <1>6, <1>9
  <2>2. Mark[d - 1] = W[d - 1]
    BY <1>6, <2>1
  <2> HIDE DEF W
  <2>3. MarkOf(Mark, d) = MarkOf(W, d)
    BY <2>2 DEF MarkOf
  <2> QED
    BY <1>6, <1>7, <2>3
<1> QED
  BY <1>8, <1>9

LEMMA LaidAsCompiled ==
  ASSUME VInv
  PROVE  StackAsCompiled /\ OwnOperandsOnly
<1>1. IInv /\ Verified(prog, points)
  BY DEF VInv
<1>2. SUFFICES ASSUME status = "run", NEW x, NEW b, NEW f,
                      Laid(points, frames, Sp, tries, x, b, f)
               PROVE  StackAsCompiled /\ OwnOperandsOnly
  BY DEF VInv, StackAsCompiled, OwnOperandsOnly
<1>3. /\ Depth \in 1..Depth /\ Depth \in Nat \ {0} /\ x[Depth] \in PointType
      /\ Sound(prog, prog.chunks[Cur.chunk], x[Depth])
      /\ Cur.ip \in DOMAIN Code /\ Ins = Code[x[Depth].at]
      /\ b[Depth] \in Nat /\ f[Depth] \in Nat
      /\ Sp = b[Depth] + x[Depth].height
      /\ Len(tries) = f[Depth] + Len(x[Depth].open)
      /\ Pops(prog, Ins) \in Nat /\ Pops(prog, Ins) <= x[Depth].height
  BY <1>1, <1>2, AtPoint
<1>4. \A d \in 1..Depth : /\ Mark[d] = [sp |-> b[d], ntry |-> f[d]]
                          /\ Mark[d].sp = b[d] /\ Mark[d].ntry = f[d]
                          /\ Here(d) = x[d] /\ x[d] \in PointType /\ f[d] \in Nat
  <2>1. \A d \in 1..Depth : Mark[d] = [sp |-> b[d], ntry |-> f[d]]
    BY <1>1, <1>2, MarkIs
  <2>2. \A d \in 1..Depth : Here(d) = x[d]
    BY <1>1, <1>2, HereIs
  <2>3. \A d \in 1..Depth : x[d] \in PointType /\ f[d] \in Nat
    BY <1>2 DEF Laid, LaidFrames, Depth
  <2> QED
    BY <2>1, <2>2, <2>3
<1>5. /\ DOMAIN tries = 1..Len(tries) /\ DOMAIN frames = 1..Depth /\ Len(tries) \in Nat
  BY <1>1, StateFacts
<1>6. \A t \in 1..Len(tries) : LaidHandler(points, frames, tries[t], t, x, b, f)
  BY <1>2 DEF Laid
<1>7. x[Depth].height \in Nat /\ Len(x[Depth].open) \in Nat
  BY <1>3, PointParts
<1>8. StackAsCompiled
  <2>1. ASSUME NEW t \in 1..Len(tries)
        PROVE  LET d == tries[t].depth
                   i == t - Mark[d].ntry
               IN /\ d \in DOMAIN frames
                  /\ i \in DOMAIN Here(d).open
                  /\ tries[t].sp = Mark[d].sp + Here(d).open[i]
                  /\ Caught(tries[t].ip, Here(d), i) \in points[frames[d].chunk]
    <3> DEFINE d == tries[t].depth
               i == t - f[d]
    <3>1. /\ d \in 1..Depth /\ f[d] < t /\ t <= f[d] + Len(x[d].open)
          /\ tries[t].sp = b[d] + x[d].open[i]
          /\ Caught(tries[t].ip, x[d], i) \in points[frames[d].chunk]
      BY <1>6 DEF LaidHandler, Depth
    <3> HIDE DEF d
    <3>2. /\ Mark[d].sp = b[d] /\ Mark[d].ntry = f[d] /\ Here(d) = x[d]
          /\ x[d] \in PointType /\ f[d] \in Nat
      BY <1>4, <3>1
    <3>3. x[d].open \in Seq(Nat) /\ Len(x[d].open) \in Nat
      BY <3>2, PointParts
    <3>4. i \in DOMAIN x[d].open
      <4> DEFINE o == x[d].open
                 u == f[d]
      <4>1. /\ o \in Seq(Nat) /\ Len(o) \in Nat /\ u \in Nat
            /\ u < t /\ t <= u + Len(o) /\ t \in Nat
        BY <1>5, <3>1, <3>2, <3>3
      <4> HIDE DEF o, u
      <4>2. t - u \in DOMAIN o
        BY <4>1
      <4> QED
        BY <4>2, Zenon DEF o, u
    <3> QED
      BY <1>5, <3>1, <3>2, <3>4 DEF d
  <2> QED
    BY <1>3, <1>4, <1>5, <2>1 DEF StackAsCompiled
<1>9. OwnOperandsOnly
  <2>1. Mark[Depth].sp + Pops(prog, Ins) <= Sp
    <3> DEFINE u == Pops(prog, Ins)
               w == x[Depth].height
    <3>1. u \in Nat /\ w \in Nat /\ u <= w /\ b[Depth] \in Nat /\ Sp = b[Depth] + w
      BY <1>3, <1>7
    <3>2. Mark[Depth].sp = b[Depth]
      BY <1>3, <1>4
    <3> HIDE DEF u, w
    <3>3. b[Depth] + u <= Sp
      BY <3>1
    <3> QED
      BY <3>2, <3>3 DEF u
  <2>2. ASSUME Ins.op = "TRY_EXIT"
        PROVE  /\ tries # <<>>
               /\ tries[Len(tries)].depth = Depth /\ tries[Len(tries)].sp = Sp
    <3> DEFINE l == Len(tries)
               k == Len(x[Depth].open)
    <3>1. k > 0 /\ x[Depth].open[k] = x[Depth].height
      BY <1>3, <2>2 DEF Sound, Code, Ins
    <3>2. l \in 1..l /\ f[Depth] < l /\ l - f[Depth] = k
      BY <1>3, <1>5, <1>7, <3>1
    <3>3. LaidHandler(points, frames, tries[l], l, x, b, f)
      BY <1>6, <3>2
    <3>4. /\ tries[l].depth \in 1..Depth
          /\ l <= f[tries[l].depth] + Len(x[tries[l].depth].open)
          /\ tries[l].sp = b[tries[l].depth] + x[tries[l].depth].open[l - f[tries[l].depth]]
      BY <3>3 DEF LaidHandler, Depth
    <3>5. tries[l].depth = Depth
      <4> DEFINE e == tries[l].depth
      <4>1. e # Depth => f[e] + Len(x[e].open) <= f[Depth]
        <5> e \in 1..Depth
          BY <3>4
        <5> HIDE DEF e
        <5>1. e \in 1..Depth /\ (e # Depth => e < Depth)
          <6> Depth \in Nat
            BY <1>3
          <6> QED
            OBVIOUS
        <5>2. LaidFrames(points, frames, x, b, f)
          BY <1>2 DEF Laid
        <5>3. e \in 1..Len(frames) /\ Depth \in 1..Len(frames)
          BY <1>3, <5>1 DEF Depth
        <5>4. e < Depth => f[e] + Len(x[e].open) <= f[Depth]
          BY <5>2, <5>3, LaidInOrder
        <5> QED
          BY <5>1, <5>4
      <4>2. x[e] \in PointType /\ f[e] \in Nat
        BY <1>4, <3>4
      <4>3. f[e] \in Nat /\ Len(x[e].open) \in Nat /\ f[Depth] \in Nat /\ l \in Nat
            /\ l <= f[e] + Len(x[e].open) /\ f[Depth] < l
        BY <1>3, <1>5, <3>2, <3>4, <4>2, PointParts
      <4> HIDE DEF e, l
      <4>4. f[e] + Len(x[e].open) \in Nat
        BY <4>3
      <4>5. e = Depth
        BY <4>1, <4>3, <4>4
      <4> QED
        BY <4>5 DEF e
    <3>6. tries[l].sp = Sp
      BY <1>3, <3>1, <3>2, <3>4, <3>5
    <3> QED
      BY <1>5, <3>2, <3>5, <3>6
  <2>3. ASSUME Ins.op = "RETURN"
        PROVE  Sp = Mark[Depth].sp + 1 /\ \A t \in DOMAIN tries : tries[t].depth # Depth
    <3>1. x[Depth].height = 1 /\ Len(x[Depth].open) = 0
      BY <1>3, <2>3 DEF Sound, Code, Ins
    <3>2. Len(tries) = f[Depth]
      BY <1>3, <3>1
    <3>3. \A t \in 1..Len(tries) : tries[t].depth # Depth
      <4> TAKE t \in 1..Len(tries)
      <4>1. f[tries[t].depth] < t /\ t <= Len(tries) /\ t \in Nat
        BY <1>5, <1>6 DEF LaidHandler
      <4> QED
        BY <1>3, <3>2, <4>1
    <3> QED
      BY <1>3, <1>4, <1>5, <3>1, <3>3
  <2> QED
    BY <1>3, <2>1, <2>2, <2>3 DEF OwnOperandsOnly
<1> QED
  BY <1>8, <1>9

-----------------------------------------------------------------------------
(* Each frame has the locals of its chunk *)

Fits(fr) == Len(fr.locals) = prog.chunks[fr.chunk].nlocals

LocalsFit == \A d \in 1..Depth : Fits(frames[d])

LEMMA AtFits ==
  ASSUME TypeOK, status = "run", LocalsFit, NEW i \in Nat
  PROVE  /\ At(i) \in Seq(Frame(Len(objs))) /\ Len(At(i)) = Depth /\ Depth \in 1..Depth
         /\ \A j \in 1..Depth : At(i)[j] \in Frame(Len(objs)) /\ Fits(At(i)[j])
<1> DEFINE r == [Cur EXCEPT !.ip = i]
<1>1. /\ frames \in Seq(Frame(Len(objs)))
      /\ Depth \in 1..Depth /\ Depth = Len(frames) /\ Cur \in Frame(Len(objs))
  BY RunningFrame DEF TypeOK, Depth
<1>2. r \in Frame(Len(objs)) /\ r.locals = Cur.locals /\ r.chunk = Cur.chunk
  BY <1>1 DEF Frame
<1>3. Fits(r)
  BY <1>1, <1>2 DEF LocalsFit, Fits, Cur
<1>4. At(i) = [frames EXCEPT ![Depth] = r]
  BY DEF At, Cur
<1> HIDE DEF r
<1>5. /\ At(i) \in Seq(Frame(Len(objs))) /\ Len(At(i)) = Depth
      /\ \A j \in 1..Depth : At(i)[j] = IF j = Depth THEN r ELSE frames[j]
  BY <1>1, <1>2, <1>4, ExceptSeq
<1>6. \A j \in 1..Depth : At(i)[j] \in Frame(Len(objs))
  BY <1>5, ElementOfSeq
<1> QED
  BY <1>1, <1>3, <1>5, <1>6 DEF LocalsFit

LEMMA StoreFits ==
  ASSUME TypeOK, status = "run", LocalsFit, StoreLocal
  PROVE  \A d \in 1..Len(frames') : Fits(frames'[d])
<1>1. CASE Fail("malformed")
  BY <1>1 DEF Fail, Stop
<1>2. CASE ~Fail("malformed")
  <2> DEFINE fs == At(Cur.ip + 1)
             ls == [Cur.locals EXCEPT ![Ins.a] = Peek(1)]
  <2>1. frames' = [fs EXCEPT ![Depth].locals = ls]
    BY <1>2 DEF StoreLocal, Advance
  <2>2. /\ fs \in Seq(Frame(Len(objs))) /\ Len(fs) = Depth /\ Depth \in 1..Depth
        /\ \A j \in 1..Depth : fs[j] \in Frame(Len(objs)) /\ Fits(fs[j])
        /\ fs[Depth].chunk = Cur.chunk
    BY AtFits, AtType, FetchedInstr DEF StoreLocal, Cur
  <2>3. Len(ls) = prog.chunks[Cur.chunk].nlocals
    <3>1. Cur \in Frame(Len(objs)) /\ Fits(Cur)
      BY <2>2, RunningFrame DEF LocalsFit, Cur
    <3>2. Cur.locals \in Seq(Value(Len(objs)))
      BY <3>1 DEF Frame
    <3>3. Len(ls) = Len(Cur.locals)
      BY <3>2
    <3> QED
      BY <3>1, <3>3 DEF Fits
  <2> HIDE DEF fs, ls
  <2>4. Len(frames') = Depth
    BY <2>1, <2>2
  <2>5. \A j \in 1..Depth : /\ frames'[j].chunk = fs[j].chunk
                            /\ frames'[j].locals = IF j = Depth THEN ls ELSE fs[j].locals
    BY <2>1, <2>2 DEF Frame
  <2> QED
    BY <2>2, <2>3, <2>4, <2>5 DEF Fits
<1> QED
  BY <1>1, <1>2

LEMMA EnterFits ==
  ASSUME TypeOK, status = "run", LocalsFit, Cur.ip + 1 \in Nat,
         NEW c, NEW clo, NEW n, Enter(c, clo, n)
  PROVE  \A d \in 1..Len(frames') : Fits(frames'[d])
<1>1. CASE \E e : Fail(e)
  BY <1>1 DEF Fail, Stop
<1>2. CASE ~\E e : Fail(e)
  <2> DEFINE fs == Advance
             ls == [i \in 1..prog.chunks[c].nlocals |->
                       IF i <= Ins.b THEN stack[Sp - Ins.b + i] ELSE Zero]
             r == [chunk |-> c, ip |-> 1, clo |-> clo, act |-> acts + 1, locals |-> ls]
  <2>1. c \in DOMAIN prog.chunks /\ frames' = Append(fs, r)
    BY <1>2 DEF Enter
  <2>2. Len(ls) = prog.chunks[c].nlocals
    <3>1. prog.chunks[c] \in Chunk
      BY <2>1, RunningFrame DEF Program
    <3>2. prog.chunks[c].nlocals \in Nat
      BY <3>1 DEF Chunk
    <3> QED
      BY <3>2
  <2>3. Fits(r)
    BY <2>2 DEF Fits
  <2>4. /\ fs \in Seq(Frame(Len(objs))) /\ Len(fs) = Depth
        /\ \A j \in 1..Depth : Fits(fs[j])
    BY AtFits DEF Advance
  <2> HIDE DEF fs, r
  <2>5. /\ Len(frames') = Depth + 1 /\ Depth \in Nat
        /\ \A j \in 1..Depth : frames'[j] = fs[j]
        /\ frames'[Depth + 1] = r
    BY <2>1, <2>4, RunningFrame
  <2> QED
    BY <2>3, <2>4, <2>5
<1> QED
  BY <1>1, <1>2

LEMMA UnwindFits ==
  ASSUME IInv, status = "run", LocalsFit, tries # <<>>, NEW ex, Unwind(tries[Len(tries)], ex)
  PROVE  \A d \in 1..Len(frames') : Fits(frames'[d])
<1> DEFINE h == tries[Len(tries)]
           n == Least(Depth, h.depth)
           fs == SubSeq(frames, 1, n)
<1>1. TypeOK /\ Depth \in 1..MaxDepth
  BY RunningFrame DEF IInv
<1>2. h.depth \in 1..Depth
  <2>1. Len(tries) \in DOMAIN tries
    BY <1>1 DEF TypeOK
  <2> QED
    BY <1>1, <2>1, RunningFrame DEF IInv, HandlersOfLiveActivations
<1>3. n \in 1..Depth /\ n \in 0..Depth
  BY <1>1, <1>2 DEF Least
<1>4. CASE \E e : Fail(e)
  BY <1>4 DEF Fail, Stop
<1>5. CASE ~\E e : Fail(e)
  <2>1. frames' = [fs EXCEPT ![n].ip = h.ip]
    BY <1>5 DEF Unwind
  <2> HIDE DEF h, n
  <2>2. /\ fs \in Seq(Frame(Len(objs))) /\ Len(fs) = n
        /\ \A j \in 1..n : fs[j] = frames[j] /\ j \in 1..Depth
    BY <1>1, <1>3, FramesPrefix
  <2> HIDE DEF fs
  <2>3. \A j \in 1..n : fs[j] \in Frame(Len(objs)) /\ Fits(fs[j])
    BY <2>2, ElementOfSeq DEF LocalsFit
  <2>4. Len(frames') = n
    BY <2>1, <2>2
  <2>5. \A j \in 1..n : frames'[j].chunk = fs[j].chunk
    BY <2>1, <2>2, <2>3 DEF Frame
  <2>6. \A j \in 1..n : frames'[j].locals = fs[j].locals
    BY <2>1, <2>2, <2>3 DEF Frame
  <2> QED
    BY <2>3, <2>4, <2>5, <2>6 DEF Fits
<1> QED
  BY <1>4, <1>5

LEMMA StepFits ==
  ASSUME IInv, LocalsFit, [Next]_vars
  PROVE  LocalsFit'
<1> DEFINE AllFit == \A d \in 1..Len(frames') : Fits(frames'[d])
           Running == status = "run" /\ Cur.ip + 1 \in Nat
<1>1. TypeOK
  BY DEF IInv
<1>2. SUFFICES AllFit
  <2>1. prog' = prog
    BY ProgStays
  <2> QED
    BY <2>1 DEF LocalsFit, Fits, Depth
<1>3. \A op : Fetched(op) => Running
  BY <1>1, FetchedInstr
<1>4. \A s, e, r : Stop(s, e, r) => AllFit
  BY DEF Stop
<1>5. \A e : Fail(e) => AllFit
  BY <1>4 DEF Fail
<1>6. Running /\ frames' = Advance => AllFit
  BY <1>1, AtFits DEF Advance
<1>7. \A n, v : Running /\ Replace(n, v) => AllFit
  BY <1>5, <1>6 DEF Replace
<1>8. \A n, k, tag, items : Running /\ Allocate(n, k, tag, items) => AllFit
  BY <1>5, <1>6 DEF Allocate
<1>9. \A n, target : Running /\ JumpTo(n, target) => AllFit
  <2> TAKE n, target
  <2> HAVE Running /\ JumpTo(n, target)
  <2>1. CASE target \in 1..Len(Code) + 1
    <3>1. target \in Nat /\ frames' = At(target)
      BY <1>1, <2>1, RunningFrame DEF JumpTo
    <3> QED
      BY <1>1, <3>1, AtFits
  <2>2. CASE ~(target \in 1..Len(Code) + 1)
    BY <1>5, <2>2 DEF JumpTo
  <2> QED
    BY <2>1, <2>2
<1>10. \A n, v : Running /\ Leave(n, v) => AllFit
  <2> TAKE n, v
  <2> HAVE Running /\ Leave(n, v)
  <2>1. CASE frames' = SubSeq(frames, 1, Depth - 1) /\ Depth # 1
    <3>1. Depth - 1 \in 0..Depth /\ \A j \in 1..Depth - 1 : j \in 1..Depth
      BY <1>1, RunningFrame, CapsAssumption
    <3> QED
      BY <1>1, <2>1, <3>1, FramesPrefix DEF LocalsFit
  <2>2. CASE Stop("ok", "none", v) \/ Fail("stack overflow")
    BY <1>4, <1>5, <2>2
  <2> QED
    BY <2>1, <2>2 DEF Leave
<1>11. \A c, clo, n : Running /\ Enter(c, clo, n) => AllFit
  BY <1>1, EnterFits
<1>12. \A ex : Running /\ tries # <<>> /\ Unwind(tries[Len(tries)], ex) => AllFit
  BY UnwindFits
<1>13. StoreLocal => AllFit
  BY <1>1, <1>3, StoreFits DEF StoreLocal
<1> HIDE DEF AllFit, Running
<1>14. CASE PushConst \/ LoadLocal \/ GetUpvalue \/ Dup \/ Equal
  BY <1>3, <1>5, <1>7, <1>14, Zenon DEF PushConst, LoadLocal, GetUpvalue, Dup, Equal
<1>15. CASE Swap \/ SetUpvalue
  BY <1>3, <1>5, <1>6, <1>15, Zenon DEF Swap, SetUpvalue
<1>16. CASE Arith \/ Neg \/ Order \/ Not \/ ExnIsPrim
  BY <1>3, <1>5, <1>7, <1>16, Zenon DEF Arith, Neg, Order, Not, ExnIsPrim
<1>17. CASE GetField \/ GetFieldNamed \/ ArrayLen \/ IndexInt
  BY <1>3, <1>5, <1>7, <1>17, Zenon DEF GetField, GetFieldNamed, ArrayLen, IndexInt
<1>18. CASE Pop \/ Jump \/ PopJumpIf
  BY <1>3, <1>5, <1>9, <1>18, Zenon DEF Pop, Jump, PopJumpIf
<1>19. CASE SeqNew \/ StructNew \/ Closure
  BY <1>3, <1>5, <1>8, <1>19, Zenon DEF SeqNew, StructNew, Closure
<1>20. CASE Call \/ CallClosure
  BY <1>3, <1>5, <1>11, <1>20, Zenon DEF Call, CallClosure
<1>21. CASE Return \/ Throw
  BY <1>3, <1>5, <1>10, <1>12, <1>21, Zenon DEF Return, Throw
<1>22. CASE TryEnter \/ TryExit
  BY <1>3, <1>5, <1>6, <1>22, Zenon DEF TryEnter, TryExit
<1>23. CASE FellOffTheEnd
  BY <1>5, <1>23 DEF FellOffTheEnd
<1>24. CASE Stopped \/ UNCHANGED vars
  BY <1>24 DEF Stopped, vars, AllFit, LocalsFit, Depth
<1> QED
  BY <1>13, <1>14, <1>15, <1>16, <1>17, <1>18, <1>19, <1>20, <1>21, <1>22, <1>23, <1>24
     DEF Next, Execute

LEMMA InitFits ==
  ASSUME Init
  PROVE  LocalsFit
<1> DEFINE ls == [i \in 1..prog.chunks[prog.entry].nlocals |->
                     IF i \in DOMAIN prog.args THEN prog.args[i] ELSE Zero]
<1>1. CASE frames = <<>>
  BY <1>1 DEF LocalsFit, Depth
<1>2. CASE frames # <<>>
  <2>1. /\ prog \in Program /\ prog.entry \in DOMAIN prog.chunks
        /\ frames = <<[chunk |-> prog.entry, ip |-> 1, locals |-> ls, clo |-> 0, act |-> 0]>>
    BY <1>2, ProgramsAssumption DEF Init, Start
  <2>2. prog.chunks[prog.entry] \in Chunk
    BY <2>1 DEF Program
  <2>3. prog.chunks[prog.entry].nlocals \in Nat
    BY <2>2 DEF Chunk
  <2>4. Len(ls) = prog.chunks[prog.entry].nlocals
    BY <2>3
  <2> HIDE DEF ls
  <2> QED
    BY <2>1, <2>4 DEF LocalsFit, Fits, Depth
<1> QED
  BY <1>1, <1>2

LEMMA FitsInvariance == Spec => []LocalsFit
<1>1. Init => LocalsFit
  BY InitFits
<1>2. IInv /\ LocalsFit /\ [Next]_vars => LocalsFit'
  BY StepFits
<1> QED
  BY <1>1, <1>2, Invariance, PTL DEF Spec

-----------------------------------------------------------------------------
(* What the machine refuses in verified code *)

LEMMA StepRefuses ==
  ASSUME VInv, LocalsFit, [Next]_vars,
         status = "run", status' = "failed", error' = "malformed"
  PROVE  Cur.ip \in DOMAIN Code /\ Ins.op \in LooksAtValues
<1>1. PICK x, b, f : Laid(points, frames, Sp, tries, x, b, f)
  BY DEF VInv
<1>2. /\ IInv /\ TypeOK /\ Verified(prog, points)
      /\ prog \in Program /\ Cur.chunk \in DOMAIN prog.chunks /\ Code \in Seq(Instr)
      /\ Sp \in Nat
  BY RunningFrame DEF VInv, IInv
<1>3. /\ Depth \in 1..Depth /\ Cur.ip \in DOMAIN Code /\ Ins \in Instr
      /\ Sound(prog, prog.chunks[Cur.chunk], x[Depth])
      /\ x[Depth].at = Cur.ip /\ Ins = Code[x[Depth].at]
      /\ After(prog, Code, x[Depth]) \subseteq points[Cur.chunk]
      /\ Pops(prog, Ins) <= Sp
      /\ f[Depth] \in Nat /\ x[Depth] \in PointType
      /\ Len(tries) = f[Depth] + Len(x[Depth].open)
  BY <1>1, <1>2, AtPoint
<1>4. Cur.ip \in 1..Len(Code) /\ Len(Code) \in Nat /\ Cur.ip + 1 \in 1..Len(Code) + 1
  BY <1>2, <1>3
<1>5. \A y \in points[Cur.chunk] : y.at \in 1..Len(Code) + 1
  <2> TAKE y \in points[Cur.chunk]
  <2>1. Sound(prog, prog.chunks[Cur.chunk], y)
    BY <1>2 DEF Verified
  <2>2. y.at \in DOMAIN Code
    BY <2>1 DEF Sound, Code
  <2> QED
    BY <1>2, <2>2
<1>6. SUFFICES ASSUME Ins.op \notin LooksAtValues
               PROVE  FALSE
  BY <1>3
<1>7. \A n, v : ~Replace(n, v)
  BY DEF Replace, Fail, Stop
<1>8. \A n, k, tag, items : ~Allocate(n, k, tag, items)
  BY DEF Allocate, Fail, Stop
<1>9. \A n, target : JumpTo(n, target) => target \notin 1..Len(Code) + 1
  BY DEF JumpTo
<1>10. \A n, v : ~Leave(n, v)
  BY DEF Leave, Fail, Stop
<1>11. \A h, ex : ~Unwind(h, ex)
  BY DEF Unwind, Fail, Stop
<1>12. ~Fail("uncaught exception") /\ ~Fail("call depth exceeded") /\ ~Fail("try stack overflow")
  BY DEF Fail, Stop
<1>13. ~PushConst /\ ~LoadLocal /\ ~StoreLocal
  <2>1. ~PushConst
    <3> SUFFICES ASSUME PushConst PROVE FALSE
      OBVIOUS
    <3>1. Ins.a \in DOMAIN prog.chunks[Cur.chunk].constants
      BY <1>3 DEF PushConst, Fetched, Sound, Code
    <3> QED
      BY <1>7, <3>1 DEF PushConst
  <2>2. Ins.op \in {"LOAD_LOCAL", "STORE_LOCAL"} => Ins.a \in DOMAIN Cur.locals
    <3>1. Ins.op \in {"LOAD_LOCAL", "STORE_LOCAL"} => Ins.a \in 1..prog.chunks[Cur.chunk].nlocals
      BY <1>3 DEF Sound, Code
    <3>2. Cur.locals \in Seq(Value(Len(objs))) /\ Len(Cur.locals) = prog.chunks[Cur.chunk].nlocals
      BY <1>2, <1>3, RunningFrame DEF LocalsFit, Fits, Frame, Cur
    <3> QED
      BY <3>1, <3>2
  <2>3. ~LoadLocal
    BY <1>7, <2>2 DEF LoadLocal, Fetched
  <2>4. ~StoreLocal
    <3> SUFFICES ASSUME StoreLocal PROVE FALSE
      OBVIOUS
    <3>1. Ins.a \in DOMAIN Cur.locals /\ Pops(prog, Ins) = 1
      BY <2>2 DEF StoreLocal, Fetched, Pops
    <3>2. Sp # 0
      BY <1>2, <1>3, <3>1
    <3> QED
      BY <3>1, <3>2 DEF StoreLocal
  <2> QED
    BY <2>1, <2>3, <2>4
<1>14. ~Pop /\ ~Dup /\ ~Swap /\ ~Equal
  <2>1. /\ Ins.op \in {"POP", "DUP"} => Pops(prog, Ins) = 1
        /\ Ins.op \in {"SWAP", "EQUAL"} => Pops(prog, Ins) = 2
    BY DEF Pops
  <2>2. /\ Ins.op \in {"POP", "DUP"} => Sp # 0
        /\ Ins.op \in {"SWAP", "EQUAL"} => ~(Sp < 2)
    BY <1>2, <1>3, <2>1
  <2>3. ~Pop
    BY <1>4, <1>9, <2>2 DEF Pop, Fetched
  <2>4. ~Dup
    BY <1>7, <2>2 DEF Dup, Fetched
  <2>5. ~Swap
    BY <2>2 DEF Swap, Fetched, Fail, Stop
  <2>6. ~Equal
    BY <1>7, <2>2 DEF Equal, Fetched
  <2> QED
    BY <2>3, <2>4, <2>5, <2>6
<1>15. ~Jump /\ ~TryEnter
  <2>1. Ins.op \in {"JUMP", "TRY_ENTER"} => Ins.a \in 1..Len(Code) + 1
    <3>1. Ins.op \in {"JUMP", "TRY_ENTER"} =>
             \E h, o : Point(Ins.a, h, o) \in After(prog, Code, x[Depth])
      BY <1>3 DEF After
    <3> QED
      BY <1>3, <1>5, <3>1 DEF Point
  <2> QED
    BY <1>9, <1>12, <2>1 DEF Jump, TryEnter, Fetched
<1>16. ~SeqNew /\ ~StructNew /\ ~ExnIsPrim
  <2>1. /\ Ins.op = "SEQ_NEW" => Ins.kind \in Sequential
        /\ Ins.op = "EXN_IS_PRIM" => Ins.kind \in Numbers \cup {"bool", "string"}
        /\ Ins.op = "STRUCT_NEW" => Ins.a \in DOMAIN prog.layouts
    BY <1>3 DEF Sound, Code
  <2>2. /\ Ins.op = "SEQ_NEW" => Pops(prog, Ins) = Ins.a
        /\ Ins.op = "EXN_IS_PRIM" => Pops(prog, Ins) = 1
        /\ Ins.op = "STRUCT_NEW" => Pops(prog, Ins) = Len(prog.layouts[Ins.a])
    BY DEF Pops
  <2>3. ~SeqNew
    <3>1. Ins.op = "SEQ_NEW" => ~(Sp < Ins.a)
      <4>1. Ins.a \in Nat
        BY <1>3 DEF Instr
      <4> QED
        BY <1>2, <1>3, <2>2, <4>1
    <3> QED
      BY <1>8, <2>1, <3>1 DEF SeqNew, Fetched
  <2>4. ~StructNew
    <3>1. Ins.op = "STRUCT_NEW" => ~(Sp < Len(prog.layouts[Ins.a]))
      <4>1. prog.layouts \in Seq(Seq(Nat))
        BY <1>2 DEF Program
      <4>2. Ins.op = "STRUCT_NEW" => Len(prog.layouts[Ins.a]) \in Nat
        BY <2>1, <4>1
      <4> QED
        BY <1>2, <1>3, <2>2, <4>2
    <3> QED
      BY <1>8, <2>1, <3>1 DEF StructNew, Fetched
  <2>5. ~ExnIsPrim
    BY <1>2, <1>3, <1>7, <2>1, <2>2 DEF ExnIsPrim, Fetched
  <2> QED
    BY <2>3, <2>4, <2>5
<1>17. ~Call
  <2> SUFFICES ASSUME Call PROVE FALSE
    OBVIOUS
  <2>1. /\ Ins.op = "CALL" /\ Pops(prog, Ins) = Ins.b
    BY DEF Call, Fetched, Pops
  <2>2. /\ Ins.a \in DOMAIN prog.chunks /\ prog.chunks[Ins.a].nparams = Ins.b
        /\ prog.chunks[Ins.a].nlocals >= Ins.b
    BY <1>3, <2>1 DEF Sound, Code
  <2>3. Ins.b \in Nat /\ prog.chunks[Ins.a].nlocals \in Nat
    <3>1. prog.chunks[Ins.a] \in Chunk
      BY <1>2, <2>2 DEF Program
    <3> QED
      BY <1>3, <3>1 DEF Instr, Chunk
  <2>4. ~(Sp < Ins.b) /\ ~(prog.chunks[Ins.a].nlocals < Ins.b)
    BY <1>2, <1>3, <2>1, <2>2, <2>3
  <2>5. Enter(Ins.a, 0, Ins.b)
    BY <2>4 DEF Call
  <2>6. status' = status
    BY <1>12, <2>2, <2>4, <2>5 DEF Enter
  <2> QED
    BY <2>6
<1>18. ~Return /\ ~Throw
  <2>1. Ins.op \in {"RETURN", "THROW"} => Pops(prog, Ins) = 1
    BY DEF Pops
  <2>2. Ins.op \in {"RETURN", "THROW"} => Sp # 0
    BY <1>2, <1>3, <2>1
  <2> QED
    BY <1>10, <1>11, <1>12, <2>2 DEF Return, Throw, Fetched
<1>19. ~TryExit
  <2> SUFFICES ASSUME TryExit PROVE FALSE
    OBVIOUS
  <2>1. Len(x[Depth].open) > 0
    BY <1>3 DEF TryExit, Fetched, Sound, Code
  <2>2. Len(x[Depth].open) \in Nat
    BY <1>3, PointParts
  <2>3. Len(tries) # 0
    BY <1>3, <2>1, <2>2
  <2>4. tries # <<>>
    BY <2>3
  <2> QED
    BY <2>4 DEF TryExit
<1>20. ~FellOffTheEnd /\ ~Stopped /\ ~UNCHANGED vars
  BY <1>3 DEF FellOffTheEnd, Stopped, vars
<1>21. /\ ~GetUpvalue /\ ~SetUpvalue /\ ~Arith /\ ~Neg /\ ~Order /\ ~Not /\ ~PopJumpIf
       /\ ~GetField /\ ~GetFieldNamed /\ ~ArrayLen /\ ~IndexInt /\ ~Closure /\ ~CallClosure
  BY <1>6, Zenon DEF GetUpvalue, SetUpvalue, Arith, Neg, Order, Not, PopJumpIf, GetField,
     GetFieldNamed, ArrayLen, IndexInt, Closure, CallClosure, Fetched, LooksAtValues
<1> QED
  BY <1>13, <1>14, <1>15, <1>16, <1>17, <1>18, <1>19, <1>20, <1>21 DEF Next, Execute

-----------------------------------------------------------------------------
\* On verified code, the operand stack and try_stack of vm_run_program are at
\* every instruction what the compiler laid out, whatever is called, thrown and
\* unwound.  The premise is about the one throw that leaves a frame as a return
\* does: nothing is below its signal (a return in the middle of an expression,
\* within a try statement that is an operand itself, would leave the operands).
THEOREM MachineKeepsLayout == VSpec /\ []SignalLeavesNothing => []StackAsCompiled
<1>1. VInv => StackAsCompiled
  BY LaidAsCompiled
<1> QED
  BY <1>1, VInvariance, PTL

\* On verified code, no instruction of vm_run_program reads an operand or closes
\* a handler that belongs to a caller, and a function leaves neither behind.
THEOREM FramesKeepApart == VSpec /\ []SignalLeavesNothing => []OwnOperandsOnly
<1>1. VInv => OwnOperandsOnly
  BY LaidAsCompiled
<1> QED
  BY <1>1, VInvariance, PTL

\* The checks of vm_run_program that verified code can fail are those that look
\* at the kind of a value or into a closure: no operand, local, constant, jump
\* target, callee, handler or next instruction is ever missing.
THEOREM VerifiedCodeStands == VSpec /\ []SignalLeavesNothing => RefusesValuesOnly
<1> DEFINE Refused == /\ status = "run" /\ status' = "failed" /\ error' = "malformed"
           Allowed == Refused => Cur.ip \in DOMAIN Code /\ Ins.op \in LooksAtValues
<1>1. VInv /\ LocalsFit /\ [Next]_vars => [Allowed]_vars
  BY StepRefuses
<1>2. VSpec => Spec
  <2>1. VInit => Init
    BY DEF VInit
  <2>2. [VNext]_<<vars, points>> => [Next]_vars
    BY DEF VNext
  <2> QED
    BY <2>1, <2>2, PTL DEF VSpec, Spec
<1>3. VInv /\ LocalsFit /\ [VNext]_<<vars, points>> => [Allowed]_vars
  BY <1>1 DEF VNext
<1>4. RefusesValuesOnly <=> [][Allowed]_vars
  BY PTL DEF RefusesValuesOnly
<1> HIDE DEF Allowed
<1> QED
  BY <1>2, <1>3, <1>4, VInvariance, FitsInvariance, PTL DEF VSpec

=============================================================================
