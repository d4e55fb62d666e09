------------------------------ MODULE Quadrics ------------------------------
(***************************************************************************)
(* The quadric primitives of RI_Primitive_Quadric.cpp: EvalP, which the    *)
(* dicer calls to place a grid point on the surface, and MakeBound, which  *)
(* the hider calls to get the box it culls and buckets the primitive by.   *)
(* REYES is only correct if the box holds every point the dicer puts on    *)
(* the surface, for the whole primitive and for every piece split off it.  *)
(*                                                                         *)
(* Numbers are exact: a length or a parameter is an integer count of 1/S,  *)
(* an angle an integer count of 1/S of a quarter turn.  cosf, sinf, asinf, *)
(* atan2f and sqrtf are evaluated only where their value is exact (whole   *)
(* quarter turns, points on an axis, perfect squares); Mul, Div, Cos and   *)
(* Sqrt stop TLC on any other argument, so no result is ever rounded.      *)
(***************************************************************************)
EXTENDS Integers, Sequences, FiniteSetsExt, TLC

CONSTANTS
    Prims,      \* the primitives the RIB stream may insert
    Splittable, \* the kinds the hider splits
    MinWidth,   \* a parametric range this wide or narrower is not split
    GridSteps   \* the dicer samples uGrid, vGrid in steps of 1/GridSteps

S == 64                   \* the unit: a length 1.0 or a quarter turn
Inf == 1000 * S           \* the FLT_MAX that Bound::Reset starts from

Mul(a, b) == LET ab == a * b
             IN  IF ab % S = 0 THEN ab \div S
                 ELSE Assert(FALSE, <<"inexact product", a, b>>)
Div(a, b) == IF (a * S) % b = 0 THEN (a * S) \div b
             ELSE Assert(FALSE, <<"inexact quotient", a, b>>)
Whole(angle) == angle % S = 0
IsSquare(a) == \E r \in 0..(a + S) : r * r = a * S
Sqrt(a) == CHOOSE r \in 0..(a + S) : r * r = a * S
Cos(angle) == CASE Whole(angle) -> <<S, 0, -S, 0>>[((angle \div S) % 4) + 1]
Sin(angle) == CASE Whole(angle) -> <<0, S, 0, -S>>[((angle \div S) % 4) + 1]
Asin(x) == CASE x = -S -> -S [] x = 0 -> 0 [] x = S -> S
Atan2(y, x) == CASE y = 0 /\ x >= 0 -> 0
                 [] y = 0 /\ x < 0  -> 2 * S
                 [] x = 0 /\ y > 0  -> S
                 [] x = 0 /\ y < 0  -> -S
DMix(a, b, t) == a + Mul(b - a, t)

(***************************************************************************)
(* EvalP: uGrid, vGrid in [0, 1] are mapped through the primitive's own    *)
(* mURange, mVRange (a split-off piece keeps a sub-range) and theta is     *)
(* u * mThetamaxRad.                                                       *)
(***************************************************************************)
UOf(p, uGrid) == DMix(p.ur[1], p.ur[2], uGrid)
VOf(p, vGrid) == DMix(p.vr[1], p.vr[2], vGrid)
ThetaOf(p, uGrid) == Mul(UOf(p, uGrid), p.tmax)

CylinderEvalP(p, uGrid, vGrid) ==
    LET v == VOf(p, vGrid)  theta == ThetaOf(p, uGrid)
    IN  << Mul(p.radius, Cos(theta)), Mul(p.radius, Sin(theta)),
           p.zmin + Mul(v, p.zmax - p.zmin) >>

ConeEvalP(p, uGrid, vGrid) ==
    LET v == VOf(p, vGrid)  theta == ThetaOf(p, uGrid)
        r == Mul(p.radius, S - v)
    IN  << Mul(r, Cos(theta)), Mul(r, Sin(theta)), Mul(v, p.height) >>

SphereAlpha(p, v) ==
    LET alphamin   == Asin(Div(p.zmin, p.radius))
        alphadelta == Asin(Div(p.zmax, p.radius)) - alphamin
    IN  alphamin + Mul(v, alphadelta)

SphereEvalP(p, uGrid, vGrid) ==
    LET theta == ThetaOf(p, uGrid)
        alpha == SphereAlpha(p, VOf(p, vGrid))
        r     == Mul(p.radius, Cos(alpha))
    IN  << Mul(r, Cos(theta)), Mul(r, Sin(theta)), Mul(p.radius, Sin(alpha)) >>

HyperboloidEvalP(p, uGrid, vGrid) ==
    LET v == VOf(p, vGrid)  theta == ThetaOf(p, uGrid)
        q == [i \in 1..3 |-> p.p1[i] + Mul(p.p2[i] - p.p1[i], v)]
    IN  << Mul(q[1], Cos(theta)) - Mul(q[2], Sin(theta)),
           Mul(q[1], Sin(theta)) + Mul(q[2], Cos(theta)), q[3] >>

\* The height is (zmax - zmin) * v: zmin is left out, so a paraboloid cut
\* at zmin > 0 is evaluated from z = 0 (MakeBound starts it at zmin).
ParaboloidZ(p, v) == Mul(p.zmax - p.zmin, v)

ParaboloidEvalP(p, uGrid, vGrid) ==
    LET theta == ThetaOf(p, uGrid)
        z     == ParaboloidZ(p, VOf(p, vGrid))
        r     == Mul(p.rmax, Sqrt(Div(z, p.zmax)))
    IN  << Mul(r, Cos(theta)), Mul(r, Sin(theta)), z >>

TorusPhi(p, v) == p.phimin + Mul(p.phimax - p.phimin, v)

TorusEvalP(p, uGrid, vGrid) ==
    LET theta == ThetaOf(p, uGrid)
        phi   == TorusPhi(p, VOf(p, vGrid))
        r     == Mul(p.minRadius, Cos(phi))
    IN  << Mul(p.maxRadius + r, Cos(theta)), Mul(p.maxRadius + r, Sin(theta)),
           Mul(p.minRadius, Sin(phi)) >>

EvalP(p, uGrid, vGrid) ==
    CASE p.kind = "Cylinder"    -> CylinderEvalP(p, uGrid, vGrid)
      [] p.kind = "Cone"        -> ConeEvalP(p, uGrid, vGrid)
      [] p.kind = "Sphere"      -> SphereEvalP(p, uGrid, vGrid)
      [] p.kind = "Hyperboloid" -> HyperboloidEvalP(p, uGrid, vGrid)
      [] p.kind = "Paraboloid"  -> ParaboloidEvalP(p, uGrid, vGrid)
      [] p.kind = "Torus"       -> TorusEvalP(p, uGrid, vGrid)

\* The grid points at which EvalP's trigonometry and square root are exact.
Evaluable(p, uGrid, vGrid) ==
    /\ Whole(ThetaOf(p, uGrid))
    /\ p.kind = "Sphere" => Whole(SphereAlpha(p, VOf(p, vGrid)))
    /\ p.kind = "Torus"  => Whole(TorusPhi(p, VOf(p, vGrid)))
    /\ p.kind = "Paraboloid" =>
           IsSquare(Div(ParaboloidZ(p, VOf(p, vGrid)), p.zmax))

(***************************************************************************)
(* Bound: mBox[0] (lo) and mBox[1] (hi).  Reset empties it, Expand grows   *)
(* it to hold a point; expanding by a set of points in any order gives the *)
(* same box.                                                               *)
(***************************************************************************)
Reset == [lo |-> <<Inf, Inf, Inf>>, hi |-> <<-Inf, -Inf, -Inf>>]
Expand(b, pts) ==
    [lo |-> [i \in 1..3 |-> Min({b.lo[i]} \cup {q[i] : q \in pts})],
     hi |-> [i \in 1..3 |-> Max({b.hi[i]} \cup {q[i] : q \in pts})]]
\* MakeBound's closing assignments of mBox[0].z and mBox[1].z
WithZ(b, zlo, zhi) == [b EXCEPT !.lo[3] = zlo, !.hi[3] = zhi]
InBox(q, b) == \A i \in 1..3 : b.lo[i] <= q[i] /\ q[i] <= b.hi[i]

polar(radius, theta) == << Mul(Cos(theta), radius), Mul(Sin(theta), radius), 0 >>

\* the ring sector rmin..rmax, tmin..tmax: its four corners, and the outer
\* circle where it crosses the axes at pi/2, pi, 3pi/2
SweepLAxes == {S, 2 * S, 3 * S}
bounds2DSweepL(b, rmin, rmax, tmin, tmax) ==
    Expand(b, {polar(rmin, tmin), polar(rmax, tmin),
               polar(rmin, tmax), polar(rmax, tmax)}
              \cup {polar(rmax, a) : a \in {a \in SweepLAxes : tmin < a /\ tmax > a}})

\* the arc of radius r from phiMin to phiMax; the loop is i = -3 .. 3
SweepRAxes == {i * S : i \in -3..3}
bounds2DSweepR(b, r, phiMin, phiMax) ==
    Expand(b, {polar(r, phiMin), polar(r, phiMax)}
              \cup {polar(r, a) : a \in {a \in SweepRAxes : phiMin < a /\ phiMax > a}})

\* the circle through p, swept from theMin to theMax past p's own angle;
\* the loop is i = -1 .. 5
SweepPAxes == {i * S : i \in -1..5}
bounds2DSweepP(b, p, theMin, theMax) ==
    LET r     == Sqrt(Mul(p[1], p[1]) + Mul(p[2], p[2]))
        delta == Atan2(p[2], p[1])
        lo    == theMin + delta
        hi    == theMax + delta
    IN  Expand(b, {polar(r, lo), polar(r, hi)}
                  \cup {polar(r, a) : a \in {a \in SweepPAxes : lo < a /\ hi > a}})

TuMin(p) == Mul(p.tmax, p.ur[1])
TuMax(p) == Mul(p.tmax, p.ur[2])

CylinderMakeBound(p) ==
    WithZ(bounds2DSweepL(Reset, p.radius, p.radius, TuMin(p), TuMax(p)),
          p.zmin + Mul(p.vr[1], p.zmax - p.zmin),
          p.zmin + Mul(p.vr[2], p.zmax - p.zmin))

ConeMakeBound(p) ==
    WithZ(bounds2DSweepL(Reset, Mul(p.radius, S - p.vr[2]),
                         Mul(p.radius, S - p.vr[1]), TuMin(p), TuMax(p)),
          Mul(p.vr[1], p.height), Mul(p.vr[2], p.height))

SphereAV(p, t) ==
    DMix(Asin(Div(p.zmin, p.radius)), Asin(Div(p.zmax, p.radius)), t)

\* mutant: the equator test is left out
SphereRMaxNoEquator(aVMin, aVMax, radius) ==
    Max({Mul(Cos(aVMin), radius), Mul(Cos(aVMax), radius)})

\* rMax is the full radius when the v range straddles the equator
SphereRMax(aVMin, aVMax, radius) ==
    IF aVMin < 0 /\ aVMax > 0 THEN radius
    ELSE Max({Mul(Cos(aVMin), radius), Mul(Cos(aVMax), radius)})

SphereMakeBound(p) ==
    LET aVMin == SphereAV(p, p.vr[1])
        aVMax == SphereAV(p, p.vr[2])
        rMin  == Min({Mul(Cos(aVMin), p.radius), Mul(Cos(aVMax), p.radius)})
    IN  WithZ(bounds2DSweepL(Reset, rMin, SphereRMax(aVMin, aVMax, p.radius),
                             TuMin(p), TuMax(p)),
              Mul(Sin(aVMin), p.radius), Mul(Sin(aVMax), p.radius))

\* The end circles are evaluated with EvalP( 0, mVRange[0] ) and
\* EvalP( 0, mVRange[1] ): EvalP maps its arguments through the ranges again.
HyperboloidEnds(p) ==
    << HyperboloidEvalP(p, 0, p.vr[1]), HyperboloidEvalP(p, 0, p.vr[2]) >>

HyperboloidMakeBound(p) ==
    LET pMin == HyperboloidEnds(p)[1]
        pMax == HyperboloidEnds(p)[2]
        b    == bounds2DSweepP(bounds2DSweepP(Reset, pMin, TuMin(p), TuMax(p)),
                               pMax, TuMin(p), TuMax(p))
    IN  WithZ(b, Min({pMin[3], pMax[3]}), Max({pMin[3], pMax[3]}))

ParaboloidZV(p, t) == p.zmin + Mul(t, p.zmax - p.zmin)

ParaboloidMakeBound(p) ==
    LET scale == Div(p.rmax, Sqrt(p.zmax))
        zVMin == ParaboloidZV(p, p.vr[1])
        zVMax == ParaboloidZV(p, p.vr[2])
    IN  WithZ(bounds2DSweepL(Reset, Mul(Sqrt(zVMin), scale),
                             Mul(Sqrt(zVMax), scale), TuMin(p), TuMax(p)),
              zVMin, zVMax)

\* the cross-section arc is bounded first; its x extent, shifted by the
\* major radius, is the ring swept around z, its y extent the z extent
TorusMakeBound(p) ==
    LET a == bounds2DSweepR(Reset, p.minRadius, DMix(p.phimin, p.phimax, p.vr[1]),
                            DMix(p.phimin, p.phimax, p.vr[2]))
    IN  WithZ(bounds2DSweepL(Reset, a.lo[1] + p.maxRadius, a.hi[1] + p.maxRadius,
                             TuMin(p), TuMax(p)),
              a.lo[2], a.hi[2])

MakeBoundOf(p) ==
    CASE p.kind = "Cylinder"    -> CylinderMakeBound(p)
      [] p.kind = "Cone"        -> ConeMakeBound(p)
      [] p.kind = "Sphere"      -> SphereMakeBound(p)
      [] p.kind = "Hyperboloid" -> HyperboloidMakeBound(p)
      [] p.kind = "Paraboloid"  -> ParaboloidMakeBound(p)
      [] p.kind = "Torus"       -> TorusMakeBound(p)

\* the primitives whose MakeBound is exact
Boundable(p) ==
    /\ Whole(TuMin(p)) /\ Whole(TuMax(p))
    /\ p.kind = "Sphere" => Whole(SphereAV(p, p.vr[1])) /\ Whole(SphereAV(p, p.vr[2]))
    /\ p.kind = "Torus"  => \A t \in {p.vr[1], p.vr[2]} : Whole(DMix(p.phimin, p.phimax, t))
    /\ p.kind = "Paraboloid" =>
           IsSquare(p.zmax) /\ \A t \in {p.vr[1], p.vr[2]} : IsSquare(ParaboloidZV(p, t))
    /\ p.kind = "Hyperboloid" =>
           \A e \in {HyperboloidEnds(p)[1], HyperboloidEnds(p)[2]} : e[1] = 0 \/ e[2] = 0

-----------------------------------------------------------------------------
(***************************************************************************)
(* The hider's life of one primitive: MakeBound, splitting it into halves  *)
(* of its u or v range (InsertSplitted: a piece is the same quadric with a *)
(* sub-range), and dicing it with EvalP at grid points.  A behaviour       *)
(* follows one piece down the split tree; the behaviours together follow   *)
(* every piece.                                                            *)
(***************************************************************************)
ASSUME \A p \in Prims : Boundable(p)

VARIABLES
    prim,   \* the primitive or split-off piece
    bound,  \* <<>> before MakeBound, then <<its Bound>>
    pt      \* <<>> before the dicer evaluates a point, then <<the point>>

vars == <<prim, bound, pt>>

Kinds == {"Cylinder", "Cone", "Sphere", "Hyperboloid", "Paraboloid", "Torus"}
Grid == {k * (S \div GridSteps) : k \in 0..GridSteps}

\* half h of the range r
SplitRange(r, h) ==
    LET mid == (r[1] + r[2]) \div 2
    IN  IF h = 1 THEN <<r[1], mid>> ELSE <<mid, r[2]>>

Init ==
    /\ prim \in Prims
    /\ bound = <<>>
    /\ pt = <<>>

MakeBound ==
    /\ bound' = <<MakeBoundOf(prim)>>
    /\ UNCHANGED <<prim, pt>>

Dice ==
    \E uGrid, vGrid \in Grid :
        /\ Evaluable(prim, uGrid, vGrid)
        /\ pt' = <<EvalP(prim, uGrid, vGrid)>>
        /\ UNCHANGED <<prim, bound>>

Split ==
    \E dir \in {"ur", "vr"}, h \in 1..2 :
        LET child == [prim EXCEPT ![dir] = SplitRange(prim[dir], h)]
        IN  /\ prim.kind \in Splittable
            /\ prim[dir][2] - prim[dir][1] > MinWidth
            /\ Boundable(child)
            /\ prim' = child
            /\ bound' = <<>>
            /\ pt' = <<>>

Next == MakeBound \/ Dice \/ Split

Spec == Init /\ [][Next]_vars

-----------------------------------------------------------------------------
\* Every point EvalP puts on a primitive, whole or split, lies in the box
\* MakeBound gives that primitive: the hider culls and buckets by the box,
\* so a point outside it is lost from the buckets it falls in.
BoundContainsSurface ==
    bound # <<>> /\ pt # <<>> => InBox(pt[1], bound[1])

=============================================================================
