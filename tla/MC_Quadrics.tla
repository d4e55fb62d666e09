---------------------------- MODULE MC_Quadrics ----------------------------
(***************************************************************************)
(* One primitive of each quadric kind, as an RIB stream gives them, in the *)
(* units of Quadrics (S = 64 is 1.0 or a quarter turn).  The parameters    *)
(* put the surfaces' axis crossings, equators and end circles at exact     *)
(* values.                                                                 *)
(***************************************************************************)
EXTENDS Quadrics

Full == <<0, S>>

MCPrims ==
    { [kind |-> "Cylinder", radius |-> S, zmin |-> 0, zmax |-> S,
       tmax |-> 4 * S, ur |-> Full, vr |-> Full],
      [kind |-> "Cylinder", radius |-> S, zmin |-> -S, zmax |-> S,
       tmax |-> 2 * S, ur |-> Full, vr |-> Full],
      [kind |-> "Cone", height |-> S, radius |-> S,
       tmax |-> 4 * S, ur |-> Full, vr |-> Full],
      [kind |-> "Sphere", radius |-> S, zmin |-> -S, zmax |-> S,
       tmax |-> 4 * S, ur |-> Full, vr |-> Full],
      [kind |-> "Sphere", radius |-> S, zmin |-> 0, zmax |-> S,
       tmax |-> 3 * S, ur |-> Full, vr |-> Full],
      [kind |-> "Hyperboloid", p1 |-> <<S, 0, -S>>, p2 |-> <<S, 0, S>>,
       tmax |-> 4 * S, ur |-> Full, vr |-> Full],
      [kind |-> "Hyperboloid", p1 |-> <<S, 0, 0>>, p2 |-> <<-2 * S, 0, S>>,
       tmax |-> 4 * S, ur |-> Full, vr |-> Full],
      [kind |-> "Paraboloid", rmax |-> S, zmin |-> 0, zmax |-> 4 * S,
       tmax |-> 4 * S, ur |-> Full, vr |-> Full],
      [kind |-> "Torus", maxRadius |-> 2 * S, minRadius |-> S \div 2,
       phimin |-> 0, phimax |-> 4 * S, tmax |-> 4 * S, ur |-> Full, vr |-> Full],
      [kind |-> "Torus", maxRadius |-> 2 * S, minRadius |-> S \div 2,
       phimin |-> -2 * S, phimax |-> 2 * S, tmax |-> 3 * S, ur |-> Full, vr |-> Full] }

MCSplittable == {"Cylinder", "Cone", "Sphere", "Paraboloid", "Torus"}
MCSplittableAll == Kinds
MCMinWidth == S \div 4
=============================================================================
