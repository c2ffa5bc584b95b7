---------------------------- MODULE MotionProofs ----------------------------
(***************************************************************************)
(* Proofs about Motion, for a screen, a sprite, times and distances of any *)
(* size.                                                                   *)
(***************************************************************************)
EXTENDS Motion, TLAPS, FiniteSetTheorems, WellFoundedInduction

USE DEF serverVars, clientVars, history, Gathered, Grown

-----------------------------------------------------------------------------
(* A set of naturals has a smallest member: the intervals below its        *)
(* members are finite sets, and one is minimal.                            *)
LEMMA Smallest ==
    ASSUME NEW T \in SUBSET Nat, NEW t \in T
    PROVE  \E x \in T : \A y \in T : x <= y
<1> DEFINE S == 0 .. t
           B == {0 .. x : x \in {y \in T : y <= t}}
<1>1. IsFiniteSet(S)
  BY FS_Interval
<1>2. IsWellFoundedOn(StrictSubsetOrdering(S), SUBSET S)
  BY <1>1, FS_StrictSubsetOrderingWellFounded, FS_FiniteSubsetsOfFinite
<1>3. B \in SUBSET SUBSET S /\ B # {}
  OBVIOUS
<1>4. PICK b \in B : \A a \in B : ~(<<a, b>> \in StrictSubsetOrdering(S))
  <2> HIDE DEF B, S
  <2> QED
    BY <1>2, <1>3, WFMin
<1>5. PICK x \in T : x <= t /\ b = 0 .. x
  BY <1>4
<1>6. ASSUME NEW y \in T, ~(x <= y)
      PROVE  FALSE
  <2>1. 0 .. y \in B /\ 0 .. y \subseteq b /\ 0 .. y # b
    <3>1. y <= t /\ y < x
      BY <1>5, <1>6
    <3>2. x \in b /\ x \notin 0 .. y
      BY <1>5, <3>1
    <3> QED
      BY <1>5, <3>1, <3>2
  <2> QED
    BY <1>3, <1>4, <2>1 DEF StrictSubsetOrdering
<1> QED
  BY <1>5, <1>6

(* Induction up to n. *)
LEMMA UpTo ==
    ASSUME NEW n \in Nat, NEW T \in SUBSET (0 .. n), 0 \in T,
           \A j \in 1 .. n : j - 1 \in T => j \in T
    PROVE  T = 0 .. n
<1> DEFINE U == (0 .. n) \ T
<1> SUFFICES ASSUME U # {}
             PROVE  FALSE
  OBVIOUS
<1>1. PICK x \in U : \A y \in U : x <= y
  <2>1. U \in SUBSET Nat
    OBVIOUS
  <2> HIDE DEF U
  <2> QED
    BY <2>1, Smallest
<1>2. x \in 1 .. n /\ x - 1 \in 0 .. n /\ x - 1 \notin U
  BY <1>1
<1> QED
  BY <1>1, <1>2

-----------------------------------------------------------------------------
(* Division that rounds up. *)
LEMMA Quotient ==
    ASSUME NEW a \in Nat, NEW b \in Nat \ {0}
    PROVE  /\ a \div b \in Nat
           /\ b * (a \div b) <= a /\ a < b * ((a \div b) + 1)
  OBVIOUS

LEMMA Scaled ==
    ASSUME NEW d \in Nat, NEW a \in Nat, NEW b \in Nat, a <= b
    PROVE  d * a \in Nat /\ d * b \in Nat /\ d * a <= d * b
<1>1. d * (b - a) = d * b - d * a
  OBVIOUS
<1>2. b - a \in Nat
  OBVIOUS
<1>3. d * (b - a) \in Nat /\ d * a \in Nat /\ d * b \in Nat
  BY <1>2
<1> QED
  BY <1>1, <1>3

(* It is the least whole number of b that reaches a. *)
LEMMA Ceiling ==
    ASSUME NEW a \in Nat, NEW b \in Nat \ {0}
    PROVE  /\ CeilDiv(a, b) \in Nat
           /\ a <= b * CeilDiv(a, b)
           /\ \A q \in Nat : a <= b * q => CeilDiv(a, b) <= q
<1> DEFINE c == a + b - 1
           q == c \div b
<1>1. c \in Nat /\ CeilDiv(a, b) = q
  BY DEF CeilDiv
<1>2. q \in Nat /\ b * q <= c /\ c < b * (q + 1)
  <2> HIDE DEF c
  <2> QED
    BY <1>1, Quotient
<1> HIDE DEF q
<1>3. b * (q + 1) = b * q + b
  BY <1>2
<1>4. b * q \in Nat
  BY <1>2
<1>5. a <= b * q
  BY <1>2, <1>3, <1>4
<1>6. ASSUME NEW p \in Nat, a <= b * p, ~(q <= p)
      PROVE  FALSE
  <2>1. p + 1 <= q /\ p + 1 \in Nat
    BY <1>2, <1>6
  <2>2. b * (p + 1) <= b * q
    BY <1>2, <2>1, Scaled
  <2>3. b * (p + 1) = b * p + b /\ b * p \in Nat
    BY <1>6
  <2> QED
    BY <1>2, <1>4, <1>6, <2>2, <2>3
<1> QED
  BY <1>1, <1>2, <1>5, <1>6

(* A part of the gap is never more than the gap, and none of it is none.   *)
LEMMA Part ==
    ASSUME NEW r \in Nat, NEW g \in Nat, NEW b \in Nat \ {0}, r <= b
    PROVE  /\ CeilDiv(r * g, b) \in Nat /\ CeilDiv(r * g, b) <= g
           /\ CeilDiv(0 * g, b) = 0
<1>1. r * g \in Nat /\ r * g <= b * g
  <2>1. g * r \in Nat /\ g * r <= g * b
    BY Scaled
  <2>2. g * r = r * g /\ g * b = b * g
    OBVIOUS
  <2> QED
    BY <2>1, <2>2
<1>2. CeilDiv(r * g, b) \in Nat /\ CeilDiv(r * g, b) <= g
  <2> DEFINE a == r * g
  <2>1. a \in Nat /\ a <= b * g
    BY <1>1
  <2> HIDE DEF a
  <2>2. CeilDiv(a, b) \in Nat /\ CeilDiv(a, b) <= g
    BY <2>1, Ceiling
  <2> QED
    BY <2>2 DEF a
<1>3. CeilDiv(0 * g, b) = 0
  <2>1. 0 * g = 0 /\ 0 \in Nat /\ 0 <= b * 0
    OBVIOUS
  <2>2. CeilDiv(0, b) \in Nat /\ CeilDiv(0, b) <= 0
    BY <2>1, Ceiling
  <2> QED
    BY <2>1, <2>2
<1> QED
  BY <1>2, <1>3

(* From one ratio to the next it grows by at most the part of the time     *)
(* between them.                                                           *)
LEMMA Grows ==
    ASSUME NEW r \in Nat, NEW s \in Nat, NEW d \in Nat, NEW g \in Nat,
           NEW b \in Nat \ {0}, r <= s, s - r <= d
    PROVE  LET p == CeilDiv(r * g, b)
               q == CeilDiv(s * g, b)
           IN  p <= q /\ q - p <= CeilDiv(d * g, b)
<1> DEFINE R == r * g
           S == s * g
           D == d * g
           p == CeilDiv(R, b)
           q == CeilDiv(S, b)
           e == CeilDiv(D, b)
<1>1. R \in Nat /\ S \in Nat /\ D \in Nat /\ R <= S /\ S - R <= D
  <2>1. g * r \in Nat /\ g * s \in Nat /\ g * r <= g * s
    BY Scaled
  <2>2. s - r \in Nat /\ g * (s - r) <= g * d /\ g * d \in Nat
    <3>1. s - r \in Nat
      OBVIOUS
    <3>2. \A x \in Nat : x <= d => g * x <= g * d /\ g * d \in Nat
      BY Scaled
    <3> QED
      BY <3>1, <3>2
  <2>3. g * (s - r) = g * s - g * r
    OBVIOUS
  <2>4. g * r = r * g /\ g * s = s * g /\ g * d = d * g
    OBVIOUS
  <2> QED
    BY <2>1, <2>2, <2>3, <2>4
<1> HIDE DEF R, S, D
<1>2. /\ p \in Nat /\ R <= b * p /\ (\A x \in Nat : R <= b * x => p <= x)
      /\ q \in Nat /\ S <= b * q /\ (\A x \in Nat : S <= b * x => q <= x)
      /\ e \in Nat /\ D <= b * e
  BY <1>1, Ceiling
<1> HIDE DEF p, q, e
<1>3. p <= q
  <2>1. b * q \in Nat /\ R <= b * q
    BY <1>1, <1>2
  <2> QED
    BY <1>2, <2>1
<1>4. q <= p + e
  <2>1. b * (p + e) = b * p + b * e /\ b * p \in Nat /\ b * e \in Nat
    BY <1>2
  <2>2. S <= b * (p + e)
    BY <1>1, <1>2, <2>1
  <2>3. p + e \in Nat
    BY <1>2
  <2> QED
    BY <1>2, <2>2, <2>3
<1>5. q - p <= e
  BY <1>2, <1>4
<1> QED
  BY <1>3, <1>5 DEF p, q, e, R, S, D

-----------------------------------------------------------------------------
(* A way: the places an input after the other leads to. *)
Leads(p, in, n, f) ==
    f = [m \in 0 .. n |-> IF m = 0 THEN p ELSE Drive(f[m - 1], in[m])]

LEMMA LeadsSomewhere ==
    ASSUME NEW p, NEW in, NEW n \in Nat
    PROVE  \E f : Leads(p, in, n, f)
<1> DEFINE T == {k \in 0 .. n : \E f : Leads(p, in, k, f)}
<1>1. 0 \in T
  <2> DEFINE f == [m \in 0 .. 0 |-> p]
  <2>1. \A m \in 0 .. 0 : m = 0
    OBVIOUS
  <2>2. Leads(p, in, 0, f)
    BY <2>1 DEF Leads
  <2> QED
    BY <2>2
<1>2. ASSUME NEW k \in 1 .. n, k - 1 \in T
      PROVE  k \in T
  <2>1. PICK f : Leads(p, in, k - 1, f)
    BY <1>2
  <2> DEFINE last == Drive(f[k - 1], in[k])
             g == [m \in 0 .. k |-> IF m = k THEN last ELSE f[m]]
  <2>2. \A m \in 0 .. k :
           g[m] = IF m = 0 THEN p ELSE Drive(g[m - 1], in[m])
    <3> SUFFICES ASSUME NEW m \in 0 .. k
                 PROVE  g[m] = IF m = 0 THEN p ELSE Drive(g[m - 1], in[m])
      OBVIOUS
    <3>1. CASE m = k
      <4>1. m # 0 /\ m - 1 \in 0 .. k /\ m - 1 # k
        BY <3>1
      <4> QED
        BY <3>1, <4>1
    <3>2. CASE m # k
      <4>1. m \in 0 .. k - 1 /\ (m # 0 => m - 1 \in 0 .. k /\ m - 1 # k)
        BY <3>2
      <4>2. f[m] = IF m = 0 THEN p ELSE Drive(f[m - 1], in[m])
        BY <2>1, <4>1 DEF Leads
      <4> QED
        BY <3>2, <4>1, <4>2
    <3> QED
      BY <3>1, <3>2
  <2>3. g = [m \in 0 .. k |-> g[m]]
    OBVIOUS
  <2>4. Leads(p, in, k, g)
    <3> HIDE DEF g
    <3> QED
      BY <2>2, <2>3 DEF Leads
  <2> QED
    BY <2>4
<1>3. T = 0 .. n
  <2>1. T \in SUBSET (0 .. n)
    OBVIOUS
  <2> HIDE DEF T
  <2> QED
    BY <1>1, <1>2, <2>1, UpTo
<1> QED
  BY <1>3

(* DriveAll is the end of the way, whatever describes it. *)
LEMMA DrivenAlong ==
    ASSUME NEW p, NEW in, Len(in) \in Nat, NEW v, v[0] = p,
           \A n \in 1 .. Len(in) : v[n] = Drive(v[n - 1], in[n])
    PROVE  DriveAll(p, in) = v[Len(in)]
<1> DEFINE f == CHOOSE g : Leads(p, in, Len(in), g)
<1>1. DriveAll(p, in) = f[Len(in)]
  BY DEF DriveAll, Leads
<1>2. Leads(p, in, Len(in), f)
  BY LeadsSomewhere
<1> HIDE DEF f
<1>3. \A m \in 0 .. Len(in) :
         f[m] = IF m = 0 THEN p ELSE Drive(f[m - 1], in[m])
  BY <1>2 DEF Leads
<1> DEFINE T == {n \in 0 .. Len(in) : f[n] = v[n]}
<1>4. 0 \in T
  BY <1>3
<1>5. ASSUME NEW n \in 1 .. Len(in), n - 1 \in T
      PROVE  n \in T
  <2>1. n \in 0 .. Len(in) /\ n # 0 /\ f[n - 1] = v[n - 1]
    BY <1>5
  <2>2. f[n] = Drive(f[n - 1], in[n])
    BY <1>3, <2>1
  <2> QED
    BY <2>1, <2>2
<1>6. T = 0 .. Len(in)
  <2>1. T \in SUBSET (0 .. Len(in))
    OBVIOUS
  <2> HIDE DEF T
  <2> QED
    BY <1>4, <1>5, <2>1, UpTo
<1>7. Len(in) \in T
  BY <1>6
<1> QED
  BY <1>1, <1>7

(* One wrap keeps a tank on the screen or half a sprite outside, unless it *)
(* came too far.                                                           *)
LEMMA Wrapped ==
    ASSUME NEW p \in Int, NEW m \in Moves
    PROVE  /\ Wrap(p + m) \in Int /\ Home \in Positions /\ Positions \subseteq Int
           /\ p \in Positions /\ ~TooFar(m) => Wrap(p + m) \in Positions
<1>1. /\ Width \in Nat \ {0} /\ Size \in Nat /\ Size % 2 = 0 /\ m \in Int
  BY MotionAssumption
<1>2. Half \in Nat /\ Size = 2 * Half
  BY <1>1 DEF Half
<1>3. Home \in Positions /\ Positions \subseteq Int
  BY <1>1, <1>2 DEF Home, Positions
<1> DEFINE q == p + m
<1>4. q \in Int
  BY <1>1
<1>5. ASSUME p \in Positions, ~TooFar(m)
      PROVE  q >= -Half - (Width + Size) /\ q <= Width + Half + (Width + Size)
  BY <1>1, <1>2, <1>5 DEF Positions, TooFar
<1> HIDE DEF q
<1>6. Wrap(q) \in Int
  BY <1>1, <1>2, <1>4 DEF Wrap
<1>7. ASSUME p \in Positions, ~TooFar(m)
      PROVE  Wrap(q) \in Positions
  BY <1>1, <1>2, <1>4, <1>5, <1>7 DEF Wrap, Positions
<1> QED
  BY <1>3, <1>6, <1>7 DEF q

(* What an input does to a tank. *)
LEMMA DrivenInside ==
    ASSUME NEW p \in Int, NEW i \in Input
    PROVE  /\ Drive(p, i) \in Int
           /\ p \in Positions /\ ~TooFar(i.move) => Drive(p, i) \in Positions
<1>1. i.move \in Moves
  BY DEF Input
<1>2. /\ Wrap(p + i.move) \in Int /\ Home \in Positions /\ Home \in Int
      /\ p \in Positions /\ ~TooFar(i.move) => Wrap(p + i.move) \in Positions
  BY <1>1, Wrapped
<1> QED
  BY <1>2 DEF Drive

LEMMA DrivenAllInside ==
    ASSUME NEW S, S = Int \/ S = Positions, NEW p \in S, NEW in \in Seq(Input),
           S = Positions => \A k \in 1 .. Len(in) : ~TooFar(in[k].move)
    PROVE  DriveAll(p, in) \in S
<1>1. PICK f : Leads(p, in, Len(in), f)
  BY LeadsSomewhere
<1>2. Len(in) \in Nat /\ \A m \in 1 .. Len(in) : in[m] \in Input
  OBVIOUS
<1>3. \A m \in 0 .. Len(in) :
         f[m] = IF m = 0 THEN p ELSE Drive(f[m - 1], in[m])
  BY <1>1 DEF Leads
<1>4. f[0] = p /\ \A n \in 1 .. Len(in) : f[n] = Drive(f[n - 1], in[n])
  BY <1>2, <1>3
<1>5. DriveAll(p, in) = f[Len(in)]
  BY <1>2, <1>4, DrivenAlong
<1> DEFINE T == {n \in 0 .. Len(in) : f[n] \in S}
<1>6. 0 \in T
  BY <1>2, <1>4
<1>7. ASSUME NEW n \in 1 .. Len(in), n - 1 \in T
      PROVE  n \in T
  <2>1. f[n - 1] \in S /\ in[n] \in Input /\ (S = Positions => ~TooFar(in[n].move))
    BY <1>2, <1>7
  <2>2. f[n - 1] \in Int
    <3>1. Positions \subseteq Int
      BY MotionAssumption DEF Positions, Half
    <3> QED
      BY <2>1, <3>1
  <2>3. Drive(f[n - 1], in[n]) \in S
    BY <2>1, <2>2, DrivenInside
  <2> QED
    BY <1>4, <2>3
<1>8. T = 0 .. Len(in)
  <2>1. T \in SUBSET (0 .. Len(in))
    OBVIOUS
  <2> HIDE DEF T
  <2> QED
    BY <1>2, <1>6, <1>7, <2>1, UpTo
<1>9. Len(in) \in T
  BY <1>2, <1>8
<1> QED
  BY <1>5, <1>9

(* The client's replay of inputs, while none takes the tank over an edge.  *)
LEMMA ReplayedAlong ==
    ASSUME NEW p, NEW in, Len(in) \in Nat, NEW v, v[0] = p,
           \A n \in 1 .. Len(in) : v[n] = Replayed(v[n - 1], in[n])
    PROVE  Replay(p, in) = v[Len(in)]
<1> DEFINE Way(g) == g = [m \in 0 .. Len(in) |->
                             IF m = 0 THEN p ELSE Replayed(g[m - 1], in[m])]
           f == CHOOSE g : Way(g)
           w == [m \in 0 .. Len(in) |-> v[m]]
<1>1. Replay(p, in) = f[Len(in)]
  BY DEF Replay
<1>2. Way(w)
  <2>1. \A m \in 0 .. Len(in) :
           v[m] = IF m = 0 THEN p ELSE Replayed(w[m - 1], in[m])
    <3> SUFFICES ASSUME NEW m \in 0 .. Len(in), m # 0
                 PROVE  v[m] = Replayed(w[m - 1], in[m])
      OBVIOUS
    <3>1. m - 1 \in 0 .. Len(in) /\ m \in 1 .. Len(in)
      OBVIOUS
    <3> QED
      BY <3>1
  <2> QED
    BY <2>1
<1>3. Way(f)
  <2> HIDE DEF Way, w
  <2> QED
    BY <1>2
<1> HIDE DEF f
<1>4. \A m \in 0 .. Len(in) :
         f[m] = IF m = 0 THEN p ELSE Replayed(f[m - 1], in[m])
  BY <1>3
<1> HIDE DEF Way
<1> DEFINE T == {n \in 0 .. Len(in) : f[n] = v[n]}
<1>5. 0 \in T
  BY <1>4
<1>6. ASSUME NEW n \in 1 .. Len(in), n - 1 \in T
      PROVE  n \in T
  <2>1. n \in 0 .. Len(in) /\ n # 0 /\ f[n - 1] = v[n - 1]
    BY <1>6
  <2>2. f[n] = Replayed(f[n - 1], in[n])
    BY <1>4, <2>1
  <2> QED
    BY <2>1, <2>2
<1>7. T = 0 .. Len(in)
  <2>1. T \in SUBSET (0 .. Len(in))
    OBVIOUS
  <2> HIDE DEF T
  <2> QED
    BY <1>5, <1>6, <2>1, UpTo
<1>8. Len(in) \in T
  BY <1>7
<1> QED
  BY <1>1, <1>8

LEMMA ReplayedInt ==
    ASSUME NEW p \in Int, NEW in \in Seq(Input)
    PROVE  Replay(p, in) \in Int
<1> DEFINE Way(n, g) == g = [m \in 0 .. n |->
                          IF m = 0 THEN p ELSE Replayed(g[m - 1], in[m])]
           n0 == Len(in)
           S == {k \in 0 .. n0 : \E g : Way(k, g)}
<1>1. n0 \in Nat /\ \A m \in 1 .. n0 : in[m] \in Input
  OBVIOUS
<1>2. ASSUME NEW q \in Int, NEW i \in Input
      PROVE  Replayed(q, i) \in Int
  <2>1. Width \in Nat /\ i.move \in Int
    BY MotionAssumption DEF Input
  <2>2. q + i.move \in Int
    BY <2>1
  <2> QED
    BY <2>1, <2>2 DEF Replayed
<1> HIDE DEF n0
<1>3. 0 \in S
  <2> DEFINE f == [m \in 0 .. 0 |-> p]
  <2>1. \A m \in 0 .. 0 : m = 0
    OBVIOUS
  <2>2. Way(0, f)
    BY <2>1
  <2> HIDE DEF Way, f
  <2> QED
    BY <1>1, <2>2
<1>4. ASSUME NEW k \in 1 .. n0, k - 1 \in S
      PROVE  k \in S
  <2>1. PICK f : Way(k - 1, f)
    BY <1>4
  <2> DEFINE last == Replayed(f[k - 1], in[k])
             g == [m \in 0 .. k |-> IF m = k THEN last ELSE f[m]]
  <2>2. \A m \in 0 .. k :
           g[m] = IF m = 0 THEN p ELSE Replayed(g[m - 1], in[m])
    <3> SUFFICES ASSUME NEW m \in 0 .. k
                 PROVE  g[m] = IF m = 0 THEN p ELSE Replayed(g[m - 1], in[m])
      OBVIOUS
    <3>1. CASE m = k
      <4>1. m # 0 /\ m - 1 \in 0 .. k /\ m - 1 # k
        BY <3>1
      <4> QED
        BY <3>1, <4>1
    <3>2. CASE m # k
      <4>1. m \in 0 .. k - 1 /\ (m # 0 => m - 1 \in 0 .. k /\ m - 1 # k)
        BY <3>2
      <4>2. f[m] = IF m = 0 THEN p ELSE Replayed(f[m - 1], in[m])
        BY <2>1, <4>1
      <4> QED
        BY <3>2, <4>1, <4>2
    <3> QED
      BY <3>1, <3>2
  <2>3. g = [m \in 0 .. k |-> g[m]]
    OBVIOUS
  <2>4. Way(k, g)
    <3> HIDE DEF g
    <3> QED
      BY <2>2, <2>3
  <2> HIDE DEF Way, g
  <2> QED
    BY <2>4
<1>5. S = 0 .. n0
  <2>1. S \in SUBSET (0 .. n0)
    OBVIOUS
  <2> HIDE DEF S
  <2> QED
    BY <1>1, <1>3, <1>4, <2>1, UpTo
<1>6. PICK f : Way(n0, f)
  <2>1. n0 \in S
    <3> HIDE DEF S
    <3> QED
      BY <1>1, <1>5
  <2> HIDE DEF Way
  <2> QED
    BY <2>1
<1>7. \A m \in 0 .. n0 :
         f[m] = IF m = 0 THEN p ELSE Replayed(f[m - 1], in[m])
  BY <1>6
<1> HIDE DEF Way, S
<1>8. f[0] = p /\ \A n \in 1 .. n0 : f[n] = Replayed(f[n - 1], in[n])
  BY <1>1, <1>7
<1>9. Replay(p, in) = f[n0]
  BY <1>1, <1>8, ReplayedAlong DEF n0
<1> DEFINE T == {n \in 0 .. n0 : f[n] \in Int}
<1>10. 0 \in T
  BY <1>1, <1>8
<1>11. ASSUME NEW n \in 1 .. n0, n - 1 \in T
       PROVE  n \in T
  BY <1>1, <1>2, <1>8, <1>11
<1>12. T = 0 .. n0
  <2>1. T \in SUBSET (0 .. n0)
    OBVIOUS
  <2> HIDE DEF T
  <2> QED
    BY <1>1, <1>10, <1>11, <2>1, UpTo
<1>13. n0 \in T
  BY <1>1, <1>12
<1> QED
  BY <1>9, <1>13

-----------------------------------------------------------------------------
(* Ways through the client's queue. *)
Way(p, q, f) == f[0] = p /\ \A n \in 1 .. Len(q) : f[n] = Drive(f[n - 1], q[n])

LEMMA WayExists ==
    ASSUME NEW p, NEW q \in Seq(Input)
    PROVE  \E f : Way(p, q, f)
<1>1. Len(q) \in Nat
  OBVIOUS
<1>2. PICK f : Leads(p, q, Len(q), f)
  BY <1>1, LeadsSomewhere
<1>3. \A m \in 0 .. Len(q) :
         f[m] = IF m = 0 THEN p ELSE Drive(f[m - 1], q[m])
  BY <1>2 DEF Leads
<1>4. Way(p, q, f)
  BY <1>1, <1>3 DEF Way
<1> QED
  BY <1>4

LEMMA OnWay ==
    ASSUME NEW p, NEW q \in Seq(Input), NEW f, Way(p, q, f)
    PROVE  \A n \in 0 .. Len(q) : DriveAll(p, SubSeq(q, 1, n)) = f[n]
<1> SUFFICES ASSUME NEW n \in 0 .. Len(q)
             PROVE  DriveAll(p, SubSeq(q, 1, n)) = f[n]
  OBVIOUS
<1> DEFINE s == SubSeq(q, 1, n)
<1>1. Len(s) = n /\ n \in Nat /\ n <= Len(q) /\ Len(q) \in Nat
      /\ \A k \in 1 .. n : s[k] = q[k]
  OBVIOUS
<1> HIDE DEF s
<1>2. f[0] = p /\ \A k \in 1 .. Len(s) : f[k] = Drive(f[k - 1], s[k])
  BY <1>1 DEF Way
<1>3. DriveAll(p, s) = f[Len(s)]
  BY <1>1, <1>2, DrivenAlong
<1> QED
  BY <1>1, <1>3 DEF s

(* The rest of a way, from any place on it. *)
LEMMA RestOfWay ==
    ASSUME NEW p, NEW q \in Seq(Input), NEW f, Way(p, q, f),
           NEW m \in 0 .. Len(q), NEW s, Len(s) = Len(q) - m,
           \A k \in 1 .. Len(s) : s[k] = q[m + k]
    PROVE  DriveAll(f[m], s) = f[Len(q)]
<1> DEFINE v == [k \in 0 .. Len(s) |-> f[m + k]]
<1>1. Len(q) \in Nat /\ Len(s) \in Nat /\ m \in Nat /\ m + Len(s) = Len(q)
  OBVIOUS
<1>2. v[0] = f[m] /\ v[Len(s)] = f[Len(q)]
  BY <1>1
<1>3. ASSUME NEW k \in 1 .. Len(s)
      PROVE  v[k] = Drive(v[k - 1], s[k])
  <2>1. k \in 0 .. Len(s) /\ k - 1 \in 0 .. Len(s) /\ m + k \in 1 .. Len(q)
        /\ (m + k) - 1 = m + (k - 1)
    BY <1>1
  <2>2. f[m + k] = Drive(f[(m + k) - 1], q[m + k])
    BY <2>1 DEF Way
  <2>3. v[k] = f[m + k] /\ v[k - 1] = f[m + (k - 1)]
    BY <2>1
  <2>4. s[k] = q[m + k]
    OBVIOUS
  <2> HIDE DEF v
  <2> QED
    BY <2>1, <2>2, <2>3, <2>4
<1> HIDE DEF v
<1> QED
  BY <1>1, <1>2, <1>3, DrivenAlong

-----------------------------------------------------------------------------
(* What a client does to what it draws. *)
LEMMA Numbers ==
    /\ Width \in Nat \ {0} /\ Moves \subseteq Int /\ Speed \in Nat \ {0}
    /\ Half \in Nat /\ Home \in 0 .. Width /\ Home \in Positions
    /\ FrameTime \in Nat /\ TickRate \in Nat /\ MaxInputs \in Nat
    /\ Reads \subseteq Nat /\ TimeDeltas \subseteq Nat \ {0}
    /\ Blending \in Nat \ {0}
<1>1. /\ Width \in Nat \ {0} /\ Size \in Nat /\ Moves \subseteq Int
      /\ Speed \in Nat \ {0} /\ FrameTime \in Nat /\ TickRate \in Nat
      /\ MaxInputs \in Nat /\ Reads \subseteq Nat /\ TimeDeltas \subseteq Nat \ {0}
      /\ Blending \in Nat \ {0}
  BY MotionAssumption
<1>2. Half \in Nat /\ Home \in 0 .. Width
  BY <1>1 DEF Half, Home
<1>3. Home \in Positions
  BY <1>1, <1>2 DEF Positions
<1> QED
  BY <1>1, <1>2, <1>3

(* Where a tank may be is a number; the set only grows. *)
LEMMA InTankPlaces ==
    /\ TankPlaces \subseteq Int /\ Positions \subseteq TankPlaces
    /\ ~strayed => TankPlaces = Positions
    /\ strayed => TankPlaces = Int
<1>1. Positions \subseteq Int
  BY Numbers DEF Positions
<1> QED
  BY <1>1 DEF TankPlaces

LEMMA Blended1 ==
    ASSUME NEW r \in 0 .. Blending, NEW s \in Int, NEW c \in Int
    PROVE  /\ Blend(r, s, c) \in Int /\ Blend(0, s, c) = c
           /\ s \in Nat /\ c \in Nat => Blend(r, s, c) \in Nat
<1>1. Blending \in Nat \ {0} /\ r \in Nat /\ r <= Blending /\ 0 <= Blending /\ 0 \in Nat
  BY Numbers
<1>2. CASE s >= c
  <2> DEFINE g == s - c
             p == CeilDiv(r * g, Blending)
             z == CeilDiv(0 * g, Blending)
  <2>1. g \in Nat
    BY <1>2
  <2>2. p \in Nat /\ p <= g /\ z = 0
    <3> HIDE DEF g
    <3> QED
      BY <1>1, <2>1, Part
  <2>3. Blend(r, s, c) = c + p /\ Blend(0, s, c) = c + z
    BY <1>2 DEF Blend
  <2> HIDE DEF p, z
  <2> QED
    BY <2>1, <2>2, <2>3
<1>3. CASE ~(s >= c)
  <2> DEFINE g == c - s
             p == CeilDiv(r * g, Blending)
             z == CeilDiv(0 * g, Blending)
  <2>1. g \in Nat
    BY <1>3
  <2>2. p \in Nat /\ p <= g /\ z = 0
    <3> HIDE DEF g
    <3> QED
      BY <1>1, <2>1, Part
  <2>3. Blend(r, s, c) = c - p /\ Blend(0, s, c) = c - z
    BY <1>3 DEF Blend
  <2> HIDE DEF p, z
  <2> QED
    BY <2>1, <2>2, <2>3
<1> QED
  BY <1>2, <1>3

LEMMA Rebased1 ==
    ASSUME NEW m \in Movable, interpolate \in BOOLEAN
    PROVE  /\ Rebase(m) \in Movable
           /\ Rebase(m).server = m.server /\ Rebase(m).x = m.x
           /\ Rebase(m).serverVelocity = m.serverVelocity
           /\ interpolate => /\ Rebase(m).client = m.x
                             /\ Rebase(m).velocity = m.serverVelocity
                             /\ Rebase(m).ratio = 0
           /\ ~interpolate => Rebase(m) = m
<1>1. 0 \in 0 .. Blending
  BY Numbers
<1> QED
  BY <1>1 DEF Rebase, Movable

LEMMA Blended2 ==
    ASSUME NEW m \in Movable, NEW dt \in TimeDeltas
    PROVE  LET b == Blended(m, dt)
               s == m.server + m.serverVelocity * dt
               c == m.client + m.velocity * dt
           IN  /\ b \in Movable
               /\ b.server = s /\ b.client = c /\ s \in Int /\ c \in Int
               /\ b.serverVelocity = m.serverVelocity /\ b.velocity = m.velocity
               /\ b.x = IF kind = "turret" THEN Turret(m)
                        ELSE IF Opposite(s, c) THEN s ELSE Blend(m.ratio, s, c)
               /\ b.ratio >= m.ratio /\ b.ratio - m.ratio <= dt
<1> DEFINE b == Blended(m, dt)
           s == m.server + m.serverVelocity * dt
           c == m.client + m.velocity * dt
           x == IF kind = "turret" THEN Turret(m)
                ELSE IF Opposite(s, c) THEN s ELSE Blend(m.ratio, s, c)
           r == Smaller(m.ratio + dt, Blending)
<1>1. /\ m.server \in Int /\ m.client \in Int /\ m.serverVelocity \in Int
      /\ m.velocity \in Int /\ m.ratio \in 0 .. Blending /\ dt \in Nat
      /\ Blending \in Nat
  BY Numbers DEF Movable
<1>2. s \in Int /\ c \in Int
  BY <1>1
<1>3. r \in 0 .. Blending /\ r >= m.ratio /\ r - m.ratio <= dt
  BY <1>1 DEF Smaller
<1>4. b = [m EXCEPT !.server = s, !.client = c, !.x = x, !.ratio = r]
  BY DEF Blended
<1>5. x \in Int
  <2> HIDE DEF s, c
  <2>1. Turret(m) \in Int /\ Blend(m.ratio, s, c) \in Int
    BY <1>1, <1>2, Blended1 DEF Turret
  <2> QED
    BY <1>2, <2>1
<1> HIDE DEF b, s, c, x, r
<1>6. /\ b \in Movable /\ b.server = s /\ b.client = c /\ b.x = x /\ b.ratio = r
      /\ b.serverVelocity = m.serverVelocity /\ b.velocity = m.velocity
  BY <1>2, <1>3, <1>4, <1>5 DEF Movable
<1> QED
  BY <1>2, <1>3, <1>6 DEF b, s, c, x, r

-----------------------------------------------------------------------------
(* Sequences of packets. *)
LEMMA Appended ==
    ASSUME NEW S, NEW s \in Seq(S), NEW e \in S
    PROVE  /\ Append(s, e) \in Seq(S) /\ Len(Append(s, e)) = Len(s) + 1
           /\ \A k \in 1 .. Len(s) : Append(s, e)[k] = s[k]
           /\ Append(s, e)[Len(s) + 1] = e
           /\ DOMAIN s = 1 .. Len(s) /\ DOMAIN Append(s, e) = 1 .. Len(s) + 1
           /\ Len(s) \in Nat
  OBVIOUS

LEMMA Taken ==
    ASSUME NEW S, NEW s \in Seq(S), s # <<>>
    PROVE  /\ Tail(s) \in Seq(S) /\ Len(s) \in Nat /\ Len(s) >= 1
           /\ Len(Tail(s)) = Len(s) - 1 /\ Head(s) = s[1] /\ s[1] \in S
           /\ \A k \in 1 .. Len(s) - 1 : Tail(s)[k] = s[k + 1]
           /\ DOMAIN s = 1 .. Len(s) /\ DOMAIN Tail(s) = 1 .. Len(s) - 1
  OBVIOUS

LEMMA PacketTold ==
    ASSUME TypeOK, NEW type, Told(type)
    PROVE  /\ packets' \in Seq(Packet) /\ packets[1] \in Packet
           /\ Head(packets) = packets[1] /\ packets[1].type = type
           /\ Len(packets) \in Nat /\ Len(packets) >= 1
           /\ Len(packets') = Len(packets) - 1
           /\ DOMAIN packets = 1 .. Len(packets)
           /\ DOMAIN packets' = 1 .. Len(packets) - 1
           /\ \A k \in 1 .. Len(packets) - 1 : packets'[k] = packets[k + 1]
<1>1. packets \in Seq(Packet) /\ packets # <<>> /\ packets' = Tail(packets)
      /\ Head(packets).type = type
  BY DEF TypeOK, Told
<1> QED
  BY <1>1, Taken

(* What a tick sends. *)
LEMMA UpdateSent ==
    ASSUME TypeOK, NEW type \in {"movement", "turret", "missile"}
    PROVE  /\ Update(type) \in Packet /\ Update(type).type = type
           /\ Update(type).at = pos /\ Update(type).seq = latest
<1>1. pos \in Int /\ latest \in 0 .. MaxInputs
  <2>1. /\ kind \in {"hull", "turret", "missile", "own"} /\ latest \in 0 .. MaxInputs
        /\ kind \in {"hull", "own"} => pos \in TankPlaces
        /\ kind = "turret" => pos \in 0 .. Width
        /\ kind = "missile" => pos \in Nat
    BY DEF TypeOK
  <2>2. CASE kind \in {"hull", "own"}
    <3>1. pos \in TankPlaces
      BY <2>1, <2>2
    <3> QED
      BY <2>1, <3>1, InTankPlaces
  <2>3. CASE kind = "turret"
    BY <2>1, <2>3
  <2>4. CASE kind = "missile"
    BY <2>1, <2>4
  <2> QED
    BY <2>1, <2>2, <2>3, <2>4
<1> QED
  BY <1>1 DEF Update, Packet

LEMMA TickSent ==
    ASSUME TypeOK, Tick, life # "erased"
    PROVE  /\ packets' \in Seq(Packet) /\ Len(packets) \in Nat
           /\ DOMAIN packets = 1 .. Len(packets)
           /\ DOMAIN packets' = 1 .. Len(packets')
           /\ \A k \in 1 .. Len(packets) : packets'[k] = packets[k]
           /\ kind = "turret" =>
                 /\ Len(packets') = Len(packets) + 2
                 /\ packets'[Len(packets) + 1] = Update("movement")
                 /\ packets'[Len(packets) + 2] = Update("turret")
           /\ kind # "turret" =>
                 /\ Len(packets') = Len(packets) + 1
                 /\ packets'[Len(packets) + 1] =
                       Update(IF kind = "missile" THEN "missile" ELSE "movement")
<1>1. packets \in Seq(Packet) /\ packets' = packets \o Updates
  BY DEF TypeOK, Tick
<1>2. /\ Update("movement") \in Packet /\ Update("turret") \in Packet
      /\ Update("missile") \in Packet
  BY UpdateSent
<1>3. CASE kind = "turret"
  <2> DEFINE u == Update("movement")
             v == Update("turret")
             a == Append(packets, u)
  <2>1. Updates = <<u, v>>
    BY <1>3 DEF Updates
  <2> HIDE DEF u, v
  <2>2. u \in Packet /\ v \in Packet
    BY <1>2 DEF u, v
  <2>3. packets' = Append(Append(packets, u), v)
    BY <1>1, <2>1, <2>2
  <2>4. /\ a \in Seq(Packet) /\ Len(a) = Len(packets) + 1 /\ Len(packets) \in Nat
        /\ \A k \in 1 .. Len(packets) : a[k] = packets[k]
        /\ a[Len(packets) + 1] = u /\ DOMAIN packets = 1 .. Len(packets)
    BY <1>1, <2>2, Appended
  <2> HIDE DEF a
  <2>5. /\ packets' \in Seq(Packet) /\ Len(packets') = Len(a) + 1
        /\ \A k \in 1 .. Len(a) : packets'[k] = a[k]
        /\ packets'[Len(a) + 1] = v /\ DOMAIN packets' = 1 .. Len(a) + 1
    <3>1. a \in Seq(Packet) /\ packets' = Append(a, v)
      BY <2>3, <2>4 DEF a
    <3> QED
      BY <2>2, <3>1, Appended
  <2>6. /\ Len(packets') = Len(packets) + 2
        /\ packets'[Len(packets) + 2] = v
        /\ packets'[Len(packets) + 1] = u
        /\ \A k \in 1 .. Len(packets) : packets'[k] = packets[k]
    BY <2>4, <2>5
  <2> QED
    BY <1>3, <2>4, <2>5, <2>6 DEF u, v
<1>4. CASE kind # "turret"
  <2> DEFINE u == Update(IF kind = "missile" THEN "missile" ELSE "movement")
  <2>1. Updates = <<u>>
    BY <1>4 DEF Updates
  <2>2. u \in Packet
    BY <1>2
  <2> HIDE DEF u
  <2>3. packets' = Append(packets, u)
    BY <1>1, <2>1, <2>2
  <2>4. /\ packets' \in Seq(Packet) /\ Len(packets') = Len(packets) + 1
        /\ Len(packets) \in Nat /\ \A k \in 1 .. Len(packets) : packets'[k] = packets[k]
        /\ packets'[Len(packets) + 1] = u /\ DOMAIN packets = 1 .. Len(packets)
        /\ DOMAIN packets' = 1 .. Len(packets) + 1
    BY <1>1, <2>2, <2>3, Appended
  <2> QED
    BY <1>4, <2>4 DEF u
<1> QED
  BY <1>3, <1>4

-----------------------------------------------------------------------------
(* Types, places and pairs. *)
Typed == TypeOK /\ Places /\ Paired

LEMMA TypedInit == Init => Typed
<1> SUFFICES ASSUME Init
             PROVE  Typed
  OBVIOUS
<1>1. drawn \in Movable /\ drawn.server = Home /\ drawn.client = Home
      /\ drawn.serverVelocity = 0 /\ drawn.velocity = 0
      /\ (kind = "missile" => drawn.x = Home)
  <2>1. PICK p \in (IF kind = "hull" THEN Positions ELSE {Home}) :
           drawn = [server |-> Home, serverVelocity |-> 0, client |-> Home,
                    velocity |-> 0, x |-> p, ratio |-> Blending]
    BY DEF Init
  <2>2. p \in Int /\ Home \in Int /\ Blending \in 0 .. Blending
        /\ (kind = "missile" => p = Home)
    BY <2>1, Numbers DEF Positions
  <2> QED
    BY <2>1, <2>2 DEF Movable
<1>2. packets = <<>> /\ half = "no" /\ rebased = FALSE /\ Len(packets) = 0
      /\ DOMAIN packets = {}
  BY DEF Init
<1>3. kind \in {"hull", "turret", "missile", "own"}
  BY DEF Init
<1>4. TypeOK
  <2>1. /\ latest \in 0 .. MaxInputs /\ target \in 0 .. Width
        /\ timer \in 0 .. FrameTime /\ serverTimer \in 0 .. TickRate
        /\ nextId \in 1 .. MaxInputs + 1
    BY Numbers DEF Init
  <2>2. /\ inputs \in Seq(Input) /\ queue \in Seq(Input) /\ packets \in Seq(Packet)
    BY DEF Init
  <2>3. /\ kind \in {"hull", "own"} => pos \in TankPlaces
        /\ kind = "turret" => pos \in 0 .. Width
        /\ kind = "missile" => pos \in Nat
    BY Numbers, InTankPlaces DEF Init
  <2>4. /\ life \in {"alive", "dead", "erased"} /\ skipped \in BOOLEAN
        /\ respawning \in BOOLEAN /\ strayed \in BOOLEAN
        /\ at \in {"frame", "tick", "tick_after_frame"}
        /\ interpolate \in BOOLEAN /\ shown \in {"unknown", "alive", "dead"}
        /\ rebased \in BOOLEAN /\ half \in {"no", "waiting", "drawn"}
    BY DEF Init
  <2> QED
    BY <1>1, <1>3, <2>1, <2>2, <2>3, <2>4 DEF TypeOK
<1>5. Home \in Place
  BY <1>3, Numbers, InTankPlaces DEF Place
<1>6. Home \in Nat
  BY Numbers
<1>7. Places
  BY <1>1, <1>2, <1>5, <1>6 DEF Places
<1>8. Paired
  <2>1. 0 % 2 = 0
    OBVIOUS
  <2> QED
    BY <1>2, <2>1 DEF Paired
<1> QED
  BY <1>4, <1>7, <1>8 DEF Typed

(* The server's frames. *)
LEMMA FrameTyped ==
    ASSUME Typed, NEW d \in Reads, ReadForFrame(d)
    PROVE  Typed'
<1>1. TypeOK /\ d \in Nat
  BY Numbers DEF Typed
<1>2. UNCHANGED <<kind, target, serverTimer, packets, clientVars>>
  BY DEF ReadForFrame
<1>3. timer' \in 0 .. FrameTime /\ at' \in {"frame", "tick", "tick_after_frame"}
  <2>1. timer \in 0 .. FrameTime /\ FrameTime \in Nat
    BY <1>1, Numbers DEF TypeOK
  <2>2. CASE timer + d > FrameTime
    <3>1. timer' = 0 /\ at' = "tick_after_frame"
      BY <2>2 DEF ReadForFrame
    <3> QED
      BY <2>1, <3>1
  <2>3. CASE ~(timer + d > FrameTime)
    <3>1. timer' = timer + d /\ at' = "tick"
      BY <2>3 DEF ReadForFrame
    <3> QED
      BY <1>1, <2>1, <2>3, <3>1
  <2> QED
    BY <2>2, <2>3
<1> DEFINE Good ==
              /\ kind \in {"hull", "own"} => pos' \in TankPlaces'
              /\ kind = "turret" => pos' \in 0 .. Width
              /\ kind = "missile" => pos' \in Nat
              /\ life' \in {"alive", "dead", "erased"}
              /\ inputs' \in Seq(Input) /\ latest' \in 0 .. MaxInputs
              /\ skipped' \in BOOLEAN /\ respawning' \in BOOLEAN
              /\ strayed' \in BOOLEAN /\ (strayed => strayed')
<1>4. Good
  <2>1. /\ kind \in {"hull", "turret", "missile", "own"}
        /\ kind \in {"hull", "own"} => pos \in TankPlaces
        /\ kind = "turret" => pos \in 0 .. Width
        /\ kind = "missile" => pos \in Nat
        /\ life \in {"alive", "dead", "erased"}
        /\ inputs \in Seq(Input) /\ latest \in 0 .. MaxInputs
        /\ skipped \in BOOLEAN /\ timer \in Nat
        /\ respawning \in BOOLEAN /\ strayed \in BOOLEAN
    <3>1. timer \in 0 .. FrameTime /\ FrameTime \in Nat
      BY <1>1, Numbers DEF TypeOK
    <3> QED
      BY <1>1, <3>1 DEF TypeOK
  <2>2. CASE UNCHANGED <<pos, life, inputs, latest, respawning, skipped, strayed>>
    <3>1. TankPlaces' = TankPlaces
      BY <2>2 DEF TankPlaces
    <3> QED
      BY <2>1, <2>2, <3>1
  <2>3. ASSUME Move(timer + d)
        PROVE  Good
    <3>1. CASE kind = "hull"
      <4>1. MoveHull
        BY <2>3, <3>1 DEF Move, MoveOwn
      <4>2. PICK m \in Moves : /\ pos' \in {Wrap(pos + m), Home}
                               /\ strayed' = (strayed \/ TooFar(m))
        BY <4>1 DEF MoveHull
      <4>3. strayed' \in BOOLEAN /\ (strayed => strayed')
        BY <2>1, <4>2 DEF TooFar
      <4>4. pos' \in TankPlaces'
        <5>1. pos \in Int /\ pos \in TankPlaces
          BY <2>1, <3>1, InTankPlaces
        <5>2. /\ Wrap(pos + m) \in Int /\ Home \in Positions /\ Home \in Int
              /\ pos \in Positions /\ ~TooFar(m) => Wrap(pos + m) \in Positions
          BY <5>1, Wrapped
        <5>3. TankPlaces' = IF strayed' THEN Int ELSE Positions
          BY DEF TankPlaces
        <5>4. CASE strayed'
          BY <4>2, <5>2, <5>3, <5>4
        <5>5. CASE ~strayed'
          <6>1. ~TooFar(m) /\ ~strayed
            BY <4>2, <5>5
          <6>2. pos \in Positions
            BY <5>1, <6>1, InTankPlaces
          <6> QED
            BY <4>2, <5>2, <5>3, <5>5, <6>1, <6>2
        <5> QED
          BY <5>4, <5>5
      <4>5. UNCHANGED <<life, inputs, latest, respawning, skipped>>
        BY <4>1 DEF MoveHull
      <4> QED
        BY <2>1, <3>1, <4>3, <4>4, <4>5
    <3>2. CASE kind = "turret"
      <4>1. /\ pos' \in 0 .. Width
            /\ UNCHANGED <<life, inputs, latest, respawning, skipped, strayed>>
        BY <2>3, <3>2 DEF Move, MoveHull, MoveOwn
      <4> QED
        BY <2>1, <3>2, <4>1
    <3>3. CASE kind = "own"
      <4>1. MoveOwn /\ UNCHANGED <<life, skipped>>
        BY <2>3, <3>3 DEF Move, MoveHull, MoveOwn
      <4>2. CASE respawning
        <5>1. respawning' \in BOOLEAN /\ UNCHANGED <<pos, inputs, latest, strayed>>
          BY <4>1, <4>2 DEF MoveOwn
        <5>2. TankPlaces' = TankPlaces
          BY <5>1 DEF TankPlaces
        <5> QED
          BY <2>1, <3>3, <4>1, <5>1, <5>2
      <4>3. CASE ~respawning
        <5> DEFINE far == \E k \in DOMAIN inputs : TooFar(inputs[k].move)
                   hit == \E k \in DOMAIN inputs : inputs[k].fatal
        <5>1. /\ pos' = DriveAll(pos, inputs) /\ inputs' = <<>>
              /\ latest' = IF inputs = <<>> THEN latest ELSE inputs[Len(inputs)].id
              /\ respawning' = hit /\ strayed' = (strayed \/ far)
          BY <4>1, <4>3 DEF MoveOwn
        <5>2. /\ hit \in BOOLEAN /\ far \in BOOLEAN
              /\ ~far => \A k \in 1 .. Len(inputs) : ~TooFar(inputs[k].move)
          BY <2>1
        <5> HIDE DEF far, hit
        <5>3. /\ respawning' \in BOOLEAN /\ strayed' \in BOOLEAN
              /\ (strayed => strayed')
          BY <2>1, <5>1, <5>2
        <5>4. pos' \in TankPlaces'
          <6>1. pos \in TankPlaces /\ pos \in Int
            BY <2>1, <3>3, InTankPlaces
          <6>2. TankPlaces' = IF strayed' THEN Int ELSE Positions
            BY DEF TankPlaces
          <6>3. CASE strayed'
            <7>1. Int # Positions
              <8>1. Width + Half + 1 \in Int /\ Width + Half + 1 \notin Positions
                BY Numbers DEF Positions
              <8> QED
                BY <8>1
            <7>2. DriveAll(pos, inputs) \in Int
              BY <2>1, <6>1, <7>1, DrivenAllInside
            <7> QED
              BY <5>1, <6>2, <6>3, <7>2
          <6>4. CASE ~strayed'
            <7>1. ~strayed /\ ~far
              BY <5>1, <6>4
            <7>2. pos \in Positions
              BY <6>1, <7>1, InTankPlaces
            <7>3. DriveAll(pos, inputs) \in Positions
              BY <2>1, <5>2, <7>1, <7>2, DrivenAllInside
            <7> QED
              BY <5>1, <6>2, <6>4, <7>3
          <6> QED
            BY <6>3, <6>4
        <5>5. latest' \in 0 .. MaxInputs
          <6>1. CASE inputs = <<>>
            BY <2>1, <5>1, <6>1
          <6>2. CASE inputs # <<>>
            <7>1. inputs[Len(inputs)] \in Input
              BY <2>1, <6>2
            <7>2. inputs[Len(inputs)].id \in 1 .. MaxInputs
              BY <7>1 DEF Input
            <7> QED
              BY <5>1, <6>2, <7>2, Numbers
          <6> QED
            BY <6>1, <6>2
        <5>6. inputs' \in Seq(Input)
          BY <5>1
        <5> QED
          BY <2>1, <3>3, <4>1, <5>3, <5>4, <5>5, <5>6
      <4> QED
        BY <4>2, <4>3
    <3>4. CASE kind = "missile"
      <4>1. UNCHANGED <<inputs, latest>> /\ respawning' \in BOOLEAN
            /\ strayed' \in BOOLEAN /\ (strayed => strayed')
        <5>1. UNCHANGED <<inputs, latest, respawning, strayed>>
          BY <2>3, <3>4 DEF Move, MoveHull, MoveOwn
        <5> QED
          BY <2>1, <5>1
      <4>2. CASE life = "erased"
        <5>1. UNCHANGED <<pos, life, skipped>>
          BY <2>3, <3>4, <4>2 DEF Move, MoveHull, MoveOwn
        <5>2. pos' \in Nat /\ life' \in {"alive", "dead", "erased"}
              /\ skipped' \in BOOLEAN
          BY <2>1, <3>4, <5>1
        <5> QED
          BY <2>1, <3>4, <4>1, <5>2
      <4>3. CASE life # "erased"
        <5>1. PICK tested \in BOOLEAN : Fly(timer + d, tested)
          BY <2>3, <3>4, <4>3 DEF Move, MoveHull, MoveOwn
        <5>2. pos' = pos + Speed * (timer + d)
          BY <5>1 DEF Fly
        <5>3. timer + d \in Nat /\ Speed \in Nat
          BY <1>1, <2>1, Numbers
        <5>4. Speed * (timer + d) \in Nat
          BY <5>3
        <5>5. pos' \in Nat
          BY <2>1, <3>4, <5>2, <5>4
        <5>6. life' \in {"alive", "dead", "erased"}
          BY <2>1, <5>1 DEF Fly
        <5>7. skipped' \in BOOLEAN
          BY <5>1 DEF Fly
        <5> QED
          BY <2>1, <3>4, <4>1, <5>5, <5>6, <5>7
      <4> QED
        BY <4>2, <4>3
    <3> QED
      BY <2>1, <3>1, <3>2, <3>3, <3>4
  <2> QED
    BY <2>2, <2>3 DEF ReadForFrame
<1>5. TypeOK'
  <2>1. UNCHANGED <<kind, target, serverTimer, packets, interpolate, shown, drawn,
                    queue, nextId, rebased, half>>
    BY <1>2
  <2> QED
    BY <1>1, <1>3, <1>4, <2>1 DEF TypeOK
<1>6. Places'
  <2>1. Place \subseteq Place'
    <3>1. TankPlaces \subseteq TankPlaces'
      <4>1. CASE strayed'
        <5>1. TankPlaces' = Int
          BY <4>1 DEF TankPlaces
        <5> QED
          BY <5>1, InTankPlaces
      <4>2. CASE ~strayed'
        <5>1. ~strayed
          BY <1>4, <4>2
        <5> QED
          BY <4>2, <5>1 DEF TankPlaces
      <4> QED
        BY <4>1, <4>2
    <3> QED
      BY <1>2, <3>1 DEF Place
  <2> QED
    BY <1>2, <2>1 DEF Typed, Places
<1>7. Paired'
  BY <1>2 DEF Typed, Paired
<1> QED
  BY <1>5, <1>6, <1>7 DEF Typed

(* The server's ticks. *)
LEMMA TickTyped ==
    ASSUME Typed, NEW d \in Reads, ReadForTick(d)
    PROVE  Typed'
<1>1. TypeOK /\ d \in Nat
  BY Numbers DEF Typed
<1>2. UNCHANGED <<kind, pos, inputs, latest, target, skipped, respawning, strayed,
                  timer, clientVars>>
      /\ at' = "frame"
  BY DEF ReadForTick
<1>3. serverTimer' \in 0 .. TickRate
  <2>1. serverTimer \in 0 .. TickRate /\ TickRate \in Nat
    BY <1>1, Numbers DEF TypeOK
  <2>2. CASE serverTimer + d > TickRate
    <3>1. serverTimer' = 0
      BY <2>2 DEF ReadForTick
    <3> QED
      BY <2>1, <3>1
  <2>3. CASE ~(serverTimer + d > TickRate)
    <3>1. serverTimer' = serverTimer + d
      BY <2>3 DEF ReadForTick
    <3> QED
      BY <1>1, <2>1, <2>3, <3>1
  <2> QED
    BY <2>2, <2>3
<1>4. packets \in Seq(Packet) /\ life \in {"alive", "dead", "erased"}
      /\ kind \in {"hull", "turret", "missile", "own"}
  BY <1>1 DEF TypeOK
<1>5. life' \in {"alive", "dead", "erased"}
      /\ (UNCHANGED packets \/ (Tick /\ life # "erased"))
  <2>1. CASE Tick
    BY <1>4, <2>1 DEF Tick
  <2>2. CASE UNCHANGED <<packets, life>>
    BY <1>4, <2>2
  <2> QED
    BY <2>1, <2>2 DEF ReadForTick
<1>6. CASE UNCHANGED packets
  <2>1. TypeOK'
    BY <1>1, <1>2, <1>3, <1>5, <1>6 DEF TypeOK, TankPlaces
  <2>2. Places' /\ Paired'
    BY <1>2, <1>6 DEF Typed, Places, Place, TankPlaces, Paired
  <2> QED
    BY <2>1, <2>2 DEF Typed
<1>7. CASE Tick /\ life # "erased"
  <2> DEFINE n == Len(packets)
             hullType == IF kind = "missile" THEN "missile" ELSE "movement"
  <2>1. /\ packets' \in Seq(Packet) /\ n \in Nat
        /\ DOMAIN packets = 1 .. n /\ DOMAIN packets' = 1 .. Len(packets')
        /\ \A k \in 1 .. n : packets'[k] = packets[k]
        /\ kind = "turret" => /\ Len(packets') = n + 2
                              /\ packets'[n + 1] = Update("movement")
                              /\ packets'[n + 2] = Update("turret")
        /\ kind # "turret" => /\ Len(packets') = n + 1
                              /\ packets'[n + 1] = Update(hullType)
    BY <1>1, <1>7, TickSent
  <2>2. \A type \in {"movement", "turret", "missile"} :
           Update(type).type = type /\ Update(type).at = pos
    BY <1>1, UpdateSent
  <2>3. pos \in Place
    BY <1>1 DEF TypeOK, Place
  <2>4. TypeOK'
    <3>1. packets' \in Seq(Packet) /\ life' \in {"alive", "dead", "erased"}
          /\ serverTimer' \in 0 .. TickRate
          /\ at' \in {"frame", "tick", "tick_after_frame"}
      BY <1>2, <1>3, <1>5, <2>1
    <3>2. TankPlaces' = TankPlaces
      BY <1>2 DEF TankPlaces
    <3> QED
      BY <1>1, <1>2, <3>1, <3>2 DEF TypeOK
  <2> HIDE DEF n
  <2>5. ASSUME NEW k \in DOMAIN packets'
        PROVE  /\ packets'[k].at \in Place
               /\ packets'[k].type = CASE kind = "missile" -> "missile"
                     [] kind = "turret" /\ (Len(packets') - k) % 2 = 0 -> "turret"
                     [] OTHER -> "movement"
    <3>1. CASE k \in 1 .. n
      <4>1. k \in DOMAIN packets /\ packets'[k] = packets[k]
        BY <2>1, <3>1
      <4>2. packets[k].at \in Place
            /\ packets[k].type = CASE kind = "missile" -> "missile"
                  [] kind = "turret" /\ (n - k) % 2 = 0 -> "turret"
                  [] OTHER -> "movement"
        BY <4>1 DEF Typed, Places, Paired, n
      <4>3. kind = "turret" => (n - k) % 2 = (Len(packets') - k) % 2
        BY <2>1, <3>1
      <4> QED
        BY <1>4, <4>1, <4>2, <4>3
    <3>2. CASE kind = "turret" /\ ~(k \in 1 .. n)
      <4>1. k = n + 1 \/ k = n + 2
        BY <2>1, <3>2
      <4>2. CASE k = n + 1
        <5>1. Len(packets') - k = 1 /\ 1 % 2 # 0
          BY <2>1, <3>2, <4>2
        <5> QED
          BY <2>1, <2>2, <2>3, <3>2, <4>2, <5>1
      <4>3. CASE k = n + 2
        <5>1. Len(packets') - k = 0 /\ 0 % 2 = 0
          BY <2>1, <3>2, <4>3
        <5> QED
          BY <2>1, <2>2, <2>3, <3>2, <4>3, <5>1
      <4> QED
        BY <4>1, <4>2, <4>3
    <3>3. CASE kind # "turret" /\ ~(k \in 1 .. n)
      <4>1. k = n + 1
        BY <2>1, <3>3
      <4>2. packets'[k] = Update(hullType)
        BY <2>1, <3>3, <4>1
      <4> QED
        BY <2>2, <2>3, <3>3, <4>2
    <3> QED
      BY <3>1, <3>2, <3>3
  <2>6. Place' = Place
    BY <1>2 DEF Place, TankPlaces
  <2>7. Places'
    BY <1>2, <2>5, <2>6 DEF Typed, Places
  <2>8. Paired'
    <3>1. kind = "turret" => /\ half = "no" => Len(packets') % 2 = 0
                             /\ half = "waiting" => Len(packets') % 2 = 1
      <4>1. kind = "turret" => Len(packets') % 2 = n % 2
        BY <2>1
      <4> QED
        BY <4>1 DEF Typed, Paired, n
    <3>2. kind # "turret" => half = "no"
      BY DEF Typed, Paired
    <3>3. kind' = kind /\ half' = half
      BY <1>2
    <3> QED
      BY <2>5, <3>1, <3>2, <3>3 DEF Paired
  <2> QED
    BY <2>4, <2>7, <2>8 DEF Typed
<1> QED
  BY <1>5, <1>6, <1>7

(* Reading a packet takes the first one off.  What is left of the packets  *)
(* keeps its places, and its types while the parity of the rest is right.  *)
LEMMA RestKept ==
    ASSUME Typed, NEW type, Told(type), kind' = kind, strayed' = strayed
    PROVE  /\ \A k \in DOMAIN packets' : packets'[k].at \in Place'
           /\ \A k \in DOMAIN packets' :
                 packets'[k].type = CASE kind = "missile" -> "missile"
                    [] kind = "turret" /\ (Len(packets') - k) % 2 = 0 -> "turret"
                    [] OTHER -> "movement"
           /\ packets[1].at \in Place
           /\ type = CASE kind = "missile" -> "missile"
                       [] kind = "turret" /\ (Len(packets) - 1) % 2 = 0 -> "turret"
                       [] OTHER -> "movement"
<1>1. /\ packets[1].type = type
      /\ Len(packets) \in Nat /\ Len(packets) >= 1
      /\ Len(packets') = Len(packets) - 1
      /\ DOMAIN packets = 1 .. Len(packets)
      /\ DOMAIN packets' = 1 .. Len(packets) - 1
      /\ \A k \in 1 .. Len(packets) - 1 : packets'[k] = packets[k + 1]
  BY PacketTold DEF Typed
<1>2. /\ \A k \in DOMAIN packets : packets[k].at \in Place
      /\ \A k \in DOMAIN packets :
            packets[k].type = CASE kind = "missile" -> "missile"
               [] kind = "turret" /\ (Len(packets) - k) % 2 = 0 -> "turret"
               [] OTHER -> "movement"
  BY DEF Typed, Places, Paired
<1>3. Place' = Place
  BY DEF Place, TankPlaces
<1>4. 1 \in DOMAIN packets
  BY <1>1
<1>5. ASSUME NEW k \in DOMAIN packets'
      PROVE  /\ k + 1 \in DOMAIN packets /\ packets'[k] = packets[k + 1]
             /\ Len(packets') - k = Len(packets) - (k + 1)
  BY <1>1
<1>6. \A k \in DOMAIN packets' : packets'[k].at \in Place'
  BY <1>2, <1>3, <1>5
<1>7. ASSUME NEW k \in DOMAIN packets'
      PROVE  packets'[k].type = CASE kind = "missile" -> "missile"
                [] kind = "turret" /\ (Len(packets') - k) % 2 = 0 -> "turret"
                [] OTHER -> "movement"
  BY <1>2, <1>5
<1> QED
  BY <1>1, <1>2, <1>4, <1>6, <1>7

(* What is drawn of it. *)
LEMMA DrawnFields ==
    ASSUME Typed
    PROVE  /\ drawn \in Movable /\ drawn.server \in Int /\ drawn.client \in Int
           /\ drawn.serverVelocity \in Int /\ drawn.velocity \in Int
           /\ drawn.x \in Int /\ drawn.ratio \in 0 .. Blending
           /\ interpolate \in BOOLEAN
<1>1. drawn \in Movable /\ interpolate \in BOOLEAN
  BY DEF Typed, TypeOK
<1> QED
  BY <1>1 DEF Movable

LEMMA PacketAt ==
    ASSUME Typed, NEW type, Told(type)
    PROVE  packets[1].at \in Int
<1>1. packets[1] \in Packet
  BY PacketTold DEF Typed
<1> QED
  BY <1>1 DEF Packet

LEMMA TankTyped ==
    ASSUME Typed, UpdateTankMovement
    PROVE  Typed'
<1>1. Told("movement") /\ kind' = kind /\ strayed' = strayed /\ kind \in {"hull", "turret"}
  BY DEF UpdateTankMovement
<1>2. /\ packets' \in Seq(Packet)
      /\ Head(packets) = packets[1]
      /\ Len(packets) \in Nat /\ Len(packets) >= 1
      /\ Len(packets') = Len(packets) - 1
  BY <1>1, PacketTold DEF Typed
<1>3. /\ \A k \in DOMAIN packets' : packets'[k].at \in Place'
      /\ \A k \in DOMAIN packets' :
            packets'[k].type = CASE kind = "missile" -> "missile"
               [] kind = "turret" /\ (Len(packets') - k) % 2 = 0 -> "turret"
               [] OTHER -> "movement"
      /\ packets[1].at \in Place
      /\ "movement" = CASE kind = "missile" -> "missile"
                        [] kind = "turret" /\ (Len(packets) - 1) % 2 = 0 -> "turret"
                        [] OTHER -> "movement"
  BY <1>1, RestKept
<1>4. /\ drawn \in Movable /\ drawn.ratio \in 0 .. Blending /\ interpolate \in BOOLEAN
      /\ packets[1].at \in Int
  BY <1>1, DrawnFields, PacketAt
<1>5. UNCHANGED <<kind, pos, life, inputs, latest, target, timer, serverTimer, at,
                  skipped, respawning, strayed, interpolate, shown, queue, nextId>>
      /\ rebased' = interpolate
  BY DEF UpdateTankMovement
<1>6. drawn.server \in Place /\ drawn.serverVelocity = 0 /\ drawn.velocity = 0
  BY <1>1 DEF Typed, Places
<1>7. /\ drawn' \in Movable /\ drawn'.server \in Place
      /\ drawn'.serverVelocity = 0 /\ drawn'.velocity = 0
  <2>1. CASE kind = "hull"
    <3> DEFINE m == [drawn EXCEPT !.server = packets[1].at]
    <3>1. drawn' = Rebase(m)
      BY <1>2, <2>1 DEF UpdateTankMovement
    <3>2. m \in Movable /\ m.server = packets[1].at /\ m.serverVelocity = 0
          /\ m.velocity = 0
      BY <1>4, <1>6 DEF Movable
    <3> HIDE DEF m
    <3>3. /\ Rebase(m) \in Movable /\ Rebase(m).server = m.server
          /\ Rebase(m).serverVelocity = m.serverVelocity
          /\ interpolate => Rebase(m).velocity = m.serverVelocity
          /\ ~interpolate => Rebase(m) = m
      BY <1>4, <3>2, Rebased1
    <3> QED
      BY <1>3, <1>4, <3>1, <3>2, <3>3
  <2>2. CASE kind = "turret"
    <3>1. drawn' = [drawn EXCEPT !.ratio = IF interpolate THEN 0 ELSE @]
      BY <2>2 DEF UpdateTankMovement
    <3>2. (IF interpolate THEN 0 ELSE drawn.ratio) \in 0 .. Blending
      BY <1>4, Numbers
    <3> QED
      BY <1>4, <1>6, <3>1, <3>2 DEF Movable
  <2> QED
    BY <1>1, <2>1, <2>2
<1>8. half' \in {"no", "waiting", "drawn"}
      /\ (kind = "turret" => half' = "waiting") /\ (kind # "turret" => half' = "no")
  <2>1. half \in {"no", "waiting", "drawn"} /\ (kind # "turret" => half = "no")
    BY DEF Typed, TypeOK, Paired
  <2> QED
    BY <1>1, <2>1 DEF UpdateTankMovement
<1>9. TypeOK'
  <2>1. rebased' \in BOOLEAN
    BY <1>4, <1>5
  <2> QED
    BY <1>2, <1>5, <1>7, <1>8, <2>1 DEF Typed, TypeOK, TankPlaces
<1>10. Places'
  <2>1. Place' = Place
    BY <1>1 DEF Place, TankPlaces
  <2> QED
    BY <1>1, <1>3, <1>7, <2>1 DEF Places
<1>11. Paired'
  <2>1. kind = "turret" => Len(packets') % 2 = 1
    <3>1. kind = "turret" => (Len(packets) - 1) % 2 # 0
      BY <1>3
    <3>2. (Len(packets) - 1) % 2 \in {0, 1}
      BY <1>2
    <3> QED
      BY <1>2, <3>1, <3>2
  <2> QED
    BY <1>1, <1>3, <1>8, <2>1 DEF Paired
<1> QED
  BY <1>9, <1>10, <1>11 DEF Typed

LEMMA TurretTyped ==
    ASSUME Typed, UpdateTankTurret
    PROVE  Typed' /\ kind = "turret" /\ half # "no"
<1>1. Told("turret") /\ kind' = kind /\ strayed' = strayed
  BY DEF UpdateTankTurret
<1>2. /\ packets' \in Seq(Packet)
      /\ Head(packets) = packets[1]
      /\ Len(packets) \in Nat /\ Len(packets) >= 1
      /\ Len(packets') = Len(packets) - 1
  BY <1>1, PacketTold DEF Typed
<1>3. /\ \A k \in DOMAIN packets' : packets'[k].at \in Place'
      /\ \A k \in DOMAIN packets' :
            packets'[k].type = CASE kind = "missile" -> "missile"
               [] kind = "turret" /\ (Len(packets') - k) % 2 = 0 -> "turret"
               [] OTHER -> "movement"
      /\ packets[1].at \in Place
      /\ "turret" = CASE kind = "missile" -> "missile"
                      [] kind = "turret" /\ (Len(packets) - 1) % 2 = 0 -> "turret"
                      [] OTHER -> "movement"
  BY <1>1, RestKept
<1>4. kind = "turret" /\ (Len(packets) - 1) % 2 = 0
  BY <1>3
<1>5. Len(packets') % 2 = 0 /\ Len(packets) % 2 = 1
  BY <1>2, <1>4
<1>6. half # "no" /\ half \in {"no", "waiting", "drawn"}
  BY <1>4, <1>5 DEF Typed, TypeOK, Paired
<1>7. half' = (IF half = "waiting" THEN "no" ELSE half)
  BY DEF UpdateTankTurret
<1>8. half' \in {"no", "drawn"}
  BY <1>6, <1>7
<1>9. /\ drawn \in Movable /\ drawn.client \in Int /\ drawn.x \in Int
      /\ interpolate \in BOOLEAN /\ packets[1].at \in Int
      /\ rebased \in BOOLEAN
      /\ drawn.serverVelocity = 0 /\ drawn.velocity = 0
  BY <1>1, <1>4, DrawnFields, PacketAt DEF Typed, TypeOK, Places
<1>10. /\ drawn' \in Movable /\ drawn'.server = packets[1].at
       /\ drawn'.serverVelocity = 0 /\ drawn'.velocity = 0
  <2>1. drawn' = [drawn EXCEPT !.server = packets[1].at,
                               !.client = IF interpolate THEN drawn.x ELSE @]
    BY <1>2 DEF UpdateTankTurret
  <2>2. (IF interpolate THEN drawn.x ELSE drawn.client) \in Int
    BY <1>9
  <2> QED
    BY <1>9, <2>1, <2>2 DEF Movable
<1>11. UNCHANGED <<kind, pos, life, inputs, latest, target, timer, serverTimer, at,
                   skipped, respawning, strayed, interpolate, shown, queue, nextId>>
  BY DEF UpdateTankTurret
<1>12. TypeOK'
  <2>1. rebased' \in BOOLEAN
    BY DEF UpdateTankTurret
  <2> QED
    BY <1>2, <1>8, <1>10, <1>11, <2>1 DEF Typed, TypeOK, TankPlaces
<1>13. Places'
  <2>1. Place' = Place
    BY <1>1 DEF Place, TankPlaces
  <2> QED
    BY <1>3, <1>4, <1>10, <1>11, <2>1 DEF Places
<1>14. Paired'
  BY <1>3, <1>4, <1>5, <1>8, <1>11 DEF Paired
<1> QED
  BY <1>4, <1>6, <1>12, <1>13, <1>14 DEF Typed

LEMMA MissileTyped ==
    ASSUME Typed, UpdateMissile
    PROVE  Typed' /\ kind = "missile"
<1>1. Told("missile") /\ kind' = kind /\ strayed' = strayed
  BY DEF UpdateMissile
<1>2. /\ packets' \in Seq(Packet) /\ Head(packets) = packets[1]
  BY <1>1, PacketTold DEF Typed
<1>3. /\ \A k \in DOMAIN packets' : packets'[k].at \in Place'
      /\ \A k \in DOMAIN packets' :
            packets'[k].type = CASE kind = "missile" -> "missile"
               [] kind = "turret" /\ (Len(packets') - k) % 2 = 0 -> "turret"
               [] OTHER -> "movement"
      /\ packets[1].at \in Place
      /\ "missile" = CASE kind = "missile" -> "missile"
                       [] kind = "turret" /\ (Len(packets) - 1) % 2 = 0 -> "turret"
                       [] OTHER -> "movement"
  BY <1>1, RestKept
<1>4. kind = "missile"
  BY <1>3
<1>5. Place = Nat /\ Place' = Nat
  BY <1>1, <1>4 DEF Place
<1>6. packets[1].at \in Nat /\ Speed \in Nat /\ Blending \in 0 .. Blending
  BY <1>3, <1>5, Numbers
<1>7. /\ drawn \in Movable /\ interpolate \in BOOLEAN
      /\ drawn.client \in Nat /\ drawn.x \in Nat
      /\ drawn.serverVelocity \in Nat /\ drawn.velocity \in Nat
  BY <1>4, DrawnFields DEF Typed, Places
<1>8. /\ drawn' \in Movable /\ drawn'.server \in Nat
      /\ drawn'.client \in Nat /\ drawn'.x \in Nat
      /\ drawn'.serverVelocity \in Nat /\ drawn'.velocity \in Nat
      /\ shown' \in {"unknown", "alive", "dead"} /\ rebased' \in BOOLEAN
  <2>1. CASE shown = "unknown"
    <3>1. drawn' = NewMissile /\ shown' = "alive" /\ rebased' = FALSE
      BY <2>1 DEF UpdateMissile
    <3> DEFINE n == packets[1].at
    <3>2. n \in Int /\ n \in Nat /\ Speed \in Int /\ 0 \in Int
      BY <1>6
    <3> HIDE DEF n
    <3>3. drawn' = [server |-> n, serverVelocity |-> 0, client |-> n,
                    velocity |-> Speed, x |-> n, ratio |-> Blending]
      BY <1>2, <3>1 DEF NewMissile, n
    <3>4. drawn' \in Movable
      BY <1>6, <3>2, <3>3 DEF Movable
    <3>5. drawn'.server = n /\ drawn'.client = n /\ drawn'.x = n
          /\ drawn'.serverVelocity = 0 /\ drawn'.velocity = Speed
      BY <3>3
    <3>6. rebased' \in BOOLEAN /\ shown' \in {"unknown", "alive", "dead"}
      BY <3>1
    <3> QED
      BY <3>2, <3>4, <3>5, <3>6, 0 \in Nat, <1>6
  <2>2. CASE shown # "unknown"
    <3> DEFINE m == [drawn EXCEPT !.server = packets[1].at, !.serverVelocity = Speed]
    <3>1. drawn' = Rebase(m) /\ rebased' = interpolate
          /\ shown' = (IF Head(packets).alive THEN "alive" ELSE "dead")
      BY <1>2, <2>2 DEF UpdateMissile
    <3>2. m \in Movable /\ m.server = packets[1].at /\ m.serverVelocity = Speed
          /\ m.client = drawn.client /\ m.x = drawn.x /\ m.velocity = drawn.velocity
      <4> DEFINE n == packets[1].at
      <4>1. n \in Int /\ Speed \in Int
        BY <1>6
      <4> HIDE DEF n
      <4>2. m = [drawn EXCEPT !.server = n, !.serverVelocity = Speed]
        BY DEF n
      <4> HIDE DEF m
      <4>3. m \in Movable /\ m.server = n /\ m.serverVelocity = Speed
            /\ m.client = drawn.client /\ m.x = drawn.x
            /\ m.velocity = drawn.velocity
        BY <1>7, <4>1, <4>2 DEF Movable
      <4> QED
        BY <4>3 DEF n
    <3> HIDE DEF m
    <3>3. /\ Rebase(m) \in Movable
          /\ Rebase(m).server = m.server /\ Rebase(m).x = m.x
          /\ Rebase(m).serverVelocity = m.serverVelocity
          /\ interpolate => /\ Rebase(m).client = m.x
                            /\ Rebase(m).velocity = m.serverVelocity
          /\ ~interpolate => Rebase(m) = m
      BY <1>7, <3>2, Rebased1
    <3> QED
      BY <1>6, <1>7, <3>1, <3>2, <3>3
  <2> QED
    BY <2>1, <2>2
<1>9. UNCHANGED <<kind, pos, life, inputs, latest, target, timer, serverTimer, at,
                  skipped, respawning, strayed, interpolate, queue, nextId, half>>
  BY DEF UpdateMissile
<1>10. TypeOK'
  BY <1>2, <1>8, <1>9 DEF Typed, TypeOK, TankPlaces
<1>11. Places'
  BY <1>1, <1>3, <1>4, <1>5, <1>8 DEF Places
<1>12. Paired'
  BY <1>3, <1>4, <1>9 DEF Typed, Paired
<1> QED
  BY <1>4, <1>10, <1>11, <1>12 DEF Typed

LEMMA OwnTyped ==
    ASSUME Typed, UpdateOwnTank
    PROVE  Typed'
<1>1. Told("movement") /\ kind' = kind /\ strayed' = strayed /\ kind = "own"
  BY DEF UpdateOwnTank
<1>2. /\ packets' \in Seq(Packet) /\ Head(packets) = packets[1]
  BY <1>1, PacketTold DEF Typed
<1>3. /\ \A k \in DOMAIN packets' : packets'[k].at \in Place'
      /\ \A k \in DOMAIN packets' :
            packets'[k].type = CASE kind = "missile" -> "missile"
               [] kind = "turret" /\ (Len(packets') - k) % 2 = 0 -> "turret"
               [] OTHER -> "movement"
      /\ packets[1].at \in Place
  BY <1>1, RestKept
<1>4. /\ drawn \in Movable /\ packets[1].at \in Int
      /\ drawn.serverVelocity = 0 /\ drawn.velocity = 0
  BY <1>1, DrawnFields, PacketAt DEF Typed, Places
<1>5. /\ drawn' \in Movable /\ drawn'.server = packets[1].at
      /\ drawn'.serverVelocity = 0 /\ drawn'.velocity = 0
  <2>1. drawn' = [drawn EXCEPT !.server = packets[1].at]
    BY <1>2 DEF UpdateOwnTank
  <2> QED
    BY <1>4, <2>1 DEF Movable
<1>6. queue' \in Seq(Input)
  <2>1. PICK n \in 0 .. Len(queue) : queue' = SubSeq(queue, n + 1, Len(queue))
    BY DEF UpdateOwnTank
  <2>2. queue \in Seq(Input)
    BY DEF Typed, TypeOK
  <2> QED
    BY <2>1, <2>2
<1>7. UNCHANGED <<kind, pos, life, inputs, latest, target, timer, serverTimer, at,
                  skipped, respawning, strayed,
                  interpolate, shown, nextId, rebased, half>>
  BY DEF UpdateOwnTank
<1>8. TypeOK'
  BY <1>2, <1>5, <1>6, <1>7 DEF Typed, TypeOK, TankPlaces
<1>9. Places'
  <2>1. Place' = Place
    BY <1>1 DEF Place, TankPlaces
  <2> QED
    BY <1>1, <1>3, <1>5, <2>1 DEF Places
<1>10. Paired'
  BY <1>1, <1>3, <1>7 DEF Typed, Paired
<1> QED
  BY <1>8, <1>9, <1>10 DEF Typed

(* A frame of anything but the player's tank. *)
LEMMA FrameDrawn ==
    ASSUME Typed, NEW dt \in TimeDeltas, Frame(dt)
    PROVE  LET s == drawn.server + drawn.serverVelocity * dt
               c == drawn.client + drawn.velocity * dt
           IN  /\ drawn' \in Movable /\ s \in Int /\ c \in Int
               /\ drawn'.server = s /\ drawn'.client = c
               /\ drawn'.serverVelocity = drawn.serverVelocity
               /\ drawn'.velocity = drawn.velocity
               /\ ~Opposite(s, c) => drawn'.x = Blend(drawn.ratio, s, c)
               /\ drawn'.ratio >= drawn.ratio /\ drawn'.ratio - drawn.ratio <= dt
               /\ s \in Place /\ (kind # "missile" => s = drawn.server /\ c = drawn.client)
               /\ kind = "missile" => c \in Nat /\ ~Opposite(s, c)
<1> DEFINE s == drawn.server + drawn.serverVelocity * dt
           c == drawn.client + drawn.velocity * dt
<1>1. /\ drawn \in Movable /\ drawn.server \in Int /\ drawn.client \in Int
      /\ drawn.serverVelocity \in Int /\ drawn.velocity \in Int
      /\ drawn.ratio \in 0 .. Blending /\ dt \in Nat
  BY DrawnFields, Numbers
<1>2. /\ drawn' = Blended(drawn, dt) /\ kind # "own"
      /\ kind \in {"hull", "turret", "missile", "own"}
  BY DEF Frame, Typed, TypeOK
<1>3. /\ drawn' \in Movable
      /\ drawn'.server = s /\ drawn'.client = c /\ s \in Int /\ c \in Int
      /\ drawn'.serverVelocity = drawn.serverVelocity
      /\ drawn'.velocity = drawn.velocity
      /\ drawn'.x = IF kind = "turret" THEN Turret(drawn)
                    ELSE IF Opposite(s, c) THEN s ELSE Blend(drawn.ratio, s, c)
      /\ drawn'.ratio >= drawn.ratio /\ drawn'.ratio - drawn.ratio <= dt
  BY <1>1, <1>2, Blended2
<1>4. drawn.server \in Place
  BY DEF Typed, Places
<1>5. CASE kind # "missile"
  <2>1. drawn.serverVelocity = 0 /\ drawn.velocity = 0
    BY <1>5 DEF Typed, Places
  <2>2. s = drawn.server /\ c = drawn.client
    BY <1>1, <2>1
  <2> HIDE DEF s, c
  <2>3. ASSUME kind = "turret"
        PROVE  drawn'.x = Blend(drawn.ratio, s, c)
    BY <1>3, <2>2, <2>3 DEF Turret
  <2>4. ASSUME kind = "hull"
        PROVE  ~Opposite(s, c) => drawn'.x = Blend(drawn.ratio, s, c)
    BY <1>3, <2>4
  <2>5. ~Opposite(s, c) => drawn'.x = Blend(drawn.ratio, s, c)
    BY <1>2, <1>5, <2>3, <2>4
  <2> QED
    BY <1>3, <1>4, <1>5, <2>2, <2>5 DEF s, c
<1>6. CASE kind = "missile"
  <2>1. /\ drawn.server \in Nat /\ drawn.client \in Nat
        /\ drawn.serverVelocity \in Nat /\ drawn.velocity \in Nat /\ Place = Nat
    BY <1>4, <1>6 DEF Typed, Places, Place
  <2>2. s \in Nat /\ c \in Nat
    <3>1. drawn.serverVelocity * dt \in Nat /\ drawn.velocity * dt \in Nat
      BY <1>1, <2>1
    <3> QED
      BY <2>1, <3>1
  <2> HIDE DEF s, c
  <2>3. ~Opposite(s, c)
    BY <2>2, Numbers DEF Opposite
  <2> QED
    BY <1>3, <1>6, <2>1, <2>2, <2>3 DEF s, c
<1> QED
  BY <1>5, <1>6

LEMMA DrawTyped ==
    ASSUME Typed, NEW dt \in TimeDeltas, Frame(dt)
    PROVE  Typed'
<1> DEFINE s == drawn.server + drawn.serverVelocity * dt
           c == drawn.client + drawn.velocity * dt
<1>1. /\ drawn' \in Movable
      /\ drawn'.server = s /\ drawn'.client = c /\ s \in Int /\ c \in Int
      /\ drawn'.serverVelocity = drawn.serverVelocity
      /\ drawn'.velocity = drawn.velocity
      /\ ~Opposite(s, c) => drawn'.x = Blend(drawn.ratio, s, c)
      /\ s \in Place /\ (kind = "missile" => c \in Nat /\ ~Opposite(s, c))
  BY FrameDrawn
<1> HIDE DEF s, c
<1>2. UNCHANGED <<kind, pos, life, inputs, latest, target, timer, serverTimer, at,
                  skipped, respawning, strayed,
                  packets, interpolate, shown, queue, nextId, rebased>>
  BY DEF Frame
<1>3. /\ half' \in {"no", "waiting", "drawn"}
      /\ half' = (IF half = "waiting" THEN "drawn" ELSE half)
      /\ half \in {"no", "waiting", "drawn"}
  BY DEF Frame, Typed, TypeOK
<1>4. TypeOK'
  BY <1>1, <1>2, <1>3 DEF Typed, TypeOK, TankPlaces
<1>5. Places'
  <2>1. Place' = Place
    BY <1>2 DEF Place, TankPlaces
  <2>2. drawn'.server \in Place /\ \A k \in DOMAIN packets : packets[k].at \in Place
    BY <1>1 DEF Typed, Places
  <2>3. kind # "missile" => drawn'.serverVelocity = 0 /\ drawn'.velocity = 0
    BY <1>1 DEF Typed, Places
  <2>4. CASE kind = "missile"
    <3>1. drawn.serverVelocity \in Nat /\ drawn.velocity \in Nat
      BY <2>4 DEF Typed, Places
    <3>2. s \in Nat /\ c \in Nat /\ drawn.ratio \in 0 .. Blending
      BY <1>1, <2>4, DrawnFields DEF Place
    <3>3. Blend(drawn.ratio, s, c) \in Nat /\ drawn'.x = Blend(drawn.ratio, s, c)
      BY <1>1, <2>4, <3>2, Blended1
    <3> QED
      BY <1>1, <1>2, <2>1, <2>2, <2>4, <3>1, <3>2, <3>3 DEF Places
  <2> QED
    BY <1>2, <2>1, <2>2, <2>3, <2>4 DEF Places
<1>6. Paired'
  BY <1>2, <1>3 DEF Typed, Paired
<1> QED
  BY <1>4, <1>5, <1>6 DEF Typed

(* The frames of the player's own tank. *)
LEMMA Predicted ==
    ASSUME Typed
    PROVE  /\ Predict \in Movable /\ Predict.server = drawn.server
           /\ Predict.serverVelocity = drawn.serverVelocity
           /\ Predict.velocity = drawn.velocity
<1>1. /\ drawn \in Movable /\ drawn.server \in Int /\ drawn.x \in Int
      /\ interpolate \in BOOLEAN /\ queue \in Seq(Input)
  BY DrawnFields DEF Typed, TypeOK
<1> DEFINE p == Replay(drawn.server, queue)
           x == IF interpolate THEN Smooth(drawn.x, p) ELSE p
<1>2. p \in Int
  BY <1>1, ReplayedInt
<1> HIDE DEF p
<1>3. x \in Int
  <2>1. CASE p >= drawn.x
    <3> DEFINE g == p - drawn.x
    <3>1. g \in Nat
      BY <1>1, <1>2, <2>1
    <3> HIDE DEF g
    <3>2. CeilDiv(g, 5) \in Nat
      BY <3>1, Ceiling
    <3>3. Smooth(drawn.x, p) = drawn.x + CeilDiv(g, 5)
      BY <2>1 DEF Smooth, g
    <3> QED
      BY <1>1, <1>2, <3>2, <3>3
  <2>2. CASE ~(p >= drawn.x)
    <3> DEFINE g == drawn.x - p
    <3>1. g \in Nat
      BY <1>1, <1>2, <2>2
    <3> HIDE DEF g
    <3>2. CeilDiv(g, 5) \in Nat
      BY <3>1, Ceiling
    <3>3. Smooth(drawn.x, p) = drawn.x - CeilDiv(g, 5)
      BY <2>2 DEF Smooth, g
    <3> QED
      BY <1>1, <1>2, <3>2, <3>3
  <2> QED
    BY <2>1, <2>2
<1>4. Predict = [drawn EXCEPT !.client = p, !.x = x]
  BY DEF Predict, p
<1> HIDE DEF x
<1> QED
  BY <1>1, <1>2, <1>3, <1>4 DEF Movable

LEMMA OwnDrawTyped ==
    ASSUME Typed, kind = "own", drawn' = Predict,
           UNCHANGED <<kind, pos, life, latest, target, skipped, respawning, strayed,
                       timer, serverTimer,
                       at, packets, interpolate, shown, rebased, half>>,
           queue' \in Seq(Input), inputs' \in Seq(Input),
           nextId' \in 1 .. MaxInputs + 1
    PROVE  Typed'
<1>1. /\ drawn' \in Movable /\ drawn'.server = drawn.server
      /\ drawn'.serverVelocity = drawn.serverVelocity
      /\ drawn'.velocity = drawn.velocity
  BY Predicted
<1>2. TypeOK'
  BY <1>1 DEF Typed, TypeOK, TankPlaces
<1>3. Place' = Place
  BY DEF Place, TankPlaces
<1>4. Places'
  BY <1>1, <1>3 DEF Typed, Places
<1>5. Paired'
  BY DEF Typed, Paired
<1> QED
  BY <1>2, <1>4, <1>5 DEF Typed

(* A new input goes to both sides. *)
LEMMA InputMade ==
    ASSUME Typed, NEW t \in Moves, NEW z \in BOOLEAN, OwnFrame(t, z)
    PROVE  LET i == [id |-> nextId, move |-> t, fatal |-> z]
           IN  /\ i \in Input /\ queue' = Append(queue, i)
               /\ inputs' = Append(inputs, i) /\ nextId' = nextId + 1
               /\ queue \in Seq(Input) /\ inputs \in Seq(Input)
               /\ queue' \in Seq(Input) /\ inputs' \in Seq(Input)
               /\ nextId \in Nat /\ nextId' \in 1 .. MaxInputs + 1
<1> DEFINE i == [id |-> nextId, move |-> t, fatal |-> z]
<1>1. /\ nextId \in 1 .. MaxInputs + 1 /\ nextId <= MaxInputs /\ MaxInputs \in Nat
      /\ queue \in Seq(Input) /\ inputs \in Seq(Input)
  BY Numbers DEF Typed, TypeOK, OwnFrame
<1>2. i \in Input
  BY <1>1 DEF Input
<1>3. queue' = Append(queue, i) /\ inputs' = Append(inputs, i) /\ nextId' = nextId + 1
  BY DEF OwnFrame
<1> HIDE DEF i
<1>4. queue' \in Seq(Input) /\ inputs' \in Seq(Input)
  BY <1>1, <1>2, <1>3
<1> QED
  BY <1>1, <1>2, <1>3, <1>4 DEF i

LEMMA TypedKept == Typed /\ [Next]_vars => Typed'
<1> SUFFICES ASSUME Typed, [Next]_vars
             PROVE  Typed'
  OBVIOUS
<1>1. ASSUME NEW d \in Reads, ReadForFrame(d)
      PROVE  Typed'
  BY <1>1, FrameTyped
<1>2. ASSUME NEW d \in Reads, ReadForTick(d)
      PROVE  Typed'
  BY <1>2, TickTyped
<1>3. CASE UpdateTankMovement
  BY <1>3, TankTyped
<1>4. CASE UpdateTankTurret
  BY <1>4, TurretTyped
<1>5. CASE UpdateMissile
  BY <1>5, MissileTyped
<1>6. CASE UpdateOwnTank
  BY <1>6, OwnTyped
<1>7. CASE PressThree
  <2>1. /\ UNCHANGED <<kind, pos, life, inputs, latest, target, timer, serverTimer,
                       at, skipped, respawning, strayed,
                       packets, shown, drawn, queue, nextId, rebased,
                       half>>
        /\ interpolate' \in BOOLEAN
    BY <1>7 DEF PressThree
  <2>2. TypeOK'
    BY <2>1 DEF Typed, TypeOK, TankPlaces
  <2>3. Places' /\ Paired'
    BY <2>1 DEF Typed, Places, Place, TankPlaces, Paired
  <2> QED
    BY <2>2, <2>3 DEF Typed
<1>8. CASE OwnFrameOnly
  <2>1. kind = "own" /\ drawn' = Predict /\ UNCHANGED <<queue, inputs, nextId>>
        /\ UNCHANGED <<kind, pos, life, latest, target, skipped, respawning, strayed,
                       timer, serverTimer,
                       at, packets, interpolate, shown, rebased, half>>
    BY <1>8 DEF OwnFrameOnly
  <2>2. queue' \in Seq(Input) /\ inputs' \in Seq(Input)
        /\ nextId' \in 1 .. MaxInputs + 1
    BY <2>1 DEF Typed, TypeOK
  <2> QED
    BY <2>1, <2>2, OwnDrawTyped
<1>9. ASSUME NEW dt \in TimeDeltas, Frame(dt)
      PROVE  Typed'
  BY <1>9, DrawTyped
<1>10. ASSUME NEW t \in Moves, NEW z \in BOOLEAN, OwnFrame(t, z)
       PROVE  Typed'
  <2>1. queue' \in Seq(Input) /\ inputs' \in Seq(Input)
        /\ nextId' \in 1 .. MaxInputs + 1
    BY <1>10, InputMade
  <2>2. kind = "own" /\ drawn' = Predict
        /\ UNCHANGED <<kind, pos, life, latest, target, skipped, respawning, strayed,
                       timer, serverTimer,
                       at, packets, interpolate, shown, rebased, half>>
    BY <1>10 DEF OwnFrame
  <2> QED
    BY <2>1, <2>2, OwnDrawTyped
<1>11. CASE UNCHANGED vars
  <2>1. UNCHANGED <<kind, pos, life, inputs, latest, target, timer, serverTimer, at,
                    skipped, respawning, strayed,
                    packets, interpolate, shown, drawn, queue, nextId,
                    rebased, half>>
    BY <1>11 DEF vars
  <2>2. TypeOK'
    BY <2>1 DEF Typed, TypeOK, TankPlaces
  <2>3. Places' /\ Paired'
    BY <2>1 DEF Typed, Places, Place, TankPlaces, Paired
  <2> QED
    BY <2>2, <2>3 DEF Typed
<1> QED
  BY <1>1, <1>2, <1>3, <1>4, <1>5, <1>6, <1>7, <1>8, <1>9, <1>10, <1>11
     DEF Next, Loop, Receive

-----------------------------------------------------------------------------
(* The state of the blending. *)
LEMMA AShare ==
    ASSUME NEW r \in Nat, NEW s \in Nat, NEW d \in TimeDeltas, r <= s, s - r <= d
    PROVE  r \in 0 .. s /\ \E e \in TimeDeltas : s - r <= e
  OBVIOUS

LEMMA SomeDelta == \E d \in TimeDeltas : d \in Nat
<1>1. \E d \in TimeDeltas : \A e \in TimeDeltas : e <= d
  BY MotionAssumption
<1> QED
  BY <1>1, Numbers

(* A blending that has just begun is where it was drawn. *)
LEMMA BlendBegun ==
    ASSUME NEW x \in Int, NEW s \in Int
    PROVE  \E r \in 0 .. 0 : /\ \E d \in TimeDeltas : 0 - r <= d
                             /\ x = Blend(r, s, x)
<1>1. Blend(0, s, x) = x
  <2>1. 0 \in 0 .. Blending
    BY Numbers
  <2> QED
    BY <2>1, Blended1
<1>2. \E d \in TimeDeltas : 0 - 0 <= d
  BY SomeDelta
<1> QED
  BY <1>1, <1>2

LEMMA RebasedBlends ==
    ASSUME NEW m \in Movable, interpolate, drawn' = Rebase(m), kind' = kind,
           kind # "own", half' = "no"
    PROVE  Blends'
<1>1. /\ drawn'.server = m.server /\ drawn'.x = m.x /\ drawn'.client = m.x
      /\ drawn'.serverVelocity = m.serverVelocity
      /\ drawn'.velocity = m.serverVelocity /\ drawn'.ratio = 0
  BY Rebased1
<1>2. m.x \in Int /\ m.server \in Int
  BY DEF Movable
<1>3. \E r \in 0 .. 0 : /\ \E d \in TimeDeltas : 0 - r <= d
                        /\ m.x = Blend(r, m.server, m.x)
  BY <1>2, BlendBegun
<1>4. \E r \in 0 .. drawn'.ratio :
         /\ \E d \in TimeDeltas : drawn'.ratio - r <= d
         /\ drawn'.x = Blend(r, drawn'.server, drawn'.client)
  BY <1>1, <1>3
<1> QED
  BY <1>1, <1>4 DEF Blends

LEMMA BlendsKept ==
    ASSUME Typed, Blends, [Next]_vars
    PROVE  Blends'
<1> USE DEF Blends
<1>1. ASSUME UNCHANGED <<kind, drawn, rebased, half>>
      PROVE  Blends'
  BY <1>1
<1>2. ASSUME NEW d \in Reads, ReadForFrame(d)
      PROVE  Blends'
  BY <1>1, <1>2 DEF ReadForFrame
<1>3. ASSUME NEW d \in Reads, ReadForTick(d)
      PROVE  Blends'
  BY <1>1, <1>3 DEF ReadForTick
<1>4. ASSUME UpdateTankMovement
      PROVE  Blends'
  <2>1. /\ kind' = kind /\ kind \in {"hull", "turret"} /\ rebased' = interpolate
        /\ Told("movement")
    BY <1>4 DEF UpdateTankMovement
  <2>2. CASE ~interpolate
    BY <2>1, <2>2
  <2>3. CASE interpolate /\ kind = "hull"
    <3> DEFINE m == [drawn EXCEPT !.server = Head(packets).at]
    <3>1. drawn' = Rebase(m) /\ half' = half
      BY <1>4, <2>3 DEF UpdateTankMovement
    <3>2. half = "no"
      BY <2>3 DEF Typed, Paired
    <3>3. m \in Movable
      <4>1. drawn \in Movable /\ packets[1].at \in Int /\ Head(packets) = packets[1]
        BY <2>1, DrawnFields, PacketAt, PacketTold DEF Typed
      <4> QED
        BY <4>1 DEF Movable
    <3> HIDE DEF m
    <3> QED
      BY <2>1, <2>3, <3>1, <3>2, <3>3, RebasedBlends
  <2>4. CASE interpolate /\ kind = "turret"
    <3>1. drawn' = [drawn EXCEPT !.ratio = IF interpolate THEN 0 ELSE @]
          /\ half' = "waiting"
      BY <1>4, <2>4 DEF UpdateTankMovement
    <3>2. drawn \in Movable /\ drawn.velocity = 0 /\ drawn.serverVelocity = 0
      BY <2>4, DrawnFields DEF Typed, Places
    <3>3. drawn'.ratio = 0 /\ drawn'.velocity = 0 /\ drawn'.serverVelocity = 0
      BY <2>4, <3>1, <3>2 DEF Movable
    <3> QED
      BY <2>1, <2>4, <3>1, <3>3
  <2> QED
    BY <2>1, <2>2, <2>3, <2>4
<1>5. ASSUME UpdateTankTurret
      PROVE  Blends'
  <2>1. kind = "turret" /\ half \in {"waiting", "drawn"} /\ kind' = kind
    BY <1>5, TurretTyped DEF UpdateTankTurret, Typed, TypeOK
  <2>2. SUFFICES ASSUME rebased'
                 PROVE  Blends'
    OBVIOUS
  <2>3. rebased /\ interpolate
    BY <1>5, <2>2 DEF UpdateTankTurret
  <2>4. /\ drawn \in Movable /\ drawn.x \in Int
        /\ drawn.velocity = 0 /\ drawn.serverVelocity = 0
        /\ packets[1].at \in Int /\ Head(packets) = packets[1]
    BY <1>5, <2>1, DrawnFields, PacketAt, PacketTold DEF Typed, Places, UpdateTankTurret
  <2>5. drawn' = [drawn EXCEPT !.server = packets[1].at, !.client = drawn.x]
    BY <1>5, <2>3, <2>4 DEF UpdateTankTurret
  <2>6. /\ drawn'.server = packets[1].at /\ drawn'.client = drawn.x
        /\ drawn'.x = drawn.x /\ drawn'.ratio = drawn.ratio
        /\ drawn'.velocity = 0 /\ drawn'.serverVelocity = 0
    BY <2>4, <2>5 DEF Movable
  <2>7. half' = IF half = "waiting" THEN "no" ELSE half
    BY <1>5 DEF UpdateTankTurret
  <2>8. CASE half = "waiting"
    <3>1. drawn.ratio = 0
      BY <2>3, <2>8
    <3>2. \E r \in 0 .. 0 : /\ \E d \in TimeDeltas : 0 - r <= d
                            /\ drawn.x = Blend(r, packets[1].at, drawn.x)
      BY <2>4, BlendBegun
    <3>3. \E r \in 0 .. drawn'.ratio :
             /\ \E d \in TimeDeltas : drawn'.ratio - r <= d
             /\ drawn'.x = Blend(r, drawn'.server, drawn'.client)
      BY <2>6, <3>1, <3>2
    <3> QED
      BY <2>1, <2>6, <2>7, <2>8, <3>3
  <2>9. CASE half = "drawn"
    BY <2>1, <2>6, <2>7, <2>9
  <2> QED
    BY <2>1, <2>8, <2>9
<1>6. ASSUME UpdateMissile
      PROVE  Blends'
  <2>1. kind = "missile" /\ Told("missile") /\ kind' = kind /\ half' = half
        /\ half = "no"
    BY <1>6, MissileTyped DEF UpdateMissile, Typed, Paired
  <2>2. CASE shown = "unknown"
    BY <1>6, <2>2 DEF UpdateMissile
  <2>3. CASE shown # "unknown"
    <3> DEFINE m == [drawn EXCEPT !.server = Head(packets).at,
                                  !.serverVelocity = Speed]
    <3>1. drawn' = Rebase(m) /\ rebased' = interpolate
      BY <1>6, <2>3 DEF UpdateMissile
    <3>2. m \in Movable
      <4>1. drawn \in Movable /\ packets[1].at \in Int /\ Head(packets) = packets[1]
            /\ Speed \in Int
        BY <2>1, DrawnFields, PacketAt, PacketTold, Numbers DEF Typed
      <4> QED
        BY <4>1 DEF Movable
    <3> HIDE DEF m
    <3>3. interpolate => Blends'
      BY <2>1, <3>1, <3>2, RebasedBlends
    <3> QED
      BY <3>1, <3>3
  <2> QED
    BY <2>2, <2>3
<1>7. ASSUME kind = "own", kind' = kind, rebased' = rebased
      PROVE  Blends'
  BY <1>7
<1>8. CASE UpdateOwnTank \/ OwnFrameOnly \/ \E t \in Moves, z \in BOOLEAN : OwnFrame(t, z)
  BY <1>7, <1>8 DEF UpdateOwnTank, OwnFrameOnly, OwnFrame
<1>9. ASSUME NEW dt \in TimeDeltas, Frame(dt)
      PROVE  Blends'
  <2> DEFINE s == drawn.server + drawn.serverVelocity * dt
             c == drawn.client + drawn.velocity * dt
  <2>1. /\ drawn'.server = s /\ drawn'.client = c
        /\ drawn'.serverVelocity = drawn.serverVelocity
        /\ drawn'.velocity = drawn.velocity
        /\ ~Opposite(s, c) => drawn'.x = Blend(drawn.ratio, s, c)
        /\ drawn' \in Movable
        /\ drawn'.ratio >= drawn.ratio /\ drawn'.ratio - drawn.ratio <= dt
    BY <1>9, FrameDrawn
  <2> HIDE DEF s, c
  <2>2. /\ UNCHANGED <<kind, rebased>> /\ kind # "own"
        /\ half' = IF half = "waiting" THEN "drawn" ELSE half
    BY <1>9 DEF Frame
  <2>3. drawn.ratio \in Nat /\ drawn'.ratio \in Nat
    <3>1. drawn.ratio \in 0 .. Blending /\ drawn'.ratio \in 0 .. Blending
          /\ Blending \in Nat
      BY <2>1, DrawnFields, Numbers DEF Movable
    <3> QED
      BY <3>1
  <2>4. drawn.ratio \in 0 .. drawn'.ratio
        /\ \E e \in TimeDeltas : drawn'.ratio - drawn.ratio <= e
    BY <2>1, <2>3, AShare
  <2>5. ~Opposite(s, c)
        => \E r \in 0 .. drawn'.ratio :
              /\ \E d \in TimeDeltas : drawn'.ratio - r <= d
              /\ drawn'.x = Blend(r, drawn'.server, drawn'.client)
    BY <2>1, <2>4
  <2> QED
    BY <2>1, <2>2, <2>5
<1>10. CASE PressThree
  BY <1>1, <1>10 DEF PressThree
<1>11. CASE UNCHANGED vars
  BY <1>1, <1>11 DEF vars
<1> QED
  BY <1>2, <1>3, <1>4, <1>5, <1>6, <1>8, <1>9, <1>10, <1>11 DEF Next, Loop, Receive

-----------------------------------------------------------------------------
(* The one way of the player's tank. *)

(* The way of a queue without its first n inputs, from where they led. *)
Rest(q, n, s) == /\ n \in 0 .. Len(q) /\ s \in Seq(Input)
                 /\ Len(s) = Len(q) - n
                 /\ \A k \in 1 .. Len(q) - n : s[k] = q[n + k]

LEMMA WayShifted ==
    ASSUME NEW p, NEW q \in Seq(Input), NEW f, Way(p, q, f),
           NEW n, NEW s, Rest(q, n, s)
    PROVE  \A m \in 0 .. Len(q) - n : DriveAll(f[n], SubSeq(s, 1, m)) = f[n + m]
<1> DEFINE g == [k \in 0 .. Len(q) - n |-> f[n + k]]
<1>1. /\ s \in Seq(Input) /\ Len(s) = Len(q) - n /\ n \in Nat /\ Len(q) \in Nat
      /\ Len(q) - n \in Nat
      /\ \A k \in 1 .. Len(q) - n : s[k] = q[n + k]
  BY DEF Rest
<1>2. Way(f[n], s, g)
  <2>1. g[0] = f[n]
    BY <1>1
  <2>2. ASSUME NEW k \in 1 .. Len(s)
        PROVE  g[k] = Drive(g[k - 1], s[k])
    <3>1. /\ k \in 0 .. Len(q) - n /\ k - 1 \in 0 .. Len(q) - n
          /\ n + k \in 1 .. Len(q) /\ (n + k) - 1 = n + (k - 1)
          /\ k \in 1 .. Len(q) - n
      BY <1>1
    <3>2. f[n + k] = Drive(f[(n + k) - 1], q[n + k])
      BY <3>1 DEF Way
    <3>3. g[k] = f[n + k] /\ g[k - 1] = f[n + (k - 1)]
      BY <3>1
    <3>4. s[k] = q[n + k]
      BY <1>1, <3>1
    <3> HIDE DEF g
    <3> QED
      BY <3>1, <3>2, <3>3, <3>4
  <2> HIDE DEF g
  <2> QED
    BY <2>1, <2>2 DEF Way
<1>3. \A m \in 0 .. Len(s) : DriveAll(f[n], SubSeq(s, 1, m)) = g[m]
  <2> HIDE DEF g
  <2> QED
    BY <1>1, <1>2, OnWay
<1>4. \A m \in 0 .. Len(q) - n : g[m] = f[n + m]
  BY <1>1
<1> HIDE DEF g
<1>5. \A m \in 0 .. Len(q) - n : DriveAll(f[n], SubSeq(s, 1, m)) = f[n + m]
  BY <1>1, <1>3, <1>4
<1> QED
  BY <1>1, <1>5

LEMMA QueueShifted ==
    ASSUME NEW p, NEW f, Way(p, queue, f), queue \in Seq(Input),
           NEW n, Rest(queue, n, queue')
    PROVE  \A k \in 0 .. Len(queue) - n :
              DriveAll(f[n], SubSeq(queue', 1, k)) = f[n + k]
  BY WayShifted

LEMMA StartKept ==
    ASSUME NEW S, NEW q \in Seq(S), NEW i \in S, NEW n \in 0 .. Len(q)
    PROVE  SubSeq(Append(q, i), 1, n) = SubSeq(q, 1, n)
<1> DEFINE a == SubSeq(Append(q, i), 1, n)
           b == SubSeq(q, 1, n)
<1>1. a \in Seq(S) /\ b \in Seq(S) /\ Len(a) = n /\ Len(b) = n
      /\ \A k \in 1 .. n : a[k] = b[k]
  OBVIOUS
<1> QED
  BY <1>1

(* Where the numbers of the way lie. *)
LEMMA WayNumbers ==
    ASSUME Typed, OnOneWay, kind = "own"
    PROVE  /\ queue \in Seq(Input) /\ inputs \in Seq(Input)
           /\ Len(queue) \in Nat /\ Len(inputs) \in Nat
           /\ nextId \in Nat /\ latest \in Nat /\ Acknowledged \in Int
           /\ Acknowledged = nextId - 1 - Len(queue)
           /\ Acknowledged <= latest /\ latest <= nextId - 1
           /\ Len(inputs) = nextId - 1 - latest
           /\ latest - Acknowledged \in 0 .. Len(queue)
           /\ DOMAIN queue = 1 .. Len(queue) /\ DOMAIN inputs = 1 .. Len(inputs)
           /\ packets \in Seq(Packet) /\ DOMAIN packets = 1 .. Len(packets)
           /\ Len(packets) \in Nat
<1>1. /\ queue \in Seq(Input) /\ inputs \in Seq(Input) /\ packets \in Seq(Packet)
      /\ nextId \in 1 .. MaxInputs + 1 /\ latest \in 0 .. MaxInputs
      /\ MaxInputs \in Nat
  BY Numbers DEF Typed, TypeOK
<1>2. /\ latest \in Acknowledged .. nextId - 1
      /\ Len(inputs) = nextId - 1 - latest
  BY DEF OnOneWay
<1>3. Len(queue) \in Nat /\ Len(inputs) \in Nat /\ nextId \in Nat /\ latest \in Nat
      /\ Len(packets) \in Nat
  BY <1>1
<1>4. Acknowledged = nextId - 1 - Len(queue)
  BY DEF Acknowledged
<1>5. Acknowledged \in Int /\ Acknowledged <= latest /\ latest <= nextId - 1
  BY <1>2, <1>3, <1>4
<1>6. latest - Acknowledged \in 0 .. Len(queue)
  BY <1>3, <1>4, <1>5
<1> QED
  BY <1>1, <1>2, <1>3, <1>4, <1>5, <1>6

LEMMA WayKept ==
    ASSUME OnOneWay, UNCHANGED <<kind, pos, queue, latest, inputs, nextId, packets>>,
           drawn'.server = drawn.server
    PROVE  OnOneWay'
  BY DEF OnOneWay, After, Acknowledged

(* The inputs that a frame of the server applies take it to the end. *)
LEMMA WayApplied ==
    ASSUME Typed, OnOneWay, kind = "own"
    PROVE  /\ DriveAll(pos, inputs) = After(Len(queue))
           /\ (IF inputs = <<>> THEN latest ELSE inputs[Len(inputs)].id) = nextId - 1
<1> DEFINE m == latest - Acknowledged
<1>1. /\ queue \in Seq(Input) /\ inputs \in Seq(Input)
      /\ Len(queue) \in Nat /\ Len(inputs) \in Nat
      /\ Acknowledged = nextId - 1 - Len(queue)
      /\ Acknowledged \in Int /\ nextId \in Nat /\ latest \in Nat
      /\ Len(inputs) = nextId - 1 - latest
      /\ m \in 0 .. Len(queue) /\ DOMAIN queue = 1 .. Len(queue)
      /\ DOMAIN inputs = 1 .. Len(inputs)
  BY WayNumbers
<1>2. /\ \A k \in 1 .. Len(queue) : queue[k].id = Acknowledged + k
      /\ pos = After(m)
      /\ \A k \in 1 .. Len(inputs) : inputs[k] = queue[m + k]
  BY <1>1 DEF OnOneWay
<1>3. Len(inputs) = Len(queue) - m
  BY <1>1
<1> HIDE DEF m
<1>4. PICK f : Way(drawn.server, queue, f)
  BY <1>1, WayExists
<1>5. \A n \in 0 .. Len(queue) : After(n) = f[n]
  BY <1>1, <1>4, OnWay DEF After
<1>6. DriveAll(pos, inputs) = After(Len(queue))
  <2>1. DriveAll(f[m], inputs) = f[Len(queue)]
    BY <1>1, <1>2, <1>3, <1>4, RestOfWay
  <2>2. Len(queue) \in 0 .. Len(queue)
    BY <1>1
  <2> QED
    BY <1>1, <1>2, <1>5, <2>1, <2>2
<1>7. CASE inputs = <<>>
  <2>1. Len(inputs) = 0
    BY <1>7
  <2>2. latest = nextId - 1
    BY <1>1, <2>1
  <2> QED
    BY <1>6, <1>7, <2>2
<1>8. CASE inputs # <<>>
  <2>1. Len(inputs) \in 1 .. Len(inputs) /\ m + Len(inputs) = Len(queue)
        /\ Len(queue) \in 1 .. Len(queue)
    BY <1>1, <1>3, <1>8
  <2>2. inputs[Len(inputs)] = queue[Len(queue)]
    BY <1>2, <2>1
  <2>3. inputs[Len(inputs)].id = Acknowledged + Len(queue)
    BY <1>2, <2>1, <2>2
  <2> QED
    BY <1>1, <1>6, <1>8, <2>3
<1> QED
  BY <1>7, <1>8

LEMMA FrameOnWay ==
    ASSUME Typed, OnOneWay, NEW d \in Reads, ReadForFrame(d)
    PROVE  OnOneWay'
<1>1. UNCHANGED <<kind, packets, queue, nextId, drawn>>
  BY DEF ReadForFrame
<1> SUFFICES ASSUME kind = "own"
             PROVE  OnOneWay'
  BY <1>1 DEF OnOneWay
<1>2. UNCHANGED <<pos, inputs, latest>> \/ Move(timer + d)
  BY DEF ReadForFrame
<1>3. CASE UNCHANGED <<pos, inputs, latest>>
  BY <1>1, <1>3, WayKept
<1>4. CASE Move(timer + d) /\ ~UNCHANGED <<pos, inputs, latest>>
  <2>1. /\ pos' = DriveAll(pos, inputs) /\ inputs' = <<>>
        /\ latest' = IF inputs = <<>> THEN latest ELSE inputs[Len(inputs)].id
    <3>1. MoveOwn
      BY <1>4 DEF Move, MoveHull
    <3>2. ~respawning
      BY <1>4, <3>1 DEF MoveOwn
    <3> QED
      BY <3>1, <3>2 DEF MoveOwn
  <2>2. pos' = After(Len(queue)) /\ latest' = nextId - 1
    BY <2>1, WayApplied
  <2>3. /\ Acknowledged' = Acknowledged /\ \A n : After(n)' = After(n)
    BY <1>1 DEF Acknowledged, After
  <2>4. /\ Len(queue) \in Nat /\ nextId \in Nat /\ latest \in Nat
        /\ Acknowledged = nextId - 1 - Len(queue) /\ latest <= nextId - 1
        /\ Acknowledged \in Int
        /\ DOMAIN packets = 1 .. Len(packets)
    BY WayNumbers
  <2>5. latest' - Acknowledged = Len(queue) /\ latest' \in Acknowledged .. nextId - 1
        /\ Len(inputs') = 0 /\ nextId - 1 - latest' = 0 /\ DOMAIN inputs' = {}
    BY <2>1, <2>2, <2>4
  <2>6. \A k \in DOMAIN queue : queue[k].id = Acknowledged + k
    BY DEF OnOneWay
  <2>7. \A k \in DOMAIN packets :
           /\ packets[k].seq \in Acknowledged .. latest'
           /\ packets[k].at = After(packets[k].seq - Acknowledged)
           /\ \A j \in 1 .. k - 1 : packets[j].seq <= packets[k].seq
    <3>1. \A k \in DOMAIN packets :
           /\ packets[k].seq \in Acknowledged .. latest
           /\ packets[k].at = After(packets[k].seq - Acknowledged)
           /\ \A j \in 1 .. k - 1 : packets[j].seq <= packets[k].seq
      BY DEF OnOneWay
    <3>2. Acknowledged .. latest \subseteq Acknowledged .. latest'
      BY <2>2, <2>4
    <3> QED
      BY <3>1, <3>2
  <2>8. pos' = After(latest' - Acknowledged)
    BY <2>2, <2>5
  <2>9. /\ \A k \in DOMAIN queue' : queue'[k].id = Acknowledged' + k
        /\ latest' \in Acknowledged' .. nextId' - 1
        /\ Len(inputs') = nextId' - 1 - latest'
        /\ \A k \in DOMAIN inputs' : inputs'[k] = queue'[latest' - Acknowledged' + k]
    BY <1>1, <2>3, <2>5, <2>6
  <2>10. After(latest' - Acknowledged) = DriveAll(drawn'.server,
                                SubSeq(queue', 1, latest' - Acknowledged'))
    BY <1>1, <2>3 DEF After
  <2>11. \A k \in DOMAIN packets' :
           /\ packets'[k].seq \in Acknowledged' .. latest'
           /\ packets'[k].at = DriveAll(drawn'.server,
                                SubSeq(queue', 1, packets'[k].seq - Acknowledged'))
           /\ \A j \in 1 .. k - 1 : packets'[j].seq <= packets'[k].seq
    BY <1>1, <2>3, <2>7 DEF After
  <2> QED
    BY <2>8, <2>9, <2>10, <2>11 DEF OnOneWay, After
<1> QED
  BY <1>2, <1>3, <1>4

LEMMA TickOnWay ==
    ASSUME Typed, OnOneWay, NEW d \in Reads, ReadForTick(d)
    PROVE  OnOneWay'
<1>1. UNCHANGED <<kind, pos, inputs, latest, queue, nextId, drawn>>
  BY DEF ReadForTick
<1> SUFFICES ASSUME kind = "own"
             PROVE  OnOneWay'
  BY <1>1 DEF OnOneWay
<1>2. UNCHANGED packets \/ (Tick /\ life # "erased")
  BY DEF ReadForTick, Tick
<1>3. CASE UNCHANGED packets
  BY <1>1, <1>3, WayKept
<1>4. CASE Tick /\ life # "erased"
  <2>1. /\ Len(packets) \in Nat /\ DOMAIN packets = 1 .. Len(packets)
        /\ DOMAIN packets' = 1 .. Len(packets')
        /\ \A k \in 1 .. Len(packets) : packets'[k] = packets[k]
        /\ Len(packets') = Len(packets) + 1
        /\ packets'[Len(packets) + 1] = Update("movement")
    BY <1>4, TickSent DEF Typed
  <2>2. Update("movement").at = pos /\ Update("movement").seq = latest
    BY UpdateSent DEF Typed
  <2>3. /\ latest \in Acknowledged .. latest /\ Acknowledged \in Int /\ latest \in Nat
        /\ pos = After(latest - Acknowledged)
    BY WayNumbers DEF OnOneWay
  <2>4. \A k \in 1 .. Len(packets) :
           /\ packets[k].seq \in Acknowledged .. latest
           /\ packets[k].at = After(packets[k].seq - Acknowledged)
           /\ \A j \in 1 .. k - 1 : packets[j].seq <= packets[k].seq
    BY <2>1 DEF OnOneWay
  <2>5. ASSUME NEW k \in DOMAIN packets'
        PROVE  /\ packets'[k].seq \in Acknowledged .. latest
               /\ packets'[k].at = After(packets'[k].seq - Acknowledged)
               /\ \A j \in 1 .. k - 1 : packets'[j].seq <= packets'[k].seq
    <3>1. CASE k \in 1 .. Len(packets)
      <4>1. packets'[k] = packets[k]
            /\ \A j \in 1 .. k - 1 : packets'[j] = packets[j]
        BY <2>1, <3>1
      <4> QED
        BY <2>4, <3>1, <4>1
    <3>2. CASE k = Len(packets) + 1
      <4>1. packets'[k].seq = latest /\ packets'[k].at = pos
        BY <2>1, <2>2, <3>2
      <4>2. ASSUME NEW j \in 1 .. k - 1
            PROVE  packets'[j].seq <= latest
        <5>1. j \in 1 .. Len(packets) /\ packets'[j] = packets[j]
          BY <2>1, <3>2
        <5> QED
          BY <2>3, <2>4, <5>1
      <4> QED
        BY <2>3, <4>1, <4>2
    <3> QED
      BY <2>1, <3>1, <3>2
  <2>6. /\ Acknowledged' = Acknowledged /\ \A n : After(n)' = After(n)
    BY <1>1 DEF Acknowledged, After
  <2>7. \A k \in DOMAIN packets' :
           /\ packets'[k].seq \in Acknowledged' .. latest'
           /\ packets'[k].at = DriveAll(drawn'.server,
                                SubSeq(queue', 1, packets'[k].seq - Acknowledged'))
           /\ \A j \in 1 .. k - 1 : packets'[j].seq <= packets'[k].seq
    BY <1>1, <2>5, <2>6 DEF After
  <2>8. /\ \A k \in DOMAIN queue' : queue'[k].id = Acknowledged' + k
        /\ latest' \in Acknowledged' .. nextId' - 1
        /\ pos' = DriveAll(drawn'.server, SubSeq(queue', 1, latest' - Acknowledged'))
        /\ Len(inputs') = nextId' - 1 - latest'
        /\ \A k \in DOMAIN inputs' : inputs'[k] = queue'[latest' - Acknowledged' + k]
    BY <1>1, <2>6 DEF OnOneWay, After
  <2> QED
    BY <2>7, <2>8 DEF OnOneWay, After
<1> QED
  BY <1>2, <1>3, <1>4

(* An acknowledgement drops exactly the inputs up to the one it names. *)
LEMMA OwnOnWay ==
    ASSUME Typed, OnOneWay, UpdateOwnTank
    PROVE  OnOneWay'
<1>1. /\ kind = "own" /\ Told("movement")
      /\ drawn' = [drawn EXCEPT !.server = Head(packets).at]
      /\ UNCHANGED <<kind, pos, latest, inputs, nextId>>
  BY DEF UpdateOwnTank
<1> DEFINE A == Acknowledged
           s == packets[1].seq
           L == Len(queue)
           m == latest - Acknowledged
<1>2. PICK n \in 0 .. Len(queue) :
         /\ \A k \in 1 .. n : Outdated(queue[k])
         /\ n < Len(queue) => ~Outdated(queue[n + 1])
         /\ queue' = SubSeq(queue, n + 1, Len(queue))
  BY DEF UpdateOwnTank
<1>3. /\ queue \in Seq(Input) /\ L \in Nat /\ nextId \in Nat /\ latest \in Nat
      /\ Len(inputs) \in Nat
      /\ A \in Int /\ A = nextId - 1 - L /\ A <= latest /\ latest <= nextId - 1
      /\ Len(inputs) = nextId - 1 - latest /\ m \in 0 .. L
      /\ DOMAIN queue = 1 .. L /\ DOMAIN inputs = 1 .. Len(inputs)
      /\ DOMAIN packets = 1 .. Len(packets)
  BY <1>1, WayNumbers
<1>4. /\ Head(packets) = packets[1] /\ Len(packets) \in Nat /\ Len(packets) >= 1
      /\ DOMAIN packets' = 1 .. Len(packets) - 1
      /\ \A k \in 1 .. Len(packets) - 1 : packets'[k] = packets[k + 1]
  BY <1>1, PacketTold DEF Typed
<1>5. /\ \A k \in 1 .. L : queue[k].id = A + k
      /\ pos = After(m)
      /\ \A k \in 1 .. Len(inputs) : inputs[k] = queue[m + k]
      /\ \A k \in 1 .. Len(packets) :
            /\ packets[k].seq \in A .. latest
            /\ packets[k].at = After(packets[k].seq - A)
            /\ \A j \in 1 .. k - 1 : packets[j].seq <= packets[k].seq
  BY <1>1, <1>3 DEF OnOneWay
<1>6. s \in A .. latest /\ packets[1].at = After(s - A)
  BY <1>4, <1>5
<1>7. n = s - A
  <2>1. ASSUME NEW k \in 1 .. n
        PROVE  A + k <= s
    <3>1. k \in 1 .. L
      BY <1>3
    <3>2. Outdated(queue[k]) /\ queue[k].id = A + k
      BY <1>2, <1>5, <3>1
    <3>3. queue[k].id <= packets[1].seq
      BY <1>4, <3>2 DEF Outdated
    <3> QED
      BY <3>2, <3>3
  <2>2. n < L => ~(A + (n + 1) <= s)
    <3>1. n < L => n + 1 \in 1 .. L
      BY <1>3
    <3> QED
      BY <1>2, <1>4, <1>5, <3>1 DEF Outdated
  <2>3. n \in 0 .. L /\ n \in Nat
    BY <1>2, <1>3
  <2>4. A + n <= s
    <3>1. CASE n = 0
      BY <1>3, <1>6, <3>1
    <3>2. CASE n # 0
      <4>1. n \in 1 .. n
        BY <2>3, <3>2
      <4> QED
        BY <2>1, <4>1
    <3> QED
      BY <3>1, <3>2
  <2>5. s \in Int /\ s <= latest
    BY <1>3, <1>6
  <2> HIDE DEF A, s, L, m
  <2>6. s <= A + n
    BY <1>3, <2>2, <2>3, <2>5
  <2> QED
    BY <1>3, <2>3, <2>4, <2>5, <2>6
<1>8. PICK f : Way(drawn.server, queue, f)
  BY <1>3, WayExists
<1>9. \A k \in 0 .. L : After(k) = f[k]
  BY <1>3, <1>8, OnWay DEF After
<1>10. /\ Len(queue') = L - n
       /\ \A k \in 1 .. L - n : queue'[k] = queue[n + k]
       /\ \A k \in 0 .. L - n : DriveAll(f[n], SubSeq(queue', 1, k)) = f[n + k]
  <2>1. queue \in Seq(Input) /\ n \in 0 .. Len(queue)
    BY <1>3
  <2>2. queue' = SubSeq(queue, n + 1, Len(queue))
    BY <1>2
  <2>3. /\ queue' \in Seq(Input) /\ Len(queue') = Len(queue) - n
        /\ \A k \in 1 .. Len(queue) - n : queue'[k] = queue[n + k]
    BY <2>1, <2>2
  <2>4. Rest(queue, n, queue')
    BY <2>1, <2>3 DEF Rest
  <2>5. queue \in Seq(Input)
    BY <2>1
  <2>6. \A k \in 0 .. Len(queue) - n :
           DriveAll(f[n], SubSeq(queue', 1, k)) = f[n + k]
    BY <1>8, <2>4, <2>5, QueueShifted
  <2> QED
    BY <2>3, <2>6
<1>11. drawn'.server = f[n]
  <2>1. drawn \in Movable
    BY DrawnFields
  <2>2. drawn'.server = packets[1].at
    BY <1>1, <1>4, <2>1 DEF Movable
  <2>3. packets[1].at = After(n) /\ n \in 0 .. L
    BY <1>2, <1>6, <1>7
  <2> QED
    BY <1>9, <2>2, <2>3
<1>12. Acknowledged' = A + n
  <2>1. Acknowledged' = nextId - 1 - Len(queue')
    BY <1>1 DEF Acknowledged
  <2>2. n \in Nat
    BY <1>3
  <2> HIDE DEF A, L
  <2>3. Acknowledged' = nextId - 1 - (L - n)
    BY <1>10, <2>1
  <2> QED
    BY <1>3, <2>2, <2>3
<1>13. DOMAIN queue' = 1 .. L - n
  <2>1. queue' \in Seq(Input)
    BY <1>2, <1>3
  <2> QED
    BY <1>10, <2>1
<1> HIDE DEF A, s, L, m
<1>14. /\ n \in Nat /\ n <= L /\ s = A + n /\ s <= latest /\ m = latest - A
       /\ m - n \in 0 .. L - n /\ latest - (A + n) = m - n /\ n + (m - n) = m
  <2>1. m = latest - A
    BY DEF m, A
  <2>2. s \in Int /\ s <= latest
    BY <1>3, <1>6
  <2> QED
    BY <1>2, <1>3, <1>7, <2>1, <2>2
<1>15. \A k \in DOMAIN queue' : queue'[k].id = Acknowledged' + k
  <2> SUFFICES ASSUME NEW k \in 1 .. L - n
               PROVE  queue'[k].id = (A + n) + k
    BY <1>12, <1>13
  <2>1. n + k \in 1 .. L /\ A + (n + k) = (A + n) + k
    BY <1>3, <1>14
  <2> QED
    BY <1>5, <1>10, <2>1
<1>16. latest' \in Acknowledged' .. nextId' - 1
       /\ Len(inputs') = nextId' - 1 - latest'
  BY <1>1, <1>3, <1>12, <1>14
<1>17. latest' - Acknowledged' = m - n
  BY <1>1, <1>12, <1>14
<1>18. pos' = DriveAll(drawn'.server, SubSeq(queue', 1, latest' - Acknowledged'))
  <2>1. DriveAll(f[n], SubSeq(queue', 1, m - n)) = f[n + (m - n)]
    BY <1>10, <1>14
  <2>2. pos = f[m]
    BY <1>3, <1>5, <1>9
  <2> QED
    BY <1>1, <1>11, <1>14, <1>17, <2>1, <2>2
<1>19. \A k \in DOMAIN inputs' : inputs'[k] = queue'[latest' - Acknowledged' + k]
  <2> SUFFICES ASSUME NEW k \in 1 .. Len(inputs)
               PROVE  inputs[k] = queue'[(m - n) + k]
    BY <1>1, <1>3, <1>17
  <2>1. (m - n) + k \in 1 .. L - n /\ n + ((m - n) + k) = m + k
    <3>1. m + Len(inputs) = L
      BY <1>3, <1>14
    <3> QED
      BY <1>3, <1>14, <3>1
  <2> QED
    BY <1>5, <1>10, <2>1
<1>20. ASSUME NEW k \in DOMAIN packets'
       PROVE  /\ packets'[k].seq \in Acknowledged' .. latest'
              /\ packets'[k].at = DriveAll(drawn'.server,
                                SubSeq(queue', 1, packets'[k].seq - Acknowledged'))
              /\ \A j \in 1 .. k - 1 : packets'[j].seq <= packets'[k].seq
  <2> DEFINE z == packets[k + 1].seq
  <2>1. k \in 1 .. Len(packets) - 1 /\ k + 1 \in 1 .. Len(packets)
        /\ 1 \in 1 .. (k + 1) - 1 /\ packets'[k] = packets[k + 1] /\ k \in Nat
    BY <1>4
  <2>2. /\ z \in A .. latest /\ packets[k + 1].at = After(z - A)
        /\ \A j \in 1 .. (k + 1) - 1 : packets[j].seq <= z
    BY <1>5, <2>1
  <2>3. s <= z
    BY <2>1, <2>2 DEF s
  <2>4. \A j \in 1 .. k - 1 : packets'[j] = packets[j + 1]
                              /\ j + 1 \in 1 .. (k + 1) - 1
    BY <1>4, <2>1
  <2>5. \A j \in 1 .. k - 1 : packets'[j].seq <= packets'[k].seq
    BY <2>1, <2>2, <2>4
  <2>6. packets'[k].seq = z /\ packets'[k].at = After(z - A)
    BY <2>1, <2>2
  <2> HIDE DEF z
  <2>7. /\ z \in Int /\ z - A \in 0 .. L /\ z - (A + n) \in 0 .. L - n
        /\ n + (z - (A + n)) = z - A /\ z \in (A + n) .. latest
    BY <1>3, <1>14, <2>2, <2>3
  <2>8. DriveAll(f[n], SubSeq(queue', 1, z - (A + n))) = f[n + (z - (A + n))]
    BY <1>10, <2>7
  <2>9. After(z - A) = f[z - A]
    BY <1>9, <2>7
  <2>10. packets'[k].at = DriveAll(drawn'.server,
                                SubSeq(queue', 1, packets'[k].seq - Acknowledged'))
    BY <1>11, <1>12, <2>6, <2>7, <2>8, <2>9
  <2>11. packets'[k].seq \in Acknowledged' .. latest'
    BY <1>1, <1>12, <2>6, <2>7
  <2> QED
    BY <2>5, <2>10, <2>11
<1> QED
  BY <1>15, <1>16, <1>18, <1>19, <1>20 DEF OnOneWay, After

(* A new input lies at the end of what is queued on both sides. *)
LEMMA InputOnWay ==
    ASSUME Typed, OnOneWay, NEW t \in Moves, NEW z \in BOOLEAN, OwnFrame(t, z)
    PROVE  OnOneWay'
<1> DEFINE i == [id |-> nextId, move |-> t, fatal |-> z]
           L == Len(queue)
           M == Len(inputs)
           A == Acknowledged
<1>1. /\ i \in Input /\ queue' = Append(queue, i) /\ inputs' = Append(inputs, i)
      /\ nextId' = nextId + 1 /\ queue \in Seq(Input) /\ inputs \in Seq(Input)
  BY InputMade
<1>2. kind = "own" /\ UNCHANGED <<kind, pos, latest, packets>> /\ drawn' = Predict
  BY DEF OwnFrame
<1>3. drawn'.server = drawn.server
  BY <1>2, Predicted
<1>4. /\ L \in Nat /\ M \in Nat /\ nextId \in Nat /\ latest \in Nat /\ A \in Int
      /\ A = nextId - 1 - L /\ A <= latest /\ latest <= nextId - 1
      /\ M = nextId - 1 - latest /\ latest - A \in 0 .. L
      /\ DOMAIN queue = 1 .. L /\ DOMAIN inputs = 1 .. M
  BY <1>2, WayNumbers
<1>5. /\ \A k \in 1 .. L : queue[k].id = A + k
      /\ pos = After(latest - A)
      /\ \A k \in 1 .. M : inputs[k] = queue[latest - A + k]
      /\ \A k \in DOMAIN packets :
            /\ packets[k].seq \in A .. latest
            /\ packets[k].at = After(packets[k].seq - A)
            /\ \A j \in 1 .. k - 1 : packets[j].seq <= packets[k].seq
  BY <1>2, <1>4 DEF OnOneWay
<1>6. i.id = nextId
  OBVIOUS
<1> HIDE DEF i
<1>7. /\ Len(queue') = L + 1 /\ DOMAIN queue' = 1 .. L + 1 /\ queue'[L + 1] = i
      /\ \A k \in 1 .. L : queue'[k] = queue[k]
      /\ Len(inputs') = M + 1 /\ DOMAIN inputs' = 1 .. M + 1 /\ inputs'[M + 1] = i
      /\ \A k \in 1 .. M : inputs'[k] = inputs[k]
  BY <1>1, Appended
<1>8. ASSUME NEW n \in 0 .. L
      PROVE  DriveAll(drawn'.server, SubSeq(queue', 1, n)) = After(n)
  <2>1. SubSeq(queue', 1, n) = SubSeq(queue, 1, n)
    BY <1>1, StartKept
  <2> QED
    BY <1>3, <2>1 DEF After
<1>9. Acknowledged' = A
  <2>1. Acknowledged' = nextId' - 1 - Len(queue')
    BY DEF Acknowledged
  <2> HIDE DEF A, L
  <2>2. Acknowledged' = (nextId + 1) - 1 - (L + 1)
    BY <1>1, <1>7, <2>1
  <2> QED
    BY <1>4, <2>2
<1> HIDE DEF L, M, A
<1>10. \A k \in DOMAIN queue' : queue'[k].id = Acknowledged' + k
  <2> SUFFICES ASSUME NEW k \in 1 .. L + 1
               PROVE  queue'[k].id = A + k
    BY <1>7, <1>9
  <2>1. CASE k \in 1 .. L
    BY <1>5, <1>7, <2>1
  <2>2. CASE k = L + 1
    <3>1. nextId = A + (L + 1)
      BY <1>4
    <3>2. queue'[k] = i
      BY <1>7, <2>2
    <3> QED
      BY <1>6, <2>2, <3>1, <3>2
  <2> QED
    BY <1>4, <2>1, <2>2
<1>11. latest' \in Acknowledged' .. nextId' - 1 /\ Len(inputs') = nextId' - 1 - latest'
  BY <1>1, <1>2, <1>4, <1>7, <1>9
<1>12. pos' = DriveAll(drawn'.server, SubSeq(queue', 1, latest' - Acknowledged'))
  BY <1>2, <1>4, <1>5, <1>8, <1>9
<1>13. \A k \in DOMAIN inputs' : inputs'[k] = queue'[latest' - Acknowledged' + k]
  <2> SUFFICES ASSUME NEW k \in 1 .. M + 1
               PROVE  inputs'[k] = queue'[latest - A + k]
    BY <1>2, <1>7, <1>9
  <2>1. CASE k \in 1 .. M
    <3>1. latest - A + k \in 1 .. L
      BY <1>4, <2>1
    <3> QED
      BY <1>5, <1>7, <2>1, <3>1
  <2>2. CASE k = M + 1
    <3>1. latest - A + k = L + 1
      BY <1>4, <2>2
    <3> QED
      BY <1>7, <2>2, <3>1
  <2> QED
    BY <1>4, <2>1, <2>2
<1>14. ASSUME NEW k \in DOMAIN packets'
       PROVE  /\ packets'[k].seq \in Acknowledged' .. latest'
              /\ packets'[k].at = DriveAll(drawn'.server,
                                SubSeq(queue', 1, packets'[k].seq - Acknowledged'))
              /\ \A j \in 1 .. k - 1 : packets'[j].seq <= packets'[k].seq
  <2>1. /\ packets[k].seq \in A .. latest
        /\ packets[k].at = After(packets[k].seq - A)
        /\ \A j \in 1 .. k - 1 : packets[j].seq <= packets[k].seq
    BY <1>2, <1>5
  <2>2. packets[k].seq - A \in 0 .. L
    BY <1>4, <2>1
  <2> QED
    BY <1>2, <1>8, <1>9, <2>1, <2>2
<1> QED
  BY <1>10, <1>11, <1>12, <1>13, <1>14 DEF OnOneWay, After

LEMMA OnOneWayKept ==
    ASSUME Typed, OnOneWay, [Next]_vars
    PROVE  OnOneWay'
<1>1. ASSUME NEW d \in Reads, ReadForFrame(d)
      PROVE  OnOneWay'
  BY <1>1, FrameOnWay
<1>2. ASSUME NEW d \in Reads, ReadForTick(d)
      PROVE  OnOneWay'
  BY <1>2, TickOnWay
<1>3. ASSUME kind # "own", kind' = kind
      PROVE  OnOneWay'
  BY <1>3 DEF OnOneWay
<1>4. CASE UpdateTankMovement
  BY <1>3, <1>4 DEF UpdateTankMovement
<1>5. CASE UpdateTankTurret
  BY <1>3, <1>5, TurretTyped DEF UpdateTankTurret
<1>6. CASE UpdateMissile
  BY <1>3, <1>6, MissileTyped DEF UpdateMissile
<1>7. CASE UpdateOwnTank
  BY <1>7, OwnOnWay
<1>8. CASE PressThree
  <2>1. UNCHANGED <<kind, pos, queue, latest, inputs, nextId, packets, drawn>>
    BY <1>8 DEF PressThree
  <2> QED
    BY <2>1, WayKept
<1>9. CASE OwnFrameOnly
  <2>1. UNCHANGED <<kind, pos, queue, latest, inputs, nextId, packets>>
        /\ drawn' = Predict
    BY <1>9 DEF OwnFrameOnly
  <2>2. drawn'.server = drawn.server
    BY <2>1, Predicted
  <2> QED
    BY <2>1, <2>2, WayKept
<1>10. ASSUME NEW dt \in TimeDeltas, Frame(dt)
       PROVE  OnOneWay'
  BY <1>3, <1>10 DEF Frame
<1>11. ASSUME NEW t \in Moves, NEW z \in BOOLEAN, OwnFrame(t, z)
       PROVE  OnOneWay'
  BY <1>11, InputOnWay
<1>12. CASE UNCHANGED vars
  <2>1. UNCHANGED <<kind, pos, queue, latest, inputs, nextId, packets, drawn>>
    BY <1>12 DEF vars
  <2> QED
    BY <2>1, WayKept
<1> QED
  BY <1>1, <1>2, <1>4, <1>5, <1>6, <1>7, <1>8, <1>9, <1>10, <1>11, <1>12
     DEF Next, Loop, Receive

LEMMA OnOneWayInit == Init => OnOneWay
<1> SUFFICES ASSUME Init, kind = "own"
             PROVE  OnOneWay
  BY DEF OnOneWay
<1>1. /\ queue = <<>> /\ inputs = <<>> /\ packets = <<>> /\ latest = 0 /\ nextId = 1
      /\ pos = Home /\ drawn.server = Home /\ Len(queue) = 0 /\ Len(inputs) = 0
      /\ DOMAIN queue = {} /\ DOMAIN inputs = {} /\ DOMAIN packets = {}
  BY DEF Init
<1>2. Acknowledged = 0
  <2>1. Acknowledged = 1 - 1 - 0
    BY <1>1 DEF Acknowledged
  <2> QED
    BY <2>1
<1>3. After(0) = Home
  <2> DEFINE f == [n \in 0 .. 0 |-> Home]
  <2>1. queue \in Seq(Input) /\ f[0] = Home
    BY <1>1
  <2> HIDE DEF f
  <2>2. Way(drawn.server, queue, f)
    BY <1>1, <2>1 DEF Way
  <2>3. 0 \in 0 .. Len(queue)
    BY <1>1
  <2> QED
    BY <2>1, <2>2, <2>3, OnWay DEF After
<1>4. /\ \A k \in DOMAIN queue : queue[k].id = Acknowledged + k
      /\ latest \in Acknowledged .. nextId - 1
      /\ pos = After(latest - Acknowledged)
      /\ Len(inputs) = nextId - 1 - latest
  BY <1>1, <1>2, <1>3
<1> QED
  BY <1>1, <1>4 DEF OnOneWay

(* On the way, the client's replay and the server's end at the same place, *)
(* as long as neither leaves the screen.                                   *)
LEMMA WayPredicts ==
    ASSUME Typed, OnOneWay
    PROVE  PredictsServer
<1> SUFFICES ASSUME kind = "own", Inside(drawn.server, queue)
             PROVE  Replay(drawn.server, queue) = DriveAll(pos, inputs)
  BY DEF PredictsServer
<1>1. queue \in Seq(Input) /\ Len(queue) \in Nat
  BY WayNumbers
<1>2. PICK f : Way(drawn.server, queue, f)
  BY <1>1, WayExists
<1>3. \A n \in 0 .. Len(queue) : DriveAll(drawn.server, SubSeq(queue, 1, n)) = f[n]
  BY <1>1, <1>2, OnWay
<1>4. ASSUME NEW n \in 1 .. Len(queue)
      PROVE  f[n] = Replayed(f[n - 1], queue[n])
  <2> DEFINE q == f[n - 1] + queue[n].move
  <2>1. n - 1 \in 0 .. Len(queue)
    BY <1>1
  <2>2. q \in 0 .. Width /\ ~queue[n].fatal
    BY <1>3, <2>1 DEF Inside
  <2> HIDE DEF q
  <2>3. Wrap(q) = q
    BY <2>2, Numbers DEF Wrap
  <2>4. f[n] = Wrap(q)
    BY <1>2, <2>2 DEF Way, Drive, q
  <2>5. Replayed(f[n - 1], queue[n]) = q
    <3>1. ~(q > Width) /\ ~(q < 0)
      BY <2>2, Numbers
    <3> QED
      BY <3>1 DEF Replayed, q
  <2> QED
    BY <2>3, <2>4, <2>5
<1>5. Replay(drawn.server, queue) = f[Len(queue)]
  BY <1>1, <1>2, <1>4, ReplayedAlong DEF Way
<1>6. After(Len(queue)) = f[Len(queue)]
  BY <1>1, <1>3 DEF After
<1> QED
  BY <1>5, <1>6, WayApplied

-----------------------------------------------------------------------------
(* A missile and the tank in its way. *)
LEMMA HitKept ==
    ASSUME Typed, HitUnlessSkipped, [Next]_vars
    PROVE  HitUnlessSkipped'
<1> USE DEF HitUnlessSkipped
<1>1. ASSUME UNCHANGED <<kind, pos, target, skipped>>, life' = life
      PROVE  HitUnlessSkipped'
  BY <1>1
<1>2. ASSUME NEW d \in Reads, ReadForFrame(d)
      PROVE  HitUnlessSkipped'
  <2>1. UNCHANGED <<kind, target>>
    BY <1>2 DEF ReadForFrame
  <2>2. UNCHANGED <<pos, skipped, life>> \/ Move(timer + d)
    BY <1>2 DEF ReadForFrame
  <2>3. CASE UNCHANGED <<pos, skipped, life>>
    BY <1>1, <2>1, <2>3
  <2>4. CASE Move(timer + d)
    <3> SUFFICES ASSUME kind = "missile", life' = "alive", pos' > target
                 PROVE  skipped'
      BY <2>1
    <3>1. CASE life = "erased"
      BY <2>4, <3>1 DEF Move, MoveHull, MoveOwn
    <3>2. CASE life # "erased"
      <4>1. PICK tested \in BOOLEAN : Fly(timer + d, tested)
        BY <2>4, <3>2 DEF Move, MoveHull, MoveOwn
      <4> DEFINE close == life = "alive" /\ CheckCollision(pos, target)
      <4>2. /\ life' = IF (tested /\ close) \/ pos' > Width THEN "dead" ELSE life
            /\ skipped' = (\/ skipped \/ (close /\ ~tested)
                           \/ (pos + Reach < target /\ pos' > target))
        BY <4>1 DEF Fly
      <4> HIDE DEF close
      <4>3. life = "alive" /\ ~(tested /\ close)
        BY <4>2
      <4>4. pos \in Nat /\ target \in 0 .. Width /\ Width \in Nat
        BY Numbers DEF Typed, TypeOK
      <4>5. CASE pos > target
        BY <4>2, <4>3, <4>5
      <4>6. CASE pos + Reach < target
        BY <4>2, <4>6
      <4>7. CASE ~(pos > target) /\ ~(pos + Reach < target)
        <5>1. Reach \in Nat /\ Speed \in Nat /\ Second \in Int
              /\ Reach <= Speed * Second /\ Speed * Second \in Int
          BY MotionAssumption
        <5>2. Distance(pos, target) <= Reach
          BY <4>4, <4>7, <5>1 DEF Distance
        <5>3. Ahead(pos, target) \in 0 .. Speed * Second
          BY <4>4, <4>7, <5>1 DEF Ahead
        <5>4. close
          BY <4>3, <5>2, <5>3 DEF close, CheckCollision
        <5> QED
          BY <4>2, <4>3, <5>4
      <4> QED
        BY <4>5, <4>6, <4>7
    <3> QED
      BY <3>1, <3>2
  <2> QED
    BY <2>2, <2>3, <2>4
<1>3. ASSUME NEW d \in Reads, ReadForTick(d)
      PROVE  HitUnlessSkipped'
  <2>1. UNCHANGED <<kind, pos, target, skipped>>
        /\ (life' = life \/ life' = "erased")
    BY <1>3 DEF ReadForTick, Tick
  <2> QED
    BY <2>1
<1>4. CASE Receive
  BY <1>1, <1>4
     DEF Receive, UpdateTankMovement, UpdateTankTurret, UpdateMissile, UpdateOwnTank
<1>5. CASE PressThree \/ OwnFrameOnly
  BY <1>1, <1>5 DEF PressThree, OwnFrameOnly
<1>6. ASSUME NEW dt \in TimeDeltas, Frame(dt)
      PROVE  HitUnlessSkipped'
  BY <1>1, <1>6 DEF Frame
<1>7. ASSUME NEW t \in Moves, NEW z \in BOOLEAN, OwnFrame(t, z)
      PROVE  HitUnlessSkipped'
  BY <1>1, <1>7 DEF OwnFrame
<1>8. CASE UNCHANGED vars
  BY <1>1, <1>8 DEF vars
<1> QED
  BY <1>2, <1>3, <1>4, <1>5, <1>6, <1>7, <1>8 DEF Next, Loop

-----------------------------------------------------------------------------
(* A frame moves what is drawn by a share of the gap. *)
LEMMA DeltaBound ==
    /\ MaxDelta \in Nat /\ \A e \in TimeDeltas : e <= MaxDelta
<1>1. \E d \in TimeDeltas : \A e \in TimeDeltas : e <= d
  BY MotionAssumption
<1>2. MaxDelta \in TimeDeltas /\ \A e \in TimeDeltas : e <= MaxDelta
  BY <1>1 DEF MaxDelta
<1> QED
  BY <1>2, Numbers

(* Two blends of the same gap, one ratio after the other. *)
LEMMA TwoBlends ==
    ASSUME NEW r \in Nat, NEW q \in Nat, NEW d \in Nat, r <= q, q - r <= d,
           NEW s \in Int, NEW c \in Int, NEW f \in Int
    PROVE  Distance(Blend(q, s + f, c + f), Blend(r, s, c) + f)
              <= CeilDiv(d * Distance(s, c), Blending)
<1>1. Blending \in Nat \ {0}
  BY Numbers
<1> DEFINE g == Distance(s, c)
           low == CeilDiv(r * g, Blending)
           high == CeilDiv(q * g, Blending)
           share == CeilDiv(d * g, Blending)
<1>2. g \in Nat
  BY DEF Distance
<1>3. low <= high /\ high - low <= share
  <2> HIDE DEF g
  <2> QED
    BY <1>1, <1>2, Grows
<1>4. low \in Nat /\ high \in Nat
  <2> DEFINE R == r * g
             Q == q * g
  <2>1. R \in Nat /\ Q \in Nat
    <3> HIDE DEF g
    <3> QED
      BY <1>2
  <2> HIDE DEF R, Q
  <2>2. CeilDiv(R, Blending) \in Nat /\ CeilDiv(Q, Blending) \in Nat
    BY <1>1, <2>1, Ceiling
  <2> QED
    BY <2>2 DEF R, Q
<1>5. CASE s >= c
  <2>1. /\ g = s - c /\ (s + f) - (c + f) = s - c /\ s + f >= c + f
    BY <1>5 DEF Distance
  <2>2. Blend(q, s + f, c + f) = (c + f) + high /\ Blend(r, s, c) = c + low
    BY <1>5, <2>1 DEF Blend
  <2> HIDE DEF g, low, high, share
  <2>3. Distance((c + f) + high, (c + low) + f) = high - low
    BY <1>3, <1>4 DEF Distance
  <2> QED
    BY <1>3, <2>2, <2>3 DEF g, share
<1>6. CASE ~(s >= c)
  <2>1. /\ g = c - s /\ (c + f) - (s + f) = c - s /\ ~(s + f >= c + f)
    BY <1>6 DEF Distance
  <2>2. Blend(q, s + f, c + f) = (c + f) - high /\ Blend(r, s, c) = c - low
    BY <1>6, <2>1 DEF Blend
  <2> HIDE DEF g, low, high, share
  <2>3. Distance((c + f) - high, (c - low) + f) = high - low
    BY <1>3, <1>4 DEF Distance
  <2> QED
    BY <1>3, <2>2, <2>3 DEF g, share
<1> QED
  BY <1>5, <1>6

LEMMA ShareOfGap ==
    ASSUME Typed, Blends, NEW dt \in TimeDeltas, Frame(dt), rebased, half = "no",
           ~Opposite(drawn'.server, drawn'.client)
    PROVE  Distance(drawn'.x, drawn.x + (drawn'.client - drawn.client))
              <= CeilDiv(MaxDelta * Distance(drawn.server, drawn.client), Blending)
<1> DEFINE v == drawn.velocity * dt
           s == drawn.server
           c == drawn.client
<1>1. /\ s \in Int /\ c \in Int /\ drawn.velocity \in Int
      /\ drawn.ratio \in 0 .. Blending /\ dt \in Nat /\ Blending \in Nat
  BY DrawnFields, Numbers
<1>2. v \in Int /\ ~Opposite(s, c)
  <2>1. v \in Int
    BY <1>1
  <2>2. CASE kind = "missile"
    <3>1. s \in Nat /\ c \in Nat
      BY <2>2 DEF Typed, Places, Place
    <3> QED
      BY <2>1, <3>1, Numbers DEF Opposite
  <2>3. CASE kind # "missile"
    <3>1. drawn'.server = s /\ drawn'.client = c
      BY <2>3, FrameDrawn
    <3> QED
      BY <2>1, <3>1
  <2> QED
    BY <2>2, <2>3
<1>3. /\ drawn.velocity = drawn.serverVelocity
      /\ \E r \in 0 .. drawn.ratio : /\ \E d \in TimeDeltas : drawn.ratio - r <= d
                                     /\ drawn.x = Blend(r, s, c)
  BY <1>2 DEF Blends
<1>4. PICK r \in 0 .. drawn.ratio : /\ \E d \in TimeDeltas : drawn.ratio - r <= d
                                    /\ drawn.x = Blend(r, s, c)
  BY <1>3
<1>5. PICK d \in TimeDeltas : drawn.ratio - r <= d
  BY <1>4
<1>6. /\ drawn.ratio \in Nat /\ r \in Nat /\ r <= drawn.ratio
      /\ MaxDelta \in Nat /\ drawn.ratio - r <= MaxDelta
  <2>1. d \in Nat /\ d <= MaxDelta /\ MaxDelta \in Nat
    BY DeltaBound, Numbers
  <2>2. drawn.ratio \in Nat /\ r \in Nat /\ r <= drawn.ratio
    BY <1>1
  <2> QED
    BY <1>5, <2>1, <2>2
<1>7. /\ drawn'.client = c + v
      /\ drawn'.x = Blend(drawn.ratio, s + v, c + v)
  <2>1. /\ drawn'.client = drawn.client + drawn.velocity * dt
        /\ drawn'.x = Blend(drawn.ratio, drawn.server + drawn.serverVelocity * dt,
                            drawn.client + drawn.velocity * dt)
    <3> DEFINE a == drawn.server + drawn.serverVelocity * dt
               b == drawn.client + drawn.velocity * dt
    <3>1. /\ drawn'.server = a /\ drawn'.client = b
          /\ ~Opposite(a, b) => drawn'.x = Blend(drawn.ratio, a, b)
      BY FrameDrawn
    <3> HIDE DEF a, b
    <3>2. drawn'.x = Blend(drawn.ratio, a, b)
      BY <3>1
    <3> QED
      BY <3>1, <3>2 DEF a, b
  <2> QED
    BY <1>3, <2>1
<1> HIDE DEF v, s, c
<1>8. drawn'.client - drawn.client = v
  BY <1>1, <1>2, <1>7 DEF c
<1>9. Distance(Blend(drawn.ratio, s + v, c + v), Blend(r, s, c) + v)
         <= CeilDiv(MaxDelta * Distance(s, c), Blending)
  BY <1>1, <1>2, <1>6, TwoBlends
<1> QED
  BY <1>4, <1>7, <1>8, <1>9 DEF s, c

-----------------------------------------------------------------------------
Kept == Typed /\ Blends /\ OnOneWay

LEMMA KeptInit == Init => Kept
<1>1. Init => Blends
  BY DEF Init, Blends
<1> QED
  BY <1>1, TypedInit, OnOneWayInit DEF Kept

LEMMA KeptNext == Kept /\ [Next]_vars => Kept'
  BY TypedKept, BlendsKept, OnOneWayKept DEF Kept

LEMMA KeptShows == Kept => MotionInv
  BY WayPredicts DEF Kept, Typed, MotionInv

LEMMA AlwaysKept == Spec => []Kept
  BY KeptInit, KeptNext, PTL DEF Spec

(* Tanks stay on the screen or half a sprite outside, and so does what is  *)
(* sent of them, until an input is too long for one wrap; blending and     *)
(* packets keep their state, deaths or not; and the client predicts        *)
(* where the server will take the player's tank: its inputs lie on one     *)
(* way, of which the server has applied a part and acknowledged a part of  *)
(* that (main.cpp:85-147, Movable.cpp:34-45, application.cpp:281-313).     *)
THEOREM MotionKept == Spec => []MotionInv
  BY AlwaysKept, KeptShows, PTL

(* A missile gets past the middle of a tank only through a frame that did  *)
(* not test it or that it crossed the reach in (collision.cpp:4-23,        *)
(* main.cpp:85-122, 171-180).  The reach is less than what a missile flies *)
(* in the second that the test looks ahead (radii of 32 and 16 against 500 *)
(* a second), so the test finds whatever comes closer and is in reach.     *)
THEOREM HitsUnlessSkipped == Spec => []HitUnlessSkipped
<1>1. Init => HitUnlessSkipped
  <2>1. 0 \in Nat /\ \A x \in 0 .. Width : ~(0 > x)
    OBVIOUS
  <2> QED
    BY <2>1 DEF Init, HitUnlessSkipped
<1>2. Kept /\ HitUnlessSkipped /\ [Next]_vars => HitUnlessSkipped'
  BY HitKept DEF Kept
<1> QED
  BY <1>1, <1>2, AlwaysKept, PTL DEF Spec

(* A frame never makes what is drawn jump: it moves it, with what it       *)
(* draws, by at most the share of the gap to the server that one frame of  *)
(* time is worth, for every length of frame and every move of the tank,    *)
(* save from one side of the screen to the other where that is meant       *)
(* (Movable.cpp:34-45, 105-127).                                           *)
THEOREM NeverJumps == Spec => MovesByShare
<1> DEFINE A == \A dt \in TimeDeltas :
                   /\ Frame(dt) /\ rebased /\ half = "no"
                   /\ ~Opposite(drawn'.server, drawn'.client)
                   => LET flown == drawn'.client - drawn.client
                      IN  Distance(drawn'.x, drawn.x + flown)
                            <= CeilDiv(MaxDelta * Distance(drawn.server, drawn.client),
                                       Blending)
<1>1. Kept => A
  BY ShareOfGap DEF Kept
<1>2. [][A]_vars => MovesByShare
  BY DEF MovesByShare
<1> HIDE DEF A
<1>3. Kept /\ [Next]_vars => [A]_vars
  BY <1>1
<1>4. Spec => [][A]_vars
  BY <1>3, AlwaysKept, PTL DEF Spec
<1> QED
  BY <1>2, <1>4

=============================================================================
