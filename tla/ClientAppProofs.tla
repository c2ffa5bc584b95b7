-------------------------- MODULE ClientAppProofs ---------------------------
(***************************************************************************)
(* Proofs about ClientApp, for any number of inputs, missiles and clicks   *)
(* and any times with a frame much shorter than the cooldown.              *)
(***************************************************************************)
EXTENDS ClientApp, TLAPS, FiniteSetTheorems, SequenceTheorems,
        FunctionTheorems

USE DEF mechanism, player, client, server, history

-----------------------------------------------------------------------------
(* A set of naturals has a smallest member: the intervals below its        *)
(* members are finite sets, and one is minimal.                            *)
LEMMA Smallest ==
    ASSUME NEW T \in SUBSET Nat, NEW t \in T
    PROVE  \E x \in T : \A y \in T : x <= y
<1> DEFINE S == 0 .. t
           B == {0 .. x : x \in {y \in T : y <= t}}
<1>1. IsFiniteSet(S)
  BY FS_Interval
<1>2. IsWellFoundedOn(StrictSubsetOrdering(S), SUBSET S)
  BY <1>1, FS_StrictSubsetOrderingWellFounded, FS_FiniteSubsetsOfFinite
<1>3. B \in SUBSET SUBSET S /\ B # {}
  OBVIOUS
<1>4. PICK b \in B : \A a \in B : ~(<<a, b>> \in StrictSubsetOrdering(S))
  <2> HIDE DEF B, S
  <2> QED
    BY <1>2, <1>3, WFMin
<1>5. PICK x \in T : x <= t /\ b = 0 .. x
  BY <1>4
<1>6. ASSUME NEW y \in T, ~(x <= y)
      PROVE  FALSE
  <2>1. 0 .. y \in B /\ 0 .. y \subseteq b /\ 0 .. y # b
    <3>1. y <= t /\ y < x
      BY <1>5, <1>6
    <3>2. x \in b /\ x \notin 0 .. y
      BY <1>5, <3>1
    <3> QED
      BY <1>5, <3>1, <3>2
  <2> QED
    BY <1>3, <1>4, <2>1 DEF StrictSubsetOrdering
<1> QED
  BY <1>5, <1>6

(* Induction up to n. *)
LEMMA UpTo ==
    ASSUME NEW n \in Nat, NEW T \in SUBSET (0 .. n), 0 \in T,
           \A j \in 1 .. n : j - 1 \in T => j \in T
    PROVE  T = 0 .. n
<1> DEFINE U == (0 .. n) \ T
<1> SUFFICES ASSUME U # {}
             PROVE  FALSE
  OBVIOUS
<1>1. PICK x \in U : \A y \in U : x <= y
  <2>1. U \in SUBSET Nat
    OBVIOUS
  <2> HIDE DEF U
  <2> QED
    BY <2>1, Smallest
<1>2. x \in 1 .. n /\ x - 1 \in 0 .. n /\ x - 1 \notin U
  BY <1>1
<1> QED
  BY <1>1, <1>2

-----------------------------------------------------------------------------
(* Sequences. *)
LEMMA Joined ==
    ASSUME NEW S, NEW p \in Seq(S), NEW q \in Seq(S)
    PROVE  /\ p \o q \in Seq(S) /\ Len(p \o q) = Len(p) + Len(q)
           /\ \A k \in 1 .. Len(p) : (p \o q)[k] = p[k]
           /\ \A k \in 1 .. Len(q) : (p \o q)[Len(p) + k] = q[k]
  OBVIOUS

LEMMA Appended ==
    ASSUME NEW S, NEW s \in Seq(S), NEW e \in S
    PROVE  /\ Append(s, e) \in Seq(S) /\ Len(Append(s, e)) = Len(s) + 1
           /\ \A k \in 1 .. Len(s) : Append(s, e)[k] = s[k]
           /\ Append(s, e)[Len(s) + 1] = e
           /\ DOMAIN s = 1 .. Len(s) /\ DOMAIN Append(s, e) = 1 .. Len(s) + 1
           /\ Len(s) \in Nat
  OBVIOUS

LEMMA Ended ==
    ASSUME NEW S, NEW s \in Seq(S), NEW e \in S
    PROVE  s \o <<e>> = Append(s, e) /\ s \o <<>> = s
  OBVIOUS

LEMMA Taken ==
    ASSUME NEW S, NEW s \in Seq(S), s # <<>>
    PROVE  /\ Tail(s) \in Seq(S) /\ Len(s) \in Nat /\ Len(s) >= 1
           /\ Len(Tail(s)) = Len(s) - 1 /\ Head(s) = s[1] /\ s[1] \in S
           /\ \A k \in 1 .. Len(s) - 1 : Tail(s)[k] = s[k + 1]
           /\ DOMAIN s = 1 .. Len(s) /\ DOMAIN Tail(s) = 1 .. Len(s) - 1
  OBVIOUS

-----------------------------------------------------------------------------
(* Counting shots. *)
IsShot(input) == input.type = "turret" /\ input.shot

LEMMA ShotsNat ==
    ASSUME NEW S, NEW s \in Seq(S)
    PROVE  Shots(s) \in Nat
<1> DEFINE T == {k \in 1 .. Len(s) : s[k].type = "turret" /\ s[k].shot}
<1>1. IsFiniteSet(1 .. Len(s)) /\ T \subseteq 1 .. Len(s)
  BY FS_Interval
<1> HIDE DEF T
<1>2. IsFiniteSet(T) /\ Cardinality(T) \in Nat
  BY <1>1, FS_Subset, FS_CardinalityType
<1> QED
  BY <1>2 DEF Shots, T

LEMMA ShotsNone == Shots(<<>>) = 0
<1>1. {k \in 1 .. Len(<<>>) : <<>>[k].type = "turret" /\ <<>>[k].shot} = {}
  OBVIOUS
<1> QED
  BY <1>1, FS_EmptySet DEF Shots

LEMMA ShotsAppended ==
    ASSUME NEW S, NEW s \in Seq(S), NEW e \in S
    PROVE  Shots(Append(s, e)) = Shots(s) + (IF IsShot(e) THEN 1 ELSE 0)
<1> DEFINE n == Len(s)
           a == Append(s, e)
           T == {k \in 1 .. n : s[k].type = "turret" /\ s[k].shot}
           U == {k \in 1 .. n + 1 : a[k].type = "turret" /\ a[k].shot}
<1>1. /\ a \in Seq(S) /\ Len(a) = n + 1 /\ a[n + 1] = e /\ n \in Nat
      /\ \A k \in 1 .. n : a[k] = s[k]
  BY Appended
<1>2. Shots(s) = Cardinality(T) /\ Shots(a) = Cardinality(U)
  BY <1>1 DEF Shots
<1> HIDE DEF a
<1>3. \A k \in 1 .. n + 1 : k = n + 1 \/ k \in 1 .. n
  BY <1>1
<1>4. U = IF IsShot(e) THEN T \cup {n + 1} ELSE T
  BY <1>1, <1>3 DEF IsShot
<1>5. IsFiniteSet(T) /\ n + 1 \notin T /\ Cardinality(T) \in Nat
  <2>1. IsFiniteSet(1 .. n) /\ T \subseteq 1 .. n
    BY <1>1, FS_Interval
  <2>2. n + 1 \notin T
    BY <1>1
  <2> HIDE DEF T
  <2> QED
    BY <2>1, <2>2, FS_Subset, FS_CardinalityType
<1> HIDE DEF T, U
<1>6. CASE IsShot(e)
  BY <1>2, <1>4, <1>5, <1>6, FS_AddElement DEF a
<1>7. CASE ~IsShot(e)
  BY <1>2, <1>4, <1>5, <1>7 DEF a
<1> QED
  BY <1>6, <1>7

LEMMA ShotsTaken ==
    ASSUME NEW S, NEW s \in Seq(S), s # <<>>
    PROVE  Shots(s) = Shots(Tail(s)) + (IF IsShot(Head(s)) THEN 1 ELSE 0)
<1> DEFINE n == Len(s)
           t == Tail(s)
           Later == {k \in 2 .. n : s[k].type = "turret" /\ s[k].shot}
           T == {k \in 1 .. n : s[k].type = "turret" /\ s[k].shot}
           U == {k \in 1 .. n - 1 : t[k].type = "turret" /\ t[k].shot}
           shift == [k \in U |-> k + 1]
<1>1. /\ t \in Seq(S) /\ Len(t) = n - 1 /\ n \in Nat /\ n >= 1 /\ Head(s) = s[1]
      /\ \A k \in 1 .. n - 1 : t[k] = s[k + 1]
  BY Taken
<1>2. Shots(s) = Cardinality(T) /\ Shots(t) = Cardinality(U)
  BY <1>1 DEF Shots
<1> HIDE DEF t
<1>3. shift \in Bijection(U, Later)
  <2>1. \A k \in U : k + 1 \in Later /\ k \in Int
    BY <1>1
  <2>2. \A k \in Later : k - 1 \in U /\ k = (k - 1) + 1
    BY <1>1
  <2>3. shift \in [U -> Later]
    BY <2>1
  <2>4. \A j, k \in U : shift[j] = shift[k] => j = k
    BY <2>1
  <2>5. \A k \in Later : \E j \in U : shift[j] = k
    BY <2>2
  <2> HIDE DEF U, Later, shift
  <2> QED
    BY <2>3, <2>4, <2>5, Fun_IsBij
<1>4. IsFiniteSet(U) /\ 1 \notin Later
  <2>1. IsFiniteSet(1 .. n - 1) /\ U \subseteq 1 .. n - 1
    <3>1. n - 1 \in Int
      BY <1>1
    <3>2. U \subseteq 1 .. n - 1
      OBVIOUS
    <3> HIDE DEF U, n
    <3> QED
      BY <3>1, <3>2, FS_Interval
  <2>2. 1 \notin Later
    OBVIOUS
  <2> HIDE DEF U, Later
  <2> QED
    BY <2>1, <2>2, FS_Subset
<1>5. T = IF IsShot(Head(s)) THEN Later \cup {1} ELSE Later
  <2>1. \A k \in 1 .. n : k = 1 \/ k \in 2 .. n
    BY <1>1
  <2> QED
    BY <1>1, <2>1 DEF IsShot
<1> HIDE DEF T, U, Later, shift
<1>6. IsFiniteSet(Later) /\ Cardinality(Later) = Cardinality(U)
      /\ Cardinality(U) \in Nat
  BY <1>3, <1>4, FS_Bijection, FS_CardinalityType, Fun_ExistsBij DEF ExistsBijection
<1>7. CASE IsShot(Head(s))
  BY <1>2, <1>4, <1>5, <1>6, <1>7, FS_AddElement DEF t
<1>8. CASE ~IsShot(Head(s))
  BY <1>2, <1>5, <1>6, <1>8 DEF t
<1> QED
  BY <1>7, <1>8

-----------------------------------------------------------------------------
(* The packets of a tick about missiles. *)
Missive(m) == [type |-> "missile", missile |-> m, alive |-> flight[m] = "alive"]
About == [type : {"missile"}, missile : Missiles, alive : BOOLEAN]
Row(n, f) == f = [m \in 0 .. n |-> IF m = 0 THEN <<>> ELSE f[m - 1] \o Announcement(m)]

LEMMA RowExists ==
    ASSUME NEW n \in Nat
    PROVE  \E f : Row(n, f)
<1> DEFINE T == {k \in 0 .. n : \E f : Row(k, f)}
<1>1. 0 \in T
  <2> DEFINE f == [m \in 0 .. 0 |-> <<>>]
  <2>1. \A m \in 0 .. 0 : m = 0
    OBVIOUS
  <2>2. Row(0, f)
    BY <2>1 DEF Row
  <2> QED
    BY <2>2
<1>2. ASSUME NEW k \in 1 .. n, k - 1 \in T
      PROVE  k \in T
  <2>1. PICK f : Row(k - 1, f)
    BY <1>2
  <2> DEFINE last == f[k - 1] \o Announcement(k)
             g == [m \in 0 .. k |-> IF m = k THEN last ELSE f[m]]
  <2>2. \A m \in 0 .. k : g[m] = IF m = 0 THEN <<>> ELSE g[m - 1] \o Announcement(m)
    <3> SUFFICES ASSUME NEW m \in 0 .. k
                 PROVE  g[m] = IF m = 0 THEN <<>> ELSE g[m - 1] \o Announcement(m)
      OBVIOUS
    <3>1. CASE m = k
      <4>1. m # 0 /\ m - 1 \in 0 .. k /\ m - 1 # k
        BY <3>1
      <4> QED
        BY <3>1, <4>1
    <3>2. CASE m # k
      <4>1. m \in 0 .. k - 1 /\ (m # 0 => m - 1 \in 0 .. k /\ m - 1 # k)
        BY <3>2
      <4>2. f[m] = IF m = 0 THEN <<>> ELSE f[m - 1] \o Announcement(m)
        BY <2>1, <4>1 DEF Row
      <4> QED
        BY <3>2, <4>1, <4>2
    <3> QED
      BY <3>1, <3>2
  <2>3. g = [m \in 0 .. k |-> g[m]]
    OBVIOUS
  <2>4. Row(k, g)
    <3> HIDE DEF g
    <3> QED
      BY <2>2, <2>3 DEF Row
  <2> QED
    BY <2>4
<1>3. T = 0 .. n
  <2>1. T \in SUBSET (0 .. n)
    OBVIOUS
  <2> HIDE DEF T
  <2> QED
    BY <1>1, <1>2, <2>1, UpTo
<1> QED
  BY <1>3

LEMMA AnnouncedAll ==
    /\ Announced \in Seq(About)
    /\ \A k \in 1 .. Len(Announced) : \E m \in Announces : Announced[k] = Missive(m)
    /\ \A m \in Announces : \E k \in 1 .. Len(Announced) : Announced[k] = Missive(m)
<1>0. MaxMissiles \in Nat
  BY TimeAssumption
<1> DEFINE f == CHOOSE g : Row(MaxMissiles, g)
<1>1. Announced = f[MaxMissiles]
  BY DEF Announced, Row
<1>2. Row(MaxMissiles, f)
  BY <1>0, RowExists
<1>3. \A m \in 0 .. MaxMissiles :
         f[m] = IF m = 0 THEN <<>> ELSE f[m - 1] \o Announcement(m)
  <2> HIDE DEF f
  <2> QED
    BY <1>2 DEF Row
<1> HIDE DEF f
<1> DEFINE Good(s, n) ==
              /\ s \in Seq(About)
              /\ \A k \in 1 .. Len(s) : \E m \in Announces : s[k] = Missive(m)
              /\ \A m \in Announces :
                    m <= n => \E k \in 1 .. Len(s) : s[k] = Missive(m)
           T == {n \in 0 .. MaxMissiles : Good(f[n], n)}
<1>4. Announces \subseteq Missiles /\ \A m \in Announces : m \in Nat /\ m >= 1
  BY DEF Announces, Missiles
<1>5. \A m \in Missiles : Missive(m) \in About
  BY DEF Missive, About
<1>6. 0 \in T
  <2>1. f[0] = <<>> /\ 0 \in 0 .. MaxMissiles
    BY <1>0, <1>3
  <2>2. f[0] \in Seq(About) /\ 1 .. Len(f[0]) = {}
    <3>1. <<>> \in Seq(About) /\ 1 .. Len(<<>>) = {}
      OBVIOUS
    <3> QED
      BY <2>1, <3>1
  <2>3. \A m \in Announces : ~(m <= 0)
    BY <1>4
  <2>4. Good(f[0], 0)
    BY <2>2, <2>3
  <2> HIDE DEF Good
  <2> QED
    BY <2>1, <2>4
<1>7. ASSUME NEW n \in 1 .. MaxMissiles, n - 1 \in T
      PROVE  n \in T
  <2> DEFINE s == f[n - 1]
             t == f[n]
  <2>0. n \in Missiles /\ n \in 0 .. MaxMissiles /\ n # 0
    BY <1>0 DEF Missiles
  <2>1. t = s \o Announcement(n) /\ n \in Missiles
    BY <1>3, <2>0
  <2>2. Good(s, n - 1)
    BY <1>7
  <2>3. CASE n \in Announces
    <3>1. Announcement(n) = <<Missive(n)>>
      BY <2>3 DEF Announcement, Missive
    <3>2. t = Append(s, Missive(n)) /\ Missive(n) \in About
      BY <1>5, <2>1, <2>2, <3>1, Ended
    <3>3. /\ t \in Seq(About) /\ Len(t) = Len(s) + 1 /\ Len(s) \in Nat
          /\ \A k \in 1 .. Len(s) : t[k] = s[k]
          /\ t[Len(s) + 1] = Missive(n)
      BY <2>2, <3>2, Appended
    <3> HIDE DEF s, t
    <3>4. ASSUME NEW k \in 1 .. Len(t)
          PROVE  \E m \in Announces : t[k] = Missive(m)
      <4>1. k = Len(s) + 1 \/ k \in 1 .. Len(s)
        BY <3>3
      <4> QED
        BY <2>2, <2>3, <3>3, <4>1
    <3>5. ASSUME NEW m \in Announces, m <= n
          PROVE  \E k \in 1 .. Len(t) : t[k] = Missive(m)
      <4>1. CASE m = n
        <5>1. Len(s) + 1 \in 1 .. Len(t)
          BY <3>3
        <5> QED
          BY <3>3, <4>1, <5>1
      <4>2. CASE m # n
        <5>1. m <= n - 1
          BY <1>4, <3>5, <4>2
        <5>2. PICK k \in 1 .. Len(s) : s[k] = Missive(m)
          BY <2>2, <5>1
        <5>3. k \in 1 .. Len(t)
          BY <3>3
        <5> QED
          BY <3>3, <5>2, <5>3
      <4> QED
        BY <4>1, <4>2
    <3>6. Good(t, n)
      BY <3>3, <3>4, <3>5
    <3> HIDE DEF Good
    <3> QED
      BY <3>6 DEF t
  <2>4. CASE n \notin Announces
    <3>1. t = s
      BY <2>1, <2>2, <2>4, Ended DEF Announcement
    <3>2. \A m \in Announces : m <= n => m <= n - 1
      BY <1>4, <2>4
    <3>3. Good(t, n)
      BY <2>2, <3>1, <3>2
    <3> HIDE DEF Good
    <3> QED
      BY <3>3 DEF t
  <2> QED
    BY <2>3, <2>4
<1>8. T = 0 .. MaxMissiles
  <2>1. T \in SUBSET (0 .. MaxMissiles)
    OBVIOUS
  <2> HIDE DEF T
  <2> QED
    BY <1>0, <1>6, <1>7, <2>1, UpTo
<1>9. Good(f[MaxMissiles], MaxMissiles)
  BY <1>0, <1>8
<1>10. \A m \in Announces : m <= MaxMissiles
  BY <1>4 DEF Missiles
<1> QED
  BY <1>1, <1>9, <1>10

-----------------------------------------------------------------------------
(* What the steps do to the sequences. *)
Outgoing == Inputs \cup {Start}
Incoming == Updates \cup {Start}

(* What has been sent before the input of this frame. *)
Before(start) == IF start THEN Append(toServer, Start) ELSE toServer

LEMMA Sent ==
    ASSUME TypeOK, NEW d \in 1 .. MaxFrame, NEW start \in BOOLEAN,
           NEW space \in BOOLEAN, NEW keys \in SUBSET Keys,
           PlayUpdate(d, start, space, keys),
           NEW shot, shot = Latched(start, space /\ Charged(d) = Cooldown)
    PROVE  /\ Before(start) \in Seq(Outgoing)
           /\ Sends(d) =>
                 /\ nextId \in Ids /\ Turret(nextId, shot) \in Inputs
                 /\ toServer' = Append(Before(start), Turret(nextId, shot))
                 /\ queued' = Append(queued, nextId) /\ nextId' = nextId + 1
           /\ ~Sends(d) =>
                 toServer' = Before(start) /\ queued' = queued /\ nextId' = nextId
<1> DEFINE input == IF Sends(d) THEN <<Turret(nextId, shot)>> ELSE <<>>
           prefix == IF start THEN <<Start>> ELSE <<>>
<1>0. /\ Sends(d) => nextId < MaxInputs
      /\ nextId' = nextId + Len(input)
      /\ queued' = IF Sends(d) THEN Append(queued, nextId) ELSE queued
      /\ toServer' = toServer \o prefix \o input
      /\ MaxInputs \in Nat /\ nextId \in 0 .. MaxInputs
      /\ toServer \in Seq(Outgoing) /\ missileShot \in BOOLEAN
  <2>1. /\ MaxInputs \in Nat /\ nextId \in 0 .. MaxInputs
        /\ toServer \in Seq(Outgoing) /\ missileShot \in BOOLEAN
    BY TimeAssumption DEF TypeOK, Outgoing
  <2> QED
    BY <2>1 DEF PlayUpdate
<1>1. shot \in BOOLEAN
  BY <1>0 DEF Latched
<1>2. Start \in Outgoing
  BY DEF Outgoing
<1>3. toServer \o prefix = Before(start) /\ Before(start) \in Seq(Outgoing)
  <2>1. CASE start
    BY <1>0, <1>2, <2>1, Ended, Appended DEF Before
  <2>2. CASE ~start
    BY <1>0, <1>2, <2>2, Ended DEF Before
  <2> QED
    BY <2>1, <2>2
<1>4. CASE Sends(d)
  <2>1. nextId \in Ids /\ Turret(nextId, shot) \in Inputs
    BY <1>0, <1>1, <1>4 DEF Ids, Turret, Inputs
  <2>2. Turret(nextId, shot) \in Outgoing
    BY <2>1 DEF Outgoing
  <2>3. Before(start) \o input = Append(Before(start), Turret(nextId, shot))
    BY <1>3, <1>4, <2>2, Ended
  <2>4. Len(input) = 1
    BY <1>4
  <2> HIDE DEF input, prefix
  <2> QED
    BY <1>0, <1>3, <1>4, <2>1, <2>3, <2>4
<1>5. CASE ~Sends(d)
  <2>1. Before(start) \o input = Before(start) /\ Len(input) = 0
    BY <1>2, <1>3, <1>5, Ended
  <2> HIDE DEF input, prefix
  <2> QED
    BY <1>0, <1>3, <1>5, <2>1
<1> QED
  BY <1>4, <1>5

(* A tick sends the turret, then the missiles. *)
Reply == [type |-> "turret", id |-> latest, angle |-> rotation]

LEMMA Ticked ==
    ASSUME TypeOK, Tick
    PROVE  /\ toClient' \in Seq(Incoming)
           /\ Len(Announced) \in Nat /\ Len(toClient) \in Nat
           /\ Len(toClient') = Len(toClient) + 1 + Len(Announced)
           /\ \A k \in 1 .. Len(toClient) : toClient'[k] = toClient[k]
           /\ toClient'[Len(toClient) + 1] = Reply
           /\ \A k \in 1 .. Len(Announced) :
                 toClient'[Len(toClient) + 1 + k] = Announced[k]
           /\ DOMAIN toClient = 1 .. Len(toClient)
           /\ DOMAIN toClient' = 1 .. Len(toClient')
<1>1. toClient \in Seq(Incoming) /\ latest \in Ids /\ rotation \in Angles
  BY DEF TypeOK, Incoming
<1>2. Reply \in Incoming /\ About \subseteq Incoming
  BY <1>1 DEF Reply, About, Incoming, Updates
<1>3. Announced \in Seq(About) /\ toClient' = Append(toClient, Reply) \o Announced
  BY AnnouncedAll DEF Tick, Reply
<1> HIDE DEF Reply, Announced
<1>4. Announced \in Seq(Incoming)
  <2> HIDE DEF About, Incoming
  <2> QED
    BY <1>2, <1>3
<1> DEFINE a == Append(toClient, Reply)
<1>5. /\ a \in Seq(Incoming) /\ Len(a) = Len(toClient) + 1
      /\ \A k \in 1 .. Len(toClient) : a[k] = toClient[k]
      /\ a[Len(toClient) + 1] = Reply
      /\ DOMAIN toClient = 1 .. Len(toClient) /\ Len(toClient) \in Nat
  BY <1>1, <1>2, Appended
<1> HIDE DEF a
<1>6. /\ a \o Announced \in Seq(Incoming)
      /\ Len(a \o Announced) = Len(a) + Len(Announced)
      /\ \A k \in 1 .. Len(a) : (a \o Announced)[k] = a[k]
      /\ \A k \in 1 .. Len(Announced) : (a \o Announced)[Len(a) + k] = Announced[k]
  <2>1. a \in Seq(Incoming)
    BY <1>5
  <2> HIDE DEF Incoming
  <2> QED
    BY <1>4, <2>1, Joined
<1>7. toClient' = a \o Announced
  BY <1>3 DEF a
<1>8. Len(Announced) \in Nat
  BY <1>4
<1>9. toClient' \in Seq(Incoming) /\ DOMAIN toClient' = 1 .. Len(toClient')
  BY <1>6, <1>7
<1>10. Len(toClient') = Len(toClient) + 1 + Len(Announced)
  BY <1>5, <1>6, <1>7
<1>11. \A k \in 1 .. Len(toClient) + 1 : toClient'[k] = a[k]
  BY <1>5, <1>6, <1>7
<1>12. \A k \in 1 .. Len(toClient) : k \in 1 .. Len(toClient) + 1
  BY <1>5
<1>13. Len(toClient) + 1 \in 1 .. Len(toClient) + 1
  BY <1>5
<1>14. \A k \in 1 .. Len(toClient) : toClient'[k] = toClient[k]
  BY <1>5, <1>11, <1>12
<1>15. toClient'[Len(toClient) + 1] = Reply
  BY <1>5, <1>11, <1>13
<1>16. \A k \in 1 .. Len(Announced) : toClient'[Len(toClient) + 1 + k] = Announced[k]
  BY <1>5, <1>6, <1>7
<1> QED
  BY <1>5, <1>8, <1>9, <1>10, <1>14, <1>15, <1>16

(* The packet taken by the client or by the server. *)
LEMMA Received ==
    ASSUME TypeOK, NEW type, Receives(type)
    PROVE  /\ toClient' \in Seq(Incoming) /\ toClient # <<>>
           /\ Head(toClient) = toClient[1] /\ Head(toClient) \in Incoming
           /\ Head(toClient).type = type
           /\ Len(toClient) \in Nat /\ Len(toClient) >= 1
           /\ DOMAIN toClient = 1 .. Len(toClient)
           /\ DOMAIN toClient' = 1 .. Len(toClient) - 1
           /\ \A k \in 1 .. Len(toClient) - 1 : toClient'[k] = toClient[k + 1]
<1>1. toClient \in Seq(Incoming) /\ toClient # <<>> /\ toClient' = Tail(toClient)
      /\ Head(toClient).type = type
  BY DEF TypeOK, Receives, Incoming
<1> QED
  BY <1>1, Taken

LEMMA ServerReceived ==
    ASSUME TypeOK, NEW type, ServerReceives(type)
    PROVE  /\ toServer' \in Seq(Outgoing) /\ toServer # <<>> /\ toServer \in Seq(Outgoing)
           /\ toServer' = Tail(toServer)
           /\ Head(toServer) = toServer[1] /\ Head(toServer) \in Outgoing
           /\ Head(toServer).type = type
           /\ Len(toServer) \in Nat /\ Len(toServer) >= 1
           /\ DOMAIN toServer = 1 .. Len(toServer)
           /\ DOMAIN toServer' = 1 .. Len(toServer) - 1
           /\ \A k \in 1 .. Len(toServer) - 1 : toServer'[k] = toServer[k + 1]
<1>1. toServer \in Seq(Outgoing) /\ toServer # <<>> /\ toServer' = Tail(toServer)
      /\ Head(toServer).type = type
  BY DEF TypeOK, ServerReceives, Outgoing
<1> QED
  BY <1>1, Taken

-----------------------------------------------------------------------------
(* Types, switches, the latch and the account of the shots. *)
Counted == /\ TypeOK /\ ReconciliationPredicts /\ ShotsAccounted
           /\ Fresh /\ Cooling /\ Numbered

LEMMA CountedInit == Init => Counted
<1> SUFFICES ASSUME Init
             PROVE  Counted
  OBVIOUS
<1>1. TypeOK
  <2>1. /\ Cooldown \in 0 .. Cooldown /\ 0 \in 0 .. SendAfter + 1
        /\ 0 \in 0 .. MaxInputs /\ 0 \in Ids /\ -1 \in Angles
        /\ 0 \in 0 .. MaxMissiles /\ 0 \in 0 .. MaxStarts
    BY TimeAssumption DEF Ids, Angles
  <2>2. /\ shown \in [{0} \cup Missiles -> {"none", "alive", "dead", "late"}]
        /\ flight \in [Missiles -> {"none", "alive", "dead", "erased"}]
    BY DEF Init
  <2>3. /\ queued \in Seq(Ids) /\ waiting \in Seq(Inputs)
        /\ toServer \in Seq(Inputs \cup {Start})
        /\ toClient \in Seq(Updates \cup {Start})
    BY DEF Init
  <2> QED
    BY <2>1, <2>2, <2>3 DEF Init, TypeOK
<1>2. ReconciliationPredicts /\ ShotsAccounted /\ Fresh /\ Cooling
  BY DEF Init, ReconciliationPredicts, ShotsAccounted, Fresh, Cooling
<1>3. Numbered
  BY DEF Init, Numbered, Missiles
<1> QED
  BY <1>1, <1>2, <1>3 DEF Counted

(* A shot is ready only when the latch has been taken. *)
LEMMA LatchIsFree ==
    ASSUME TypeOK, Cooling, game = "play", NEW d \in 1 .. MaxFrame,
           Charged(d) = Cooldown
    PROVE  ~missileShot
<1>1. /\ MaxFrame \in Nat /\ SendAfter \in Nat /\ Cooldown \in Nat
      /\ MaxFrame + SendAfter < Cooldown
  BY TimeAssumption
<1>2. cooldown + d >= Cooldown /\ cooldown \in Nat /\ sinceSent \in Nat
  BY <1>1 DEF TypeOK, Charged, AtMost
<1>3. ASSUME missileShot
      PROVE  FALSE
  <2>1. cooldown <= sinceSent /\ sinceSent <= SendAfter
    BY <1>3 DEF Cooling
  <2> QED
    BY <1>1, <1>2, <2>1
<1> QED
  BY <1>3

LEMMA PlayCounted ==
    ASSUME Counted, NEW d \in 1 .. MaxFrame, NEW start \in BOOLEAN,
           NEW space \in BOOLEAN, NEW keys \in SUBSET Keys,
           PlayUpdate(d, start, space, keys)
    PROVE  Counted'
<1> DEFINE shoots == space /\ Charged(d) = Cooldown
           shot == Latched(start, shoots)
           held == missileShot /\ ~start
           one(x) == IF x THEN 1 ELSE 0
<1>1. TypeOK /\ Fresh /\ Cooling /\ ShotsAccounted
  BY DEF Counted
<1>2. /\ Before(start) \in Seq(Outgoing)
      /\ Sends(d) =>
            /\ nextId \in Ids /\ Turret(nextId, shot) \in Inputs
            /\ toServer' = Append(Before(start), Turret(nextId, shot))
            /\ queued' = Append(queued, nextId) /\ nextId' = nextId + 1
      /\ ~Sends(d) =>
            toServer' = Before(start) /\ queued' = queued /\ nextId' = nextId
  BY <1>1, Sent
<1>3. /\ game = IF start THEN "menu" ELSE "play"
      /\ game' = "play" /\ (shoots => pressed < MaxMissiles)
      /\ pressed' = IF shoots THEN pressed + 1 ELSE pressed
      /\ cooldown' = IF shoots THEN 0 ELSE Charged(d)
      /\ sinceSent' = IF Sends(d) THEN 0 ELSE Elapsed(d)
      /\ missileShot' = (shot /\ ~Sends(d))
      /\ waiting' = waiting /\ fired' = fired
  BY DEF PlayUpdate
<1>4. /\ MaxFrame \in Nat /\ SendAfter \in Nat /\ Cooldown \in Nat
      /\ MaxFrame + SendAfter < Cooldown /\ MaxMissiles \in Nat /\ MaxInputs \in Nat
      /\ missileShot \in BOOLEAN /\ pressed \in Nat /\ fired \in Nat
      /\ cooldown \in Nat /\ sinceSent \in Nat
      /\ waiting \in Seq(Inputs) /\ toServer \in Seq(Outgoing)
  <2>1. /\ MaxFrame \in Nat /\ SendAfter \in Nat /\ Cooldown \in Nat
        /\ MaxFrame + SendAfter < Cooldown /\ MaxMissiles \in Nat /\ MaxInputs \in Nat
    BY TimeAssumption
  <2> QED
    BY <1>1, <2>1 DEF TypeOK, Outgoing
<1>5. pressed' \in 0 .. MaxMissiles /\ cooldown' \in 0 .. Cooldown
      /\ sinceSent' \in 0 .. SendAfter + 1
  BY <1>1, <1>3, <1>4 DEF TypeOK, Charged, Elapsed, AtMost
<1>6. nextId' \in 0 .. MaxInputs /\ queued' \in Seq(Ids)
  <2>1. nextId \in 0 .. MaxInputs /\ queued \in Seq(Ids)
    BY <1>1 DEF TypeOK
  <2>2. CASE Sends(d)
    <3>1. nextId \in Ids /\ queued' = Append(queued, nextId) /\ nextId' = nextId + 1
      BY <1>2, <2>2
    <3>2. nextId + 1 \in 0 .. MaxInputs
      BY <1>4, <3>1 DEF Ids
    <3>3. queued' \in Seq(Ids)
      BY <2>1, <3>1, Appended
    <3> QED
      BY <3>1, <3>2, <3>3
  <2>3. CASE ~Sends(d)
    <3>1. nextId' = nextId /\ queued' = queued
      BY <1>2, <2>3
    <3> QED
      BY <2>1, <3>1
  <2> QED
    BY <2>2, <2>3
<1>7. toServer' \in Seq(Outgoing)
  <2>1. CASE Sends(d)
    <3>1. Turret(nextId, shot) \in Outgoing
      BY <1>2, <2>1 DEF Outgoing
    <3> QED
      BY <1>2, <2>1, <3>1, Appended
  <2> QED
    BY <1>2, <2>1
<1>8. aim' \in Angles
  <2>1. queued # <<>> => queued[Len(queued)] \in Ids
    BY <1>1 DEF TypeOK
  <2> QED
    BY <1>1, <2>1 DEF PlayUpdate, Aim, TypeOK, Angles
<1>9. prediction' \in BOOLEAN /\ reconciliation' \in BOOLEAN
      /\ (reconciliation' => prediction')
  <2>1. prediction \in BOOLEAN /\ reconciliation \in BOOLEAN /\ Switches(keys)
    BY <1>1 DEF TypeOK, PlayUpdate
  <2> QED
    BY <2>1 DEF Switches
<1>10. missileShot' \in BOOLEAN
  BY <1>3, <1>4 DEF Latched
<1>11. TypeOK'
  <2>1. UNCHANGED <<serverAim, shown, server, toClient, unreconciled, starts>>
    BY DEF PlayUpdate
  <2> QED
    BY <1>1, <1>3, <1>5, <1>6, <1>7, <1>8, <1>9, <1>10, <2>1
    DEF TypeOK, Outgoing
<1>12. ~(shoots /\ held)
  BY <1>1, <1>3, LatchIsFree
<1>13. pressed = fired + Shots(waiting) + Shots(Before(start)) + one(held)
  <2>1. CASE start
    <3>1. pressed = 0 /\ fired = 0 /\ waiting = <<>> /\ toServer = <<>>
      BY <1>1, <1>3, <2>1 DEF Fresh
    <3>2. Shots(Before(start)) = 0
      <4>1. Start \in Outgoing /\ ~IsShot(Start)
        BY DEF Outgoing, Start, IsShot
      <4>2. Shots(Append(toServer, Start)) = Shots(toServer) + 0
        BY <1>4, <4>1, ShotsAppended
      <4>3. Shots(toServer) = 0
        BY <3>1, ShotsNone
      <4> QED
        BY <2>1, <4>2, <4>3 DEF Before
    <3>3. Shots(waiting) = 0
      BY <3>1, ShotsNone
    <3>4. one(held) = 0
      BY <2>1
    <3> QED
      BY <3>1, <3>2, <3>3, <3>4
  <2>2. CASE ~start
    <3>1. pressed = fired + Shots(waiting) + Shots(toServer) + one(missileShot)
      BY <1>1, <1>3, <2>2 DEF ShotsAccounted
    <3> QED
      BY <2>2, <3>1 DEF Before
  <2> QED
    BY <2>1, <2>2
<1>14. Shots(Before(start)) \in Nat /\ Shots(waiting) \in Nat
  BY <1>2, <1>4, ShotsNat
<1>15. one(shot) = one(held) + one(shoots)
  BY <1>4, <1>12 DEF Latched
<1>16. ShotsAccounted'
  <2>1. pressed' = fired + Shots(waiting) + Shots(Before(start)) + one(shot)
    <3> HIDE DEF shot, held
    <3> QED
      BY <1>3, <1>4, <1>13, <1>14, <1>15
  <2>2. CASE Sends(d)
    <3>1. Turret(nextId, shot) \in Outgoing
      BY <1>2, <2>2 DEF Outgoing
    <3>2. IsShot(Turret(nextId, shot)) <=> shot
      BY DEF IsShot, Turret
    <3>3. Shots(toServer') = Shots(Before(start)) + one(shot)
      <4> HIDE DEF shot
      <4> QED
        BY <1>2, <2>2, <3>1, <3>2, ShotsAppended
    <3>4. ~missileShot'
      BY <1>3, <2>2
    <3> HIDE DEF shot
    <3> QED
      BY <1>3, <1>4, <1>14, <2>1, <3>3, <3>4 DEF ShotsAccounted
  <2>3. CASE ~Sends(d)
    <3>1. Shots(toServer') = Shots(Before(start))
      BY <1>2, <2>3
    <3> HIDE DEF shot
    <3>2. one(missileShot') = one(shot)
      BY <1>3, <2>3
    <3> QED
      BY <1>3, <2>1, <3>1, <3>2 DEF ShotsAccounted
  <2> QED
    BY <2>2, <2>3
<1>17. Cooling'
  <2> SUFFICES ASSUME missileShot'
               PROVE  cooldown' <= sinceSent' /\ sinceSent' <= SendAfter
    BY DEF Cooling
  <2>1. shot /\ ~Sends(d)
    BY <1>3
  <2>2. sinceSent' = sinceSent + d /\ sinceSent' <= SendAfter /\ sinceSent' \in Nat
    BY <1>3, <1>4, <2>1 DEF Sends, Elapsed, AtMost
  <2>3. CASE shoots
    BY <1>3, <2>2, <2>3
  <2>4. CASE ~shoots
    <3>1. missileShot /\ game = "play"
      BY <1>3, <2>1, <2>4 DEF Latched
    <3>2. cooldown <= sinceSent
      BY <1>1, <3>1 DEF Cooling
    <3>3. cooldown' <= cooldown + d
      BY <1>3, <1>4, <2>4 DEF Charged, AtMost
    <3> QED
      BY <1>4, <1>5, <2>2, <3>2, <3>3
  <2> QED
    BY <2>3, <2>4
<1>18. ReconciliationPredicts' /\ Fresh' /\ Numbered'
  BY <1>3, <1>9 DEF ReconciliationPredicts, Fresh, Numbered, Counted, PlayUpdate
<1> QED
  BY <1>11, <1>16, <1>17, <1>18 DEF Counted

LEMMA ReceiveCounted ==
    ASSUME Counted, Receive
    PROVE  Counted'
<1>1. TypeOK
  BY DEF Counted
<1>2. ASSUME UpdateTankTurret
      PROVE  Counted'
  <2>1. Receives("turret")
    BY <1>2 DEF UpdateTankTurret
  <2>2. toClient' \in Seq(Incoming) /\ Head(toClient) \in Incoming
        /\ Head(toClient).type = "turret"
    BY <1>1, <2>1, Received
  <2>3. Head(toClient).id \in Ids /\ Head(toClient).angle \in Angles
    BY <2>2 DEF Incoming, Updates, Start
  <2>4. PICK n \in 0 .. Len(queued) : /\ Overtaken(Head(toClient).id, n)
                                      /\ queued' = Discard(Head(toClient).id, n)
    BY <1>2 DEF UpdateTankTurret
  <2>5. queued' \in Seq(Ids)
    <3>1. queued \in Seq(Ids)
      BY <1>1 DEF TypeOK
    <3>2. SubSeq(queued, n + 1, Len(queued)) \in Seq(Ids)
      BY <3>1
    <3>3. <<Head(toClient).id>> \in Seq(Ids)
      BY <2>3
    <3> QED
      BY <2>4, <3>2, <3>3 DEF Discard
  <2>6. game = "menu" => queued' = <<>>
    <3>1. ASSUME game = "menu"
          PROVE  queued' = <<>>
      <4>1. queued = <<>>
        BY <3>1 DEF Counted, Fresh
      <4>2. n = 0
        BY <2>4, <4>1
      <4>3. ~(\E k \in 1 .. n : queued[k] = Head(toClient).id)
        BY <4>2
      <4>4. SubSeq(queued, n + 1, Len(queued)) = <<>>
        BY <4>1, <4>2
      <4> QED
        BY <2>4, <4>3, <4>4 DEF Discard
    <3> QED
      BY <3>1
  <2>7. TypeOK'
    BY <1>1, <1>2, <2>2, <2>3, <2>5 DEF TypeOK, UpdateTankTurret, Incoming
  <2>8. (ReconciliationPredicts /\ ShotsAccounted /\ Cooling /\ Numbered)'
    BY <1>2 DEF Counted, ReconciliationPredicts, ShotsAccounted, Cooling, Numbered,
                UpdateTankTurret
  <2>9. Fresh'
    BY <1>2, <2>6 DEF Counted, Fresh, UpdateTankTurret
  <2> QED
    BY <2>7, <2>8, <2>9 DEF Counted
<1>3. ASSUME NEW type, Receives(type), NEW m \in {0} \cup Missiles, NEW alive,
             shown' = [shown EXCEPT ![m] = ShownAfter(@, alive)],
             UNCHANGED <<game, missileShot, cooldown, sinceSent, prediction,
                         reconciliation, nextId, queued, serverAim, aim, server,
                         toServer, history>>
      PROVE  Counted'
  <2>1. toClient' \in Seq(Incoming)
    BY <1>1, <1>3, Received
  <2>2. shown' \in [{0} \cup Missiles -> {"none", "alive", "dead", "late"}]
    BY <1>1, <1>3 DEF TypeOK, ShownAfter
  <2>3. TypeOK'
    BY <1>1, <1>3, <2>1, <2>2 DEF TypeOK, Incoming
  <2>4. (ReconciliationPredicts /\ ShotsAccounted /\ Cooling /\ Numbered /\ Fresh)'
    BY <1>3 DEF Counted, ReconciliationPredicts, ShotsAccounted, Cooling, Numbered,
                Fresh
  <2> QED
    BY <2>3, <2>4 DEF Counted
<1>4. ASSUME UpdateMissile
      PROVE  Counted'
  <2>1. Receives("missile")
    BY <1>4 DEF UpdateMissile
  <2>2. Head(toClient) \in Incoming /\ Head(toClient).type = "missile"
    BY <1>1, <2>1, Received
  <2>3. Head(toClient).missile \in Missiles
    BY <2>2 DEF Incoming, Updates, Start
  <2> QED
    BY <1>3, <1>4, <2>1, <2>3 DEF UpdateMissile
<1>5. ASSUME ClickedStart
      PROVE  Counted'
  BY <1>3, <1>5 DEF ClickedStart
<1> QED
  BY <1>2, <1>4, <1>5 DEF Receive

LEMMA ServerCounted ==
    ASSUME Counted, Main \/ OtherStarts
    PROVE  Counted'
<1>1. TypeOK /\ toClient \in Seq(Incoming) /\ Start \in Incoming
  BY DEF Counted, TypeOK, Incoming
<1>2. Append(toClient, Start) \in Seq(Incoming)
  BY <1>1, Appended
<1>3. waiting \in Seq(Inputs) /\ toServer \in Seq(Outgoing)
  BY <1>1 DEF TypeOK, Outgoing
<1>4. ASSUME ReceiveStart
      PROVE  Counted'
  <2>1. ServerReceives("start") /\ toClient' = Append(toClient, Start)
        /\ UNCHANGED <<client, server, history>>
    BY <1>4 DEF ReceiveStart
  <2>2. toServer' = Tail(toServer) /\ toServer # <<>> /\ ~IsShot(Head(toServer))
        /\ toServer' \in Seq(Outgoing)
    <3>1. Head(toServer).type = "start" /\ toServer # <<>>
          /\ toServer' = Tail(toServer) /\ toServer' \in Seq(Outgoing)
      BY <1>1, <2>1, ServerReceived
    <3> QED
      BY <3>1 DEF IsShot
  <2>3. Shots(toServer') = Shots(toServer)
    <3>1. Shots(toServer) = Shots(Tail(toServer)) + 0
      BY <1>3, <2>2, ShotsTaken
    <3>2. Shots(toServer') \in Nat
      BY <2>2, ShotsNat
    <3> QED
      BY <2>2, <3>1, <3>2
  <2>4. TypeOK'
    BY <1>1, <1>2, <2>1, <2>2 DEF TypeOK, Outgoing, Incoming
  <2>5. (ReconciliationPredicts /\ Cooling /\ Numbered)'
    BY <2>1 DEF Counted, ReconciliationPredicts, Cooling, Numbered
  <2>6. Fresh'
    BY <2>1, <2>2 DEF Counted, Fresh
  <2>7. ShotsAccounted'
    BY <2>1, <2>3 DEF Counted, ShotsAccounted
  <2> QED
    BY <2>4, <2>5, <2>6, <2>7 DEF Counted
<1>5. ASSUME ReceiveTurret
      PROVE  Counted'
  <2> DEFINE h == Head(toServer)
  <2>1. ServerReceives("turret") /\ waiting' = Append(waiting, h)
        /\ UNCHANGED <<client, latest, rotation, fired, flight, toClient, history>>
    BY <1>5 DEF ReceiveTurret
  <2>2. h.type = "turret" /\ toServer # <<>> /\ toServer' = Tail(toServer)
        /\ toServer' \in Seq(Outgoing) /\ h \in Outgoing
    BY <1>1, <2>1, ServerReceived
  <2>3. h \in Inputs
    BY <2>2 DEF Outgoing, Start
  <2> HIDE DEF h
  <2>4. waiting' \in Seq(Inputs)
    BY <1>3, <2>1, <2>3, Appended
  <2> DEFINE one == IF IsShot(h) THEN 1 ELSE 0
  <2>5. Shots(waiting') = Shots(waiting) + one
    BY <1>3, <2>1, <2>3, ShotsAppended
  <2>6. Shots(toServer) = Shots(toServer') + one
    BY <1>3, <2>2, ShotsTaken DEF h
  <2>7. Shots(waiting) \in Nat /\ Shots(toServer') \in Nat /\ one \in Nat
    BY <1>3, <2>2, ShotsNat
  <2> HIDE DEF one
  <2>8. TypeOK'
    BY <1>1, <2>1, <2>2, <2>4 DEF TypeOK, Outgoing
  <2>9. (ReconciliationPredicts /\ Cooling /\ Numbered)'
    BY <2>1 DEF Counted, ReconciliationPredicts, Cooling, Numbered
  <2>10. Fresh'
    BY <2>1, <2>2 DEF Counted, Fresh
  <2>11. ShotsAccounted'
    <3> SUFFICES ASSUME game = "play"
                 PROVE  pressed = fired + Shots(waiting') + Shots(toServer')
                                        + (IF missileShot THEN 1 ELSE 0)
      BY <2>1 DEF ShotsAccounted
    <3> DEFINE last == IF missileShot THEN 1 ELSE 0
    <3>1. pressed = fired + Shots(waiting) + Shots(toServer) + last
          /\ fired \in Nat /\ last \in Nat
      BY <1>1 DEF Counted, ShotsAccounted, TypeOK
    <3> HIDE DEF last
    <3>2. pressed = fired + Shots(waiting') + Shots(toServer') + last
      BY <2>5, <2>6, <2>7, <3>1
    <3> QED
      BY <3>2 DEF last
  <2> QED
    BY <2>8, <2>9, <2>10, <2>11 DEF Counted
<1>6. ASSUME OtherStarts
      PROVE  Counted'
  <2>1. toClient' = Append(toClient, Start) /\ starts' = starts + 1
        /\ starts < MaxStarts
        /\ UNCHANGED <<client, server, toServer, pressed, unreconciled>>
    BY <1>6 DEF OtherStarts
  <2>2. starts' \in 0 .. MaxStarts
    BY <1>1, <2>1, TimeAssumption DEF TypeOK
  <2>3. TypeOK'
    BY <1>1, <1>2, <2>1, <2>2 DEF TypeOK, Incoming
  <2>4. (ReconciliationPredicts /\ ShotsAccounted /\ Cooling /\ Numbered /\ Fresh)'
    BY <2>1 DEF Counted, ReconciliationPredicts, ShotsAccounted, Cooling, Numbered,
                Fresh
  <2> QED
    BY <2>3, <2>4 DEF Counted
<1> QED
  BY <1>4, <1>5, <1>6 DEF Main

LEMMA LoopCounted ==
    ASSUME Counted, ApplyTurret \/ Tick \/ MenuUpdate
                       \/ \E m \in Missiles : MissileEnds(m)
    PROVE  Counted'
<1>1. TypeOK /\ waiting \in Seq(Inputs)
      /\ flight \in [Missiles -> {"none", "alive", "dead", "erased"}]
      /\ Numbered /\ MaxMissiles \in Nat /\ fired \in 0 .. MaxMissiles
  BY TimeAssumption DEF Counted, TypeOK
<1>2. ASSUME ApplyTurret
      PROVE  Counted'
  <2> DEFINE h == Head(waiting)
  <2>1. /\ waiting # <<>> /\ waiting' = Tail(waiting)
        /\ rotation' = h.id /\ latest' = h.id
        /\ UNCHANGED <<client, toServer, toClient, history>>
        /\ Shots(waiting) \in Nat /\ Shots(toServer) \in Nat
    BY <1>1, <1>2, ShotsNat DEF ApplyTurret, TypeOK
  <2>2. h \in Inputs /\ waiting' \in Seq(Inputs)
    BY <1>1, <2>1, Taken
  <2>3. h.type = "turret" /\ h.id \in Ids /\ h.shot \in BOOLEAN
    BY <2>2 DEF Inputs
  <2>4. Shots(waiting) = Shots(waiting') + (IF h.shot THEN 1 ELSE 0)
    <3>1. Shots(waiting) = Shots(Tail(waiting)) + (IF IsShot(h) THEN 1 ELSE 0)
      BY <1>1, <2>1, ShotsTaken
    <3> QED
      BY <2>1, <2>3, <3>1 DEF IsShot
  <2>5. Shots(waiting') \in Nat
    BY <2>2, ShotsNat
  <2>6. game = "play"
    BY <1>1, <2>1 DEF Counted, Fresh, TypeOK
  <2> DEFINE last == IF missileShot THEN 1 ELSE 0
  <2>7. /\ pressed = fired + Shots(waiting) + Shots(toServer) + last
        /\ last \in Nat
    BY <2>6 DEF Counted, ShotsAccounted
  <2>8. pressed \in 0 .. MaxMissiles /\ pressed' = pressed
        /\ missileShot' = missileShot /\ toServer' = toServer
    BY <1>1, <2>1 DEF TypeOK
  <2> HIDE DEF h, last
  <2>9. CASE h.shot
    <3>1. fired' = fired + 1 /\ flight' = [flight EXCEPT ![fired'] = "alive"]
      BY <1>2, <2>9 DEF ApplyTurret, Shoots, h
    <3>2. fired' <= MaxMissiles
      BY <1>1, <2>1, <2>4, <2>5, <2>7, <2>8, <2>9, <3>1
    <3>3. fired' \in 0 .. MaxMissiles /\ fired' \in Missiles
      BY <1>1, <3>1, <3>2 DEF Missiles
    <3>4. flight' \in [Missiles -> {"none", "alive", "dead", "erased"}]
          /\ flight'[fired'] = "alive"
          /\ \A m \in Missiles : m # fired' => flight'[m] = flight[m]
      BY <1>1, <3>1, <3>3
    <3>5. TypeOK'
      BY <1>1, <2>1, <2>2, <2>3, <3>3, <3>4 DEF TypeOK, Ids, Angles
    <3>6. Numbered'
      <4> SUFFICES ASSUME NEW m \in Missiles
                   PROVE  flight'[m] = "none" <=> m > fired'
        BY DEF Numbered
      <4>1. flight[m] = "none" <=> m > fired
        BY <1>1 DEF Numbered
      <4>2. m \in Nat
        BY DEF Missiles
      <4>3. CASE m = fired'
        BY <3>3, <3>4, <4>2, <4>3
      <4>4. CASE m # fired'
        BY <1>1, <3>1, <3>4, <4>1, <4>2, <4>4
      <4> QED
        BY <4>3, <4>4
    <3>7. pressed' = fired' + Shots(waiting') + Shots(toServer') + last
      BY <1>1, <2>1, <2>4, <2>5, <2>7, <2>8, <2>9, <3>1
    <3>8. ShotsAccounted'
      BY <2>8, <3>7 DEF ShotsAccounted, last
    <3>9. (ReconciliationPredicts /\ Cooling)'
      BY <2>1 DEF Counted, ReconciliationPredicts, Cooling
    <3>10. Fresh'
      BY <2>1, <2>6 DEF Fresh
    <3> QED
      BY <3>5, <3>6, <3>8, <3>9, <3>10 DEF Counted
  <2>10. CASE ~h.shot
    <3>1. UNCHANGED <<fired, flight>>
      BY <1>2, <2>10 DEF ApplyTurret, Shoots, h
    <3>2. TypeOK'
      BY <1>1, <2>1, <2>2, <2>3, <3>1 DEF TypeOK, Ids, Angles
    <3>3. (ReconciliationPredicts /\ Cooling /\ Numbered)'
      BY <2>1, <3>1 DEF Counted, ReconciliationPredicts, Cooling, Numbered
    <3>4. pressed' = fired' + Shots(waiting') + Shots(toServer') + last
      BY <1>1, <2>1, <2>4, <2>5, <2>7, <2>8, <2>10, <3>1
    <3>5. ShotsAccounted'
      BY <2>8, <3>4 DEF ShotsAccounted, last
    <3>6. Fresh'
      BY <2>1, <2>6 DEF Fresh
    <3> QED
      BY <3>2, <3>3, <3>5, <3>6 DEF Counted
  <2> QED
    BY <2>9, <2>10
<1>3. ASSUME NEW to, flight' = to,
             to \in [Missiles -> {"none", "alive", "dead", "erased"}],
             \A m \in Missiles : to[m] = "none" <=> flight[m] = "none",
             toClient' \in Seq(Incoming),
             UNCHANGED <<client, waiting, latest, rotation, fired, toServer, history>>
      PROVE  Counted'
  <2>1. TypeOK'
    BY <1>1, <1>3 DEF TypeOK, Incoming
  <2>2. Numbered'
    BY <1>1, <1>3 DEF Numbered
  <2>3. (ReconciliationPredicts /\ ShotsAccounted /\ Fresh /\ Cooling)'
    BY <1>3 DEF Counted, ReconciliationPredicts, ShotsAccounted, Fresh, Cooling
  <2> QED
    BY <2>1, <2>2, <2>3 DEF Counted
<1>4. ASSUME Tick
      PROVE  Counted'
  <2>1. toClient' \in Seq(Incoming)
    BY <1>1, <1>4, Ticked
  <2>2. flight' = [m \in Missiles |->
                      IF flight[m] = "dead" THEN "erased" ELSE flight[m]]
        /\ UNCHANGED <<client, waiting, latest, rotation, fired, toServer, history>>
    BY <1>4 DEF Tick
  <2> QED
    BY <1>1, <1>3, <2>1, <2>2
<1>5. ASSUME NEW m \in Missiles, MissileEnds(m)
      PROVE  Counted'
  <2>1. toClient' \in Seq(Incoming)
    BY <1>1, <1>5 DEF MissileEnds, TypeOK, Incoming
  <2>2. flight' = [flight EXCEPT ![m] = "dead"] /\ flight[m] = "alive"
        /\ UNCHANGED <<client, waiting, latest, rotation, fired, toServer, history>>
    BY <1>5 DEF MissileEnds
  <2> QED
    BY <1>1, <1>3, <2>1, <2>2
<1>6. ASSUME MenuUpdate
      PROVE  Counted'
  <2>1. PICK d \in 1 .. MaxFrame : cooldown' = Charged(d) /\ sinceSent' = Elapsed(d)
    BY <1>6 DEF MenuUpdate
  <2>2. game = "menu"
        /\ UNCHANGED <<game, missileShot, prediction, reconciliation,
                       nextId, queued, serverAim, aim, shown, server, toServer,
                       toClient, history>>
    BY <1>6 DEF MenuUpdate
  <2>3. cooldown' \in 0 .. Cooldown /\ sinceSent' \in 0 .. SendAfter + 1
    <3>1. MaxFrame \in Nat /\ SendAfter \in Nat /\ Cooldown \in Nat
      BY TimeAssumption
    <3>2. cooldown \in 0 .. Cooldown /\ sinceSent \in 0 .. SendAfter + 1
      BY <1>1 DEF TypeOK
    <3> QED
      BY <2>1, <3>1, <3>2 DEF Charged, Elapsed, AtMost
  <2>4. TypeOK'
    BY <1>1, <2>2, <2>3 DEF TypeOK
  <2>5. (ReconciliationPredicts /\ ShotsAccounted /\ Fresh /\ Cooling /\ Numbered)'
    BY <2>2 DEF Counted, ReconciliationPredicts, ShotsAccounted, Fresh, Cooling,
                Numbered
  <2> QED
    BY <2>4, <2>5 DEF Counted
<1> QED
  BY <1>2, <1>4, <1>5, <1>6

LEMMA CountedKept == Counted /\ [Next]_vars => Counted'
<1> SUFFICES ASSUME Counted, [Next]_vars
             PROVE  Counted'
  OBVIOUS
<1>1. CASE Play
  BY <1>1, PlayCounted DEF Play
<1>2. CASE Receive
  BY <1>2, ReceiveCounted
<1>3. CASE Main \/ OtherStarts
  BY <1>3, ServerCounted
<1>4. CASE ApplyTurret \/ Tick \/ MenuUpdate \/ \E m \in Missiles : MissileEnds(m)
  BY <1>4, LoopCounted
<1>5. CASE UNCHANGED vars
  <2>1. TypeOK'
    BY <1>5 DEF vars, Counted, TypeOK
  <2>2. (ReconciliationPredicts /\ ShotsAccounted /\ Fresh /\ Cooling /\ Numbered)'
    BY <1>5 DEF vars, Counted, ReconciliationPredicts, ShotsAccounted, Fresh,
                Cooling, Numbered
  <2> QED
    BY <2>1, <2>2 DEF Counted
<1> QED
  BY <1>1, <1>2, <1>3, <1>4, <1>5 DEF Next

-----------------------------------------------------------------------------
(* Inputs and answers keep their order. *)
InOrder == Ordered /\ Answered

LEMMA Types ==
    ASSUME TypeOK
    PROVE  /\ MaxInputs \in Nat /\ latest \in Ids /\ latest \in Nat /\ nextId \in Nat
           /\ waiting \in Seq(Inputs) /\ toServer \in Seq(Outgoing)
           /\ toClient \in Seq(Incoming)
           /\ \A k \in DOMAIN waiting : waiting[k].id \in Nat
           /\ \A k \in DOMAIN toServer :
                 toServer[k].type = "turret" => toServer[k].id \in Nat
           /\ \A k \in DOMAIN toClient :
                 toClient[k].type = "turret" => toClient[k].id \in Nat
<1>1. MaxInputs \in Nat
  BY TimeAssumption
<1>2. Ids \subseteq Nat
  BY <1>1 DEF Ids
<1>3. /\ latest \in Ids /\ waiting \in Seq(Inputs) /\ toServer \in Seq(Outgoing)
      /\ toClient \in Seq(Incoming)
  BY DEF TypeOK, Outgoing, Incoming
<1>4. nextId \in Nat
  BY <1>1 DEF TypeOK
<1>5. \A k \in DOMAIN waiting : waiting[k] \in Inputs
  BY <1>3
<1>6. \A k \in DOMAIN toServer : toServer[k] \in Outgoing
  BY <1>3
<1>7. \A k \in DOMAIN toClient : toClient[k] \in Incoming
  BY <1>3
<1>8. \A k \in DOMAIN waiting : waiting[k].id \in Nat
  BY <1>2, <1>5 DEF Inputs
<1>9. \A k \in DOMAIN toServer :
         toServer[k].type = "turret" => toServer[k].id \in Nat
  <2>1. \A x \in Outgoing : x.type = "turret" => x \in Inputs
    BY DEF Outgoing, Start
  <2>2. \A x \in Inputs : x.id \in Nat
    BY <1>2 DEF Inputs
  <2> HIDE DEF Outgoing, Inputs
  <2> QED
    BY <1>6, <2>1, <2>2
<1>10. \A k \in DOMAIN toClient :
          toClient[k].type = "turret" => toClient[k].id \in Nat
  <2>1. \A x \in Incoming : x.type = "turret" => x \in Updates
    BY DEF Incoming, Start
  <2>2. \A x \in Updates : x.type = "turret" => x.id \in Nat
    BY <1>2 DEF Updates
  <2> QED
    BY <1>7, <2>1, <2>2
<1> QED
  BY <1>1, <1>2, <1>3, <1>4, <1>8, <1>9, <1>10

(* The turret inputs of s, sent with ids below n, in their order. *)
SentInOrder(s, n) ==
    \A k \in DOMAIN s : s[k].type = "turret" =>
        /\ latest <= s[k].id /\ s[k].id < n
        /\ \A j \in DOMAIN waiting : waiting[j].id <= s[k].id
        /\ \A j \in 1 .. k - 1 : s[j].type = "turret" => s[j].id <= s[k].id

LEMMA PlayInOrder ==
    ASSUME Counted, InOrder, Play
    PROVE  InOrder'
<1>1. PICK d \in 1 .. MaxFrame, start \in BOOLEAN, space \in BOOLEAN,
           keys \in SUBSET Keys : PlayUpdate(d, start, space, keys)
  BY DEF Play
<1> DEFINE shot == Latched(start, space /\ Charged(d) = Cooldown)
           b == Before(start)
           e == Turret(nextId, shot)
<1>2. TypeOK /\ MaxInputs \in Nat /\ latest \in Nat /\ nextId \in Nat
      /\ waiting \in Seq(Inputs) /\ toServer \in Seq(Outgoing)
      /\ (\A k \in DOMAIN waiting : waiting[k].id \in Nat)
  BY Types DEF Counted
<1>3. /\ b \in Seq(Outgoing)
      /\ Sends(d) => /\ e \in Inputs /\ toServer' = Append(b, e) /\ nextId' = nextId + 1
      /\ ~Sends(d) => toServer' = b /\ nextId' = nextId
  BY <1>1, <1>2, Sent
<1>4. latest' = latest /\ waiting' = waiting /\ rotation' = rotation
      /\ toClient' = toClient
  BY <1>1 DEF PlayUpdate
<1>5. DOMAIN waiting = 1 .. Len(waiting) /\ DOMAIN toServer = 1 .. Len(toServer)
      /\ Len(toServer) \in Nat
  BY <1>2
<1>6. SentInOrder(toServer, nextId)
  BY DEF InOrder, Ordered, SentInOrder
<1>7. SentInOrder(b, nextId)
  <2>1. CASE ~start
    BY <1>6, <2>1 DEF Before
  <2>2. CASE start
    <3>1. b = Append(toServer, Start) /\ Start \in Outgoing
      BY <2>2 DEF Before, Outgoing
    <3>2. /\ DOMAIN b = 1 .. Len(toServer) + 1
          /\ \A k \in 1 .. Len(toServer) : b[k] = toServer[k]
          /\ b[Len(toServer) + 1] = Start
      BY <1>2, <3>1, Appended
    <3> HIDE DEF b
    <3>3. Start.type = "start"
      BY DEF Start
    <3>4. \A k \in DOMAIN b : b[k].type = "turret" =>
             k \in 1 .. Len(toServer) /\ b[k] = toServer[k]
                /\ \A j \in 1 .. k - 1 : j \in 1 .. Len(toServer) /\ b[j] = toServer[j]
      BY <1>5, <3>2, <3>3
    <3> QED
      BY <1>5, <1>6, <3>4 DEF SentInOrder
  <2> QED
    BY <2>1, <2>2
<1>8. \A k \in DOMAIN b : b[k].type = "turret" => b[k].id \in Nat
  <2>1. \A k \in DOMAIN b : b[k] \in Outgoing
    BY <1>3
  <2> QED
    BY <1>2, <2>1 DEF Outgoing, Inputs, Ids, Start
<1> HIDE DEF b, e
<1>9. SentInOrder(toServer', nextId')
  <2>1. CASE ~Sends(d)
    BY <1>3, <1>7, <2>1
  <2>2. CASE Sends(d)
    <3>1. e \in Outgoing /\ e.type = "turret" /\ e.id = nextId
      BY <1>3, <2>2 DEF Outgoing, e, Turret
    <3>2. /\ DOMAIN toServer' = 1 .. Len(b) + 1 /\ DOMAIN b = 1 .. Len(b)
          /\ \A k \in 1 .. Len(b) : toServer'[k] = b[k]
          /\ toServer'[Len(b) + 1] = e /\ nextId' = nextId + 1 /\ Len(b) \in Nat
      BY <1>3, <2>2, <3>1, Appended
    <3>3. ASSUME NEW k \in 1 .. Len(b), b[k].type = "turret"
          PROVE  /\ latest <= b[k].id /\ b[k].id < nextId'
                 /\ \A j \in DOMAIN waiting : waiting[j].id <= b[k].id
                 /\ \A j \in 1 .. k - 1 :
                       b[j].type = "turret" => b[j].id <= b[k].id
      BY <1>2, <1>7, <1>8, <3>2, <3>3 DEF SentInOrder
    <3>4. latest <= nextId /\ nextId < nextId'
      BY <1>2, <3>2 DEF InOrder, Ordered
    <3>5. \A j \in DOMAIN waiting : waiting[j].id <= nextId
      BY <1>2 DEF InOrder, Ordered
    <3>6. \A j \in 1 .. Len(b) : b[j].type = "turret" => b[j].id <= nextId
      BY <1>2, <1>7, <1>8, <3>2 DEF SentInOrder
    <3> SUFFICES ASSUME NEW k \in 1 .. Len(b) + 1, toServer'[k].type = "turret"
                 PROVE  /\ latest <= toServer'[k].id /\ toServer'[k].id < nextId'
                        /\ \A j \in DOMAIN waiting : waiting[j].id <= toServer'[k].id
                        /\ \A j \in 1 .. k - 1 : toServer'[j].type = "turret" =>
                              toServer'[j].id <= toServer'[k].id
      BY <3>2 DEF SentInOrder
    <3>7. CASE k = Len(b) + 1
      <4>1. \A j \in 1 .. k - 1 : j \in 1 .. Len(b)
        BY <3>2, <3>7
      <4> QED
        BY <3>1, <3>2, <3>4, <3>5, <3>6, <3>7, <4>1
    <3>8. CASE k # Len(b) + 1
      <4>1. k \in 1 .. Len(b) /\ \A j \in 1 .. k - 1 : j \in 1 .. Len(b)
        BY <3>2, <3>8
      <4> QED
        BY <3>2, <3>3, <4>1
    <3> QED
      BY <3>7, <3>8
  <2> QED
    BY <2>1, <2>2
<1>10. nextId' >= nextId /\ nextId' \in Nat
  BY <1>2, <1>3
<1>11. Ordered'
  <2>1. latest > 0 => latest < nextId'
    BY <1>2, <1>10 DEF InOrder, Ordered
  <2>2. \A k \in DOMAIN waiting :
           /\ latest <= waiting[k].id /\ waiting[k].id < nextId'
           /\ \A j \in 1 .. k - 1 : waiting[j].id <= waiting[k].id
    BY <1>2, <1>10 DEF InOrder, Ordered
  <2> QED
    BY <1>4, <1>9, <2>1, <2>2 DEF Ordered, SentInOrder
<1>12. Answered'
  BY <1>4 DEF InOrder, Answered
<1> QED
  BY <1>11, <1>12 DEF InOrder

LEMMA ServerInOrder ==
    ASSUME Counted, InOrder, ReceiveTurret \/ ApplyTurret
    PROVE  InOrder'
<1>1. TypeOK /\ MaxInputs \in Nat /\ latest \in Ids /\ latest \in Nat /\ nextId \in Nat
      /\ waiting \in Seq(Inputs) /\ toServer \in Seq(Outgoing)
      /\ (\A k \in DOMAIN waiting : waiting[k].id \in Nat)
  BY Types DEF Counted
<1>2. DOMAIN waiting = 1 .. Len(waiting) /\ DOMAIN toServer = 1 .. Len(toServer)
      /\ Len(toServer) \in Nat /\ Len(waiting) \in Nat
  BY <1>1
<1>3. \A k \in DOMAIN toServer : toServer[k].type = "turret" => toServer[k].id \in Nat
  BY <1>1, Types
<1>4. ASSUME ReceiveTurret
      PROVE  InOrder'
  <2> DEFINE h == Head(toServer)
  <2>1. ServerReceives("turret") /\ waiting' = Append(waiting, h)
        /\ UNCHANGED <<client, latest, rotation, toClient>>
    BY <1>4 DEF ReceiveTurret
  <2>2. /\ h = toServer[1] /\ h.type = "turret" /\ h \in Outgoing /\ Len(toServer) >= 1
        /\ DOMAIN toServer' = 1 .. Len(toServer) - 1
        /\ \A k \in 1 .. Len(toServer) - 1 : toServer'[k] = toServer[k + 1]
    BY <1>1, <2>1, ServerReceived
  <2>3. h \in Inputs
    BY <2>2 DEF Outgoing, Start
  <2> HIDE DEF h
  <2>4. /\ DOMAIN waiting' = 1 .. Len(waiting) + 1
        /\ \A k \in 1 .. Len(waiting) : waiting'[k] = waiting[k]
        /\ waiting'[Len(waiting) + 1] = h
    BY <1>1, <2>1, <2>3, Appended
  <2>5. latest <= h.id /\ h.id < nextId /\ \A j \in DOMAIN waiting : waiting[j].id <= h.id
    BY <1>2, <2>2 DEF InOrder, Ordered
  <2>6. ASSUME NEW k \in DOMAIN waiting'
        PROVE  /\ latest <= waiting'[k].id /\ waiting'[k].id < nextId
               /\ \A j \in 1 .. k - 1 : waiting'[j].id <= waiting'[k].id
    <3>1. CASE k = Len(waiting) + 1
      <4>1. \A j \in 1 .. k - 1 : j \in 1 .. Len(waiting)
        BY <1>2, <3>1
      <4> QED
        BY <1>2, <2>4, <2>5, <3>1, <4>1
    <3>2. CASE k # Len(waiting) + 1
      <4>1. k \in 1 .. Len(waiting) /\ \A j \in 1 .. k - 1 : j \in 1 .. Len(waiting)
        BY <1>2, <2>4, <3>2
      <4> QED
        BY <1>2, <2>4, <4>1 DEF InOrder, Ordered
    <3> QED
      BY <3>1, <3>2
  <2>7. ASSUME NEW k \in DOMAIN toServer', toServer'[k].type = "turret"
        PROVE  /\ latest <= toServer'[k].id /\ toServer'[k].id < nextId
               /\ \A j \in DOMAIN waiting' : waiting'[j].id <= toServer'[k].id
               /\ \A j \in 1 .. k - 1 : toServer'[j].type = "turret" =>
                     toServer'[j].id <= toServer'[k].id
    <3>1. k + 1 \in DOMAIN toServer /\ toServer'[k] = toServer[k + 1]
          /\ toServer[k + 1].type = "turret"
      BY <1>2, <2>2, <2>7
    <3>2. /\ latest <= toServer[k + 1].id /\ toServer[k + 1].id < nextId
          /\ \A j \in DOMAIN waiting : waiting[j].id <= toServer[k + 1].id
          /\ \A j \in 1 .. k : toServer[j].type = "turret" =>
                toServer[j].id <= toServer[k + 1].id
      <4>1. (k + 1) - 1 = k
        BY <2>2
      <4> QED
        BY <3>1, <4>1 DEF InOrder, Ordered
    <3>3. h.id <= toServer[k + 1].id
      <4>1. 1 \in 1 .. k
        BY <1>2, <2>2
      <4> QED
        BY <2>2, <3>2, <4>1
    <3>4. \A j \in DOMAIN waiting' : waiting'[j].id <= toServer[k + 1].id
      <4>1. \A j \in DOMAIN waiting' : j \in 1 .. Len(waiting) \/ j = Len(waiting) + 1
        BY <1>2, <2>4
      <4> QED
        BY <1>2, <2>4, <3>2, <3>3, <4>1
    <3>5. \A j \in 1 .. k - 1 : toServer'[j] = toServer[j + 1] /\ j + 1 \in 1 .. k
      BY <1>2, <2>2
    <3> QED
      BY <3>1, <3>2, <3>4, <3>5
  <2>8. Ordered'
    BY <2>1, <2>6, <2>7 DEF InOrder, Ordered
  <2>9. Answered'
    BY <2>1 DEF InOrder, Answered
  <2> QED
    BY <2>8, <2>9 DEF InOrder
<1>5. ASSUME ApplyTurret
      PROVE  InOrder'
  <2> DEFINE h == Head(waiting)
  <2>1. /\ waiting # <<>> /\ waiting' = Tail(waiting)
        /\ rotation' = h.id /\ latest' = h.id
        /\ UNCHANGED <<client, toServer, toClient>>
    BY <1>5 DEF ApplyTurret
  <2>2. /\ h = waiting[1] /\ Len(waiting) >= 1 /\ 1 \in DOMAIN waiting
        /\ DOMAIN waiting' = 1 .. Len(waiting) - 1
        /\ \A k \in 1 .. Len(waiting) - 1 : waiting'[k] = waiting[k + 1]
    <3>1. /\ h = waiting[1] /\ Len(waiting) >= 1
          /\ DOMAIN waiting' = 1 .. Len(waiting) - 1
          /\ \A k \in 1 .. Len(waiting) - 1 : waiting'[k] = waiting[k + 1]
      BY <1>1, <2>1, Taken
    <3> QED
      BY <1>2, <3>1
  <2> HIDE DEF h
  <2>3. latest <= h.id /\ h.id < nextId /\ h.id \in Nat
    BY <1>1, <2>2 DEF InOrder, Ordered
  <2>4. ASSUME NEW k \in DOMAIN waiting'
        PROVE  /\ h.id <= waiting'[k].id /\ waiting'[k].id < nextId
               /\ \A j \in 1 .. k - 1 : waiting'[j].id <= waiting'[k].id
    <3>1. k + 1 \in DOMAIN waiting /\ waiting'[k] = waiting[k + 1] /\ (k + 1) - 1 = k
          /\ 1 \in 1 .. k
      BY <1>2, <2>2
    <3>2. waiting[k + 1].id < nextId
          /\ \A j \in 1 .. k : waiting[j].id <= waiting[k + 1].id
      BY <3>1 DEF InOrder, Ordered
    <3>3. \A j \in 1 .. k - 1 : waiting'[j] = waiting[j + 1] /\ j + 1 \in 1 .. k
      BY <1>2, <2>2
    <3> QED
      BY <2>2, <3>1, <3>2, <3>3
  <2>5. ASSUME NEW k \in DOMAIN toServer, toServer[k].type = "turret"
        PROVE  /\ h.id <= toServer[k].id /\ toServer[k].id < nextId
               /\ \A j \in DOMAIN waiting' : waiting'[j].id <= toServer[k].id
               /\ \A j \in 1 .. k - 1 : toServer[j].type = "turret" =>
                     toServer[j].id <= toServer[k].id
    <3>1. \A j \in DOMAIN waiting' : waiting'[j] = waiting[j + 1] /\ j + 1 \in DOMAIN waiting
      BY <1>2, <2>2
    <3> QED
      BY <2>2, <2>5, <3>1 DEF InOrder, Ordered
  <2>6. Ordered'
    BY <2>1, <2>3, <2>4, <2>5 DEF Ordered
  <2>7. Answered'
    <3>1. \A k \in DOMAIN toClient : toClient[k].type = "turret" => toClient[k].id \in Nat
      BY <1>1, Types
    <3>2. \A k \in DOMAIN toClient : toClient[k].type = "turret" => toClient[k].id <= h.id
      BY <1>1, <2>3, <3>1 DEF InOrder, Answered
    <3> QED
      BY <2>1, <3>2 DEF InOrder, Answered
  <2> QED
    BY <2>6, <2>7 DEF InOrder
<1> QED
  BY <1>4, <1>5

(* What the client receives changes nothing on the way to the server. *)
LEMMA AnswersInOrder ==
    ASSUME Counted, InOrder, Receive \/ Tick
    PROVE  InOrder'
<1>1. TypeOK
  BY DEF Counted
<1>2. /\ toClient \in Seq(Incoming) /\ latest \in Nat
      /\ \A k \in DOMAIN toClient :
            toClient[k].type = "turret" => toClient[k].id \in Nat
  BY <1>1, Types
<1>3. UNCHANGED <<waiting, latest, rotation, toServer, nextId>>
  BY DEF Receive, UpdateTankTurret, UpdateMissile, ClickedStart, Tick
<1>4. Ordered'
  BY <1>3 DEF InOrder, Ordered
<1>5. ASSUME NEW type, Receives(type)
      PROVE  Answered'
  <2>1. /\ Len(toClient) \in Nat
        /\ DOMAIN toClient = 1 .. Len(toClient)
        /\ DOMAIN toClient' = 1 .. Len(toClient) - 1
        /\ \A k \in 1 .. Len(toClient) - 1 : toClient'[k] = toClient[k + 1]
    BY <1>1, <1>5, Received
  <2>2. ASSUME NEW k \in DOMAIN toClient', toClient'[k].type = "turret"
        PROVE  /\ toClient'[k].id <= latest
               /\ toClient'[k].angle = toClient'[k].id
                     \/ (toClient'[k].id = 0 /\ toClient'[k].angle = -1)
               /\ \A j \in 1 .. k - 1 : toClient'[j].type = "turret" =>
                     toClient'[j].id <= toClient'[k].id
    <3>1. k + 1 \in DOMAIN toClient /\ toClient'[k] = toClient[k + 1] /\ (k + 1) - 1 = k
      BY <2>1
    <3>2. \A j \in 1 .. k - 1 : toClient'[j] = toClient[j + 1] /\ j + 1 \in 1 .. k
      BY <2>1
    <3>3. /\ toClient[k + 1].id <= latest
          /\ toClient[k + 1].angle = toClient[k + 1].id
                \/ (toClient[k + 1].id = 0 /\ toClient[k + 1].angle = -1)
          /\ \A j \in 1 .. k : toClient[j].type = "turret" =>
                toClient[j].id <= toClient[k + 1].id
      BY <2>2, <3>1 DEF InOrder, Answered
    <3> QED
      BY <3>1, <3>2, <3>3
  <2> QED
    BY <1>3, <2>2 DEF InOrder, Answered
<1>6. ASSUME Receive
      PROVE  Answered'
  <2>1. CASE UpdateTankTurret
    BY <1>5, <2>1 DEF UpdateTankTurret
  <2>2. CASE UpdateMissile
    BY <1>5, <2>2 DEF UpdateMissile
  <2>3. CASE ClickedStart
    BY <1>5, <2>3 DEF ClickedStart
  <2> QED
    BY <1>6, <2>1, <2>2, <2>3 DEF Receive
<1>7. ASSUME Tick
      PROVE  Answered'
  <2> DEFINE n == Len(toClient)
  <2>1. /\ n \in Nat /\ Len(Announced) \in Nat
        /\ Len(toClient') = n + 1 + Len(Announced)
        /\ \A k \in 1 .. n : toClient'[k] = toClient[k]
        /\ toClient'[n + 1] = Reply
        /\ \A k \in 1 .. Len(Announced) : toClient'[n + 1 + k] = Announced[k]
        /\ DOMAIN toClient = 1 .. n /\ DOMAIN toClient' = 1 .. Len(toClient')
    BY <1>1, <1>7, Ticked
  <2>2. \A k \in 1 .. Len(Announced) : Announced[k].type # "turret"
    <3>1. \A m : Missive(m).type # "turret"
      BY DEF Missive
    <3> QED
      BY <3>1, AnnouncedAll
  <2>3. Reply.type = "turret" /\ Reply.id = latest /\ Reply.angle = rotation
    BY DEF Reply
  <2> HIDE DEF n
  <2>4. \A k \in DOMAIN toClient' : toClient'[k].type = "turret" => k \in 1 .. n + 1
    <3> SUFFICES ASSUME NEW k \in DOMAIN toClient', ~(k \in 1 .. n + 1)
                 PROVE  toClient'[k].type # "turret"
      OBVIOUS
    <3>1. k - (n + 1) \in 1 .. Len(Announced) /\ k = n + 1 + (k - (n + 1))
      BY <2>1
    <3> QED
      BY <2>1, <2>2, <3>1
  <2>5. ASSUME NEW k \in DOMAIN toClient', toClient'[k].type = "turret"
        PROVE  /\ toClient'[k].id <= latest
               /\ toClient'[k].angle = toClient'[k].id
                     \/ (toClient'[k].id = 0 /\ toClient'[k].angle = -1)
               /\ \A j \in 1 .. k - 1 : toClient'[j].type = "turret" =>
                     toClient'[j].id <= toClient'[k].id
    <3>1. k \in 1 .. n + 1 /\ \A j \in 1 .. k - 1 : j \in 1 .. n
      BY <2>1, <2>4, <2>5
    <3>2. CASE k = n + 1
      <4>1. \A j \in 1 .. n : toClient[j].type = "turret" => toClient[j].id <= latest
        BY <2>1 DEF InOrder, Answered
      <4> QED
        BY <1>2, <2>1, <2>3, <3>1, <3>2, <4>1 DEF InOrder, Answered
    <3>3. CASE k # n + 1
      <4>1. k \in 1 .. n
        BY <2>1, <3>1, <3>3
      <4> QED
        BY <2>1, <2>5, <3>1, <4>1 DEF InOrder, Answered
    <3> QED
      BY <3>2, <3>3
  <2>6. rotation' = latest' \/ (latest' = 0 /\ rotation' = -1)
    BY <1>3 DEF InOrder, Answered
  <2>7. latest' = latest
    BY <1>3
  <2> QED
    BY <2>5, <2>6, <2>7 DEF Answered
<1> QED
  BY <1>4, <1>6, <1>7 DEF InOrder

(* A click on Start goes between the answers. *)
LEMMA StartsInOrder ==
    ASSUME Counted, InOrder, ReceiveStart \/ OtherStarts
    PROVE  InOrder'
<1>1. TypeOK
  BY DEF Counted
<1>2. toClient \in Seq(Incoming) /\ Start \in Incoming /\ Start.type = "start"
  BY <1>1, Types DEF Incoming, Start
<1>3. toClient' = Append(toClient, Start)
      /\ UNCHANGED <<waiting, latest, rotation, nextId>>
  BY DEF ReceiveStart, OtherStarts
<1> DEFINE n == Len(toClient)
<1>4. /\ n \in Nat /\ DOMAIN toClient = 1 .. n /\ DOMAIN toClient' = 1 .. n + 1
      /\ \A k \in 1 .. n : toClient'[k] = toClient[k]
      /\ toClient'[n + 1] = Start
  BY <1>2, <1>3, Appended
<1> HIDE DEF n
<1>5. Answered'
  <2>1. ASSUME NEW k \in DOMAIN toClient', toClient'[k].type = "turret"
        PROVE  /\ toClient'[k].id <= latest
               /\ toClient'[k].angle = toClient'[k].id
                     \/ (toClient'[k].id = 0 /\ toClient'[k].angle = -1)
               /\ \A j \in 1 .. k - 1 : toClient'[j].type = "turret" =>
                     toClient'[j].id <= toClient'[k].id
    <3>1. k # n + 1
      BY <1>2, <1>4, <2>1
    <3>2. k \in 1 .. n /\ \A j \in 1 .. k - 1 : j \in 1 .. n
      BY <1>4, <3>1
    <3> QED
      BY <1>4, <2>1, <3>2 DEF InOrder, Answered
  <2> QED
    BY <1>3, <2>1 DEF InOrder, Answered
<1>6. CASE OtherStarts
  <2>1. toServer' = toServer
    BY <1>6 DEF OtherStarts
  <2>2. Ordered'
    BY <1>3, <2>1 DEF InOrder, Ordered
  <2> QED
    BY <1>5, <2>2 DEF InOrder
<1>7. CASE ReceiveStart
  <2>1. ServerReceives("start")
    BY <1>7 DEF ReceiveStart
  <2>2. /\ Len(toServer) \in Nat /\ DOMAIN toServer = 1 .. Len(toServer)
        /\ DOMAIN toServer' = 1 .. Len(toServer) - 1
        /\ \A k \in 1 .. Len(toServer) - 1 : toServer'[k] = toServer[k + 1]
    BY <1>1, <2>1, ServerReceived
  <2>3. ASSUME NEW k \in DOMAIN toServer', toServer'[k].type = "turret"
        PROVE  /\ latest <= toServer'[k].id /\ toServer'[k].id < nextId
               /\ \A j \in DOMAIN waiting : waiting[j].id <= toServer'[k].id
               /\ \A j \in 1 .. k - 1 : toServer'[j].type = "turret" =>
                     toServer'[j].id <= toServer'[k].id
    <3>1. k + 1 \in DOMAIN toServer /\ toServer'[k] = toServer[k + 1] /\ (k + 1) - 1 = k
      BY <2>2
    <3>2. \A j \in 1 .. k - 1 : toServer'[j] = toServer[j + 1] /\ j + 1 \in 1 .. k
      BY <2>2
    <3>3. /\ latest <= toServer[k + 1].id /\ toServer[k + 1].id < nextId
          /\ \A j \in DOMAIN waiting : waiting[j].id <= toServer[k + 1].id
          /\ \A j \in 1 .. k : toServer[j].type = "turret" =>
                toServer[j].id <= toServer[k + 1].id
      BY <2>3, <3>1 DEF InOrder, Ordered
    <3> QED
      BY <3>1, <3>2, <3>3
  <2>4. Ordered'
    BY <1>3, <2>3 DEF InOrder, Ordered
  <2> QED
    BY <1>5, <2>4 DEF InOrder
<1> QED
  BY <1>6, <1>7

LEMMA InOrderKept == Counted /\ InOrder /\ [Next]_vars => InOrder'
<1> SUFFICES ASSUME Counted, InOrder, [Next]_vars
             PROVE  InOrder'
  OBVIOUS
<1>1. ASSUME UNCHANGED <<waiting, latest, rotation, toServer, toClient, nextId>>
      PROVE  InOrder'
  <2>1. Ordered' /\ Answered'
    BY <1>1 DEF InOrder, Ordered, Answered
  <2> QED
    BY <2>1 DEF InOrder
<1>2. CASE Play
  BY <1>2, PlayInOrder
<1>3. CASE Receive \/ Tick
  BY <1>3, AnswersInOrder
<1>4. CASE ReceiveStart \/ OtherStarts
  BY <1>4, StartsInOrder
<1>5. CASE ReceiveTurret \/ ApplyTurret
  BY <1>5, ServerInOrder
<1>6. CASE MenuUpdate
  BY <1>1, <1>6 DEF MenuUpdate
<1>7. ASSUME NEW m \in Missiles, MissileEnds(m)
      PROVE  InOrder'
  BY <1>1, <1>7 DEF MissileEnds
<1>8. CASE UNCHANGED vars
  BY <1>1, <1>8 DEF vars
<1> QED
  BY <1>2, <1>3, <1>4, <1>5, <1>6, <1>7, <1>8 DEF Next, Main

-----------------------------------------------------------------------------
(* With reconciliation nothing is lost that the server's angle is behind.  *)
LEMMA TurretPointing ==
    ASSUME Counted, InOrder, Pointing, UpdateTankTurret
    PROVE  Pointing'
<1> DEFINE h == Head(toClient)
<1>1. TypeOK
  BY DEF Counted
<1>2. /\ toClient \in Seq(Incoming) /\ latest \in Nat /\ nextId \in Nat
      /\ queued \in Seq(Ids) /\ Ids \subseteq Nat
      /\ \A k \in DOMAIN toClient :
            toClient[k].type = "turret" => toClient[k].id \in Nat
  <2>1. queued \in Seq(Ids) /\ Ids \subseteq Nat
    BY <1>1, TimeAssumption DEF TypeOK, Ids
  <2> QED
    BY <1>1, <2>1, Types
<1>3. /\ serverAim' = h.angle /\ UNCHANGED <<nextId, latest, reconciliation>>
      /\ unreconciled' = (unreconciled \/ ~reconciliation)
      /\ Receives("turret")
  BY DEF UpdateTankTurret
<1>4. /\ h = toClient[1] /\ h.type = "turret"
      /\ Len(toClient) \in Nat /\ Len(toClient) >= 1
      /\ DOMAIN toClient = 1 .. Len(toClient)
      /\ DOMAIN toClient' = 1 .. Len(toClient) - 1
      /\ \A k \in 1 .. Len(toClient) - 1 : toClient'[k] = toClient[k + 1]
  BY <1>1, <1>3, Received
<1>5. PICK n \in 0 .. Len(queued) : Overtaken(h.id, n) /\ queued' = Discard(h.id, n)
  BY DEF UpdateTankTurret
<1> HIDE DEF h
<1> SUFFICES ASSUME ~unreconciled'
             PROVE  /\ queued' # <<>> => queued'[Len(queued')] = nextId - 1
                    /\ queued' = <<>> /\ nextId > 1 =>
                          /\ serverAim' = nextId - 1 /\ latest = nextId - 1
                          /\ \A k \in DOMAIN toClient' :
                                toClient'[k].type = "turret" =>
                                    toClient'[k].id = nextId - 1
  BY <1>3 DEF Pointing
<1>6. ~unreconciled /\ reconciliation
  BY <1>3
<1>7. queued' = SubSeq(queued, n + 1, Len(queued))
  BY <1>5, <1>6 DEF Discard
<1>8. Len(queued) \in Nat /\ n \in Nat /\ n <= Len(queued)
  BY <1>2
<1>9. CASE n < Len(queued)
  <2>1. queued # <<>> /\ queued[Len(queued)] = nextId - 1
    <3>1. queued # <<>>
      BY <1>8, <1>9
    <3> QED
      BY <1>6, <3>1 DEF Pointing
  <2>2. /\ Len(queued') = Len(queued) - n
        /\ queued'[Len(queued) - n] = queued[Len(queued)]
    BY <1>2, <1>7, <1>8, <1>9
  <2>3. queued' # <<>>
    BY <1>8, <1>9, <2>2
  <2> QED
    BY <2>1, <2>2, <2>3
<1>10. CASE n = Len(queued)
  <2>1. queued' = <<>>
    BY <1>2, <1>7, <1>8, <1>10
  <2> SUFFICES ASSUME nextId > 1
               PROVE  /\ serverAim' = nextId - 1 /\ latest = nextId - 1
                      /\ \A k \in DOMAIN toClient' :
                            toClient'[k].type = "turret" =>
                                toClient'[k].id = nextId - 1
    BY <2>1
  <2>2. h.id \in Nat /\ h.id <= latest /\ (latest > 0 => latest < nextId)
        /\ (h.angle = h.id \/ (h.id = 0 /\ h.angle = -1))
    BY <1>2, <1>4 DEF InOrder, Answered, Ordered
  <2>3. h.id = nextId - 1
    <3>1. CASE queued = <<>>
      BY <1>4, <1>6, <3>1 DEF Pointing
    <3>2. CASE queued # <<>>
      <4>1. queued[Len(queued)] = nextId - 1
        BY <1>6, <3>2 DEF Pointing
      <4>2. Len(queued) \in 1 .. n
        BY <1>2, <1>8, <1>10, <3>2
      <4>3. nextId - 1 <= h.id
        BY <1>5, <4>1, <4>2 DEF Overtaken
      <4> QED
        BY <1>2, <2>2, <4>3
    <3> QED
      BY <3>1, <3>2
  <2>4. latest = nextId - 1 /\ h.angle = nextId - 1
    BY <1>2, <2>2, <2>3
  <2>5. ASSUME NEW k \in DOMAIN toClient', toClient'[k].type = "turret"
        PROVE  toClient'[k].id = nextId - 1
    <3>1. k + 1 \in DOMAIN toClient /\ toClient'[k] = toClient[k + 1]
          /\ (k + 1) - 1 = k /\ 1 \in 1 .. k
      BY <1>4
    <3>2. /\ toClient[k + 1].id <= latest /\ toClient[k + 1].id \in Nat
          /\ \A j \in 1 .. k : toClient[j].type = "turret" =>
                toClient[j].id <= toClient[k + 1].id
      BY <1>2, <2>5, <3>1 DEF InOrder, Answered
    <3>3. h.id <= toClient[k + 1].id
      BY <1>4, <3>1, <3>2
    <3> QED
      BY <1>2, <2>3, <2>4, <3>1, <3>2, <3>3
  <2> QED
    BY <1>3, <2>4, <2>5
<1> QED
  BY <1>8, <1>9, <1>10

LEMMA PointingKept == Counted /\ InOrder /\ Pointing /\ [Next]_vars => Pointing'
<1> SUFFICES ASSUME Counted, InOrder, Pointing, [Next]_vars
             PROVE  Pointing'
  OBVIOUS
<1>1. /\ TypeOK /\ latest \in Nat /\ nextId \in Nat
      /\ toClient \in Seq(Incoming) /\ queued \in Seq(Ids)
      /\ Len(toClient) \in Nat /\ DOMAIN toClient = 1 .. Len(toClient)
  <2>1. TypeOK /\ queued \in Seq(Ids)
    BY DEF Counted, TypeOK
  <2> QED
    BY <2>1, Types
<1>2. ASSUME UNCHANGED <<queued, nextId, serverAim, latest, unreconciled>>,
             \A k \in DOMAIN toClient' : toClient'[k].type = "turret" =>
                \/ \E j \in DOMAIN toClient : toClient[j] = toClient'[k]
                \/ toClient'[k].id = latest
      PROVE  Pointing'
  BY <1>2 DEF Pointing
<1>3. CASE UpdateTankTurret
  BY <1>3, TurretPointing
<1>4. ASSUME NEW d \in 1 .. MaxFrame, NEW start \in BOOLEAN, NEW space \in BOOLEAN,
             NEW keys \in SUBSET Keys, PlayUpdate(d, start, space, keys)
      PROVE  Pointing'
  <2>1. UNCHANGED <<serverAim, latest, toClient, unreconciled>>
    BY <1>4 DEF PlayUpdate
  <2>2. /\ Sends(d) =>
              nextId \in Ids /\ queued' = Append(queued, nextId) /\ nextId' = nextId + 1
        /\ ~Sends(d) => queued' = queued /\ nextId' = nextId
    BY <1>1, <1>4, Sent
  <2>3. CASE Sends(d)
    <3>1. /\ nextId \in Ids /\ queued' = Append(queued, nextId)
          /\ nextId' = nextId + 1
      BY <2>2, <2>3
    <3>2. queued' # <<>> /\ queued'[Len(queued')] = nextId /\ nextId' - 1 = nextId
      <4>1. /\ queued' \in Seq(Ids) /\ Len(queued') = Len(queued) + 1
            /\ queued'[Len(queued) + 1] = nextId /\ Len(queued) \in Nat
        BY <1>1, <3>1, Appended
      <4> QED
        BY <1>1, <3>1, <4>1
    <3> QED
      BY <3>2 DEF Pointing
  <2>4. CASE ~Sends(d)
    BY <1>2, <2>1, <2>2, <2>4
  <2> QED
    BY <2>3, <2>4
<1>5. ASSUME NEW type, Receives(type),
             UNCHANGED <<queued, nextId, serverAim, latest, unreconciled>>
      PROVE  Pointing'
  <2>1. /\ DOMAIN toClient' = 1 .. Len(toClient) - 1
        /\ \A k \in 1 .. Len(toClient) - 1 : toClient'[k] = toClient[k + 1]
    BY <1>1, <1>5, Received
  <2>2. \A k \in DOMAIN toClient' :
           k + 1 \in DOMAIN toClient /\ toClient[k + 1] = toClient'[k]
    BY <1>1, <2>1
  <2> QED
    BY <1>2, <1>5, <2>2
<1>6. ASSUME UpdateMissile \/ ClickedStart
      PROVE  Pointing'
  BY <1>5, <1>6 DEF UpdateMissile, ClickedStart
<1>7. ASSUME Tick
      PROVE  Pointing'
  <2> DEFINE n == Len(toClient)
  <2>1. /\ n \in Nat /\ Len(Announced) \in Nat
        /\ Len(toClient') = n + 1 + Len(Announced)
        /\ \A k \in 1 .. n : toClient'[k] = toClient[k]
        /\ toClient'[n + 1] = Reply
        /\ \A k \in 1 .. Len(Announced) : toClient'[n + 1 + k] = Announced[k]
        /\ DOMAIN toClient = 1 .. n /\ DOMAIN toClient' = 1 .. Len(toClient')
    BY <1>1, <1>7, Ticked
  <2>2. \A k \in 1 .. Len(Announced) : Announced[k].type # "turret"
    <3>1. \A m : Missive(m).type # "turret"
      BY DEF Missive
    <3> QED
      BY <3>1, AnnouncedAll
  <2>3. Reply.id = latest
    BY DEF Reply
  <2>4. UNCHANGED <<queued, nextId, serverAim, latest, unreconciled>>
    BY <1>7 DEF Tick
  <2> HIDE DEF n
  <2>5. ASSUME NEW k \in DOMAIN toClient', toClient'[k].type = "turret"
        PROVE  \/ \E j \in DOMAIN toClient : toClient[j] = toClient'[k]
               \/ toClient'[k].id = latest
    <3>1. CASE k \in 1 .. n
      BY <2>1, <3>1
    <3>2. CASE k = n + 1
      BY <2>1, <2>3, <3>2
    <3>3. CASE ~(k \in 1 .. n + 1)
      <4>1. k - (n + 1) \in 1 .. Len(Announced) /\ k = n + 1 + (k - (n + 1))
        BY <2>1, <3>3
      <4> QED
        BY <2>1, <2>2, <2>5, <4>1
    <3> QED
      BY <2>1, <3>1, <3>2, <3>3
  <2> QED
    BY <1>2, <2>4, <2>5
<1>8. ASSUME ReceiveStart \/ OtherStarts
      PROVE  Pointing'
  <2>1. /\ toClient' = Append(toClient, Start) /\ Start \in Incoming
        /\ UNCHANGED <<queued, nextId, serverAim, latest, unreconciled>>
    BY <1>8 DEF ReceiveStart, OtherStarts, Incoming
  <2>2. /\ DOMAIN toClient' = 1 .. Len(toClient) + 1
        /\ \A k \in 1 .. Len(toClient) : toClient'[k] = toClient[k]
        /\ toClient'[Len(toClient) + 1] = Start
    BY <1>1, <2>1, Appended
  <2>3. Start.type # "turret"
    BY DEF Start
  <2>4. \A k \in DOMAIN toClient' : k \in DOMAIN toClient \/ k = Len(toClient) + 1
    BY <1>1, <2>2
  <2> QED
    BY <1>1, <1>2, <2>1, <2>2, <2>3, <2>4
<1>9. ASSUME ApplyTurret
      PROVE  Pointing'
  <2>1. /\ waiting # <<>> /\ latest' = Head(waiting).id
        /\ UNCHANGED <<queued, nextId, serverAim, toClient, unreconciled>>
    BY <1>9 DEF ApplyTurret
  <2>2. waiting \in Seq(Inputs)
        /\ (\A k \in DOMAIN waiting : waiting[k].id \in Nat)
    BY <1>1, Types
  <2>3. Head(waiting) = waiting[1] /\ 1 \in DOMAIN waiting
    BY <2>1, <2>2
  <2>4. latest <= waiting[1].id /\ waiting[1].id < nextId /\ waiting[1].id \in Nat
    BY <2>2, <2>3 DEF InOrder, Ordered
  <2>5. latest = nextId - 1 => latest' = nextId - 1
    BY <1>1, <2>1, <2>3, <2>4
  <2> QED
    BY <2>1, <2>5 DEF Pointing
<1>10. ASSUME UNCHANGED <<queued, nextId, serverAim, latest, unreconciled, toClient>>
       PROVE  Pointing'
  BY <1>10 DEF Pointing
<1>11. CASE MenuUpdate \/ ReceiveTurret \/ UNCHANGED vars
  BY <1>10, <1>11 DEF MenuUpdate, ReceiveTurret, vars
<1>12. ASSUME NEW m \in Missiles, MissileEnds(m)
       PROVE  Pointing'
  BY <1>10, <1>12 DEF MissileEnds
<1> QED
  BY <1>3, <1>4, <1>6, <1>7, <1>8, <1>9, <1>11, <1>12
  DEF Next, Main, Play, Receive

-----------------------------------------------------------------------------
(* Of a missile the server has erased the end stays on its way. *)
LEMMA ReceiveEnds ==
    ASSUME Counted, EndOnItsWay, Receive
    PROVE  EndOnItsWay'
<1> DEFINE h == Head(toClient)
           n == Len(toClient)
<1>1. TypeOK /\ shown \in [{0} \cup Missiles -> {"none", "alive", "dead", "late"}]
      /\ (\A m \in Missiles : m # 0)
  BY DEF Counted, TypeOK, Missiles
<1>2. PICK type : Receives(type)
  BY DEF Receive, UpdateTankTurret, UpdateMissile, ClickedStart
<1>3. /\ h = toClient[1] /\ h \in Incoming /\ h.type = type /\ n \in Nat /\ n >= 1
      /\ DOMAIN toClient = 1 .. n /\ DOMAIN toClient' = 1 .. n - 1
      /\ \A k \in 1 .. n - 1 : toClient'[k] = toClient[k + 1]
  BY <1>1, <1>2, Received
<1>4. flight' = flight
  BY DEF Receive, UpdateTankTurret, UpdateMissile, ClickedStart
<1> HIDE DEF h, n
<1> SUFFICES ASSUME NEW m \in Missiles, flight[m] = "erased"
             PROVE  /\ shown'[m] = "alive" =>
                          \E k \in DOMAIN toClient' :
                             /\ toClient'[k].type = "missile" /\ toClient'[k].missile = m
                             /\ ~toClient'[k].alive
                    /\ \A j \in DOMAIN toClient' :
                          /\ toClient'[j].type = "missile" /\ toClient'[j].missile = m
                          /\ toClient'[j].alive
                          => \E k \in DOMAIN toClient' :
                                /\ k > j
                                /\ toClient'[k].type = "missile"
                                /\ toClient'[k].missile = m
                                /\ ~toClient'[k].alive
  BY <1>4 DEF EndOnItsWay, Says
<1>5. ASSUME NEW k \in DOMAIN toClient, k > 1
      PROVE  k - 1 \in DOMAIN toClient' /\ toClient'[k - 1] = toClient[k]
  BY <1>3, <1>5
<1>6. ASSUME NEW j \in DOMAIN toClient', toClient'[j].type = "missile",
             toClient'[j].missile = m, toClient'[j].alive
      PROVE  \E k \in DOMAIN toClient' :
                /\ k > j /\ toClient'[k].type = "missile"
                /\ toClient'[k].missile = m /\ ~toClient'[k].alive
  <2>1. j + 1 \in DOMAIN toClient /\ toClient[j + 1] = toClient'[j] /\ j \in Nat /\ j >= 1
    BY <1>3
  <2>2. PICK k \in DOMAIN toClient : k > j + 1 /\ Says(k, m) /\ ~toClient[k].alive
    BY <1>6, <2>1 DEF EndOnItsWay, Says
  <2>3. k - 1 \in DOMAIN toClient' /\ toClient'[k - 1] = toClient[k] /\ k - 1 > j
    BY <1>3, <1>5, <2>1, <2>2
  <2> QED
    BY <2>2, <2>3 DEF Says
<1>7. ASSUME shown'[m] = "alive"
      PROVE  \E k \in DOMAIN toClient' :
                /\ toClient'[k].type = "missile" /\ toClient'[k].missile = m
                /\ ~toClient'[k].alive
  <2>1. \/ shown[m] = "alive" /\ ~(Says(1, m) /\ ~h.alive)
        \/ Says(1, m) /\ h.alive
    <3>1. CASE UpdateTankTurret
      <4>1. shown' = shown /\ h.type = "turret"
        BY <3>1 DEF UpdateTankTurret, Receives, h
      <4> QED
        BY <1>3, <1>7, <4>1 DEF Says
    <3>2. CASE ClickedStart
      <4>1. shown' = [shown EXCEPT ![0] = ShownAfter(@, FALSE)] /\ h.type = "start"
        BY <3>2 DEF ClickedStart, Receives, h
      <4>2. shown'[m] = shown[m]
        BY <1>1, <4>1
      <4> QED
        BY <1>3, <1>7, <4>1, <4>2 DEF Says
    <3>3. CASE UpdateMissile
      <4>1. shown' = [shown EXCEPT ![h.missile] = ShownAfter(@, h.alive)]
            /\ h.type = "missile"
        BY <3>3 DEF UpdateMissile, Receives, h
      <4>2. CASE h.missile = m
        <5>1. shown'[m] = ShownAfter(shown[m], h.alive)
          BY <1>1, <4>1, <4>2
        <5>2. h.alive
          BY <1>7, <5>1 DEF ShownAfter
        <5> QED
          BY <1>3, <4>1, <4>2, <5>2 DEF Says
      <4>3. CASE h.missile # m
        <5>1. shown'[m] = shown[m]
          BY <1>1, <4>1, <4>3
        <5> QED
          BY <1>3, <1>7, <4>3, <5>1 DEF Says
      <4> QED
        BY <4>2, <4>3
    <3> QED
      BY <3>1, <3>2, <3>3 DEF Receive
  <2>2. PICK k \in DOMAIN toClient : k > 1 /\ Says(k, m) /\ ~toClient[k].alive
    <3>1. CASE Says(1, m) /\ h.alive
      <4>1. 1 \in DOMAIN toClient /\ toClient[1].alive
        BY <1>3, <3>1
      <4> QED
        BY <3>1, <4>1 DEF EndOnItsWay
    <3>2. CASE shown[m] = "alive" /\ ~(Says(1, m) /\ ~h.alive)
      <4>1. PICK k \in DOMAIN toClient : Says(k, m) /\ ~toClient[k].alive
        BY <3>2 DEF EndOnItsWay
      <4>2. k # 1
        BY <1>3, <3>2, <4>1
      <4>3. k > 1
        BY <1>3, <4>2
      <4> QED
        BY <4>1, <4>3
    <3> QED
      BY <2>1, <3>1, <3>2
  <2>3. k - 1 \in DOMAIN toClient' /\ toClient'[k - 1] = toClient[k]
    BY <1>5, <2>2
  <2> QED
    BY <2>2, <2>3 DEF Says
<1> QED
  BY <1>6, <1>7

LEMMA TickEnds ==
    ASSUME Counted, EndOnItsWay, Tick
    PROVE  EndOnItsWay'
<1> DEFINE n == Len(toClient)
           base == n + 1
<1>1. /\ n \in Nat /\ Len(Announced) \in Nat
      /\ Len(toClient') = n + 1 + Len(Announced)
      /\ \A k \in 1 .. n : toClient'[k] = toClient[k]
      /\ toClient'[n + 1] = Reply
      /\ \A k \in 1 .. Len(Announced) : toClient'[n + 1 + k] = Announced[k]
      /\ DOMAIN toClient = 1 .. n /\ DOMAIN toClient' = 1 .. Len(toClient')
  BY Ticked DEF Counted
<1>2. /\ \A k \in 1 .. Len(Announced) : \E m \in Announces : Announced[k] = Missive(m)
      /\ \A m \in Announces : \E k \in 1 .. Len(Announced) : Announced[k] = Missive(m)
  BY AnnouncedAll
<1>3. flight' = [m \in Missiles |->
                    IF flight[m] = "dead" THEN "erased" ELSE flight[m]]
      /\ shown' = shown
  BY DEF Tick
<1>4. Reply.type = "turret"
  BY DEF Reply
<1>5. \A m : Missive(m).type = "missile" /\ Missive(m).missile = m
             /\ (Missive(m).alive <=> flight[m] = "alive")
  BY DEF Missive
<1> HIDE DEF n, Announced
<1> SUFFICES ASSUME NEW m \in Missiles, flight'[m] = "erased"
             PROVE  /\ shown[m] = "alive" =>
                          \E k \in DOMAIN toClient' :
                             /\ toClient'[k].type = "missile" /\ toClient'[k].missile = m
                             /\ ~toClient'[k].alive
                    /\ \A j \in DOMAIN toClient' :
                          /\ toClient'[j].type = "missile" /\ toClient'[j].missile = m
                          /\ toClient'[j].alive
                          => \E k \in DOMAIN toClient' :
                                /\ k > j
                                /\ toClient'[k].type = "missile"
                                /\ toClient'[k].missile = m
                                /\ ~toClient'[k].alive
  BY <1>3 DEF EndOnItsWay, Says
<1>6. flight[m] \in {"dead", "erased"}
  BY <1>3
<1>7. ASSUME NEW j \in DOMAIN toClient', toClient'[j].type = "missile",
             toClient'[j].missile = m, toClient'[j].alive
      PROVE  j \in 1 .. n /\ toClient[j] = toClient'[j]
  <2>1. j # base
    BY <1>1, <1>4, <1>7
  <2>2. CASE j > base
    <3>1. j - base \in 1 .. Len(Announced) /\ j = n + 1 + (j - base)
      BY <1>1, <2>2
    <3>2. toClient'[j] = Announced[j - base]
      BY <1>1, <3>1
    <3>3. PICK x \in Announces : toClient'[j] = Missive(x)
      BY <1>2, <3>1, <3>2
    <3>4. x = m /\ flight[x] = "alive"
      BY <1>5, <1>7, <3>3
    <3> QED
      BY <1>6, <3>4
  <2>3. CASE j < base
    BY <1>1, <2>3
  <2> QED
    BY <1>1, <2>1, <2>2, <2>3
<1>8. CASE flight[m] = "dead"
  <2>1. m \in Announces
    BY <1>8 DEF Announces
  <2>2. PICK k \in 1 .. Len(Announced) : Announced[k] = Missive(m)
    BY <1>2, <2>1
  <2>3. /\ n + 1 + k \in DOMAIN toClient' /\ toClient'[n + 1 + k] = Missive(m)
        /\ n + 1 + k > n
    BY <1>1, <2>2
  <2>4. /\ toClient'[n + 1 + k].type = "missile" /\ toClient'[n + 1 + k].missile = m
        /\ ~toClient'[n + 1 + k].alive
    BY <1>5, <1>8, <2>3
  <2>5. \A j \in 1 .. n : n + 1 + k > j
    BY <1>1, <2>2
  <2> QED
    BY <1>7, <2>3, <2>4, <2>5
<1>9. CASE flight[m] = "erased"
  <2>1. \A k \in DOMAIN toClient : k \in DOMAIN toClient' /\ toClient'[k] = toClient[k]
    BY <1>1
  <2>2. shown[m] = "alive" =>
           \E k \in DOMAIN toClient : Says(k, m) /\ ~toClient[k].alive
    BY <1>9 DEF EndOnItsWay
  <2>3. \A j \in DOMAIN toClient : Says(j, m) /\ toClient[j].alive =>
           \E k \in DOMAIN toClient : k > j /\ Says(k, m) /\ ~toClient[k].alive
    BY <1>9 DEF EndOnItsWay
  <2>4. ASSUME NEW j \in DOMAIN toClient', toClient'[j].type = "missile",
               toClient'[j].missile = m, toClient'[j].alive
        PROVE  \E k \in DOMAIN toClient' :
                  /\ k > j /\ toClient'[k].type = "missile"
                  /\ toClient'[k].missile = m /\ ~toClient'[k].alive
    <3>1. j \in DOMAIN toClient /\ toClient[j] = toClient'[j]
      BY <1>1, <1>7, <2>4
    <3> QED
      BY <2>1, <2>3, <2>4, <3>1 DEF Says
  <2>5. shown[m] = "alive" =>
           \E k \in DOMAIN toClient' :
              /\ toClient'[k].type = "missile" /\ toClient'[k].missile = m
              /\ ~toClient'[k].alive
    BY <2>1, <2>2 DEF Says
  <2> QED
    BY <2>4, <2>5
<1> QED
  BY <1>6, <1>8, <1>9

LEMMA EndsKept == Counted /\ EndOnItsWay /\ [Next]_vars => EndOnItsWay'
<1> SUFFICES ASSUME Counted, EndOnItsWay, [Next]_vars
             PROVE  EndOnItsWay'
  OBVIOUS
<1>1. /\ TypeOK /\ toClient \in Seq(Incoming) /\ Len(toClient) \in Nat
      /\ DOMAIN toClient = 1 .. Len(toClient)
      /\ flight \in [Missiles -> {"none", "alive", "dead", "erased"}]
  <2>1. TypeOK /\ flight \in [Missiles -> {"none", "alive", "dead", "erased"}]
    BY DEF Counted, TypeOK
  <2> QED
    BY <2>1, Types
<1>2. ASSUME shown' = shown, toClient' = toClient,
             \A m \in Missiles : flight'[m] = "erased" => flight[m] = "erased"
      PROVE  EndOnItsWay'
  BY <1>2 DEF EndOnItsWay, Says
<1>3. ASSUME NEW m \in Missiles, MissileEnds(m)
      PROVE  EndOnItsWay'
  <2>1. shown' = shown /\ toClient' = toClient
        /\ flight' = [flight EXCEPT ![m] = "dead"]
    BY <1>3 DEF MissileEnds
  <2>2. \A x \in Missiles : flight'[x] = "erased" => flight[x] = "erased"
    BY <1>1, <2>1
  <2> QED
    BY <1>2, <2>1, <2>2
<1>4. CASE ApplyTurret
  <2>1. shown' = shown /\ toClient' = toClient
        /\ (flight' = flight \/ flight' = [flight EXCEPT ![fired'] = "alive"])
    BY <1>4 DEF ApplyTurret
  <2>2. \A x \in Missiles : flight'[x] = "erased" => flight[x] = "erased"
    BY <1>1, <2>1
  <2> QED
    BY <1>2, <2>1, <2>2
<1>5. CASE ReceiveStart \/ OtherStarts
  <2>1. toClient' = Append(toClient, Start) /\ shown' = shown /\ flight' = flight
        /\ Start \in Incoming
    BY <1>5 DEF ReceiveStart, OtherStarts, Incoming
  <2>2. /\ DOMAIN toClient' = 1 .. Len(toClient) + 1
        /\ \A k \in 1 .. Len(toClient) : toClient'[k] = toClient[k]
        /\ toClient'[Len(toClient) + 1] = Start
    BY <1>1, <2>1, Appended
  <2>3. Start.type # "missile"
    BY DEF Start
  <2>4. \A k \in DOMAIN toClient : k \in DOMAIN toClient' /\ toClient'[k] = toClient[k]
    BY <1>1, <2>2
  <2>5. \A k \in DOMAIN toClient' :
           toClient'[k].type = "missile" => k \in DOMAIN toClient
    <3>1. \A k \in DOMAIN toClient' : k \in DOMAIN toClient \/ k = Len(toClient) + 1
      BY <1>1, <2>2
    <3> QED
      BY <2>2, <2>3, <3>1
  <2> QED
    BY <2>1, <2>4, <2>5 DEF EndOnItsWay, Says
<1>6. CASE Receive
  BY <1>6, ReceiveEnds
<1>7. CASE Tick
  BY <1>7, TickEnds
<1>8. CASE MenuUpdate \/ ReceiveTurret \/ UNCHANGED vars
  BY <1>2, <1>8 DEF MenuUpdate, ReceiveTurret, vars
<1>9. CASE Play
  <2>1. shown' = shown /\ toClient' = toClient /\ flight' = flight
    BY <1>9 DEF Play, PlayUpdate
  <2> QED
    BY <1>2, <2>1
<1> QED
  BY <1>3, <1>4, <1>5, <1>6, <1>7, <1>8, <1>9 DEF Next, Main

-----------------------------------------------------------------------------
(* What the client has heard of has happened. *)
LEMMA ShownKept == Counted /\ ShownWereFired /\ [Next]_vars => ShownWereFired'
<1> SUFFICES ASSUME Counted, ShownWereFired, [Next]_vars
             PROVE  ShownWereFired'
  OBVIOUS
<1>1. /\ TypeOK /\ toClient \in Seq(Incoming) /\ Len(toClient) \in Nat
      /\ DOMAIN toClient = 1 .. Len(toClient) /\ fired \in Nat
      /\ shown \in [{0} \cup Missiles -> {"none", "alive", "dead", "late"}]
      /\ starts \in Nat /\ Missiles \subseteq Nat \ {0}
      /\ waiting \in Seq(Inputs)
  <2>1. TypeOK /\ fired \in 0 .. MaxMissiles /\ starts \in 0 .. MaxStarts
        /\ shown \in [{0} \cup Missiles -> {"none", "alive", "dead", "late"}]
    BY DEF Counted, TypeOK
  <2>2. Missiles \subseteq Nat \ {0} /\ MaxMissiles \in Nat /\ MaxStarts \in Nat
    BY TimeAssumption DEF Missiles
  <2> QED
    BY <2>1, <2>2, Types

<1>2. ASSUME shown' = shown, fired' \in Nat, fired' >= fired,
             SomebodyStarted => SomebodyStarted',
             \A k \in DOMAIN toClient' :
                \/ \E j \in DOMAIN toClient : toClient[j] = toClient'[k]
                \/ /\ toClient'[k].type = "missile" =>
                         toClient'[k].missile \in Nat /\ toClient'[k].missile <= fired
                   /\ toClient'[k].type = "start" => SomebodyStarted'
      PROVE  ShownWereFired'
  <2>1. \A m \in DOMAIN shown :
           shown[m] # "none" => m \in 1 .. fired' \/ (m = 0 /\ SomebodyStarted')
    BY <1>1, <1>2 DEF ShownWereFired
  <2>2. \A j \in DOMAIN toClient :
           /\ toClient[j].type = "missile" =>
                 toClient[j].missile \in Nat /\ toClient[j].missile <= fired
           /\ toClient[j].type = "start" => SomebodyStarted
    <3>1. \A x \in Incoming : x.type = "missile" => x.missile \in Nat
      <4>1. \A x \in Incoming : x.type = "missile" => x.missile \in Missiles
        BY DEF Incoming, Updates, Start
      <4> QED
        BY <1>1, <4>1
    <3>2. \A j \in DOMAIN toClient : toClient[j] \in Incoming
      BY <1>1
    <3> QED
      BY <3>1, <3>2 DEF ShownWereFired
  <2>3. \A k \in DOMAIN toClient' :
           /\ toClient'[k].type = "missile" => toClient'[k].missile <= fired'
           /\ toClient'[k].type = "start" => SomebodyStarted'
    BY <1>1, <1>2, <2>2
  <2> QED
    BY <1>2, <2>1, <2>3 DEF ShownWereFired
<1>3. ASSUME NEW type, Receives(type), fired' = fired,
             SomebodyStarted' <=> SomebodyStarted,
             \A m \in DOMAIN shown : shown'[m] = shown[m]
                \/ (m \in 1 .. fired \/ (m = 0 /\ SomebodyStarted)),
             DOMAIN shown' = DOMAIN shown
      PROVE  ShownWereFired'
  <2>1. /\ DOMAIN toClient' = 1 .. Len(toClient) - 1
        /\ \A k \in 1 .. Len(toClient) - 1 : toClient'[k] = toClient[k + 1]
    BY <1>1, <1>3, Received
  <2>2. \A k \in DOMAIN toClient' :
           k + 1 \in DOMAIN toClient /\ toClient[k + 1] = toClient'[k]
    BY <1>1, <2>1
  <2>3. \A k \in DOMAIN toClient' :
           /\ toClient'[k].type = "missile" => toClient'[k].missile <= fired
           /\ toClient'[k].type = "start" => SomebodyStarted
    BY <2>2 DEF ShownWereFired
  <2>4. \A m \in DOMAIN shown' :
           shown'[m] # "none" => m \in 1 .. fired \/ (m = 0 /\ SomebodyStarted)
    BY <1>3 DEF ShownWereFired
  <2> QED
    BY <1>3, <2>3, <2>4 DEF ShownWereFired
<1>4. CASE UpdateTankTurret
  <2>1. /\ Receives("turret") /\ fired' = fired /\ shown' = shown
        /\ (SomebodyStarted' <=> SomebodyStarted)
    BY <1>4 DEF UpdateTankTurret, SomebodyStarted
  <2> QED
    BY <1>3, <2>1
<1>5. CASE UpdateMissile
  <2> DEFINE h == Head(toClient)
  <2>1. /\ Receives("missile") /\ fired' = fired
        /\ shown' = [shown EXCEPT ![h.missile] = ShownAfter(@, h.alive)]
        /\ (SomebodyStarted' <=> SomebodyStarted)
    BY <1>5 DEF UpdateMissile, SomebodyStarted
  <2>2. h = toClient[1] /\ h \in Incoming /\ h.type = "missile" /\ 1 \in DOMAIN toClient
    <3>1. h = toClient[1] /\ h \in Incoming /\ h.type = "missile" /\ Len(toClient) >= 1
      BY <1>1, <2>1, Received
    <3> QED
      BY <1>1, <3>1
  <2>3. h.missile \in Missiles
    BY <2>2 DEF Incoming, Updates, Start
  <2>4. h.missile \in 1 .. fired
    <3>1. h.missile <= fired
      BY <2>2 DEF ShownWereFired
    <3>2. h.missile \in Nat \ {0} /\ fired \in Nat
      BY <1>1, <2>3
    <3> HIDE DEF h
    <3> QED
      BY <3>1, <3>2
  <2> HIDE DEF h
  <2>5. DOMAIN shown' = DOMAIN shown
        /\ \A m \in DOMAIN shown : shown'[m] = shown[m] \/ m \in 1 .. fired
    BY <1>1, <2>1, <2>4
  <2> QED
    BY <1>3, <2>1, <2>5
<1>6. CASE ClickedStart
  <2>1. /\ Receives("start") /\ fired' = fired
        /\ shown' = [shown EXCEPT ![0] = ShownAfter(@, FALSE)]
        /\ (SomebodyStarted' <=> SomebodyStarted)
    BY <1>6 DEF ClickedStart, SomebodyStarted
  <2>2. SomebodyStarted
    <3>1. toClient[1].type = "start" /\ 1 \in DOMAIN toClient
      <4>1. /\ Head(toClient) = toClient[1] /\ Head(toClient).type = "start"
            /\ Len(toClient) >= 1
        BY <1>1, <2>1, Received
      <4> QED
        BY <1>1, <4>1
    <3> QED
      BY <3>1 DEF ShownWereFired
  <2>3. DOMAIN shown' = DOMAIN shown
        /\ \A m \in DOMAIN shown : shown'[m] = shown[m] \/ m = 0
    BY <1>1, <2>1
  <2> QED
    BY <1>3, <2>1, <2>2, <2>3
<1>7. CASE Tick
  <2> DEFINE n == Len(toClient)
  <2>1. /\ n \in Nat /\ Len(Announced) \in Nat
        /\ Len(toClient') = n + 1 + Len(Announced)
        /\ \A k \in 1 .. n : toClient'[k] = toClient[k]
        /\ toClient'[n + 1] = Reply
        /\ \A k \in 1 .. Len(Announced) : toClient'[n + 1 + k] = Announced[k]
        /\ DOMAIN toClient = 1 .. n /\ DOMAIN toClient' = 1 .. Len(toClient')
    BY <1>1, <1>7, Ticked
  <2>2. \A k \in 1 .. Len(Announced) : \E m \in Announces : Announced[k] = Missive(m)
    BY AnnouncedAll
  <2>3. Reply.type = "turret"
    BY DEF Reply
  <2>4. ASSUME NEW m \in Announces
        PROVE  /\ Missive(m).type = "missile"
               /\ Missive(m).missile \in Nat /\ Missive(m).missile <= fired
    <3>1. m \in Missiles /\ flight[m] # "none"
      BY DEF Announces
    <3>2. ~(m > fired)
      BY <3>1 DEF Counted, Numbered
    <3>3. Missive(m).type = "missile" /\ Missive(m).missile = m
      BY DEF Missive
    <3> QED
      BY <1>1, <3>1, <3>2, <3>3
  <2>5. shown' = shown /\ fired' = fired /\ (SomebodyStarted => SomebodyStarted')
    BY <1>7 DEF Tick, SomebodyStarted
  <2> HIDE DEF n, Announced
  <2>6. ASSUME NEW k \in DOMAIN toClient'
        PROVE  \/ \E j \in DOMAIN toClient : toClient[j] = toClient'[k]
               \/ /\ toClient'[k].type = "missile" =>
                        toClient'[k].missile \in Nat /\ toClient'[k].missile <= fired
                  /\ toClient'[k].type = "start" => SomebodyStarted'
    <3>1. CASE k \in 1 .. n
      BY <2>1, <3>1
    <3>2. CASE k = n + 1
      BY <2>1, <2>3, <3>2
    <3>3. CASE ~(k \in 1 .. n + 1)
      <4>1. k - (n + 1) \in 1 .. Len(Announced) /\ k = n + 1 + (k - (n + 1))
        BY <2>1, <3>3
      <4>2. PICK m \in Announces : toClient'[k] = Missive(m)
        BY <2>1, <2>2, <4>1
      <4> QED
        BY <2>4, <4>2
    <3> QED
      BY <2>1, <3>1, <3>2, <3>3
  <2> QED
    BY <1>1, <1>2, <2>5, <2>6
<1>8. CASE ReceiveStart \/ OtherStarts
  <2>1. toClient' = Append(toClient, Start) /\ shown' = shown /\ fired' = fired
        /\ game' = game /\ Start \in Incoming
    BY <1>8 DEF ReceiveStart, OtherStarts, Incoming
  <2>2. /\ DOMAIN toClient' = 1 .. Len(toClient) + 1
        /\ \A k \in 1 .. Len(toClient) : toClient'[k] = toClient[k]
        /\ toClient'[Len(toClient) + 1] = Start
    BY <1>1, <2>1, Appended
  <2>3. Start.type = "start"
    BY DEF Start
  <2>4. SomebodyStarted' /\ (SomebodyStarted => SomebodyStarted')
    <3>1. CASE OtherStarts
      <4>1. starts' = starts + 1
        BY <3>1 DEF OtherStarts
      <4> QED
        BY <1>1, <4>1 DEF SomebodyStarted
    <3>2. CASE ReceiveStart
      <4>1. toServer # <<>> /\ game' = game
        BY <3>2 DEF ReceiveStart, ServerReceives
      <4>2. game = "play"
        BY <1>1, <4>1 DEF Counted, Fresh, TypeOK
      <4> QED
        BY <4>1, <4>2 DEF SomebodyStarted
    <3> QED
      BY <1>8, <3>1, <3>2
  <2>5. \A k \in DOMAIN toClient' : k \in DOMAIN toClient \/ k = Len(toClient) + 1
    BY <1>1, <2>2
  <2>6. \A k \in DOMAIN toClient' :
           \/ \E j \in DOMAIN toClient : toClient[j] = toClient'[k]
           \/ toClient'[k].type = "start"
    BY <1>1, <2>2, <2>3, <2>5
  <2> QED
    BY <1>1, <1>2, <2>1, <2>4, <2>6
<1>9. ASSUME shown' = shown, fired' \in Nat, fired' >= fired, toClient' = toClient,
             SomebodyStarted => SomebodyStarted'
      PROVE  ShownWereFired'
  BY <1>2, <1>9
<1>10. CASE ApplyTurret
  <2>1. shown' = shown /\ toClient' = toClient /\ (fired' = fired \/ fired' = fired + 1)
        /\ (SomebodyStarted => SomebodyStarted')
    BY <1>10 DEF ApplyTurret, SomebodyStarted
  <2> QED
    BY <1>1, <1>9, <2>1
<1>11. CASE Play
  <2>1. shown' = shown /\ toClient' = toClient /\ fired' = fired /\ game' = "play"
    BY <1>11 DEF Play, PlayUpdate
  <2> QED
    BY <1>1, <1>9, <2>1 DEF SomebodyStarted
<1>12. CASE MenuUpdate \/ ReceiveTurret \/ UNCHANGED vars
  <2>1. shown' = shown /\ toClient' = toClient /\ fired' = fired
        /\ (SomebodyStarted => SomebodyStarted')
    BY <1>12 DEF MenuUpdate, ReceiveTurret, vars, SomebodyStarted
  <2> QED
    BY <1>1, <1>9, <2>1
<1>13. ASSUME NEW m \in Missiles, MissileEnds(m)
       PROVE  ShownWereFired'
  <2>1. shown' = shown /\ toClient' = toClient /\ fired' = fired
        /\ (SomebodyStarted => SomebodyStarted')
    BY <1>13 DEF MissileEnds, SomebodyStarted
  <2> QED
    BY <1>1, <1>9, <2>1
<1> QED
  BY <1>4, <1>5, <1>6, <1>7, <1>8, <1>10, <1>11, <1>12, <1>13
  DEF Next, Main, Receive

-----------------------------------------------------------------------------
(* Theorems. *)
Kept == Counted /\ InOrder /\ Pointing /\ EndOnItsWay /\ ShownWereFired

LEMMA AlwaysKept == Spec => []Kept
<1>1. Init => Kept
  <2> SUFFICES ASSUME Init
               PROVE  Kept
    OBVIOUS
  <2>1. Counted
    BY CountedInit
  <2>2. waiting = <<>> /\ toServer = <<>> /\ toClient = <<>> /\ queued = <<>>
        /\ latest = 0 /\ rotation = -1 /\ nextId = 0
        /\ (\A m \in DOMAIN shown : shown[m] = "none")
        /\ (\A m \in Missiles : flight[m] = "none")
    BY DEF Init
  <2>3. DOMAIN waiting = {} /\ DOMAIN toServer = {} /\ DOMAIN toClient = {}
    BY <2>2
  <2>4. Ordered /\ Answered /\ Pointing /\ EndOnItsWay /\ ShownWereFired
    BY <2>2, <2>3 DEF Ordered, Answered, Pointing, EndOnItsWay, ShownWereFired
  <2> QED
    BY <2>1, <2>4 DEF Kept, InOrder
<1>2. Kept /\ [Next]_vars => Kept'
  BY CountedKept, InOrderKept, PointingKept, EndsKept, ShownKept DEF Kept
<1> QED
  BY <1>1, <1>2, PTL DEF Spec

(***************************************************************************)
(* The client's variables keep their types and bounds, reconciliation      *)
(* never runs without prediction, every shot granted by the cooldown is a  *)
(* missile, in a queue, on its way or latched in missile_shot exactly      *)
(* once, and turret inputs and the server's answers keep the order that    *)
(* reconciliation discards by (application.cpp:171-428,                    *)
(* send_packet.cpp:69-77, main.cpp:148-166).                               *)
(***************************************************************************)
THEOREM ClientKept == Spec => []ClientInv
<1>1. Kept => ClientInv
  BY DEF Kept, Counted, InOrder, ClientInv
<1> QED
  BY <1>1, AlwaysKept, PTL

(***************************************************************************)
(* With prediction, and reconciliation never missed, a frame draws the     *)
(* turret where the player last sent it, however late the server answers   *)
(* (application.cpp:367-379, process_packet.cpp:237-257).                  *)
(***************************************************************************)
THEOREM AimsWhereSent == Spec => AimIsNewest
<1>1. Kept /\ [Next]_vars =>
         [Play /\ prediction' /\ ~unreconciled /\ nextId > 1
             => aim' = nextId - 1]_vars
  <2> SUFFICES ASSUME Kept, Play, prediction', ~unreconciled, nextId > 1
               PROVE  aim' = nextId - 1
    OBVIOUS
  <2>1. Aim
    BY DEF Play, PlayUpdate
  <2>2. CASE queued # <<>>
    BY <2>1, <2>2 DEF Aim, Kept, Pointing
  <2>3. CASE queued = <<>>
    BY <2>1, <2>3 DEF Aim, Kept, Pointing
  <2> QED
    BY <2>2, <2>3
<1> QED
  BY <1>1, AlwaysKept, PTL DEF Spec, AimIsNewest

(***************************************************************************)
(* Of a missile that the server has erased and the client draws, or will   *)
(* draw, a packet that removes it is on its way (main.cpp:202-218,         *)
(* process_packet.cpp:298-318).                                            *)
(***************************************************************************)
THEOREM MissilesEnd == Spec => []EndOnItsWay
  BY AlwaysKept, PTL DEF Kept

(***************************************************************************)
(* The client shows no missile that was not fired, but the one that the    *)
(* case of CLICKSTART makes by going on into that of MISSILE, and that     *)
(* only after somebody clicked on Start (process_packet.cpp:83-87).        *)
(***************************************************************************)
THEOREM NoMissileInvented == Spec => []ShownWereFired
  BY AlwaysKept, PTL DEF Kept

=============================================================================
