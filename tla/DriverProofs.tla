---------------------------- MODULE DriverProofs ----------------------------
(***************************************************************************)
(* For every number of stations, entries, buttons and callers and whatever *)
(* the periods of the clocks: what the drivers behind the REST endpoints   *)
(* promise, each for itself.                                               *)
(***************************************************************************)
EXTENDS MCDevices, FiniteSetTheorems, SequenceTheorems, WellFoundedInduction, TLAPS

-----------------------------------------------------------------------------
(* Clocks that wrap                                                        *)

LEMMA DivMod ==
  ASSUME NEW a \in Int, NEW m \in Nat \ {0}
  PROVE  /\ a % m \in 0..(m - 1) /\ a \div m \in Int
         /\ a = m * (a \div m) + (a % m)
OBVIOUS

LEMMA ModOf ==
  ASSUME NEW a \in Int, NEW m \in Nat \ {0}, NEW k \in Int, NEW r \in 0..(m - 1),
         a = m * k + r
  PROVE  a % m = r
OBVIOUS

(* The time left until x shrinks by one with every tick.                   *)
LEMMA TickLeaves ==
  ASSUME NEW m \in Nat \ {0}, NEW x \in Int, NEW t \in Int, (x - t) % m >= 1
  PROVE  (x - ((t + 1) % m)) % m = ((x - t) % m) - 1
<1> DEFINE j == (x - t) \div m
           r == (x - t) % m
           k == (t + 1) \div m
           u == (t + 1) % m
<1>1. r \in 0..(m - 1) /\ j \in Int /\ x - t = m * j + r
  BY DivMod
<1>2. u \in 0..(m - 1) /\ k \in Int /\ t + 1 = m * k + u
  BY DivMod
<1> HIDE DEF j, r, k, u
<1>3. j + k \in Int /\ m * (j + k) = m * j + m * k
  BY <1>1, <1>2
<1>4. x - u = m * (j + k) + (r - 1) /\ x - u \in Int
  BY <1>1, <1>2, <1>3
<1>5. r - 1 \in 0..(m - 1)
  BY <1>1 DEF r
<1>6. (x - u) % m = r - 1
  BY <1>3, <1>4, <1>5, ModOf
<1>7. QED
  BY <1>6 DEF r, u

(* The time passed since x grows by one with every tick, up to the wrap.   *)
LEMMA TickPasses ==
  ASSUME NEW m \in Nat \ {0}, NEW x \in Int, NEW t \in Int, ((t - x) % m) + 1 < m
  PROVE  (((t + 1) % m) - x) % m = ((t - x) % m) + 1
<1> DEFINE j == (t - x) \div m
           r == (t - x) % m
           k == (t + 1) \div m
           u == (t + 1) % m
<1>1. r \in 0..(m - 1) /\ j \in Int /\ t - x = m * j + r
  BY DivMod
<1>2. u \in 0..(m - 1) /\ k \in Int /\ t + 1 = m * k + u
  BY DivMod
<1> HIDE DEF j, r, k, u
<1>3. j - k \in Int /\ m * (j - k) = m * j - m * k
  BY <1>1, <1>2
<1>4. u - x = m * (j - k) + (r + 1) /\ u - x \in Int
  BY <1>1, <1>2, <1>3
<1>5. r + 1 \in 0..(m - 1)
  BY <1>1 DEF r
<1>6. (u - x) % m = r + 1
  BY <1>3, <1>4, <1>5, ModOf
<1>7. QED
  BY <1>6 DEF r, u

LEMMA Product ==
  ASSUME NEW a \in Int, NEW b \in Int, NEW u \in Nat \ {0}
  PROVE  /\ u * a \in Int /\ a * u = u * a
         /\ a <= b => u * a <= u * b
         /\ u * a < u * b => a < b
         /\ u * (0 - a) = 0 - u * a
         /\ u * (a + b) = u * a + u * b
<1>1. u * a \in Int /\ u * b \in Int /\ a * u = u * a
  OBVIOUS
<1>2. a <= b => u * a <= u * b
  OBVIOUS
<1>3. b <= a => u * b <= u * a
  OBVIOUS
<1>4. u * (0 - a) = 0 - u * a
  OBVIOUS
<1>5. u * (a + b) = u * a + u * b
  OBVIOUS
<1>6. u * a < u * b => a < b
  BY <1>1, <1>3
<1>7. QED
  BY <1>1, <1>2, <1>4, <1>5, <1>6

LEMMA EvenMultiple ==
  ASSUME NEW U \in Nat \ {0}, NEW C \in Nat \ {0}, C % (2 * U) = 0
  PROVE  C \div U \in Int /\ C = U * (C \div U)
<1>1. PICK w \in Nat \ {0} : w = 2 * U
  OBVIOUS
<1>2. PICK h \in Int : C = w * h + (C % w)
  <2>1. C \div w \in Int /\ C = w * (C \div w) + (C % w)
    BY DivMod
  <2>2. QED
    BY <2>1
<1>3. w * h \in Int /\ C % w = 0
  BY <1>1, <1>2
<1>4. C = w * h
  BY <1>2, <1>3
<1>5. 2 * h \in Int /\ C = U * (2 * h) + 0 /\ 0 \in 0..(U - 1) /\ C \in Int
  BY <1>1, <1>2, <1>4
<1>6. C % U = 0
  BY <1>5, ModOf
<1>7. PICK n \in Int : n = C \div U /\ C = U * n + (C % U)
  BY DivMod
<1>8. U * n \in Int
  BY <1>7
<1>9. QED
  BY <1>6, <1>7, <1>8

(* An expiry that is kept in units, rounded up, lies between the lease     *)
(* time and a unit more ahead of the clock, and fits the units of a round. *)
LEMMA ExpiryIsAhead ==
  ASSUME NEW t \in Int, NEW L \in Nat, NEW U \in Nat \ {0}, NEW C \in Nat \ {0},
         C % (2 * U) = 0, L + U < C
  PROVE  LET e == ((t + L) % C) \div U
         IN  /\ e \in 0..((C \div U) - 1)
             /\ (e * U + U - 1 - t) % C \in L..(L + U - 1)
<1> DEFINE k == (t + L) \div C
           y == (t + L) % C
           e == y \div U
           z == y % U
           n == C \div U
<1>1. y \in 0..(C - 1) /\ k \in Int /\ t + L = C * k + y
  BY DivMod
<1>2. z \in 0..(U - 1) /\ e \in Int /\ y = U * e + z
  <2>1. y \in Int
    BY <1>1
  <2> HIDE DEF y
  <2>2. QED
    BY <2>1, DivMod
<1>3. n \in Int /\ C = U * n
  BY EvenMultiple
<1> HIDE DEF k, y, e, z, n
<1>4. U * (0 - 1) = 0 - U /\ U * e \in Int /\ e * U = U * e
  BY <1>2, Product
<1>5. e > 0 - 1
  <2>1. U * (0 - 1) < U * e
    BY <1>1, <1>2, <1>4
  <2>2. QED
    BY <1>2, <2>1, Product
<1>6. e < n
  <2>1. U * e < U * n
    BY <1>1, <1>2, <1>3, <1>4
  <2>2. QED
    BY <1>2, <1>3, <2>1, Product
<1>7. C * k \in Int /\ C * (0 - k) = 0 - C * k
  BY <1>1, Product
<1>8. e * U + U - 1 - t = C * (0 - k) + (L + (U - 1 - z)) /\ e * U + U - 1 - t \in Int
  <2> DEFINE p == U * e
             q == C * k
  <2>1. p \in Int /\ q \in Int /\ e * U = p /\ C * (0 - k) = 0 - q
    BY <1>4, <1>7
  <2>2. t + L = q + y /\ y = p + z
    BY <1>1, <1>2
  <2> HIDE DEF p, q
  <2>3. QED
    BY <1>1, <1>2, <2>1, <2>2
<1>9. L + (U - 1 - z) \in 0..(C - 1) /\ L + (U - 1 - z) \in L..(L + U - 1)
  BY <1>2
<1>10. (e * U + U - 1 - t) % C = L + (U - 1 - z)
  <2>1. 0 - k \in Int
    BY <1>1
  <2>2. QED
    BY <1>8, <1>9, <2>1, ModOf
<1>11. e \in 0..(n - 1)
  BY <1>2, <1>3, <1>5, <1>6
<1>12. QED
  BY <1>9, <1>10, <1>11 DEF e, y, n

-----------------------------------------------------------------------------
(* The leases                                                              *)

(* A set of naturals that is finite and not empty has a least element: the *)
(* elements up to it are a smallest set of their kind.                     *)
LEMMA LeastElement ==
  ASSUME NEW S \in SUBSET Nat, IsFiniteSet(S), S # {}
  PROVE  Min(S) \in S /\ \A y \in S : Min(S) <= y
<1> DEFINE UpTo(x) == {y \in S : y <= x}
           T == {UpTo(x) : x \in S}
<1>1. T \subseteq FiniteSubsetsOf(S) /\ T # {}
  <2>1. \A x \in S : UpTo(x) \in SUBSET S
    OBVIOUS
  <2>2. T # {}
    OBVIOUS
  <2>3. QED
    BY <2>1, <2>2, FS_FiniteSubsetsOfFinite
<1>2. PICK u \in T : \A v \in T : ~(<<v, u>> \in StrictSubsetOrdering(S))
  <2> HIDE DEF T
  <2>1. QED
    BY <1>1, FS_StrictSubsetOrderingWellFounded, WFMin
<1>3. PICK x \in S : u = UpTo(x)
  OBVIOUS
<1>4. ASSUME NEW y \in S PROVE x <= y
  <2>1. SUFFICES ASSUME y < x PROVE FALSE
    OBVIOUS
  <2>2. x \in UpTo(x) /\ x \notin UpTo(y) /\ UpTo(y) \in SUBSET S /\ UpTo(x) \in SUBSET S
    BY <2>1
  <2>3. ASSUME NEW z \in UpTo(y) PROVE z \in UpTo(x)
    BY <2>1, <2>3
  <2>4. <<UpTo(y), UpTo(x)>> \in StrictSubsetOrdering(S)
    BY <2>2, <2>3 DEF StrictSubsetOrdering
  <2>5. QED
    BY <1>2, <1>3, <2>4
<1>5. QED
  BY <1>4 DEF Min

LEMMA DhcpConstants ==
  /\ NoMac \notin Stations
  /\ MaxIp \in Nat \ {0} /\ LeaseTime \in Nat \ {0} /\ Unit \in Nat \ {0}
  /\ ClockMod \in Nat \ {0} /\ ClockMod % (2 * Unit) = 0
  /\ LeaseTime + Unit < ClockMod \div 2 /\ LeaseTime + Unit < ClockMod
  /\ ClockMod \div Unit \in Int /\ ClockMod \div Unit >= 1
<1> USE DhcpAssumption DEF DhcpAssumption
<1>1. ClockMod \in Nat \ {0} /\ Unit \in Nat \ {0} /\ LeaseTime \in Nat \ {0}
  OBVIOUS
<1>2. ClockMod \div 2 <= ClockMod
  BY <1>1
<1>3. ClockMod \div Unit \in Int /\ ClockMod = Unit * (ClockMod \div Unit)
  BY <1>1, EvenMultiple
<1>4. ClockMod \div Unit >= 1
  <2>1. Unit * 0 = 0
    BY <1>1
  <2>2. QED
    BY <1>1, <1>3, <2>1, Product
<1>5. QED
  BY <1>1, <1>2, <1>3, <1>4

(* What an entry has left does not depend on who owns it.                  *)
LEMMA RemainingKept ==
  ASSUME NEW i, lease'[i].expiry = lease[i].expiry, ticks' = ticks
  PROVE  Remaining(i)' = Remaining(i)
BY DEF Remaining

(* What a station has been promised has not expired.                       *)
LEMMA PromisesHold ==
  ASSUME DhcpTypeOK, LeasesLast, NEW s \in Stations, station[s].state = "bound"
  PROVE  ~Expired(station[s].addr)
<1>1. /\ station[s].left \in 1..LeaseTime
      /\ Remaining(station[s].addr) \in station[s].left..LeaseTime + Unit - 1
  BY DEF DhcpTypeOK, LeasesLast
<1>2. ClockMod \div 2 \in Int
  BY DhcpConstants
<1>3. QED
  BY <1>1, <1>2, DhcpConstants DEF Expired

LEMMA OwnIsFinite ==
  ASSUME NEW s
  PROVE  IsFiniteSet(Own(s)) /\ Own(s) \subseteq Entries /\ Entries \in SUBSET Nat
         /\ IsFiniteSet(Entries)
<1>1. IsFiniteSet(Entries) /\ Entries \in SUBSET Nat
  BY DhcpConstants, FS_Interval DEF Entries
<1>2. Own(s) \in SUBSET Entries
  BY DEF Own
<1>3. QED
  BY <1>1, <1>2, FS_Subset

LEMMA FewerOwned ==
  ASSUME NEW A, NEW B, A \subseteq B, IsFiniteSet(B), Cardinality(B) <= 1
  PROVE  Cardinality(A) <= 1
<1>1. IsFiniteSet(A) /\ Cardinality(A) <= Cardinality(B)
  BY FS_Subset
<1>2. Cardinality(A) \in Nat /\ Cardinality(B) \in Nat
  BY <1>1, FS_CardinalityType
<1>3. QED
  BY <1>1, <1>2

(* DISCOVER takes entries only from stations whose lease is over, and      *)
(* offers the station the entry it owns, if any.                           *)
LEMMA DiscoverStep ==
  ASSUME DhcpTypeOK, LeasesLast, AsksForItsOwn,
         NEW s \in Stations, Cardinality(Own(s)) <= 1, Discover(s)
  PROVE  /\ ticks' = ticks
         /\ \A i \in Entries : /\ lease'[i].expiry = lease[i].expiry
                               /\ lease'[i].mac = lease[i].mac \/ lease'[i].mac = NoMac
                               /\ ~Expired(i) => lease'[i].mac = lease[i].mac
         /\ lease' \in [Entries -> [mac : Stations \cup {NoMac},
                                    expiry : 0..(ClockMod \div Unit) - 1]]
         /\ \/ station' = station
            \/ \E a \in Entries :
                 /\ Own(s) \subseteq {a}
                 /\ station' = [station EXCEPT ![s] =
                                  [state |-> "offered", addr |-> a, left |-> 0]]
<1>1. /\ ticks' = ticks
      /\ lease' = [i \in Entries |->
           IF Candidates(s) # {} /\ i = Min(Candidates(s)) /\ Expired(i)
             THEN [lease[i] EXCEPT !.mac = NoMac] ELSE lease[i]]
  BY DEF Discover, Recycled
<1>2. ASSUME NEW i \in Entries
      PROVE  /\ lease'[i] \in [mac : Stations \cup {NoMac}, expiry : 0..(ClockMod \div Unit) - 1]
             /\ lease'[i].expiry = lease[i].expiry
             /\ lease'[i].mac = lease[i].mac \/ lease'[i].mac = NoMac
             /\ ~Expired(i) => lease'[i].mac = lease[i].mac
  <2>1. lease[i] \in [mac : Stations \cup {NoMac}, expiry : 0..(ClockMod \div Unit) - 1]
    BY DEF DhcpTypeOK
  <2>2. lease'[i] = lease[i] \/ (Expired(i) /\ lease'[i] = [lease[i] EXCEPT !.mac = NoMac])
    BY <1>1
  <2>3. QED
    BY <2>1, <2>2
<1>3. ASSUME station' # station
      PROVE  \E a \in Entries :
                 /\ Own(s) \subseteq {a}
                 /\ station' = [station EXCEPT ![s] =
                                  [state |-> "offered", addr |-> a, left |-> 0]]
  <2>1. /\ Own(s) \cup Candidates(s) # {}
        /\ station' = [station EXCEPT ![s] =
                         [state |-> "offered", addr |-> Chosen(s), left |-> 0]]
    BY <1>3 DEF Discover, Found
  <2>2. CASE Own(s) = {}
    <3>1. Candidates(s) # {} /\ Candidates(s) \in SUBSET Entries
      BY <2>1, <2>2 DEF Candidates, Passed
    <3>2. IsFiniteSet(Candidates(s)) /\ Candidates(s) \in SUBSET Nat
      BY <3>1, OwnIsFinite, FS_Subset
    <3>3. Min(Candidates(s)) \in Candidates(s)
      BY <3>1, <3>2, LeastElement
    <3>4. Chosen(s) \in Entries
      BY <2>2, <3>1, <3>3 DEF Chosen
    <3>5. QED
      BY <2>1, <2>2, <3>4
  <2>3. CASE Own(s) # {}
    <3>1. IsFiniteSet(Own(s)) /\ Own(s) \in SUBSET Nat /\ Own(s) \subseteq Entries
      BY OwnIsFinite
    <3>2. Cardinality(Own(s)) = 1
      <4>1. Cardinality(Own(s)) \in Nat
        BY <3>1, FS_CardinalityType
      <4>2. Cardinality(Own(s)) # 0
        BY <2>3, <3>1, FS_EmptySet
      <4>3. QED
        BY <4>1, <4>2
    <3>3. PICK x : Own(s) = {x}
      BY <3>1, <3>2, FS_Singleton
    <3>4. Chosen(s) = x
      BY <2>3, <3>1, <3>3, LeastElement DEF Chosen
    <3>5. QED
      BY <2>1, <3>1, <3>3, <3>4
  <2>4. QED
    BY <2>2, <2>3
<1>4. QED
  BY <1>1, <1>2, <1>3

(* The inductive part of DhcpInv *)
LeasesOK ==
  /\ DhcpTypeOK /\ LeasesLast /\ AsksForItsOwn
  /\ \A r \in Stations : Cardinality(Own(r)) <= 1

LEMMA DiscoverKeeps ==
  ASSUME LeasesOK, NEW s \in Stations, Discover(s)
  PROVE  LeasesOK'
<1>1. DhcpTypeOK /\ LeasesLast /\ AsksForItsOwn /\ \A r \in Stations : Cardinality(Own(r)) <= 1
  BY DEF LeasesOK
<1>2. /\ ticks' = ticks
      /\ \A i \in Entries : /\ lease'[i].expiry = lease[i].expiry
                            /\ lease'[i].mac = lease[i].mac \/ lease'[i].mac = NoMac
                            /\ ~Expired(i) => lease'[i].mac = lease[i].mac
      /\ lease' \in [Entries -> [mac : Stations \cup {NoMac},
                                 expiry : 0..(ClockMod \div Unit) - 1]]
      /\ \/ station' = station
         \/ \E a \in Entries :
              /\ Own(s) \subseteq {a}
              /\ station' = [station EXCEPT ![s] =
                               [state |-> "offered", addr |-> a, left |-> 0]]
  BY <1>1, DiscoverStep
<1>3. DhcpTypeOK'
  <2>1. station' \in [Stations -> [state : {"init", "offered", "bound", "rejoin"},
                                   addr : Entries, left : 0..LeaseTime]]
    BY <1>1, <1>2, DhcpConstants DEF DhcpTypeOK
  <2>2. QED
    BY <1>1, <1>2, <2>1 DEF DhcpTypeOK
<1>4. \A r \in Stations : Own(r)' \subseteq Own(r)
  BY <1>2, DhcpConstants DEF Own
<1>5. \A r \in Stations : station'[r] = station[r]
                          \/ (r = s /\ station'[r].state = "offered" /\ Own(s) \subseteq {station'[r].addr})
  BY <1>1, <1>2 DEF DhcpTypeOK
<1>6. LeasesLast'
  <2> SUFFICES ASSUME NEW r \in Stations, station'[r].state = "bound"
               PROVE  (/\ lease[station[r].addr].mac = r /\ station[r].left >= 1
                       /\ Remaining(station[r].addr) \in station[r].left..LeaseTime + Unit - 1)'
    BY DEF LeasesLast
  <2>1. station'[r] = station[r] /\ station[r].state = "bound" /\ station[r].addr \in Entries
    BY <1>1, <1>5 DEF DhcpTypeOK
  <2> DEFINE i == station[r].addr
  <2>2. lease[i].mac = r /\ station[r].left >= 1
        /\ Remaining(i) \in station[r].left..LeaseTime + Unit - 1
    BY <1>1, <2>1 DEF LeasesLast
  <2>3. ~Expired(i)
    BY <1>1, <2>1, PromisesHold
  <2>4. lease'[i].mac = r /\ lease'[i].expiry = lease[i].expiry
    BY <1>2, <2>1, <2>2, <2>3
  <2>5. Remaining(station[r].addr)' = Remaining(i)
    BY <1>2, <2>1, <2>4 DEF Remaining
  <2>6. QED
    BY <2>1, <2>2, <2>4, <2>5
<1>7. AsksForItsOwn'
  BY <1>1, <1>4, <1>5 DEF AsksForItsOwn
<1>8. ASSUME NEW r \in Stations PROVE Cardinality(Own(r))' <= 1
  <2>1. Own(r)' \subseteq Own(r) /\ IsFiniteSet(Own(r)) /\ Cardinality(Own(r)) <= 1
    BY <1>1, <1>4, OwnIsFinite
  <2>2. QED
    BY <2>1, FewerOwned
<1>9. QED
  BY <1>3, <1>6, <1>7, <1>8 DEF LeasesOK

(* REQUEST grants an entry that is free or the station's own, for a full   *)
(* lease time, and to a station that owns no other.                        *)
LEMMA RequestKeeps ==
  ASSUME LeasesOK, NEW s \in Stations, Request(s)
  PROVE  LeasesOK'
<1> DEFINE i == station[s].addr
<1>1. DhcpTypeOK /\ LeasesLast /\ AsksForItsOwn /\ \A r \in Stations : Cardinality(Own(r)) <= 1
  BY DEF LeasesOK
<1>2. /\ station[s].state \in {"offered", "rejoin"} /\ ticks' = ticks /\ i \in Entries
      /\ Own(s) \subseteq {i}
  BY <1>1 DEF Request, DhcpTypeOK, AsksForItsOwn
<1>3. CASE Grantable(s, i)
  <2>1. /\ lease' = [lease EXCEPT ![i] = [mac |-> s, expiry |-> Expiry]]
        /\ \/ station' = station
           \/ station' = [station EXCEPT ![s] =
                            [state |-> "bound", addr |-> i, left |-> LeaseTime]]
    BY <1>3 DEF Request
  <2>2. /\ Expiry \in 0..((ClockMod \div Unit) - 1)
        /\ (Expiry * Unit + Unit - 1 - ticks) % ClockMod \in LeaseTime..(LeaseTime + Unit - 1)
    <3>1. ticks \in Int
      BY <1>1, DhcpConstants DEF DhcpTypeOK
    <3>2. QED
      BY <3>1, DhcpConstants, ExpiryIsAhead DEF Expiry
  <2>3. DhcpTypeOK'
    <3>1. lease' \in [Entries -> [mac : Stations \cup {NoMac},
                                  expiry : 0..(ClockMod \div Unit) - 1]]
      BY <1>1, <1>2, <2>1, <2>2 DEF DhcpTypeOK
    <3>2. station' \in [Stations -> [state : {"init", "offered", "bound", "rejoin"},
                                     addr : Entries, left : 0..LeaseTime]]
      <4>1. [state |-> "bound", addr |-> i, left |-> LeaseTime]
              \in [state : {"init", "offered", "bound", "rejoin"}, addr : Entries,
                   left : 0..LeaseTime]
        BY <1>2, DhcpConstants
      <4>2. QED
        BY <1>1, <2>1, <4>1 DEF DhcpTypeOK
    <3>3. QED
      BY <1>1, <1>2, <3>1, <3>2 DEF DhcpTypeOK
  <2>4. /\ lease'[i].mac = s /\ lease'[i].expiry = Expiry
        /\ \A j \in Entries \ {i} : lease'[j] = lease[j]
        /\ lease[i].mac \in {s, NoMac}
    BY <1>1, <1>2, <1>3, <2>1 DEF DhcpTypeOK, Grantable
  <2>5. /\ \A r \in Stations \ {s} : station'[r] = station[r] /\ Own(r)' = Own(r)
        /\ Own(s)' \subseteq {i}
    BY <1>1, <1>2, <2>1, <2>4, DhcpConstants DEF DhcpTypeOK, Own
  <2>6. station'[s].addr = i /\ (station'[s].state = "bound" => station'[s].left = LeaseTime)
    BY <1>1, <1>2, <2>1 DEF DhcpTypeOK
  <2>7. LeasesLast'
    <3> SUFFICES ASSUME NEW r \in Stations, station'[r].state = "bound"
                 PROVE  (/\ lease[station[r].addr].mac = r /\ station[r].left >= 1
                         /\ Remaining(station[r].addr) \in station[r].left..LeaseTime + Unit - 1)'
      BY DEF LeasesLast
    <3>1. CASE r = s
      BY <1>2, <2>2, <2>4, <2>6, <3>1, DhcpConstants DEF Remaining
    <3>2. CASE r # s
      <4> DEFINE j == station[r].addr
      <4>1. /\ station'[r] = station[r] /\ j \in Entries
            /\ lease[j].mac = r /\ station[r].left >= 1
            /\ Remaining(j) \in station[r].left..LeaseTime + Unit - 1
        BY <1>1, <2>5, <3>2 DEF LeasesLast, DhcpTypeOK
      <4>2. j # i
        BY <2>4, <3>2, <4>1, DhcpConstants
      <4>3. lease'[j] = lease[j]
        BY <2>4, <4>1, <4>2
      <4>4. Remaining(station[r].addr)' = Remaining(j)
        BY <1>2, <4>1, <4>3 DEF Remaining
      <4>5. QED
        BY <4>1, <4>3, <4>4
    <3>3. QED
      BY <3>1, <3>2
  <2>8. AsksForItsOwn'
    BY <1>1, <2>5, <2>6 DEF AsksForItsOwn
  <2>9. ASSUME NEW r \in Stations PROVE Cardinality(Own(r))' <= 1
    <3>1. CASE r = s
      <4>1. Own(r)' \subseteq {i}
        BY <2>5, <3>1
      <4>2. IsFiniteSet({i}) /\ Cardinality({i}) = 1
        BY FS_Singleton
      <4>3. QED
        BY <4>1, <4>2, FewerOwned
    <3>2. CASE r # s
      BY <1>1, <2>5, <3>2
    <3>3. QED
      BY <3>1, <3>2
  <2>10. QED
    BY <2>3, <2>7, <2>8, <2>9 DEF LeasesOK
<1>4. CASE ~Grantable(s, i)
  <2>1. lease' = lease /\ station' = [station EXCEPT ![s] = Unknown]
    BY <1>4 DEF Request
  <2>2. 0 \in Entries /\ 0 \in 0..LeaseTime
    BY DhcpConstants DEF Entries
  <2>3. DhcpTypeOK'
    BY <1>1, <1>2, <2>1, <2>2 DEF DhcpTypeOK, Unknown
  <2>4. /\ \A r \in Stations : Own(r)' = Own(r)
        /\ \A r \in Stations \ {s} : station'[r] = station[r]
        /\ station'[s].state = "init"
    BY <1>1, <2>1 DEF DhcpTypeOK, Own, Unknown
  <2>5. LeasesLast'
    BY <1>1, <1>2, <2>1, <2>4 DEF LeasesLast, Remaining
  <2>6. AsksForItsOwn'
    BY <1>1, <2>4 DEF AsksForItsOwn
  <2>7. QED
    BY <1>1, <2>3, <2>4, <2>5, <2>6 DEF LeasesOK
<1>5. QED
  BY <1>3, <1>4

(* The clock wraps: what an entry has left and what its station counts on  *)
(* shrink together.                                                        *)
LEMMA TickKeeps ==
  ASSUME LeasesOK, DhcpTick
  PROVE  LeasesOK'
<1>1. DhcpTypeOK /\ LeasesLast /\ AsksForItsOwn /\ \A r \in Stations : Cardinality(Own(r)) <= 1
  BY DEF LeasesOK
<1>2. ticks' = (ticks + 1) % ClockMod /\ lease' = lease
      /\ station' = [s \in Stations |-> Left(station[s])]
  BY DEF DhcpTick
<1>3. 0 \in Entries /\ 0 \in 0..LeaseTime
  BY DhcpConstants DEF Entries
<1>4. ASSUME NEW s \in Stations
      PROVE  /\ \/ station'[s] = station[s] /\ station[s].state # "bound"
                \/ station'[s] = Unknown
                \/ /\ station[s].state = "bound" /\ station'[s].state = "bound"
                   /\ station'[s].addr = station[s].addr
                   /\ station'[s].left = station[s].left - 1
                   /\ station[s].left > 1
             /\ station'[s] \in [state : {"init", "offered", "bound", "rejoin"},
                                 addr : Entries, left : 0..LeaseTime]
  <2>1. station[s] \in [state : {"init", "offered", "bound", "rejoin"},
                        addr : Entries, left : 0..LeaseTime]
        /\ (station[s].state = "bound" => station[s].left >= 1)
    BY <1>1 DEF DhcpTypeOK, LeasesLast
  <2>2. station'[s] = Left(station[s])
    BY <1>2
  <2>3. CASE station[s].state # "bound"
    BY <2>1, <2>2, <2>3 DEF Left
  <2>4. CASE station[s].state = "bound" /\ station[s].left = 1
    BY <1>3, <2>2, <2>4 DEF Left, Unknown
  <2>5. CASE station[s].state = "bound" /\ station[s].left # 1
    <3>1. station'[s] = [station[s] EXCEPT !.left = @ - 1]
      BY <2>2, <2>5 DEF Left
    <3>2. station[s].left - 1 \in 0..LeaseTime /\ station[s].left > 1
      BY <2>1, <2>5, DhcpConstants
    <3>3. QED
      BY <2>1, <2>5, <3>1, <3>2
  <2>6. QED
    BY <2>3, <2>4, <2>5
<1>5. DhcpTypeOK'
  <2>1. ticks' \in 0..ClockMod - 1
    <3>1. ticks + 1 \in Int
      BY <1>1, DhcpConstants DEF DhcpTypeOK
    <3>2. QED
      BY <1>2, <3>1, DhcpConstants, DivMod
  <2>2. QED
    BY <1>1, <1>2, <1>4, <2>1 DEF DhcpTypeOK
<1>6. LeasesLast'
  <2> SUFFICES ASSUME NEW s \in Stations, station'[s].state = "bound"
               PROVE  (/\ lease[station[s].addr].mac = s /\ station[s].left >= 1
                       /\ Remaining(station[s].addr) \in station[s].left..LeaseTime + Unit - 1)'
    BY DEF LeasesLast
  <2> DEFINE i == station[s].addr
             x == lease[i].expiry * Unit + Unit - 1
  <2>1. /\ station[s].state = "bound" /\ station'[s].addr = i
        /\ station'[s].left = station[s].left - 1 /\ station[s].left > 1
        /\ i \in Entries /\ station[s].left \in Nat
    BY <1>1, <1>4 DEF Unknown, DhcpTypeOK
  <2>2. lease[i].expiry * Unit \in Int /\ ticks \in Int /\ x \in Int /\ Unit \in Int
    <3>1. lease[i].expiry \in Int /\ ticks \in Int
      BY <1>1, <2>1, DhcpConstants DEF DhcpTypeOK
    <3>2. lease[i].expiry * Unit \in Int
      BY <3>1, DhcpConstants
    <3>3. QED
      BY <3>1, <3>2, DhcpConstants
  <2>3. lease[i].mac = s /\ (x - ticks) % ClockMod \in station[s].left..LeaseTime + Unit - 1
    <3>1. lease[i].mac = s /\ Remaining(i) \in station[s].left..LeaseTime + Unit - 1
      BY <1>1, <2>1 DEF LeasesLast
    <3>2. lease[i].expiry * Unit + Unit - 1 - ticks = x - ticks
      BY <2>2
    <3>3. QED
      BY <3>1, <3>2 DEF Remaining
  <2>4. Remaining(station[s].addr)' = (x - ((ticks + 1) % ClockMod)) % ClockMod
    <3>1. Remaining(station[s].addr)'
            = (lease'[station'[s].addr].expiry * Unit + Unit - 1 - ticks') % ClockMod
      BY DEF Remaining
    <3>2. lease'[station'[s].addr] = lease[i]
      BY <1>2, <2>1
    <3>3. ticks' \in Int
      BY <1>5, DhcpConstants DEF DhcpTypeOK
    <3>4. lease[i].expiry * Unit + Unit - 1 - ticks' = x - ticks'
      BY <2>2, <3>3
    <3>5. QED
      BY <1>2, <3>1, <3>2, <3>4
  <2> HIDE DEF x
  <2>5. (x - ((ticks + 1) % ClockMod)) % ClockMod = ((x - ticks) % ClockMod) - 1
    <3>1. (x - ticks) % ClockMod >= 1
      BY <2>1, <2>3
    <3>2. x \in Int /\ ticks \in Int /\ ClockMod \in Nat \ {0}
      BY <2>2, DhcpConstants
    <3>3. QED
      BY <3>1, <3>2, TickLeaves
  <2>6. QED
    BY <1>2, <2>1, <2>3, <2>4, <2>5, DhcpConstants
<1>7. AsksForItsOwn'
  BY <1>1, <1>2, <1>4 DEF AsksForItsOwn, Own, Unknown
<1>8. \A r \in Stations : Cardinality(Own(r))' <= 1
  BY <1>1, <1>2 DEF Own
<1>9. QED
  BY <1>5, <1>6, <1>7, <1>8 DEF LeasesOK

(* An empty table promises nothing.                                        *)
LEMMA ClearTable ==
  /\ DhcpInit => LeasesOK
  /\ LeasesOK /\ DhcpRestart => LeasesOK'
<1>1. 0 \in Entries /\ 0 \in 0..LeaseTime /\ 0 \in 0..ClockMod - 1
      /\ 0 \in 0..((ClockMod \div Unit) - 1)
  BY DhcpConstants DEF Entries
<1>2. ASSUME DhcpInit PROVE LeasesOK
  <2>1. \A i \in Entries : lease[i] = [mac |-> NoMac, expiry |-> 0]
    BY <1>2 DEF DhcpInit, DhcpServerInit
  <2>2. \A s \in Stations : Own(s) = {} /\ station[s] = Unknown
    BY <1>2, <2>1, DhcpConstants DEF Own, DhcpInit
  <2>3. DhcpTypeOK
    BY <1>1, <1>2 DEF DhcpTypeOK, DhcpInit, DhcpServerInit, Unknown
  <2>4. LeasesLast /\ AsksForItsOwn
    BY <2>2 DEF LeasesLast, AsksForItsOwn, Unknown
  <2>5. QED
    BY <2>2, <2>3, <2>4, FS_EmptySet DEF LeasesOK
<1>3. ASSUME LeasesOK, DhcpRestart PROVE LeasesOK'
  <2>1. lease' = [i \in Entries |-> [mac |-> NoMac, expiry |-> 0]] /\ ticks' = 0
        /\ station' = [s \in Stations |-> IF station[s].state = "bound"
                         THEN [station[s] EXCEPT !.state = "rejoin", !.left = 0]
                         ELSE station[s]]
    BY <1>3 DEF DhcpRestart
  <2>2. \A s \in Stations : Own(s)' = {}
    BY <2>1, DhcpConstants DEF Own
  <2>3. ASSUME NEW s \in Stations
        PROVE  /\ station'[s] \in [state : {"init", "offered", "bound", "rejoin"},
                                   addr : Entries, left : 0..LeaseTime]
               /\ station'[s].state # "bound"
    <3>1. station[s] \in [state : {"init", "offered", "bound", "rejoin"},
                          addr : Entries, left : 0..LeaseTime]
      BY <1>3 DEF LeasesOK, DhcpTypeOK
    <3>2. CASE station[s].state = "bound"
      <4>1. station'[s] = [[station[s] EXCEPT !.state = "rejoin"] EXCEPT !.left = 0]
        BY <2>1, <3>1, <3>2
      <4>2. [station[s] EXCEPT !.state = "rejoin"] \in
              [state : {"init", "offered", "bound", "rejoin"}, addr : Entries, left : 0..LeaseTime]
            /\ [station[s] EXCEPT !.state = "rejoin"].state = "rejoin"
        BY <3>1
      <4>3. QED
        BY <1>1, <4>1, <4>2
    <3>3. CASE station[s].state # "bound"
      BY <2>1, <3>1, <3>3
    <3>4. QED
      BY <3>2, <3>3
  <2>4. DhcpTypeOK'
    BY <1>1, <2>1, <2>3 DEF DhcpTypeOK
  <2>5. LeasesLast' /\ AsksForItsOwn'
    BY <2>2, <2>3 DEF LeasesLast, AsksForItsOwn
  <2>6. QED
    BY <2>2, <2>4, <2>5, FS_EmptySet DEF LeasesOK
<1>4. QED
  BY <1>2, <1>3

(* No two stations use the same address, none loses its entry while it may *)
(* use it, and none owns two, however often the clock wraps, whatever is   *)
(* lost and whenever the access point restarts.                            *)
THEOREM LeasesAreExclusive == DhcpSpec => []DhcpInv
<1>1. DhcpInit => LeasesOK
  BY ClearTable
<1>2. LeasesOK /\ [DhcpNext]_dhcp_vars => LeasesOK'
  <2> SUFFICES ASSUME LeasesOK, [DhcpNext]_dhcp_vars PROVE LeasesOK'
    OBVIOUS
  <2>1. CASE UNCHANGED dhcp_vars
    BY <2>1 DEF dhcp_vars, LeasesOK, DhcpTypeOK, LeasesLast, AsksForItsOwn, Own, Remaining
  <2>2. QED
    BY <2>1, DiscoverKeeps, RequestKeeps, TickKeeps, ClearTable DEF DhcpNext
<1>3. LeasesOK => DhcpInv
  BY PromisesHold DEF LeasesOK, DhcpInv
<1>4. QED
  BY <1>1, <1>2, <1>3, PTL DEF DhcpSpec

-----------------------------------------------------------------------------
(* The knob and the buttons                                                *)

(* The level of the two pins that each state of the decoder stands for     *)
StatePins == <<<<0, 0>>, <<1, 0>>, <<1, 1>>, <<0, 1>>>>

KnobTypes ==
  /\ pins \in Levels /\ encoder \in [state : 0..3, count : -3..3] /\ inverted \in BOOLEAN
  /\ turned \in -3..3 /\ exact \in BOOLEAN
KnobFits ==
  AtRest /\ (exact => encoder.count = turned /\ pins = StatePins[encoder.state + 1])

InputEvents == Buttons \cup {Rotations[1], Rotations[2]}
EventsOK == events \in Seq(InputEvents) /\ Len(events) <= QueueLength

ButtonTypes ==
  /\ booted \in {"off", "hooked", "queue", "running"} /\ tick \in 0..TickMod - 1
  /\ last_call \in [Buttons -> 0..TickMod - 1] /\ quiet \in [Buttons -> 0..TickMod]
ButtonsFit == StandsStill /\ TellsTime /\ fault = "none"

LEMMA Places ==
  /\ Place(<<1, 1>>) = 1 /\ Place(<<0, 1>>) = 2
  /\ Place(<<0, 0>>) = 3 /\ Place(<<1, 0>>) = 4
<1>1. /\ Cycle[1] = <<1, 1>> /\ Cycle[2] = <<0, 1>> /\ Cycle[3] = <<0, 0>> /\ Cycle[4] = <<1, 0>>
  BY DEF Cycle
<1>2. \A i \in 1..4 : i = 1 \/ i = 2 \/ i = 3 \/ i = 4
  OBVIOUS
<1>3. /\ <<1, 1>> # <<0, 1>> /\ <<1, 1>> # <<0, 0>> /\ <<1, 1>> # <<1, 0>>
      /\ <<0, 1>> # <<0, 0>> /\ <<0, 1>> # <<1, 0>> /\ <<0, 0>> # <<1, 0>>
  OBVIOUS
<1>4. ASSUME NEW p, NEW n \in 1..4, Cycle[n] = p, \A i \in 1..4 : Cycle[i] = p => i = n
      PROVE  Place(p) = n
  BY <1>4 DEF Place
<1>5. 1 \in 1..4 /\ 2 \in 1..4 /\ 3 \in 1..4 /\ 4 \in 1..4
  OBVIOUS
<1>6. Place(<<1, 1>>) = 1
  BY <1>1, <1>2, <1>3, <1>4, <1>5
<1>7. Place(<<0, 1>>) = 2
  BY <1>1, <1>2, <1>3, <1>4, <1>5
<1>8. Place(<<0, 0>>) = 3
  BY <1>1, <1>2, <1>3, <1>4, <1>5
<1>9. Place(<<1, 0>>) = 4
  BY <1>1, <1>2, <1>3, <1>4, <1>5
<1>10. QED
  BY <1>6, <1>7, <1>8, <1>9

LEMMA FourLevels ==
  ASSUME NEW p \in Levels
  PROVE  p = <<1, 1>> \/ p = <<0, 1>> \/ p = <<0, 0>> \/ p = <<1, 0>>
BY DEF Levels

LEMMA CyclePlace ==
  ASSUME NEW p \in Levels
  PROVE  Cycle[Place(p)] = p
<1>1. /\ Cycle[1] = <<1, 1>> /\ Cycle[2] = <<0, 1>> /\ Cycle[3] = <<0, 0>> /\ Cycle[4] = <<1, 0>>
  BY DEF Cycle
<1>2. QED
  BY <1>1, FourLevels, Places

LEMMA InputParts ==
  InputInv <=> KnobTypes /\ KnobFits /\ EventsOK /\ ButtonTypes /\ ButtonsFit
<1>1. pins \in Levels => Cycle[Place(pins)] = pins
  BY CyclePlace
<1>2. QED
  BY <1>1 DEF InputInv, InputTypeOK, KnobTypes, KnobFits, EventsOK, ButtonTypes, ButtonsFit,
    StatePins, InputEvents

(* What the decoder makes of the levels it reads                           *)
LEMMA DecodedType ==
  ASSUME KnobTypes, NEW new \in Levels
  PROVE  Decoded(new) \in [state : 0..3, count : -4..4]
<1>1. encoder.state \in 0..3 /\ encoder.count \in -3..3 /\ encoder \in [state : 0..3, count : -3..3]
  BY DEF KnobTypes
<1>2. \A d \in {-1, 1}, n \in 0..3 : At(n, d) \in [state : 0..3, count : -4..4]
  BY <1>1 DEF At
<1>3. encoder \in [state : 0..3, count : -4..4]
  BY <1>1
<1>4. encoder.state = 0 \/ encoder.state = 1 \/ encoder.state = 2 \/ encoder.state = 3
  BY <1>1
<1>5. Decoded(new) \in {encoder, At(0, 1), At(0, -1), At(1, 1), At(1, -1), At(2, 1), At(2, -1),
                        At(3, 1), At(3, -1)}
  BY <1>4 DEF Decoded
<1>6. QED
  BY <1>2, <1>3, <1>5

StepOf(new) == IF Follows(pins, new) THEN 1 ELSE IF Follows(new, pins) THEN -1 ELSE 0

(* A step of the knob that shows is counted with its sign.                 *)
LEMMA DecodedFollows ==
  ASSUME KnobTypes, NEW new \in Levels, pins = StatePins[encoder.state + 1],
         new[1] = pins[1] \/ new[2] = pins[2], new = pins => new # <<0, 1>>
  PROVE  /\ Decoded(new).count = encoder.count + StepOf(new)
         /\ new = StatePins[Decoded(new).state + 1]
         /\ StepOf(new) \in {-1, 0, 1}
<1> USE Places DEF StepOf, Follows
<1>0. encoder.state \in 0..3 /\ encoder.count \in Int
  BY DEF KnobTypes
<1>1. CASE encoder.state = 0
  BY <1>0, <1>1, FourLevels DEF StatePins, Decoded, At
<1>2. CASE encoder.state = 1
  BY <1>0, <1>2, FourLevels DEF StatePins, Decoded, At
<1>3. CASE encoder.state = 2
  BY <1>0, <1>3, FourLevels DEF StatePins, Decoded, At
<1>4. CASE encoder.state = 3
  BY <1>0, <1>4, FourLevels DEF StatePins, Decoded, At
<1>5. QED
  BY <1>0, <1>1, <1>2, <1>3, <1>4

LEMMA InputConstants ==
  /\ QueueLength \in Nat \ {0} /\ Debounce \in Nat \ {0} /\ TickMod \in Nat \ {0}
  /\ Debounce < TickMod - 1
BY InputAssumption DEF InputAssumption

LEMMA TurnKeepsKnob ==
  ASSUME KnobTypes, KnobFits, EncoderTurns
  PROVE  KnobTypes' /\ KnobFits'
<1>1. PICK new \in Levels : /\ new[1] = pins[1] \/ new[2] = pins[2]
                            /\ EncoderInterrupt(new) /\ pins' = new
  BY DEF EncoderTurns
<1> DEFINE e == Decoded(new)
           step == StepOf(new)
<1>2. /\ encoder' = IF Detent(e.count) THEN [e EXCEPT !.count = 0] ELSE e
      /\ exact' = (exact /\ (new = pins => new # <<0, 1>>))
      /\ turned' = IF ~exact' THEN 0 ELSE IF Detent(turned + step) THEN 0 ELSE turned + step
      /\ inverted' = inverted
  BY <1>1 DEF EncoderInterrupt, EncoderTurns, StepOf
<1>3. e \in [state : 0..3, count : -4..4]
  BY DecodedType
<1>4. /\ encoder' \in [state : 0..3, count : -3..3] /\ encoder'.state = e.state
      /\ encoder'.count = IF Detent(e.count) THEN 0 ELSE e.count
  <2> HIDE DEF e
  <2>1. QED
    BY <1>2, <1>3 DEF Detent
<1>9. booted' # "off"
  BY DEF EncoderTurns
<1>5. exact' \in BOOLEAN /\ inverted' \in BOOLEAN
  BY <1>2, Zenon DEF KnobTypes
<1>6. CASE ~exact'
  <2>1. turned' = 0
    BY <1>2, <1>6
  <2>2. QED
    BY <1>1, <1>4, <1>5, <1>6, <1>9, <2>1 DEF KnobTypes, KnobFits, AtRest
<1>7. CASE exact'
  <2>1. exact /\ (new = pins => new # <<0, 1>>)
    BY <1>2, <1>7
  <2>2. encoder.count = turned /\ pins = StatePins[encoder.state + 1]
    BY <2>1 DEF KnobFits
  <2>3. e.count = turned + step /\ new = StatePins[e.state + 1] /\ step \in {-1, 0, 1}
    BY <1>1, <2>1, <2>2, DecodedFollows
  <2>4. turned' = IF Detent(e.count) THEN 0 ELSE e.count
    BY <1>2, <1>7, <2>3
  <2>5. encoder'.count = turned' /\ turned' \in -3..3
    BY <1>4, <2>4
  <2>6. QED
    BY <1>1, <1>4, <1>5, <1>9, <2>3, <2>5 DEF KnobTypes, KnobFits, AtRest
<1>8. QED
  BY <1>6, <1>7

LEMMA KnobStep ==
  ASSUME KnobTypes, KnobFits, [InputNext]_input_vars
  PROVE  KnobTypes' /\ KnobFits'
<1>1. <<1, 1>> \in Levels /\ StatePins[3] = <<1, 1>>
  BY DEF Levels, StatePins
<1>2. CASE UNCHANGED encoder_vars /\ inverted' \in BOOLEAN /\ (booted' = "off" => booted = "off")
  BY <1>2 DEF encoder_vars, KnobTypes, KnobFits, AtRest
<1>3. CASE EncoderTurns
  BY <1>3, TurnKeepsKnob
<1>4. CASE InputRestart
  <2>1. /\ exact' = (pins' = <<1, 1>>) /\ pins' = pins /\ turned' = 0 /\ inverted' = FALSE
        /\ encoder' = [state |-> 2, count |-> 0]
    BY <1>4 DEF InputRestart
  <2>0. /\ turned' = 0 /\ inverted' = FALSE
        /\ encoder' = [state |-> 2, count |-> 0]
    BY <1>4 DEF InputRestart
  <2>2. exact' \in BOOLEAN /\ (exact' => pins' = <<1, 1>>)
    <3>1. exact' = (pins' = <<1, 1>>)
      BY <2>1
    <3>2. (pins' = <<1, 1>>) \in BOOLEAN
      BY Zenon
    <3>3. exact' \in BOOLEAN
      BY <3>1, <3>2, Zenon
    <3>4. exact' => pins' = <<1, 1>>
      BY <3>1, Zenon
    <3>5. QED
      BY <3>3, <3>4, Zenon
  <2>3. turned' \in -3..3 /\ inverted' \in BOOLEAN /\ encoder' \in [state : 0..3, count : -3..3]
    <3>1. turned' \in -3..3 /\ encoder' \in [state : 0..3, count : -3..3]
      BY <2>0
    <3>2. inverted' \in BOOLEAN
      BY <2>0, Zenon
    <3>3. QED
      BY <3>1, <3>2
  <2>4. pins' \in Levels
    BY <2>1 DEF KnobTypes
  <2>5. exact' => encoder'.count = turned' /\ pins' = StatePins[encoder'.state + 1]
    BY <1>1, <2>1, <2>2
  <2>6. AtRest'
    BY <2>1 DEF AtRest
  <2>7. QED
    BY <2>2, <2>3, <2>4, <2>5, <2>6, Zenon DEF KnobTypes, KnobFits
<1>5. CASE EncoderTurnsUnseen
  <2>1. /\ exact' = (pins' = <<1, 1>>) /\ pins' \in Levels /\ turned' = turned /\ inverted' = inverted
        /\ encoder' = encoder /\ booted' = booted /\ booted = "off"
    BY <1>5 DEF EncoderTurnsUnseen
  <2>2. exact' \in BOOLEAN /\ (exact' => pins' = <<1, 1>>)
    BY <2>1, Zenon
  <2>3. encoder = [state |-> 2, count |-> 0] /\ turned = 0
    BY <2>1 DEF KnobFits, AtRest
  <2>4. turned' \in -3..3 /\ inverted' \in BOOLEAN /\ encoder' \in [state : 0..3, count : -3..3]
    BY <2>1, <2>3 DEF KnobTypes
  <2>5. exact' => encoder'.count = turned' /\ pins' = StatePins[encoder'.state + 1]
    BY <1>1, <2>1, <2>2, <2>3
  <2>6. AtRest'
    BY <2>1, <2>3 DEF AtRest
  <2>7. QED
    BY <2>1, <2>2, <2>4, <2>5, <2>6, Zenon DEF KnobTypes, KnobFits
<1>6. InputNext \/ UNCHANGED input_vars =>
        \/ UNCHANGED encoder_vars /\ inverted' \in BOOLEAN /\ (booted' = "off" => booted = "off")
        \/ EncoderTurns \/ EncoderTurnsUnseen \/ InputRestart
  <2>1. inverted \in BOOLEAN
    BY DEF KnobTypes
  <2>2. QED
    BY <2>1 DEF InputNext, InputBoot, InputTake, InputRest, InputConfigure, InputTick, ButtonFalls,
      encoder_vars, input_vars
<1>7. QED
  BY <1>2, <1>3, <1>4, <1>5, <1>6

LEMMA QueueTypes ==
  ASSUME EventsOK, NEW e \in InputEvents
  PROVE  Sent(events, e) \in Seq(InputEvents) /\ Len(Sent(events, e)) <= QueueLength
<1>1. events \in Seq(InputEvents) /\ Len(events) \in Nat /\ Len(events) <= QueueLength
  BY DEF EventsOK
<1>2. Append(events, e) \in Seq(InputEvents) /\ Len(Append(events, e)) = Len(events) + 1
  BY <1>1
<1>3. QED
  BY <1>1, <1>2, InputConstants DEF Sent

LEMMA EventsStep ==
  ASSUME EventsOK, [InputNext]_input_vars
  PROVE  EventsOK'
<1>1. CASE events' = events
  BY <1>1 DEF EventsOK
<1>2. CASE \E e \in InputEvents : events' = Sent(events, e)
  BY <1>2, QueueTypes DEF EventsOK
<1>3. CASE InputTake
  <2>1. events \in Seq(InputEvents) /\ events # <<>> /\ events' = Tail(events)
    BY <1>3 DEF InputTake, EventsOK
  <2>2. Tail(events) \in Seq(InputEvents) /\ Len(Tail(events)) = Len(events) - 1 /\ Len(events) \in Nat
    BY <2>1, HeadTailProperties
  <2>3. QED
    BY <2>1, <2>2, InputConstants DEF EventsOK
<1>4. CASE InputRestart
  <2>1. events' = <<>>
    BY <1>4 DEF InputRestart
  <2>2. events' \in Seq(InputEvents) /\ Len(events') = 0
    BY <2>1
  <2>3. QED
    BY <2>2, InputConstants DEF EventsOK
<1>5. \A n : Rotation(n) \in InputEvents
  BY DEF Rotation, InputEvents
<1>6. EncoderTurns => events' = events \/ \E e \in InputEvents : events' = Sent(events, e)
  <2>1. ASSUME NEW new \in Levels, EncoderInterrupt(new)
        PROVE  events' = events \/ events' = Sent(events, Rotation(Decoded(new).count))
    BY <2>1 DEF EncoderInterrupt
  <2>2. QED
    BY <1>5, <2>1 DEF EncoderTurns
<1>7. ASSUME NEW b \in Buttons, ButtonFalls(b)
      PROVE  events' = events \/ \E e \in InputEvents : events' = Sent(events, e)
  BY <1>7 DEF ButtonFalls, InputEvents
<1>8. InputRest => \E e \in InputEvents : events' = Sent(events, e)
  BY DEF InputRest, InputEvents
<1>9. CASE InputBoot \/ InputConfigure \/ EncoderTurnsUnseen \/ InputTick \/ UNCHANGED input_vars
  BY <1>1, <1>9 DEF InputBoot, InputConfigure, EncoderTurnsUnseen, InputTick, input_vars
<1>10. QED
  BY <1>1, <1>2, <1>3, <1>4, <1>6, <1>7, <1>8, <1>9 DEF InputNext

(* A press is told from a bounce by the time since the last interrupt.     *)
LEMMA FallIsTold ==
  ASSUME ButtonTypes, ButtonsFit, NEW b \in Buttons, ButtonFalls(b)
  PROVE  ButtonTypes' /\ ButtonsFit'
<1>1. /\ TickMod \in Nat \ {0} /\ Debounce \in Nat \ {0} /\ tick \in 0..TickMod - 1
      /\ last_call[b] \in 0..TickMod - 1 /\ quiet[b] \in 0..TickMod
  BY InputConstants DEF ButtonTypes
<1>2. /\ quiet[b] < TickMod => (tick - last_call[b]) % TickMod = quiet[b]
      /\ booted # "running" => tick = 0 /\ last_call[b] = 0
  BY DEF ButtonsFit, TellsTime, StandsStill
<1>3. (tick - tick) % TickMod = 0 /\ (0 - 0) % TickMod = 0
  BY <1>1, ModOf
<1>4. /\ last_call' = [last_call EXCEPT ![b] = tick] /\ quiet' = [quiet EXCEPT ![b] = 0]
      /\ booted' = booted /\ tick' = tick
  BY DEF ButtonFalls
<1>5. ButtonTypes'
  BY <1>1, <1>4 DEF ButtonTypes
<1>6. StandsStill'
  BY <1>2, <1>4 DEF ButtonsFit, StandsStill, ButtonTypes
<1>7. TellsTime'
  <2> SUFFICES ASSUME NEW c \in Buttons, quiet'[c] < TickMod
               PROVE  (tick' - last_call'[c]) % TickMod = quiet'[c]
    BY DEF TellsTime
  <2>1. CASE c = b
    BY <1>3, <1>4, <2>1 DEF ButtonTypes
  <2>2. CASE c # b
    BY <1>4, <2>2 DEF ButtonTypes, ButtonsFit, TellsTime
  <2>3. QED
    BY <2>1, <2>2
<1>8. fault' = "none"
  <2>1. Debounced(b) <=> (tick - last_call[b]) % TickMod > Debounce
    BY DEF Debounced
  <2>2. ~(Debounced(b) /\ ~HasEventQueue)
    <3>1. booted # "running" => ~Debounced(b)
      BY <1>1, <1>2, <1>3, <2>1
    <3>2. QED
      BY <3>1 DEF HasEventQueue
  <2>3. ~(Debounced(b) /\ quiet[b] <= Debounce)
    BY <1>1, <1>2, <2>1, InputConstants
  <2>4. ~(~Debounced(b) /\ quiet[b] > Debounce /\ quiet[b] < TickMod)
    BY <1>1, <1>2, <2>1
  <2>5. fault = "none"
    BY DEF ButtonsFit
  <2>6. QED
    BY <2>2, <2>3, <2>4, <2>5 DEF ButtonFalls
<1>9. QED
  BY <1>5, <1>6, <1>7, <1>8 DEF ButtonsFit

LEMMA TickIsTold ==
  ASSUME ButtonTypes, ButtonsFit, InputTick
  PROVE  ButtonTypes' /\ ButtonsFit'
<1>1. /\ TickMod \in Nat \ {0} /\ tick \in 0..TickMod - 1
      /\ tick' = (tick + 1) % TickMod /\ booted' = "running" /\ last_call' = last_call
      /\ quiet' = [b \in Buttons |-> IF quiet[b] = TickMod THEN TickMod ELSE quiet[b] + 1]
      /\ fault' = "none"
  BY InputConstants DEF InputTick, ButtonTypes, ButtonsFit
<1>2. tick' \in 0..TickMod - 1
  BY <1>1, DivMod
<1>3. \A b \in Buttons : last_call[b] \in 0..TickMod - 1 /\ quiet[b] \in 0..TickMod
  BY DEF ButtonTypes
<1>4. ButtonTypes'
  BY <1>1, <1>2, <1>3 DEF ButtonTypes
<1>5. TellsTime'
  <2> SUFFICES ASSUME NEW b \in Buttons, quiet'[b] < TickMod
               PROVE  (tick' - last_call'[b]) % TickMod = quiet'[b]
    BY DEF TellsTime
  <2>1. last_call[b] \in Int /\ quiet[b] \in 0..TickMod
    BY <1>3
  <2>2. quiet'[b] = quiet[b] + 1 /\ quiet[b] < TickMod
    BY <1>1, <2>1
  <2>3. (tick - last_call[b]) % TickMod = quiet[b]
    BY <2>2 DEF ButtonsFit, TellsTime
  <2>4. ((tick - last_call[b]) % TickMod) + 1 < TickMod
    BY <2>2, <2>3
  <2>5. (((tick + 1) % TickMod) - last_call[b]) % TickMod = ((tick - last_call[b]) % TickMod) + 1
    BY <1>1, <2>1, <2>4, TickPasses
  <2>6. QED
    BY <1>1, <2>2, <2>3, <2>5
<1>6. StandsStill'
  BY <1>1 DEF StandsStill
<1>7. QED
  BY <1>1, <1>4, <1>5, <1>6 DEF ButtonsFit

LEMMA ButtonsStep ==
  ASSUME ButtonTypes, ButtonsFit, [InputNext]_input_vars
  PROVE  ButtonTypes' /\ ButtonsFit'
<1>1. CASE \E b \in Buttons : ButtonFalls(b)
  BY <1>1, FallIsTold
<1>2. CASE InputTick
  BY <1>2, TickIsTold
<1>3. CASE InputRestart
  BY <1>3, InputConstants DEF InputRestart, ButtonTypes, ButtonsFit, StandsStill, TellsTime
<1>4. CASE /\ UNCHANGED button_vars /\ booted' \in {"off", "hooked", "queue", "running"}
           /\ booted' # "running" => booted # "running"
  BY <1>4 DEF button_vars, ButtonTypes, ButtonsFit, StandsStill, TellsTime
<1>5. \/ \E b \in Buttons : ButtonFalls(b)
      \/ InputTick \/ InputRestart
      \/ /\ UNCHANGED button_vars /\ booted' \in {"off", "hooked", "queue", "running"}
         /\ booted' # "running" => booted # "running"
  BY DEF InputNext, InputBoot, InputTake, InputRest, InputConfigure, EncoderTurns,
    EncoderTurnsUnseen, button_vars, input_vars, ButtonTypes
<1>6. QED
  BY <1>1, <1>2, <1>3, <1>4, <1>5

(* The knob and the buttons keep their promise for every debounce time,    *)
(* length of the queue and period of the tick counter: while no bounce     *)
(* misled the decoder its count is the knob's, no interrupt posts to a     *)
(* queue that is not there, and a press is told from a bounce across the   *)
(* wrap of the counter (InputInv, which is inductive).                     *)
THEOREM PressesAreTold == InputSpec => []InputInv
<1>1. InputInit => InputInv
  <2> SUFFICES ASSUME InputInit PROVE InputInv
    OBVIOUS
  <2>1. KnobTypes /\ KnobFits
    <3>1. inverted \in BOOLEAN /\ exact \in BOOLEAN
      BY Zenon DEF InputInit, InputOff
    <3>2. QED
      BY <3>1 DEF InputInit, InputOff, KnobTypes, KnobFits, AtRest, Levels, StatePins
  <2>2. EventsOK
    BY InputConstants, EmptySeq DEF InputInit, InputOff, EventsOK
  <2>3. ButtonTypes /\ ButtonsFit
    BY InputConstants DEF InputInit, InputOff, ButtonTypes, ButtonsFit, StandsStill, TellsTime
  <2>4. QED
    BY <2>1, <2>2, <2>3, InputParts
<1>2. InputInv /\ [InputNext]_input_vars => InputInv'
  <2> SUFFICES ASSUME InputInv, [InputNext]_input_vars PROVE InputInv'
    OBVIOUS
  <2>1. KnobTypes' /\ KnobFits' /\ EventsOK' /\ ButtonTypes' /\ ButtonsFit'
    BY InputParts, KnobStep, EventsStep, ButtonsStep
  <2>2. pins' \in Levels => Cycle[Place(pins')] = pins'
    BY CyclePlace
  <2>3. QED
    BY <2>1, <2>2 DEF InputInv, InputTypeOK, KnobTypes, KnobFits, EventsOK, ButtonTypes, ButtonsFit,
      StatePins, InputEvents
<1>3. QED
  BY <1>1, <1>2, PTL DEF InputSpec

-----------------------------------------------------------------------------
(* The wireless task, the LED task and the LED                             *)

NetTypes ==
  /\ wireless_state \in {"NOT_INITIALIZED", "DEAD", "IDLE"} \cup Blinks \cup {"STA_LISTEN"}
  /\ wireless_step \in {"boot", "dead", "start", "connect", "decide", "ap", "services", "serve"}
  /\ wireless_left \in 0..MaxTimeout
  /\ wireless_config \in Settings /\ wireless_saved \in Settings
  /\ host_name \in 0..Names - 1 /\ link \in {"up", "noip", "down"}
NetOK == NetTypes /\ StateFitsStep /\ ServerFits

LightTypes ==
  /\ ctrl_queue \in Seq(BOOLEAN) /\ Len(ctrl_queue) <= 5
  /\ led_state \in BOOLEAN /\ led_pin \in BOOLEAN
LightOK == LightTypes /\ LedFits

LEMMA WirelessParts ==
  WirelessInv <=> NetOK /\ LightOK
<1>1. {led_state, led_pin} \subseteq BOOLEAN <=> led_state \in BOOLEAN /\ led_pin \in BOOLEAN
  BY Zenon
<1>2. WirelessTypeOK <=> NetTypes /\ LightTypes
  BY <1>1 DEF WirelessTypeOK, NetTypes, LightTypes, CtrlQueueLength
<1>3. NetOK => /\ httpd # "NONE" => wireless_state \in {"AP_LISTEN", "STA_LISTEN"}
               /\ httpd = "wifi" => IsNetworkReady
               /\ httpd = "portal" => wireless_state = "STA_LISTEN"
  BY DEF NetOK, NetTypes, StateFitsStep, ServerFits, HomePage, IsNetworkReady
<1>4. NetOK /\ LightOK =>
        (led_saw = "STA_LISTEN" /\ wireless_step = "serve" /\ ctrl_queue = <<>> => led_pin)
  BY DEF LightOK, LedFits, LastLed
<1>5. QED
  BY <1>2, <1>3, <1>4 DEF WirelessInv, NetOK, LightOK

LEMMA NetStep ==
  ASSUME NetOK, [WirelessNext]_wireless_vars
  PROVE  NetOK'
<1> USE DEF NetOK, NetTypes, StateFitsStep, ServerFits, HomePage, Blinks
<1>0. MaxTimeout \in Nat /\ Names \in Nat \ {0, 1}
  BY WirelessAssumption DEF WirelessAssumption
<1>1. CASE WirelessBoot
  BY <1>1 DEF WirelessBoot, WirelessKeep
<1>2. CASE WirelessStart
  <2>1. wireless_config.timeout \in 0..MaxTimeout
    BY DEF Settings
  <2>2. QED
    BY <1>2, <2>1 DEF WirelessStart, WirelessKeep
<1>3. CASE WirelessConnect
  <2>1. wireless_left' \in 0..MaxTimeout
    BY <1>0, <1>3 DEF WirelessConnect
  <2>2. QED
    BY <1>3, <2>1 DEF WirelessConnect, WirelessKeep
<1>4. CASE WirelessGiveUp
  BY <1>4 DEF WirelessGiveUp, WirelessKeep
<1>5. CASE WirelessDecide
  BY <1>5 DEF WirelessDecide, WirelessKeep
<1>6. CASE WirelessAccessPoint
  BY <1>6 DEF WirelessAccessPoint, WirelessKeep
<1>7. CASE WirelessServices
  BY <1>7 DEF WirelessServices, WirelessKeep
<1>8. CASE WirelessServe
  BY <1>8 DEF WirelessServe, WirelessKeep
<1>9. CASE LedTask
  BY <1>9 DEF LedTask
<1>10. CASE MdnsConflict
  <2>1. host_name' \in 0..Names - 1
    BY <1>0, <1>10, DivMod DEF MdnsConflict
  <2>2. QED
    BY <1>10, <2>1 DEF MdnsConflict, WirelessKeep
<1>11. CASE LinkChanges
  BY <1>11 DEF LinkChanges, WirelessKeep
<1>12. ASSUME NEW settings \in Settings, NEW save \in BOOLEAN, WirelessConfigure(settings, save)
       PROVE  NetOK'
  BY <1>12 DEF WirelessConfigure
<1>13. CASE WirelessRestart
  <2>1. host_name' \in 0..Names - 1
    BY <1>0, <1>13 DEF WirelessRestart
  <2>2. QED
    BY <1>0, <1>13, <2>1 DEF WirelessRestart
<1>14. CASE UNCHANGED wireless_vars
  BY <1>14 DEF wireless_vars
<1>15. QED
  BY <1>1, <1>2, <1>3, <1>4, <1>5, <1>6, <1>7, <1>8, <1>9, <1>10, <1>11, <1>12, <1>13, <1>14
     DEF WirelessNext, WirelessTask

LEMMA LenIsSmall ==
  ASSUME NEW S, NEW q \in Seq(S), Len(q) <= 5
  PROVE  Len(q) \in 0..5
<1>1. PICK n \in Nat : n = Len(q)
  BY LenProperties
<1>2. QED
  BY <1>1

(* One LED message more, or one dropped                                    *)
LEMMA LedTaskKeepsLight ==
  ASSUME NetOK, LightOK, LedTask
  PROVE  LightOK'
<1> DEFINE new == LedWanted
<1>1. new \in BOOLEAN
  <2>1. (~led_state) \in BOOLEAN /\ TRUE \in BOOLEAN /\ FALSE \in BOOLEAN
    BY Zenon
  <2>2. QED
    BY <2>1, Zenon DEF LedWanted
<1>2. /\ led_state' = new /\ led_saw' = wireless_state /\ wireless_state' = wireless_state
      /\ wireless_step' = wireless_step /\ led_pin' = led_pin
  BY DEF LedTask
<1>3. wireless_state = "STA_LISTEN" => new
  BY DEF LedWanted, Blinks
<1>4. ctrl_queue \in Seq(BOOLEAN) /\ Len(ctrl_queue) <= 5 /\ led_state \in BOOLEAN /\ led_pin \in BOOLEAN
  BY DEF LightOK, LightTypes
<1>5. PICK n \in 0..5 : Len(ctrl_queue) = n
  BY <1>4, LenIsSmall
<1>6. ctrl_queue' = IF new # led_state /\ n < 5 THEN Append(ctrl_queue, new) ELSE ctrl_queue
  BY <1>5 DEF LedTask, CtrlQueueLength
<1> HIDE DEF new
<1>7. /\ wireless_step # "serve" /\ n < 5 => (led_state <=> LastLed) /\ (led_state <=> n % 2 = 1)
      /\ wireless_step # "serve" \/ wireless_state = "STA_LISTEN" => (led_state \/ n = 5 => LastLed)
  BY <1>5 DEF LightOK, LedFits, CtrlQueueLength
<1>8. led_saw' = "STA_LISTEN" => led_state' /\ wireless_state' = "STA_LISTEN"
  BY <1>2, <1>3
<1>9. led_state' \in BOOLEAN /\ led_pin' \in BOOLEAN
  BY <1>1, <1>2, <1>4, Zenon
<1>10. n < 5 \/ n = 5
  OBVIOUS
<1>11. CASE new = led_state \/ ~(n < 5)
  <2>1. ctrl_queue' = ctrl_queue
    BY <1>6, <1>11, Zenon
  <2>2. (new <=> led_state) \/ n = 5
    BY <1>10, <1>11, Zenon
  <2>3. LastLed' = LastLed
    BY <1>2, <2>1 DEF LastLed
  <2>4. LightTypes'
    BY <1>4, <1>9, <2>1, Zenon DEF LightTypes
  <2>5. Len(ctrl_queue') = n
    BY <1>5, <2>1
  <2>6. LedFits'
    BY <1>2, <1>7, <1>8, <1>10, <2>2, <2>3, <2>5 DEF LedFits, CtrlQueueLength
  <2>7. QED
    BY <2>4, <2>6 DEF LightOK
<1>12. CASE ~(new = led_state \/ ~(n < 5))
  <2>1. ctrl_queue' = Append(ctrl_queue, new) /\ n < 5
    BY <1>6, <1>12, Zenon
  <2>2. new <=> ~led_state
    BY <1>1, <1>4, <1>12, Zenon
  <2>3. /\ ctrl_queue' \in Seq(BOOLEAN) /\ Len(ctrl_queue') = Len(ctrl_queue) + 1
        /\ ctrl_queue'[Len(ctrl_queue) + 1] = new
    BY <1>1, <1>4, <2>1, AppendProperties
  <2>4. Len(ctrl_queue') = n + 1 /\ ctrl_queue'[n + 1] = new
    BY <1>5, <2>3
  <2>5. LastLed' = new
    BY <2>4 DEF LastLed
  <2>6. n + 1 <= 5
    BY <2>1
  <2>7. LightTypes'
    BY <1>9, <2>3, <2>4, <2>6 DEF LightTypes
  <2>8. wireless_step # "serve" => (new <=> (n + 1) % 2 = 1) /\ (n + 1 = 5 => new)
    BY <1>7, <2>1, <2>2
  <2>9. LedFits'
    BY <1>2, <1>3, <1>8, <2>4, <2>5, <2>6, <2>8 DEF LedFits, CtrlQueueLength
  <2>10. QED
    BY <2>7, <2>9 DEF LightOK
<1>13. QED
  BY <1>11, <1>12

(* One LED message taken                                                   *)
LEMMA ServeKeepsLight ==
  ASSUME NetOK, LightOK, WirelessServe
  PROVE  LightOK'
<1>1. /\ led_pin' = Head(ctrl_queue) /\ ctrl_queue' = Tail(ctrl_queue) /\ ctrl_queue # <<>>
      /\ wireless_step = "serve" /\ wireless_step' = "serve" /\ wireless_state' = wireless_state
      /\ led_state' = led_state /\ led_saw' = led_saw
  BY DEF WirelessServe, WirelessKeep
<1>2. ctrl_queue \in Seq(BOOLEAN) /\ Len(ctrl_queue) \in 0..5
  <2>1. ctrl_queue \in Seq(BOOLEAN) /\ Len(ctrl_queue) <= 5
    BY DEF LightOK, LightTypes
  <2>2. QED
    BY <2>1, LenIsSmall
<1>3. /\ Head(ctrl_queue) = ctrl_queue[1] /\ ctrl_queue[1] \in BOOLEAN /\ Len(ctrl_queue) \in 1..5
      /\ ctrl_queue' \in Seq(BOOLEAN) /\ Len(ctrl_queue') = Len(ctrl_queue) - 1
      /\ \A i \in 1..Len(ctrl_queue') : ctrl_queue'[i] = ctrl_queue[i + 1]
  BY <1>1, <1>2, HeadTailProperties
<1>4. LastLed' = LastLed
  <2>1. LastLed = ctrl_queue[Len(ctrl_queue)]
    BY <1>1 DEF LastLed
  <2>2. CASE Len(ctrl_queue) = 1
    <3>1. ctrl_queue' = <<>>
      BY <1>3, <2>2
    <3>2. QED
      BY <1>1, <1>3, <2>1, <2>2, <3>1 DEF LastLed
  <2>3. CASE Len(ctrl_queue) > 1
    <3>1. ctrl_queue' # <<>> /\ Len(ctrl_queue') \in 1..Len(ctrl_queue')
      BY <1>3, <2>3
    <3>2. LastLed' = ctrl_queue'[Len(ctrl_queue')]
      BY <3>1 DEF LastLed
    <3>3. ctrl_queue'[Len(ctrl_queue')] = ctrl_queue[Len(ctrl_queue') + 1]
      BY <1>3, <3>1
    <3>4. QED
      BY <1>3, <2>1, <3>2, <3>3
  <2>4. QED
    BY <1>3, <2>2, <2>3
<1>5. LightTypes'
  BY <1>1, <1>3 DEF LightOK, LightTypes
<1>6. LedFits'
  BY <1>1, <1>3, <1>4 DEF LightOK, LedFits, CtrlQueueLength
<1>7. QED
  BY <1>5, <1>6 DEF LightOK

LEMMA LightStep ==
  ASSUME NetOK, LightOK, [WirelessNext]_wireless_vars
  PROVE  LightOK'
<1>1. CASE LedTask
  BY <1>1, LedTaskKeepsLight
<1>2. CASE WirelessServe
  BY <1>2, ServeKeepsLight
<1>3. CASE WirelessRestart
  <2>1. /\ ctrl_queue' = <<>> /\ led_state' = FALSE /\ led_pin' = FALSE
        /\ led_saw' = "NOT_INITIALIZED"
    BY <1>3 DEF WirelessRestart
  <2>2. led_state' \in BOOLEAN /\ led_pin' \in BOOLEAN /\ ~led_state' /\ ~led_pin'
    BY <2>1, Zenon
  <2>3. ctrl_queue' \in Seq(BOOLEAN) /\ Len(ctrl_queue') = 0
    BY <2>1
  <2>4. ~LastLed'
    BY <2>1, <2>2, Zenon DEF LastLed
  <2>5. LightTypes'
    BY <2>2, <2>3 DEF LightTypes
  <2>6. LedFits'
    BY <2>1, <2>2, <2>3, <2>4 DEF LedFits, CtrlQueueLength
  <2>7. QED
    BY <2>5, <2>6 DEF LightOK
<1>4. CASE /\ UNCHANGED <<ctrl_queue, led_state, led_saw, led_pin>>
           /\ wireless_step' # "serve" => wireless_step # "serve"
           /\ wireless_step' = "serve" /\ wireless_step = "serve" => wireless_state' = wireless_state
           /\ wireless_state = "STA_LISTEN" => wireless_state' = "STA_LISTEN"
  <2>1. LastLed' = LastLed /\ Len(ctrl_queue') = Len(ctrl_queue)
    BY <1>4 DEF LastLed
  <2>2. LightTypes'
    BY <1>4 DEF LightOK, LightTypes
  <2>3. LedFits'
    BY <1>4, <2>1 DEF LightOK, LedFits
  <2>4. QED
    BY <2>2, <2>3 DEF LightOK
<1>5. \/ LedTask \/ WirelessServe \/ WirelessRestart
      \/ /\ UNCHANGED <<ctrl_queue, led_state, led_saw, led_pin>>
         /\ wireless_step' # "serve" => wireless_step # "serve"
         /\ wireless_step' = "serve" /\ wireless_step = "serve" => wireless_state' = wireless_state
         /\ wireless_state = "STA_LISTEN" => wireless_state' = "STA_LISTEN"
  BY DEF NetOK, StateFitsStep, WirelessNext, WirelessTask, WirelessBoot, WirelessStart,
    WirelessConnect, WirelessGiveUp, WirelessDecide, WirelessAccessPoint, WirelessServices,
    MdnsConflict, LinkChanges, WirelessConfigure, WirelessKeep, wireless_vars
<1>6. QED
  BY <1>1, <1>2, <1>3, <1>4, <1>5

(* The wireless task keeps its promise whatever the time-out, the number   *)
(* of names and the names taken: the server listens on a network that is   *)
(* there and shows the page for it, and the LED of a unit on a network is  *)
(* on once the queue has been served (WirelessInv, which is inductive).    *)
THEOREM NetworkIsShown == WirelessSpec => []WirelessInv
<1>1. WirelessInit => WirelessInv
  <2> SUFFICES ASSUME WirelessInit PROVE WirelessInv
    OBVIOUS
  <2>1. /\ MaxTimeout \in Nat /\ Names \in Nat \ {0, 1}
    BY WirelessAssumption DEF WirelessAssumption
  <2>2. wireless_saved \in Settings /\ wireless_config \in Settings
    <3>1. FALSE \in BOOLEAN /\ MaxTimeout \in 0..MaxTimeout
      BY <2>1
    <3>2. wireless_saved = [enable |-> FALSE, timeout |-> MaxTimeout] /\ wireless_config = wireless_saved
      BY DEF WirelessInit
    <3>3. QED
      BY <3>1, <3>2 DEF Settings
  <2>3. NetOK
    BY <2>1, <2>2 DEF WirelessInit, WirelessOff, NetOK, NetTypes, StateFitsStep, ServerFits, Blinks
  <2>4. /\ ctrl_queue = <<>> /\ led_state = FALSE /\ led_pin = FALSE
        /\ led_saw = "NOT_INITIALIZED"
    BY DEF WirelessInit, WirelessOff
  <2>5. led_state \in BOOLEAN /\ led_pin \in BOOLEAN /\ ~led_state /\ ~led_pin
    BY <2>4, Zenon
  <2>6. ctrl_queue \in Seq(BOOLEAN) /\ Len(ctrl_queue) = 0
    BY <2>4
  <2>7. ~LastLed
    BY <2>4, <2>5, Zenon DEF LastLed
  <2>8. LightOK
    BY <2>4, <2>5, <2>6, <2>7 DEF LightOK, LightTypes, LedFits, CtrlQueueLength
  <2>9. QED
    BY <2>3, <2>8, WirelessParts
<1>2. WirelessInv /\ [WirelessNext]_wireless_vars => WirelessInv'
  <2> SUFFICES ASSUME WirelessInv, [WirelessNext]_wireless_vars PROVE WirelessInv'
    OBVIOUS
  <2>1. NetOK' /\ LightOK'
    BY WirelessParts, NetStep, LightStep
  <2>2. QED
    BY <2>1, WirelessParts, PTL
<1>3. QED
  BY <1>1, <1>2, PTL DEF WirelessSpec

-----------------------------------------------------------------------------
(* The feeder motor                                                        *)

(* A share of a is at most a.                                              *)
LEMMA Share ==
  ASSUME NEW a \in Nat, NEW b \in Nat, NEW c \in Nat \ {0}, b <= c
  PROVE  (a * b) \div c \in 0..a
<1>1. PICK p \in Nat : p = a * b
  OBVIOUS
<1>2. PICK q \in Int, r \in 0..(c - 1) : p \div c = q /\ p = c * q + r
  BY DivMod
<1>3. p <= c * a /\ c * a \in Int
  <2>1. CASE a = 0
    BY <1>1, <2>1
  <2>2. CASE a # 0
    <3>1. a * b <= a * c /\ a * c = c * a /\ c * a \in Int
      BY <2>2, Product
    <3>2. QED
      BY <1>1, <3>1
  <2>3. QED
    BY <2>1, <2>2
<1>4. q <= a
  <2> SUFFICES ASSUME ~(q <= a) PROVE FALSE
    OBVIOUS
  <2>1. a + 1 <= q /\ a + 1 \in Int
    OBVIOUS
  <2>2. c * (a + 1) <= c * q /\ c * q \in Int /\ c * (a + 1) \in Int
    BY <2>1, Product
  <2>3. c * (a + 1) = c * a + c * 1 /\ c * 1 = c
    BY Product
  <2>4. QED
    BY <1>2, <1>3, <2>2, <2>3
<1>5. 0 <= q
  <2> SUFFICES ASSUME ~(0 <= q) PROVE FALSE
    OBVIOUS
  <2>1. q <= 0 - 1
    OBVIOUS
  <2>2. c * q <= c * (0 - 1) /\ c * q \in Int
    BY <2>1, Product
  <2>3. c * (0 - 1) = 0 - c * 1 /\ c * 1 = c
    BY Product
  <2>4. QED
    BY <1>2, <2>2, <2>3
<1>6. QED
  BY <1>1, <1>2, <1>4, <1>5

LEMMA MotorConstants ==
  /\ Velocities \subseteq Int /\ Ramps \subseteq Nat
  /\ MinRate \in Nat \ {0} /\ MaxRate \in Nat \ {0} /\ TimeMod \in Nat \ {0}
  /\ MaxPoll \in Nat \ {0} /\ IfcntMod \in Nat \ {0}
BY MotorAssumption DEF MotorAssumption

LEMMA SizeOf ==
  ASSUME NEW v \in Speeds
  PROVE  v \in Int /\ Size(v) \in Nat
BY MotorConstants DEF Speeds, Size

(* No rate exceeds its speed, and 0 makes no pulses.                       *)
LEMMA RateOf ==
  ASSUME NEW x \in Int
  PROVE  Rate(x) \in 0..MaxRate /\ (0 <= x => Rate(x) <= x) /\ (x <= 0 => Rate(x) = 0)
BY MotorConstants DEF Rate

Higher(r) == IF r.from < r.to THEN r.to ELSE r.from

(* Within its time a ramp stays below both of its speeds.                  *)
LEMMA BetweenSpeeds ==
  ASSUME NEW r, r.from \in Nat, r.to \in Nat, r.span \in Nat, Elapsed(r) \in 0..r.span
  PROVE  /\ Rate(Between(r)) <= Higher(r)
<1>1. PICK e \in 0..r.span : e = Elapsed(r)
  OBVIOUS
<1>2. Higher(r) \in Nat /\ r.from <= Higher(r) /\ r.to <= Higher(r)
  BY DEF Higher
<1>3. CASE r.span = 0
  <2>1. Between(r) = -1
    BY <1>3 DEF Between
  <2>2. QED
    BY <1>2, <2>1, RateOf
<1>4. CASE r.span # 0 /\ r.from <= r.to
  <2>1. PICK d \in Nat : d = r.to - r.from
    BY <1>4
  <2>2. Between(r) = r.from + ((d * e) \div r.span)
    BY <1>1, <1>4, <2>1 DEF Between
  <2>3. (d * e) \div r.span \in 0..d
    <3>1. PICK s \in Nat \ {0} : s = r.span
      BY <1>4
    <3>2. e \in Nat /\ e <= s
      BY <3>1
    <3>3. (d * e) \div s \in 0..d
      BY <3>2, Share
    <3>4. QED
      BY <3>1, <3>3
  <2>4. Between(r) \in Int /\ 0 <= Between(r) /\ Between(r) <= r.to
    BY <2>1, <2>2, <2>3
  <2>5. Rate(Between(r)) \in Int /\ Rate(Between(r)) <= Between(r)
    BY <2>4, RateOf, MotorConstants
  <2>6. QED
    BY <1>2, <2>4, <2>5
<1>5. CASE r.span # 0 /\ ~(r.from <= r.to)
  <2>1. PICK d \in Nat : d = r.from - r.to
    BY <1>5
  <2>2. Between(r) = r.from - ((d * e) \div r.span)
    BY <1>1, <1>5, <2>1 DEF Between
  <2>3. (d * e) \div r.span \in 0..d
    <3>1. PICK s \in Nat \ {0} : s = r.span
      BY <1>5
    <3>2. e \in Nat /\ e <= s
      BY <3>1
    <3>3. (d * e) \div s \in 0..d
      BY <3>2, Share
    <3>4. QED
      BY <3>1, <3>3
  <2>4. Between(r) \in Int /\ 0 <= Between(r) /\ Between(r) <= r.from
    BY <2>1, <2>2, <2>3
  <2>5. Rate(Between(r)) \in Int /\ Rate(Between(r)) <= Between(r)
    BY <2>4, RateOf, MotorConstants
  <2>6. QED
    BY <1>2, <2>4, <2>5
<1>6. QED
  BY <1>3, <1>4, <1>5

Ramping == [step : {"ramp", "turn"}, leg : {"only", "down", "up"}, from : Nat, to : Nat,
            start : 0..TimeMod - 1, now : 0..TimeMod - 1, span : Nat,
            new_velocity : Speeds, prev_velocity : Speeds]
Idling == [step : {"wait"}, prev_velocity : Speeds]

PinsOK ==
  /\ motor_init \in {"NONE", "CFG_ERR", "PIO_ERR", "FEEDER_DRV_ERR", "OK"}
  /\ ifcnt \in 0..IfcntMod - 1 /\ motor_ramp \in Ramps \cup {0}
  /\ boot_direction \in BOOLEAN /\ dir_pin \in BOOLEAN /\ en_pin \in BOOLEAN

CallsOK ==
  /\ speed_queue \in Seq(Speeds) /\ Len(speed_queue) <= 2
  /\ speed_call \in [Callers -> Seq(Speeds)]
  /\ \A c \in Callers : Len(speed_call[c]) <= 1
  /\ ~HasQueue => speed_queue = <<>> /\ \A c \in Callers : speed_call[c] = NoSpeed

FeederOK ==
  /\ feeder \in Idling \cup Ramping /\ pulses \in 0..MaxRate /\ LegFits
  /\ ~HasQueue => feeder = Waiting(0) /\ pulses = 0
  /\ feeder.step = "turn" => pulses = 0
  /\ feeder.step = "wait" => pulses = Rate(Size(feeder.prev_velocity))

RampOK ==
  feeder.step = "ramp" /\ ~MeetsTheWrap(feeder) =>
    /\ feeder.start <= feeder.now /\ feeder.now <= feeder.start + feeder.span + MaxPoll
    /\ feeder.leg = "up" /\ feeder.now = feeder.start => pulses = 0
    /\ pulses <= Higher(feeder)

DirOK == HasQueue => dir_pin = (boot_direction # (Heading < 0))

LEMMA ElapsedIs ==
  ASSUME feeder \in Ramping, ~MeetsTheWrap(feeder), feeder.start <= feeder.now
  PROVE  Elapsed(feeder) = feeder.now - feeder.start
<1>1. feeder.start \in 0..TimeMod - 1 /\ feeder.now \in 0..TimeMod - 1
  BY DEF Ramping
<1>2. /\ feeder.now - feeder.start \in 0..(TimeMod - 1) /\ TimeMod \in Nat \ {0}
      /\ feeder.now - feeder.start = TimeMod * 0 + (feeder.now - feeder.start)
  BY <1>1, MotorConstants
<1>3. QED
  BY <1>2, ModOf DEF Elapsed

LEMMA MotorParts ==
  FeederInv <=> PinsOK /\ CallsOK /\ FeederOK /\ RampOK /\ DirOK
<1>1. {boot_direction, dir_pin, en_pin} \subseteq BOOLEAN
        <=> boot_direction \in BOOLEAN /\ dir_pin \in BOOLEAN /\ en_pin \in BOOLEAN
  BY Zenon
<1>2. MotorTypeOK /\ (~HasQueue => /\ speed_queue = <<>> /\ feeder = Waiting(0) /\ pulses = 0
                                   /\ \A c \in Callers : speed_call[c] = NoSpeed)
        <=> /\ PinsOK /\ CallsOK /\ feeder \in Idling \cup Ramping /\ pulses \in 0..MaxRate
            /\ ~HasQueue => feeder = Waiting(0) /\ pulses = 0
  BY <1>1, Zenon DEF MotorTypeOK, PinsOK, CallsOK, Idling, Ramping
<1>3. ASSUME FeederOK, RampOK, feeder.step = "ramp" /\ ~MeetsTheWrap(feeder)
      PROVE  Elapsed(feeder) <= feeder.span + MaxPoll
  <2>1. feeder \in Ramping
    BY <1>3 DEF FeederOK, Idling
  <2>2. feeder.start <= feeder.now /\ feeder.now <= feeder.start + feeder.span + MaxPoll
    BY <1>3 DEF RampOK
  <2>3. feeder.start \in Nat /\ feeder.now \in Nat /\ feeder.span \in Nat /\ MaxPoll \in Nat
    BY <2>1, MotorConstants DEF Ramping
  <2>4. Elapsed(feeder) = feeder.now - feeder.start
    BY <1>3, <2>1, <2>2, ElapsedIs
  <2>5. QED
    BY <2>2, <2>3, <2>4
<1>4. RampOK <=> /\ InTime
                 /\ feeder.step = "ramp" /\ ~MeetsTheWrap(feeder) =>
                      /\ feeder.leg = "up" /\ feeder.now = feeder.start => pulses = 0
                      /\ pulses <= IF feeder.from < feeder.to THEN feeder.to ELSE feeder.from
  BY Zenon DEF RampOK, InTime, Higher
<1>5. QED
  BY <1>2, <1>3, <1>4, Zenon DEF FeederInv, FeederOK, DirOK

(* A ramp that begins                                                      *)
LEMMA RampBegins ==
  ASSUME PinsOK, NEW leg \in {"only", "down", "up"}, NEW from \in Nat, NEW to \in Nat,
         NEW v \in Speeds, NEW now \in 0..TimeMod - 1, feeder.prev_velocity \in Speeds
  PROVE  LET r == Ramp(leg, from, to, v, now)
         IN  /\ r \in Ramping /\ r.step = "ramp" /\ r.leg = leg /\ r.from = from /\ r.to = to
             /\ r.start = now /\ r.now = now /\ r.new_velocity = v
             /\ r.prev_velocity = feeder.prev_velocity
<1>1. PICK a \in Nat, b \in Nat : a = Size(to - from) /\ b = motor_ramp
  <2>1. PICK d \in Int : d = to - from
    OBVIOUS
  <2>2. Size(d) \in Nat
    BY DEF Size
  <2>3. motor_ramp \in Nat
    BY MotorConstants DEF PinsOK
  <2>4. QED
    BY <2>1, <2>2, <2>3
<1>2. a * b \in Nat
  OBVIOUS
<1>3. Span(from, to) \in Nat
  BY <1>1, <1>2, MotorConstants DEF Span
<1>4. QED
  BY <1>3 DEF Ramp, Ramping

LEMMA ReceiveKeepsFeeder ==
  ASSUME PinsOK, CallsOK, FeederOK, MotorReceive
  PROVE  FeederOK' /\ RampOK' /\ Heading' = Heading
<1> DEFINE v == Head(speed_queue)
           p == feeder.prev_velocity
<1>1. /\ HasQueue /\ HasQueue' /\ feeder.step = "wait" /\ speed_queue # <<>> /\ pulses' = pulses
  BY DEF MotorReceive, HasQueue
<1>2. PICK now \in 0..TimeMod - 1 :
        feeder' = IF Forward(v) <=> Forward(p) THEN Ramp("only", Size(p), Size(v), v, now)
                                             ELSE Ramp("down", Size(p), 0, v, now)
  BY DEF MotorReceive
<1>3. v \in Speeds
  BY <1>1, HeadTailProperties DEF CallsOK
<1>4. p \in Speeds /\ pulses = Rate(Size(p)) /\ pulses \in 0..MaxRate
  BY <1>1 DEF FeederOK, Idling, Ramping
<1>5. Size(p) \in Nat /\ Size(v) \in Nat /\ pulses <= Size(p)
  BY <1>3, <1>4, SizeOf, RateOf
<1> HIDE DEF v, p
<1>6. PICK leg \in {"only", "down"}, to \in Nat :
        /\ feeder' = Ramp(leg, Size(p), to, v, now)
        /\ leg = "only" => to = Size(v)
        /\ leg = "down" => to = 0
        /\ leg = "only" <=> (Forward(v) <=> Forward(p))
  <2>1. CASE Forward(v) <=> Forward(p)
    <3>1. feeder' = Ramp("only", Size(p), Size(v), v, now)
      BY <1>2, <2>1, Zenon
    <3>2. QED
      BY <1>5, <2>1, <3>1
  <2>2. CASE ~(Forward(v) <=> Forward(p))
    <3>1. feeder' = Ramp("down", Size(p), 0, v, now)
      BY <1>2, <2>2, Zenon
    <3>2. QED
      BY <2>2, <3>1
  <2>3. QED
    BY <2>1, <2>2
<1>7. /\ feeder' \in Ramping /\ feeder'.step = "ramp" /\ feeder'.leg = leg
      /\ feeder'.from = Size(p) /\ feeder'.to = to /\ feeder'.start = now /\ feeder'.now = now
      /\ feeder'.new_velocity = v /\ feeder'.prev_velocity = p
  <2>1. leg \in {"only", "down", "up"} /\ feeder.prev_velocity \in Speeds /\ feeder.prev_velocity = p
    BY <1>4 DEF p
  <2>2. QED
    BY <1>3, <1>5, <1>6, <2>1, RampBegins
<1>8. LegFits'
  BY <1>6, <1>7 DEF LegFits
<1>9. FeederOK'
  BY <1>1, <1>4, <1>7, <1>8 DEF FeederOK
<1>10. RampOK'
  <2>1. pulses' <= Higher(feeder')
    BY <1>1, <1>4, <1>5, <1>7, MotorConstants DEF Higher
  <2>2. feeder'.start <= feeder'.now /\ feeder'.now <= feeder'.start + feeder'.span + MaxPoll
    BY <1>7, MotorConstants DEF Ramping
  <2>3. feeder'.leg # "up"
    BY <1>6, <1>7
  <2>4. QED
    BY <2>1, <2>2, <2>3 DEF RampOK
<1>11. Heading' = p /\ Heading = p
  BY <1>1, <1>6, <1>7 DEF Heading, p
<1>12. QED
  BY <1>9, <1>10, <1>11

LEMMA TurnKeepsFeeder ==
  ASSUME PinsOK, FeederOK, MotorTurn
  PROVE  /\ FeederOK' /\ RampOK'
         /\ Heading' < 0 <=> ~(Heading < 0)
<1> DEFINE v == feeder.new_velocity
           p == feeder.prev_velocity
<1>1. /\ feeder.step = "turn" /\ pulses' = pulses /\ (HasQueue' <=> HasQueue)
      /\ feeder' = Ramp("up", 0, Size(v), v, feeder.now)
  BY DEF MotorTurn, HasQueue
<1>2. feeder \in Ramping /\ feeder.leg = "down" /\ pulses = 0 /\ HasQueue
  BY <1>1 DEF FeederOK, Idling, LegFits, Waiting
<1>3. v \in Speeds /\ p \in Speeds /\ Size(v) \in Nat /\ feeder.now \in 0..TimeMod - 1
  BY <1>2, SizeOf DEF Ramping
<1>4. ~(Forward(v) <=> Forward(p))
  BY <1>1, <1>2 DEF FeederOK, LegFits
<1>5. /\ feeder' \in Ramping /\ feeder'.step = "ramp" /\ feeder'.leg = "up"
      /\ feeder'.from = 0 /\ feeder'.to = Size(v)
      /\ feeder'.start = feeder.now /\ feeder'.now = feeder.now
      /\ feeder'.new_velocity = v /\ feeder'.prev_velocity = p
  BY <1>1, <1>3, RampBegins
<1> HIDE DEF v, p
<1>6. FeederOK'
  <2>1. LegFits'
    BY <1>4, <1>5 DEF LegFits
  <2>2. QED
    BY <1>1, <1>2, <1>5, <2>1, MotorConstants DEF FeederOK
<1>7. RampOK'
  <2>1. pulses' <= Higher(feeder')
    BY <1>1, <1>2, <1>3, <1>5 DEF Higher
  <2>2. feeder'.start <= feeder'.now /\ feeder'.now <= feeder'.start + feeder'.span + MaxPoll
    BY <1>5, MotorConstants DEF Ramping
  <2>3. QED
    BY <1>1, <1>2, <2>1, <2>2 DEF RampOK
<1>8. Heading' = v /\ Heading = p
  BY <1>1, <1>5 DEF Heading, p
<1>9. v \in Int /\ p \in Int
  BY <1>3, SizeOf
<1>10. QED
  BY <1>4, <1>6, <1>7, <1>8, <1>9 DEF Forward

(* One turn of a ramp's loop                                               *)
LEMMA TurnOfTheLoop ==
  ASSUME FeederOK, RampOK, MotorRamp, ~RampOver(feeder)
  PROVE  FeederOK' /\ RampOK' /\ Heading' = Heading
<1>1. /\ feeder.step = "ramp" /\ pulses' = Rate(Between(feeder)) /\ (HasQueue' <=> HasQueue)
      /\ \E d \in 1..MaxPoll : feeder' = [feeder EXCEPT !.now = (@ + d) % TimeMod]
  BY DEF MotorRamp, HasQueue
<1>2. feeder \in Ramping /\ HasQueue
  BY <1>1 DEF FeederOK, Idling, Waiting
<1>3. PICK d \in 1..MaxPoll : feeder' = [feeder EXCEPT !.now = (feeder.now + d) % TimeMod]
  BY <1>1
<1>4. /\ feeder.now \in 0..TimeMod - 1 /\ feeder.start \in 0..TimeMod - 1 /\ feeder.span \in Nat
      /\ feeder.from \in Nat /\ feeder.to \in Nat /\ d \in 1..MaxPoll /\ TimeMod \in Nat \ {0}
      /\ MaxPoll \in Nat
  BY <1>2, MotorConstants DEF Ramping
<1>5. PICK now \in 0..(TimeMod - 1) : now = (feeder.now + d) % TimeMod
  <2>1. feeder.now + d \in Int
    BY <1>4
  <2>2. (feeder.now + d) % TimeMod \in 0..(TimeMod - 1)
    BY <1>4, <2>1, DivMod
  <2>3. QED
    BY <2>2
<1>6. /\ feeder' = [feeder EXCEPT !.now = now] /\ feeder' \in Ramping /\ feeder'.now = now
      /\ feeder'.step = "ramp" /\ feeder'.leg = feeder.leg
      /\ feeder'.from = feeder.from /\ feeder'.to = feeder.to /\ feeder'.span = feeder.span
      /\ feeder'.start = feeder.start /\ feeder'.new_velocity = feeder.new_velocity
      /\ feeder'.prev_velocity = feeder.prev_velocity
  BY <1>1, <1>2, <1>3, <1>5 DEF Ramping
<1>7. pulses' \in 0..MaxRate
  BY <1>1, MotorConstants DEF Rate
<1>8. FeederOK'
  <2>1. LegFits'
    BY <1>1, <1>6 DEF FeederOK, LegFits
  <2>2. QED
    BY <1>1, <1>2, <1>6, <1>7, <2>1 DEF FeederOK
<1>9. RampOK'
  <2> SUFFICES ASSUME ~MeetsTheWrap(feeder)'
               PROVE  /\ feeder'.start <= feeder'.now
                      /\ feeder'.now <= feeder'.start + feeder'.span + MaxPoll
                      /\ feeder'.leg = "up" /\ feeder'.now = feeder'.start => pulses' = 0
                      /\ pulses' <= Higher(feeder')
    BY DEF RampOK
  <2>1. ~MeetsTheWrap(feeder) /\ feeder.start + feeder.span < TimeMod - MaxPoll
    BY <1>4, <1>6 DEF MeetsTheWrap
  <2>2. feeder.start <= feeder.now
    BY <1>1, <2>1 DEF RampOK
  <2>3. (feeder.start + feeder.span) % TimeMod = feeder.start + feeder.span
    <3>1. PICK s \in 0..(TimeMod - 1) : s = feeder.start + feeder.span
      BY <1>4, <2>1
    <3>2. s = TimeMod * 0 + s
      BY <1>4
    <3>3. s % TimeMod = s
      BY <1>4, <3>2, ModOf
    <3>4. QED
      BY <3>1, <3>3
  <2>4. feeder.now <= feeder.start + feeder.span
    BY <1>4, <2>3 DEF RampOver
  <2>5. now = feeder.now + d
    <3>1. PICK s \in 0..(TimeMod - 1) : s = feeder.now + d
      BY <1>4, <2>1, <2>4
    <3>2. s = TimeMod * 0 + s
      BY <1>4
    <3>3. s % TimeMod = s
      BY <1>4, <3>2, ModOf
    <3>4. QED
      BY <1>5, <3>1, <3>3
  <2>6. Elapsed(feeder) = feeder.now - feeder.start
    BY <1>2, <2>1, <2>2, ElapsedIs
  <2>7. Elapsed(feeder) \in 0..feeder.span
    BY <1>4, <2>2, <2>4, <2>6
  <2>8. pulses' <= Higher(feeder)
    BY <1>1, <1>4, <2>7, BetweenSpeeds
  <2>9. Higher(feeder') = Higher(feeder)
    BY <1>6 DEF Higher
  <2>10. feeder'.start <= feeder'.now /\ feeder'.now # feeder'.start
    BY <1>4, <1>6, <2>2, <2>5
  <2>11. feeder'.now <= feeder'.start + feeder'.span + MaxPoll
    BY <1>4, <1>6, <2>4, <2>5
  <2>12. QED
    BY <2>8, <2>9, <2>10, <2>11
<1>10. Heading' = Heading
  BY <1>6, <1>1 DEF Heading
<1>11. QED
  BY <1>8, <1>9, <1>10

(* The end of a ramp                                                       *)
LEMMA EndOfTheLoop ==
  ASSUME FeederOK, RampOK, MotorRamp, RampOver(feeder)
  PROVE  FeederOK' /\ RampOK' /\ (Heading' < 0 <=> Heading < 0)
<1>1. /\ feeder.step = "ramp" /\ pulses' = Rate(feeder.to) /\ (HasQueue' <=> HasQueue)
      /\ feeder' = IF feeder.leg = "down" THEN [feeder EXCEPT !.step = "turn"]
                                          ELSE Waiting(feeder.new_velocity)
  BY DEF MotorRamp, HasQueue
<1>2. feeder \in Ramping /\ HasQueue
  BY <1>1 DEF FeederOK, Idling, Waiting
<1>3. /\ feeder.new_velocity \in Speeds /\ feeder.prev_velocity \in Speeds
      /\ feeder.new_velocity \in Int /\ feeder.prev_velocity \in Int /\ feeder.to \in Nat
  BY <1>2, SizeOf DEF Ramping
<1>4. pulses' \in 0..MaxRate /\ (feeder.to = 0 => pulses' = 0)
  BY <1>1, <1>3, RateOf
<1>5. LegFits
  BY DEF FeederOK
<1>6. CASE feeder.leg = "down"
  <2>1. /\ feeder' \in Ramping /\ feeder'.step = "turn" /\ feeder'.leg = "down"
        /\ feeder'.from = feeder.from /\ feeder'.to = feeder.to
        /\ feeder'.new_velocity = feeder.new_velocity
        /\ feeder'.prev_velocity = feeder.prev_velocity
    BY <1>1, <1>2, <1>6 DEF Ramping
  <2>2. LegFits' /\ pulses' = 0
    BY <1>1, <1>4, <1>5, <1>6, <2>1 DEF LegFits
  <2>3. FeederOK'
    BY <1>1, <1>2, <1>4, <2>1, <2>2 DEF FeederOK
  <2>4. RampOK'
    BY <2>1 DEF RampOK
  <2>5. Heading' = Heading
    BY <1>6, <2>1 DEF Heading
  <2>6. QED
    BY <2>3, <2>4, <2>5
<1>7. CASE feeder.leg # "down"
  <2>1. feeder' \in Idling /\ feeder'.step = "wait" /\ feeder'.prev_velocity = feeder.new_velocity
    BY <1>1, <1>3, <1>7 DEF Waiting, Idling
  <2>2. feeder.to = Size(feeder.new_velocity)
    BY <1>1, <1>5, <1>7 DEF LegFits
  <2>3. FeederOK'
    BY <1>1, <1>2, <1>4, <2>1, <2>2 DEF FeederOK, LegFits
  <2>4. RampOK'
    BY <2>1 DEF RampOK
  <2>5. feeder.leg = "up" \/ (feeder.new_velocity < 0 <=> feeder.prev_velocity < 0)
    <3>1. feeder.leg = "up" \/ feeder.leg = "only"
      BY <1>2, <1>7 DEF Ramping
    <3>2. feeder.leg = "only" => (Forward(feeder.new_velocity) <=> Forward(feeder.prev_velocity))
      BY <1>1, <1>5 DEF LegFits
    <3>3. QED
      BY <1>3, <3>1, <3>2 DEF Forward
  <2>6. QED
    BY <1>1, <2>1, <2>3, <2>4, <2>5 DEF Heading
<1>8. QED
  BY <1>6, <1>7

LEMMA PinsStep ==
  ASSUME PinsOK, [MotorNext]_motor_vars
  PROVE  PinsOK'
<1>1. /\ ifcnt \in 0..IfcntMod - 1 /\ IfcntMod \in Nat \ {0} /\ 0 \in 0..IfcntMod - 1
      /\ CountedAgain \in 0..IfcntMod - 1
  <2>1. PICK a \in Int : a = Counted + 7
    <3>1. PICK b \in Int : b = ifcnt + 1
      BY DEF PinsOK
    <3>2. b % IfcntMod \in 0..(IfcntMod - 1)
      BY MotorConstants, DivMod
    <3>3. QED
      BY <3>1, <3>2 DEF Counted
  <2>2. a % IfcntMod \in 0..(IfcntMod - 1)
    BY MotorConstants, DivMod
  <2>3. QED
    BY <2>1, <2>2, MotorConstants DEF PinsOK, CountedAgain
<1>2. ASSUME NEW turned_about \in BOOLEAN, MotorsInit(turned_about)
      PROVE  PinsOK'
  <2>1. motor_init' \in {"CFG_ERR", "PIO_ERR", "FEEDER_DRV_ERR", "OK"}
    BY <1>2, Zenon DEF MotorsInit, InitError, DriverPioInit
  <2>2. ifcnt' \in 0..IfcntMod - 1
    BY <1>1, <1>2 DEF MotorsInit, DriverInit
  <2>3. motor_ramp' \in Ramps \cup {0}
    BY <1>2 DEF MotorsInit, MotorConfigInit, PinsOK
  <2>4. boot_direction' \in BOOLEAN /\ dir_pin' \in BOOLEAN /\ en_pin' \in BOOLEAN
    <3>1. FALSE \in BOOLEAN
      BY Zenon
    <3>2. QED
      BY <1>2, <3>1, Zenon DEF MotorsInit, MotorConfigInit, DriverIoInit, PinsOK
  <2>5. QED
    BY <2>1, <2>2, <2>3, <2>4, Zenon DEF PinsOK
<1>3. CASE MotorRestart
  <2>1. boot_direction' \in BOOLEAN /\ dir_pin' \in BOOLEAN /\ en_pin' \in BOOLEAN
    BY <1>3, Zenon DEF MotorRestart
  <2>2. motor_init' = "NONE" /\ ifcnt' \in {0, ifcnt} /\ motor_ramp' = 0
    BY <1>3 DEF MotorRestart
  <2>3. QED
    BY <1>1, <2>1, <2>2 DEF PinsOK
<1>4. CASE MotorConfigure
  BY <1>4, Zenon DEF MotorConfigure, PinsOK
<1>5. CASE MotorReceive \/ MotorRamp \/ UNCHANGED motor_vars
  BY <1>5, Zenon DEF MotorReceive, MotorRamp, motor_vars, PinsOK
<1>6. CASE MotorTurn
  <2>1. (~dir_pin) \in BOOLEAN
    BY Zenon
  <2>2. QED
    BY <1>6, <2>1, Zenon DEF MotorTurn, PinsOK
<1>7. ASSUME NEW c \in Callers, NEW v \in Velocities, MotorSetSpeed(c, v)
      PROVE  PinsOK'
  BY <1>7, Zenon DEF MotorSetSpeed, PinsOK
<1>8. ASSUME NEW c \in Callers, NEW on \in BOOLEAN, MotorEnable(c, on)
      PROVE  PinsOK'
  BY <1>8, Zenon DEF MotorEnable, PinsOK
<1>9. ASSUME NEW c \in Callers, MotorSent(c)
      PROVE  PinsOK'
  BY <1>9, Zenon DEF MotorSent, PinsOK
<1>10. QED
  BY <1>2, <1>3, <1>4, <1>5, <1>6, <1>7, <1>8, <1>9, Zenon DEF MotorNext, MotorTask

LEMMA CallsStep ==
  ASSUME CallsOK, [MotorNext]_motor_vars
  PROVE  CallsOK'
<1> DEFINE Calls == [Callers -> Seq(Speeds)]
<1>0. NoSpeed \in Seq(Speeds) /\ Len(NoSpeed) = 0
  BY DEF NoSpeed
<1>1. ASSUME NEW c \in Callers, NEW v \in Speeds, Requests(c, v), motor_init' = motor_init,
             speed_queue' = speed_queue
      PROVE  CallsOK'
  <2>1. <<v>> \in Seq(Speeds) /\ Len(<<v>>) = 1
    OBVIOUS
  <2> DEFINE w == IF HasQueue THEN <<v>> ELSE NoSpeed
  <2>2. /\ w \in Seq(Speeds) /\ Len(w) <= 1 /\ (~HasQueue => w = NoSpeed)
        /\ speed_call' = [speed_call EXCEPT ![c] = w]
    <3>1. speed_call' = [speed_call EXCEPT ![c] = w]
      BY <1>1, Zenon DEF Requests
    <3>2. CASE HasQueue
      <4>1. w = <<v>>
        BY <3>2
      <4>2. QED
        BY <2>1, <3>1, <3>2, <4>1
    <3>3. CASE ~HasQueue
      <4>1. w = NoSpeed
        BY <3>3
      <4>2. QED
        BY <1>0, <3>1, <3>3, <4>1
    <3>4. QED
      BY <3>2, <3>3
  <2> HIDE DEF w
  <2>3. HasQueue' <=> HasQueue
    BY <1>1 DEF HasQueue
  <2>4. QED
    BY <1>1, <2>2, <2>3 DEF CallsOK
<1>2. ASSUME NEW c \in Callers, NEW v \in Velocities, MotorSetSpeed(c, v)
      PROVE  CallsOK'
  BY <1>1, <1>2 DEF MotorSetSpeed, Speeds
<1>3. CASE /\ UNCHANGED <<speed_queue, speed_call>>
           /\ ~HasQueue' => ~HasQueue
  BY <1>3 DEF CallsOK
<1>4. ASSUME NEW c \in Callers, NEW on \in BOOLEAN, MotorEnable(c, on)
      PROVE  CallsOK'
  <2>1. CASE on
    BY <1>3, <1>4, <2>1 DEF MotorEnable, HasQueue
  <2>2. CASE ~on
    BY <1>1, <1>4, <2>2 DEF MotorEnable, Speeds
  <2>3. QED
    BY <2>1, <2>2
<1>5. ASSUME NEW c \in Callers, MotorSent(c)
      PROVE  CallsOK'
  <2>1. /\ speed_call[c] # NoSpeed /\ Len(speed_queue) < 2
        /\ speed_queue' = speed_queue \o speed_call[c]
        /\ speed_call' = [speed_call EXCEPT ![c] = NoSpeed]
        /\ HasQueue' <=> HasQueue
    BY <1>5 DEF MotorSent, HasQueue
  <2>2. HasQueue
    BY <2>1 DEF CallsOK
  <2>3. speed_queue \in Seq(Speeds) /\ speed_call[c] \in Seq(Speeds) /\ Len(speed_call[c]) <= 1
    BY DEF CallsOK
  <2>4. /\ speed_queue' \in Seq(Speeds)
        /\ Len(speed_queue') = Len(speed_queue) + Len(speed_call[c])
    BY <2>1, <2>3, ConcatProperties
  <2>5. PICK m \in Nat, n \in Nat : m = Len(speed_queue) /\ n = Len(speed_call[c])
    BY <2>3, LenProperties
  <2>6. Len(speed_queue') <= 2
    BY <2>1, <2>3, <2>4, <2>5
  <2>7. QED
    BY <1>0, <2>1, <2>2, <2>4, <2>6 DEF CallsOK
<1>6. CASE MotorReceive
  <2>1. /\ HasQueue' /\ speed_queue # <<>> /\ speed_queue' = Tail(speed_queue)
        /\ speed_call' = speed_call
    BY <1>6 DEF MotorReceive, HasQueue
  <2>2. speed_queue \in Seq(Speeds) /\ Len(speed_queue) <= 2
    BY DEF CallsOK
  <2>3. /\ Tail(speed_queue) \in Seq(Speeds) /\ Len(Tail(speed_queue)) = Len(speed_queue) - 1
    BY <2>1, <2>2, HeadTailProperties
  <2>4. PICK n \in Nat : n = Len(speed_queue)
    BY <2>2, LenProperties
  <2>5. Len(speed_queue') <= 2
    BY <2>1, <2>2, <2>3, <2>4
  <2>6. QED
    BY <2>1, <2>3, <2>5 DEF CallsOK
<1>7. CASE MotorRestart
  <2>1. /\ speed_queue' = <<>> /\ speed_call' = [c \in Callers |-> NoSpeed]
    BY <1>7 DEF MotorRestart
  <2>2. speed_queue' \in Seq(Speeds) /\ Len(speed_queue') <= 2
    BY <2>1
  <2>3. QED
    BY <1>0, <2>1, <2>2 DEF CallsOK
<1>8. \A turned_about \in BOOLEAN : MotorsInit(turned_about) =>
        /\ UNCHANGED <<speed_queue, speed_call>>
        /\ ~HasQueue
  BY DEF MotorsInit, HasQueue
<1>9. ASSUME NEW turned_about \in BOOLEAN, MotorsInit(turned_about)
      PROVE  CallsOK'
  BY <1>8, <1>9 DEF CallsOK
<1>10. CASE MotorConfigure \/ MotorRamp \/ MotorTurn \/ UNCHANGED motor_vars
  BY <1>3, <1>10 DEF MotorConfigure, MotorRamp, MotorTurn, motor_vars, HasQueue
<1>11. QED
  BY <1>2, <1>4, <1>5, <1>6, <1>7, <1>9, <1>10 DEF MotorNext, MotorTask

(* What leaves the feeder, its direction and its pulses alone              *)
LEMMA OthersLeaveFeeder ==
  ASSUME [MotorNext]_motor_vars, ~(MotorTask), ~MotorRestart,
         \A turned_about \in BOOLEAN : ~MotorsInit(turned_about)
  PROVE  UNCHANGED <<motor_init, boot_direction, dir_pin, feeder, pulses>>
BY DEF MotorNext, MotorConfigure, MotorSetSpeed, MotorEnable, MotorSent, motor_vars

LEMMA RestStays ==
  ASSUME FeederOK, ~HasQueue, feeder' = Waiting(0), pulses' = 0
  PROVE  FeederOK' /\ RampOK' /\ Heading' = 0
<1>1. feeder' \in Idling /\ feeder'.step = "wait" /\ feeder'.prev_velocity = 0
  BY DEF Waiting, Idling, Speeds
<1>2. Rate(Size(0)) = 0 /\ 0 \in 0..MaxRate
  BY MotorConstants DEF Rate, Size
<1>3. QED
  BY <1>1, <1>2 DEF FeederOK, RampOK, Heading, LegFits

LEMMA FeederStep ==
  ASSUME PinsOK, CallsOK, FeederOK, RampOK, [MotorNext]_motor_vars
  PROVE  FeederOK' /\ RampOK'
<1>1. CASE MotorReceive
  BY <1>1, ReceiveKeepsFeeder
<1>2. CASE MotorRamp
  BY <1>2, TurnOfTheLoop, EndOfTheLoop
<1>3. CASE MotorTurn
  BY <1>3, TurnKeepsFeeder
<1>4. ASSUME NEW turned_about \in BOOLEAN, MotorsInit(turned_about)
      PROVE  FeederOK' /\ RampOK'
  <2>1. ~HasQueue /\ feeder' = feeder /\ pulses' = pulses
    BY <1>4 DEF MotorsInit, HasQueue
  <2>2. feeder = Waiting(0) /\ pulses = 0
    BY <2>1 DEF FeederOK
  <2>3. QED
    BY <2>1, <2>2, RestStays
<1>5. CASE MotorRestart
  <2>1. /\ feeder' = Waiting(0) /\ pulses' = 0
    BY <1>5 DEF MotorRestart
  <2>2. feeder' \in Idling /\ feeder'.step = "wait" /\ feeder'.prev_velocity = 0
    BY <2>1 DEF Waiting, Idling, Speeds
  <2>3. Rate(Size(0)) = 0 /\ 0 \in 0..MaxRate
    BY MotorConstants DEF Rate, Size
  <2>4. QED
    BY <2>1, <2>2, <2>3 DEF FeederOK, RampOK, LegFits
<1>6. CASE UNCHANGED <<motor_init, boot_direction, dir_pin, feeder, pulses>>
  BY <1>6 DEF FeederOK, RampOK, LegFits, HasQueue
<1>7. QED
  BY <1>1, <1>2, <1>3, <1>4, <1>5, <1>6, OthersLeaveFeeder DEF MotorTask

(* The pin is toggled when, and only when, the direction turns.            *)
LEMMA SameDirection ==
  ASSUME NEW p \in BOOLEAN, NEW q \in BOOLEAN, NEW b \in BOOLEAN, NEW d
  PROVE  /\ (p <=> q) => ((d = (b # p)) <=> (d = (b # q)))
         /\ (p <=> ~q) => ((d = (b # p)) => ((~d) = (b # q)))
<1>1. CASE p = q
  <2>1. p <=> q
    BY <1>1, Zenon
  <2>2. ~(p <=> ~q)
    BY <1>1, Zenon
  <2>3. (d = (b # p)) <=> (d = (b # q))
    BY <1>1, Zenon
  <2>4. QED
    BY <2>1, <2>2, <2>3, Zenon
<1>2. CASE p = TRUE /\ q = FALSE
  <2>1. CASE b = TRUE
    BY <1>2, <2>1, Zenon
  <2>2. CASE b = FALSE
    BY <1>2, <2>2, Zenon
  <2>3. QED
    BY <2>1, <2>2, Zenon
<1>3. CASE p = FALSE /\ q = TRUE
  <2>1. CASE b = TRUE
    BY <1>3, <2>1, Zenon
  <2>2. CASE b = FALSE
    BY <1>3, <2>2, Zenon
  <2>3. QED
    BY <2>1, <2>2, Zenon
<1>4. QED
  BY <1>1, <1>2, <1>3, Zenon

LEMMA DirStep ==
  ASSUME PinsOK, CallsOK, FeederOK, RampOK, DirOK, [MotorNext]_motor_vars
  PROVE  DirOK'
<1>1. (Heading < 0) \in BOOLEAN /\ (Heading' < 0) \in BOOLEAN /\ boot_direction \in BOOLEAN
  BY DEF PinsOK
<1>2. CASE MotorTurn
  <2>1. /\ dir_pin' = ~dir_pin /\ boot_direction' = boot_direction /\ (HasQueue' <=> HasQueue)
    BY <1>2 DEF MotorTurn, HasQueue
  <2>2. Heading < 0 <=> ~(Heading' < 0)
    BY <1>2, TurnKeepsFeeder
  <2>3. HasQueue' => dir_pin = (boot_direction # (Heading < 0))
    BY <2>1, Zenon DEF DirOK
  <2>4. HasQueue' => (~dir_pin) = (boot_direction # (Heading' < 0))
    BY <1>1, <2>2, <2>3, SameDirection, Zenon
  <2>5. QED
    BY <2>1, <2>4, Zenon DEF DirOK
<1>3. CASE /\ UNCHANGED <<motor_init, boot_direction, dir_pin>>
           /\ Heading' < 0 <=> Heading < 0
  <2>1. HasQueue' <=> HasQueue
    BY <1>3 DEF HasQueue
  <2>2. HasQueue => dir_pin = (boot_direction # (Heading < 0))
    BY Zenon DEF DirOK
  <2>3. HasQueue => dir_pin = (boot_direction # (Heading' < 0))
    BY <1>1, <1>3, <2>2, SameDirection, Zenon
  <2>4. QED
    BY <1>3, <2>1, <2>3, Zenon DEF DirOK
<1>4. CASE MotorReceive
  <2>1. Heading' = Heading /\ UNCHANGED <<motor_init, boot_direction, dir_pin>>
    BY <1>4, ReceiveKeepsFeeder DEF MotorReceive
  <2>2. QED
    BY <1>3, <2>1, Zenon
<1>5. CASE MotorRamp
  <2>1. (Heading' = Heading \/ (Heading' < 0 <=> Heading < 0))
    BY <1>5, TurnOfTheLoop, EndOfTheLoop
  <2>2. UNCHANGED <<motor_init, boot_direction, dir_pin>>
    BY <1>5 DEF MotorRamp
  <2>3. QED
    BY <1>3, <2>1, <2>2, Zenon
<1>6. ASSUME NEW turned_about \in BOOLEAN, MotorsInit(turned_about)
      PROVE  DirOK'
  <2>1. ~HasQueue /\ feeder' = feeder /\ pulses' = pulses
    BY <1>6 DEF MotorsInit, HasQueue
  <2>2. Heading' = 0
    BY <2>1, RestStays DEF FeederOK
  <2>3. HasQueue' => dir_pin' = turned_about /\ boot_direction' = turned_about
    BY <1>6 DEF MotorsInit, HasQueue, InitError, MotorConfigInit, DriverIoInit
  <2>4. ~(Heading' < 0)
    BY <2>2
  <2>5. (Heading' < 0) = FALSE
    BY <1>1, <2>4, Zenon
  <2>6. turned_about = (turned_about # FALSE)
    BY Zenon
  <2>7. QED
    BY <2>3, <2>5, <2>6, Zenon DEF DirOK
<1>7. CASE MotorRestart
  BY <1>7 DEF MotorRestart, DirOK, HasQueue
<1>8. CASE UNCHANGED <<motor_init, boot_direction, dir_pin, feeder, pulses>>
  <2>1. Heading' = Heading
    BY <1>8 DEF Heading
  <2>2. QED
    BY <1>3, <1>8, <2>1, Zenon
<1>9. QED
  BY <1>2, <1>4, <1>5, <1>6, <1>7, <1>8, OthersLeaveFeeder, Zenon DEF MotorTask

(* The feeder keeps its promise for every set of velocities, acceleration, *)
(* pair of rates and period of the clock: nothing is queued and no pulse   *)
(* made without a driver, the direction pin always fits the pulses, and a  *)
(* ramp that does not meet the wrap of the clock is in time and below its  *)
(* speeds (FeederInv, which is inductive).                                 *)
THEOREM PulsesFitTheirDirection == MotorSpec => []FeederInv
<1>1. MotorInit => FeederInv
  <2> SUFFICES ASSUME MotorInit PROVE FeederInv
    OBVIOUS
  <2>1. boot_direction \in BOOLEAN /\ dir_pin \in BOOLEAN /\ en_pin \in BOOLEAN
    BY Zenon DEF MotorInit, MotorOff
  <2>2. /\ motor_init = "NONE" /\ ifcnt = 0 /\ speed_queue = <<>> /\ feeder = Waiting(0)
        /\ speed_call = [c \in Callers |-> NoSpeed] /\ motor_ramp = 0 /\ pulses = 0
    BY DEF MotorInit, MotorOff
  <2>3. PinsOK
    BY <2>1, <2>2, MotorConstants DEF PinsOK
  <2>4. CallsOK
    <3>1. NoSpeed \in Seq(Speeds) /\ Len(NoSpeed) = 0
      BY DEF NoSpeed
    <3>2. QED
      BY <2>2, <3>1 DEF CallsOK, NoSpeed
  <2>5. FeederOK /\ RampOK
    <3>1. feeder \in Idling /\ feeder.step = "wait" /\ feeder.prev_velocity = 0
      BY <2>2 DEF Waiting, Idling, Speeds
    <3>2. Rate(Size(0)) = 0 /\ 0 \in 0..MaxRate
      BY MotorConstants DEF Rate, Size
    <3>3. QED
      BY <2>2, <3>1, <3>2 DEF FeederOK, RampOK, LegFits
  <2>6. DirOK
    BY <2>2 DEF DirOK, HasQueue
  <2>7. QED
    BY <2>3, <2>4, <2>5, <2>6, MotorParts, Zenon
<1>2. FeederInv /\ [MotorNext]_motor_vars => FeederInv'
  <2> SUFFICES ASSUME FeederInv, [MotorNext]_motor_vars PROVE FeederInv'
    OBVIOUS
  <2>1. PinsOK /\ CallsOK /\ FeederOK /\ RampOK /\ DirOK
    BY MotorParts, Zenon
  <2>2. PinsOK' /\ CallsOK' /\ FeederOK' /\ RampOK' /\ DirOK'
    BY <2>1, PinsStep, CallsStep, FeederStep, DirStep, Zenon
  <2>3. QED
    BY <2>2, MotorParts, PTL
<1>3. QED
  BY <1>1, <1>2, PTL DEF MotorSpec

-----------------------------------------------------------------------------
(* Sums                                                                    *)

(* Induction up to n for a set: the natural numbers are well founded.      *)
LEMMA Upwards ==
  ASSUME NEW n \in Nat, NEW S, 0 \in S, \A i \in Nat : i < n /\ i \in S => i + 1 \in S
  PROVE  \A i \in 0..n : i \in S
<1> DEFINE T == {i \in 0..n : i \notin S}
<1>1. SUFFICES ASSUME T # {} PROVE FALSE
  OBVIOUS
<1>2. IsWellFoundedOn(OpToRel(<, Nat), Nat)
  BY NatLessThanWellFounded
<1>3. \A i, j \in Nat : <<i, j>> \in OpToRel(<, Nat) <=> i < j
  BY DEF OpToRel
<1>4. T \subseteq Nat
  OBVIOUS
<1> HIDE DEF T
<1>5. \E x \in T : \A y \in T : ~(<<y, x>> \in OpToRel(<, Nat))
  BY <1>1, <1>2, <1>4, WFMin
<1>6. PICK x \in T : \A y \in T : ~(y < x)
  BY <1>3, <1>4, <1>5
<1> USE DEF T
<1>7. x \in Nat /\ x # 0 /\ x <= n /\ x \notin S
  OBVIOUS
<1>8. x - 1 \in Nat /\ x - 1 < x /\ x - 1 \notin T
  BY <1>6, <1>7
<1>9. x - 1 \in S
  BY <1>7, <1>8
<1>10. QED
  BY <1>7, <1>9

(* The accumulator of getSum's loop.                                       *)
Sums(h, data, n) == h \in [0..n -> Int] /\ h[0] = 0 /\ \A i \in 1..n : h[i] = h[i - 1] + data[i]

LEMMA SumsExist ==
  ASSUME NEW n \in Nat, NEW data, \A i \in 1..n : data[i] \in Int
  PROVE  \E h : Sums(h, data, n)
<1> DEFINE S == {k \in 0..n : \E h : Sums(h, data, k)}
<1>1. 0 \in S
  <2>1. Sums([i \in 0..0 |-> 0], data, 0)
    BY DEF Sums
  <2>2. QED
    BY <2>1
<1>2. ASSUME NEW k \in Nat, k < n, k \in S PROVE k + 1 \in S
  <2>1. PICK h : Sums(h, data, k)
    BY <1>2
  <2> DEFINE g == [i \in 0..(k + 1) |-> IF i = k + 1 THEN h[k] + data[k + 1] ELSE h[i]]
  <2>2. h \in [0..k -> Int] /\ h[0] = 0 /\ \A i \in 1..k : h[i] = h[i - 1] + data[i]
    BY <2>1 DEF Sums
  <2>3. h[k] \in Int /\ data[k + 1] \in Int
    BY <1>2, <2>2
  <2>4. g \in [0..(k + 1) -> Int] /\ g[0] = 0
    BY <2>2, <2>3
  <2>5. ASSUME NEW i \in 1..(k + 1) PROVE g[i] = g[i - 1] + data[i]
    <3>1. CASE i = k + 1
      BY <3>1
    <3>2. CASE i # k + 1
      <4>1. i \in 1..k /\ i \in 0..(k + 1) /\ i - 1 \in 0..(k + 1) /\ i - 1 # k + 1
        BY <3>2
      <4>2. QED
        BY <2>2, <3>2, <4>1
    <3>3. QED
      BY <3>1, <3>2
  <2> HIDE DEF g
  <2>6. Sums(g, data, k + 1)
    BY <2>4, <2>5 DEF Sums
  <2>7. QED
    BY <1>2, <2>6
<1> HIDE DEF S
<1>3. \A i \in 0..n : i \in S
  BY <1>1, <1>2, Upwards
<1>4. QED
  BY <1>3 DEF S

LEMMA TotalIs ==
  ASSUME NEW n \in Nat, NEW data, \A i \in 1..n : data[i] \in Int
  PROVE  \E h : Sums(h, data, n) /\ Total(data, n) = h[n]
<1>1. PICK h : Sums(h, data, n)
  BY SumsExist
<1> DEFINE Def(f) == f = [i \in 0..n |-> IF i = 0 THEN 0 ELSE f[i - 1] + data[i]]
           sum == CHOOSE f : Def(f)
<1>2. h \in [0..n -> Int] /\ h[0] = 0 /\ \A i \in 1..n : h[i] = h[i - 1] + data[i]
  BY <1>1 DEF Sums
<1>3. Def(h)
  <2>1. \A i \in 0..n : h[i] = IF i = 0 THEN 0 ELSE h[i - 1] + data[i]
    BY <1>2
  <2>2. h = [i \in 0..n |-> h[i]]
    BY <1>2
  <2>3. QED
    BY <2>1, <2>2
<1>4. Def(sum)
  BY <1>3
<1>5. Total(data, n) = sum[n]
  BY DEF Total
<1> HIDE DEF sum
<1>6. sum[0] = 0 /\ \A i \in 1..n : sum[i] = sum[i - 1] + data[i]
  BY <1>4
<1> DEFINE S == {k \in 0..n : sum[k] = h[k]}
<1>7. 0 \in S
  BY <1>2, <1>6
<1>8. ASSUME NEW k \in Nat, k < n, k \in S PROVE k + 1 \in S
  <2>1. k + 1 \in 1..n /\ (k + 1) - 1 = k /\ sum[k] = h[k]
    BY <1>8
  <2>2. sum[k + 1] = sum[k] + data[k + 1] /\ h[k + 1] = h[k] + data[k + 1]
    BY <1>2, <1>6, <2>1
  <2>3. QED
    BY <2>1, <2>2
<1> HIDE DEF S
<1>9. \A i \in 0..n : i \in S
  BY <1>7, <1>8, Upwards
<1>10. QED
  BY <1>1, <1>5, <1>9 DEF S

(* One more term; another term in a place; and a window that moves on.     *)
LEMMA OneMore ==
  ASSUME NEW n \in Nat, NEW a, NEW b, \A i \in 1..n : a[i] \in Int /\ b[i] = a[i], b[n + 1] \in Int
  PROVE  Total(b, n + 1) = Total(a, n) + b[n + 1] /\ Total(a, n) \in Int
<1>1. \A i \in 1..(n + 1) : b[i] \in Int
  <2>1. \A i \in 1..(n + 1) : i \in 1..n \/ i = n + 1
    OBVIOUS
  <2>2. QED
    BY <2>1
<1>2. PICK g : Sums(g, a, n) /\ Total(a, n) = g[n]
  BY TotalIs
<1>3. PICK h : Sums(h, b, n + 1) /\ Total(b, n + 1) = h[n + 1]
  BY <1>1, TotalIs
<1> DEFINE S == {k \in 0..n : h[k] = g[k]}
<1>4. 0 \in S
  BY <1>2, <1>3 DEF Sums
<1>5. ASSUME NEW k \in Nat, k < n, k \in S PROVE k + 1 \in S
  <2>1. k + 1 \in 1..n /\ k + 1 \in 1..(n + 1) /\ (k + 1) - 1 = k /\ h[k] = g[k]
    BY <1>5
  <2>2. g[k + 1] = g[k] + a[k + 1] /\ h[k + 1] = h[k] + b[k + 1] /\ b[k + 1] = a[k + 1]
    BY <1>2, <1>3, <2>1 DEF Sums
  <2>3. QED
    BY <2>1, <2>2
<1> HIDE DEF S
<1>6. n \in S
  BY <1>4, <1>5, Upwards
<1>7. h[n + 1] = h[n] + b[n + 1] /\ g[n] \in Int
  <2>1. n + 1 \in 1..(n + 1) /\ (n + 1) - 1 = n /\ n \in 0..n
    OBVIOUS
  <2>2. QED
    BY <1>2, <1>3, <2>1 DEF Sums
<1>8. QED
  BY <1>2, <1>3, <1>6, <1>7 DEF S

OtherAt(n, w, a, b) ==
    \A i \in 1..n : a[i] \in Int /\ b[i] \in Int /\ (i # w => b[i] = a[i])

LEMMA OneOther ==
  ASSUME NEW n \in Nat, NEW w \in 1..n, NEW a, NEW b, OtherAt(n, w, a, b)
  PROVE  Total(b, n) + a[w] = Total(a, n) + b[w] /\ Total(a, n) \in Int /\ Total(b, n) \in Int
<1>a. /\ \A i \in 1..n : a[i] \in Int /\ b[i] \in Int
      /\ \A i \in 1..n : i # w => b[i] = a[i]
  BY DEF OtherAt
<1>1. PICK g : Sums(g, a, n) /\ Total(a, n) = g[n]
  BY <1>a, TotalIs
<1>2. PICK h : Sums(h, b, n) /\ Total(b, n) = h[n]
  BY <1>a, TotalIs
<1> DEFINE S == {k \in 0..n : IF k < w THEN h[k] = g[k] ELSE h[k] + a[w] = g[k] + b[w]}
<1>3. 0 \in S
  BY <1>1, <1>2 DEF Sums
<1>4. ASSUME NEW k \in Nat, k < n, k \in S PROVE k + 1 \in S
  <2>1. k + 1 \in 1..n /\ (k + 1) - 1 = k /\ k \in 0..n /\ k + 1 \in 0..n
    BY <1>4
  <2>2. g[k + 1] = g[k] + a[k + 1] /\ h[k + 1] = h[k] + b[k + 1]
    BY <1>1, <1>2, <2>1 DEF Sums
  <2>3. g[k] \in Int /\ h[k] \in Int /\ a[k + 1] \in Int /\ b[k + 1] \in Int /\ a[w] \in Int /\ b[w] \in Int
    BY <1>1, <1>2, <1>a, <2>1 DEF Sums
  <2>4. CASE k + 1 < w
    <3>1. h[k] = g[k] /\ b[k + 1] = a[k + 1]
      BY <1>4, <1>a, <2>1, <2>4
    <3>2. QED
      BY <2>1, <2>2, <2>4, <3>1
  <2>5. CASE k + 1 = w
    <3>1. h[k] = g[k]
      BY <1>4, <2>1, <2>5
    <3>2. g[k + 1] = g[k] + a[w] /\ h[k + 1] = g[k] + b[w]
      BY <2>2, <2>5, <3>1
    <3>3. h[k + 1] + a[w] = g[k + 1] + b[w]
      BY <2>3, <3>2
    <3>4. QED
      BY <2>1, <2>5, <3>3
  <2>6. CASE k + 1 > w
    <3>1. h[k] + a[w] = g[k] + b[w] /\ b[k + 1] = a[k + 1]
      BY <1>4, <1>a, <2>1, <2>6
    <3>2. h[k + 1] + a[w] = g[k + 1] + b[w]
      BY <2>2, <2>3, <3>1
    <3>3. QED
      BY <2>1, <2>6, <3>2
  <2>7. QED
    BY <2>1, <2>4, <2>5, <2>6
<1> HIDE DEF S
<1>5. \A i \in 0..n : i \in S
  BY <1>3, <1>4, Upwards
<1>6. g[n] \in Int /\ h[n] \in Int /\ h[n] + a[w] = g[n] + b[w]
  BY <1>1, <1>2, <1>5 DEF S, Sums
<1>7. QED
  BY <1>1, <1>2, <1>6

LEMMA MovesOn ==
  ASSUME NEW n \in Nat \ {0}, NEW a, NEW b, \A i \in 1..n : a[i] \in Int /\ b[i] \in Int,
         \A i \in 1..(n - 1) : b[i] = a[i + 1]
  PROVE  Total(b, n) + a[1] = Total(a, n) + b[n] /\ Total(a, n) \in Int /\ Total(b, n) \in Int
<1>1. PICK g : Sums(g, a, n) /\ Total(a, n) = g[n]
  BY TotalIs
<1>2. PICK h : Sums(h, b, n) /\ Total(b, n) = h[n]
  BY TotalIs
<1>3. n - 1 \in Nat
  OBVIOUS
<1> DEFINE S == {k \in 0..(n - 1) : h[k] + a[1] = g[k + 1]}
<1>4. 0 \in S
  <2>1. 1 \in 1..n /\ 1 - 1 = 0
    OBVIOUS
  <2>2. g[1] = g[0] + a[1] /\ g[0] = 0 /\ h[0] = 0 /\ a[1] \in Int
    BY <1>1, <1>2, <2>1 DEF Sums
  <2>3. QED
    BY <1>3, <2>2
<1>5. ASSUME NEW k \in Nat, k < n - 1, k \in S PROVE k + 1 \in S
  <2>1. /\ k + 1 \in 1..(n - 1) /\ k + 1 \in 1..n /\ (k + 1) + 1 \in 1..n /\ (k + 1) - 1 = k
        /\ ((k + 1) + 1) - 1 = k + 1 /\ k \in 0..n /\ k + 1 \in 0..n /\ 1 \in 1..n
    BY <1>5
  <2>2. g[(k + 1) + 1] = g[k + 1] + a[(k + 1) + 1] /\ h[k + 1] = h[k] + b[k + 1]
    BY <1>1, <1>2, <2>1 DEF Sums
  <2>3. g[k + 1] \in Int /\ h[k] \in Int /\ a[(k + 1) + 1] \in Int /\ a[1] \in Int /\ b[k + 1] = a[(k + 1) + 1]
    BY <1>1, <1>2, <2>1 DEF Sums
  <2>4. h[k] + a[1] = g[k + 1]
    BY <1>5
  <2>5. h[k + 1] + a[1] = g[(k + 1) + 1]
    BY <2>2, <2>3, <2>4
  <2>6. QED
    BY <1>5, <2>5
<1> HIDE DEF S
<1>6. n - 1 \in S
  BY <1>3, <1>4, <1>5, Upwards
<1>7. h[n - 1] + a[1] = g[n]
  BY <1>6 DEF S
<1>8. h[n] = h[n - 1] + b[n] /\ h[n] \in Int /\ h[n - 1] \in Int /\ g[n] \in Int /\ b[n] \in Int /\ a[1] \in Int
  <2>1. n \in 1..n /\ n \in 0..n /\ n - 1 \in 0..n /\ 1 \in 1..n
    OBVIOUS
  <2>2. QED
    BY <1>1, <1>2, <2>1 DEF Sums
<1>9. QED
  BY <1>1, <1>2, <1>7, <1>8

-----------------------------------------------------------------------------
(* The temperature sensor                                                  *)

LEMMA Turn ==
  ASSUME NEW m \in Nat \ {0}, NEW w \in 1..m
  PROVE  (w % m) + 1 = IF w < m THEN w + 1 ELSE 1
<1>1. CASE w < m
  <2>1. w \in Int /\ 0 \in Int /\ w \in 0..(m - 1) /\ w = m * 0 + w
    BY <1>1
  <2>2. w % m = w
    BY <2>1, ModOf
  <2>3. QED
    BY <1>1, <2>2
<1>2. CASE w = m
  <2>1. w \in Int /\ 1 \in Int /\ 0 \in 0..(m - 1) /\ w = m * 1 + 0
    BY <1>2
  <2>2. w % m = 0
    BY <2>1, ModOf
  <2>3. QED
    BY <1>2, <2>2
<1>3. QED
  BY <1>1, <1>2

(* RingOK of a ring of size m with c readings, the next to go to w.        *)
Back(s, later) == s[Len(s) - later]
AgeIn(m, w, i) == IF i < w THEN w - 1 - i ELSE w - 1 - i + m
NewestOf(s, n) == [i \in 1..n |-> Back(s, n - i)]
Ring(m, c, w, d, s) ==
    /\ c <= Len(s) /\ (c < m => w = c + 1)
    /\ \A i \in 1..c : d[i] = Back(s, AgeIn(m, w, i))
    /\ Total(d, c) = Total(NewestOf(s, c), c)

(* Every reading of the history is one older.                              *)
LEMMA HistoryGrows ==
  ASSUME NEW s \in Seq(Int), Len(s) <= MaxWindow, NEW x \in Int, NEW t,
         t = LastGood(Append(s, x))
  PROVE  /\ t \in Seq(Int) /\ Len(t) <= MaxWindow /\ Back(t, 0) = x
         /\ Len(t) = (IF Len(s) < MaxWindow THEN Len(s) + 1 ELSE MaxWindow)
         /\ \A j \in Nat : j + 1 < Len(t) => Back(t, j + 1) = Back(s, j)
<1>1. MaxWindow \in Nat \ {0} /\ Len(s) \in Nat
  BY SensorAssumption
<1>2. CASE Len(s) < MaxWindow
  <2>1. t = Append(s, x) /\ Len(t) = Len(s) + 1 /\ t \in Seq(Int)
    BY <1>1, <1>2 DEF LastGood
  <2>2. \A i \in 1..Len(s) : t[i] = s[i]
    BY <2>1
  <2>3. t[Len(s) + 1] = x
    BY <2>1
  <2>4. Back(t, 0) = x
    BY <1>1, <2>1, <2>3 DEF Back
  <2>5. ASSUME NEW j \in Nat, j + 1 < Len(t) PROVE Back(t, j + 1) = Back(s, j)
    <3>1. Len(t) - (j + 1) = Len(s) - j /\ Len(s) - j \in 1..Len(s)
      BY <1>1, <2>1, <2>5
    <3>2. QED
      BY <2>2, <3>1 DEF Back
  <2>6. QED
    BY <1>1, <1>2, <2>1, <2>4, <2>5
<1>3. CASE Len(s) = MaxWindow
  <2> DEFINE u == Append(s, x)
  <2>1. u \in Seq(Int) /\ Len(u) = Len(s) + 1 /\ u # <<>>
    OBVIOUS
  <2>2. t = Tail(u)
    BY <1>1, <1>3, <2>1 DEF LastGood
  <2>3. t \in Seq(Int) /\ Len(t) = Len(s) /\ \A i \in 1..Len(t) : t[i] = u[i + 1]
    BY <2>1, <2>2, HeadTailProperties
  <2>4. t[Len(s)] = x
    BY <1>1, <1>3, <2>3
  <2>5. Back(t, 0) = x
    BY <1>1, <2>3, <2>4 DEF Back
  <2>6. ASSUME NEW j \in Nat, j + 1 < Len(t) PROVE Back(t, j + 1) = Back(s, j)
    <3>0. Len(t) = Len(s)
      BY <2>3
    <3>1. /\ Len(t) - (j + 1) \in 1..Len(t) /\ (Len(t) - (j + 1)) + 1 = Len(s) - j
          /\ Len(s) - j \in 1..Len(s)
      BY <1>1, <2>6, <3>0
    <3>2. t[Len(t) - (j + 1)] = u[Len(s) - j]
      BY <2>3, <3>1
    <3>3. \A i \in 1..Len(s) : u[i] = s[i]
      OBVIOUS
    <3>4. QED
      BY <3>1, <3>2, <3>3 DEF Back
  <2>7. QED
    BY <1>1, <1>3, <2>3, <2>5, <2>6
<1>4. QED
  BY <1>1, <1>2, <1>3

(* The k-th of the last readings, before and after one more.               *)
LEMMA NewestIs ==
  ASSUME NEW s \in Seq(Int), NEW n \in Nat, n <= Len(s)
  PROVE  /\ \A i \in 1..n : NewestOf(s, n)[i] = Back(s, n - i) /\ NewestOf(s, n)[i] \in Int
         /\ \A j \in Nat : j < Len(s) => Back(s, j) \in Int
<1>1. \A j \in Nat : j < Len(s) => Back(s, j) \in Int
  <2>1. \A j \in Nat : j < Len(s) => Len(s) - j \in 1..Len(s)
    OBVIOUS
  <2>2. \A k \in 1..Len(s) : s[k] \in Int
    OBVIOUS
  <2>3. QED
    BY <2>1, <2>2 DEF Back
<1>2. \A i \in 1..n : NewestOf(s, n)[i] = Back(s, n - i)
  BY DEF NewestOf
<1>3. \A i \in 1..n : n - i \in Nat /\ n - i < Len(s)
  OBVIOUS
<1>4. QED
  BY <1>1, <1>2, <1>3

(* k, v and e are the count, the pointer and the data once x is taken.     *)
TookIn(m, c, w, d, x, k, v, e) ==
    /\ v = (IF w < m THEN w + 1 ELSE 1) /\ k = (IF c < m THEN c + 1 ELSE c)
    /\ {d, e} \subseteq [1..m -> Int] /\ e[w] = x /\ \A i \in 1..m : i # w => e[i] = d[i]

LEMMA RingTakes ==
  ASSUME NEW m \in Nat \ {0}, m <= MaxWindow, NEW c \in 0..m, NEW w \in 1..m, NEW d,
         NEW s \in Seq(Int), Len(s) <= MaxWindow, NEW x \in Int, Ring(m, c, w, d, s),
         NEW k, NEW v, NEW e, TookIn(m, c, w, d, x, k, v, e),
         NEW t, t = LastGood(Append(s, x))
  PROVE  Ring(m, k, v, e, t) /\ v \in 1..m /\ k \in 0..m
<1>1. MaxWindow \in Nat \ {0} /\ m \in Nat \ {0} /\ c \in Nat /\ Len(s) \in Nat /\ m <= MaxWindow
  BY SensorAssumption
<1>2. /\ c <= Len(s) /\ (c < m => w = c + 1)
      /\ \A i \in 1..c : d[i] = Back(s, AgeIn(m, w, i))
      /\ Total(d, c) = Total(NewestOf(s, c), c)
  BY DEF Ring
<1>a. v = (IF w < m THEN w + 1 ELSE 1) /\ k = (IF c < m THEN c + 1 ELSE c)
  BY DEF TookIn
<1>3. /\ t \in Seq(Int) /\ Len(t) <= MaxWindow /\ Back(t, 0) = x
      /\ Len(t) = (IF Len(s) < MaxWindow THEN Len(s) + 1 ELSE MaxWindow)
      /\ \A j \in Nat : j + 1 < Len(t) => Back(t, j + 1) = Back(s, j)
  BY HistoryGrows
<1>4. k \in 0..m /\ k <= Len(t) /\ k # 0 /\ Len(t) \in Nat
  <2>1. c <= Len(s) /\ Len(t) = (IF Len(s) < MaxWindow THEN Len(s) + 1 ELSE MaxWindow)
    BY <1>2, <1>3
  <2>2. QED
    BY <1>1, <1>a, <2>1
<1>5. /\ v \in 1..m /\ (c < m /\ c + 1 < m => v = c + 2)
      /\ AgeIn(m, v, w) = 0 /\ (c = m => AgeIn(m, w, w) = m - 1)
      /\ \A i \in 1..c : i # w => /\ AgeIn(m, w, i) \in Nat /\ AgeIn(m, v, i) = AgeIn(m, w, i) + 1
                                  /\ AgeIn(m, w, i) + 1 < (IF c < m THEN c + 1 ELSE m)
  <2>1. c < m => w = c + 1
    BY <1>2
  <2>2. v \in Nat /\ m \in Nat \ {0}
    BY <1>1, <1>a
  <2>3. QED
    BY <1>a, <2>1, <2>2 DEF AgeIn
<1>6. /\ \A i \in 1..m : d[i] \in Int /\ e[i] \in Int
      /\ e[w] = x /\ \A i \in 1..m : i # w => e[i] = d[i]
  BY DEF TookIn
<1>7. k < m => v = k + 1
  BY <1>1, <1>a, <1>5
<1>8. ASSUME NEW i \in 1..k PROVE e[i] = Back(t, AgeIn(m, v, i))
  <2>1. CASE i = w
    BY <1>3, <1>5, <1>6, <2>1
  <2>2. CASE i # w
    <3>1. i \in 1..c /\ i \in 1..m
      BY <1>1, <1>2, <1>a, <2>2
    <3> DEFINE p == AgeIn(m, w, i)
    <3>2. p \in Nat /\ AgeIn(m, v, i) = p + 1 /\ p + 1 < (IF c < m THEN c + 1 ELSE m)
      BY <1>5, <2>2, <3>1
    <3>3. e[i] = d[i] /\ d[i] = Back(s, p)
      BY <1>2, <1>6, <2>2, <3>1
    <3> HIDE DEF p
    <3>4. p + 1 < k \/ p + 1 < Len(t)
      BY <1>1, <1>a, <1>4, <3>2
    <3>5. p + 1 < Len(t)
      BY <1>4, <3>2, <3>4
    <3>6. Back(t, p + 1) = Back(s, p)
      BY <1>3, <3>2, <3>5
    <3>7. QED
      BY <3>2, <3>3, <3>6
  <2>3. QED
    BY <2>1, <2>2
<1>9. /\ \A i \in 1..c : NewestOf(s, c)[i] = Back(s, c - i) /\ NewestOf(s, c)[i] \in Int
      /\ \A j \in Nat : j < Len(s) => Back(s, j) \in Int
  BY <1>1, <1>2, NewestIs
<1>10. \A i \in 1..k : NewestOf(t, k)[i] = Back(t, k - i) /\ NewestOf(t, k)[i] \in Int
  <2>1. k \in Nat /\ k <= Len(t) /\ t \in Seq(Int)
    BY <1>1, <1>3, <1>4
  <2>2. QED
    BY <2>1, NewestIs
<1>11. NewestOf(t, k)[k] = x
  <2>1. k \in 1..k /\ k - k = 0
    BY <1>4
  <2>2. QED
    BY <1>3, <1>10, <2>1
<1>12. Total(e, k) = Total(NewestOf(t, k), k)
  <2>1. CASE c < m
    <3>1. k = c + 1 /\ w = c + 1 /\ c + 1 \in 1..m
      BY <1>1, <1>2, <1>a, <2>1
    <3>2. \A i \in 1..c : d[i] \in Int /\ e[i] = d[i]
      BY <1>1, <1>6, <3>1
    <3>3. e[c + 1] \in Int /\ e[c + 1] = x
      BY <1>6, <3>1
    <3>4. Total(e, c + 1) = Total(d, c) + e[c + 1]
      BY <1>1, <3>2, <3>3, OneMore
    <3>5. ASSUME NEW i \in 1..c PROVE NewestOf(s, c)[i] \in Int /\ NewestOf(t, k)[i] = NewestOf(s, c)[i]
      <4>1. i \in 1..k /\ c - i \in Nat /\ k - i = (c - i) + 1 /\ (c - i) + 1 < Len(t)
        BY <1>1, <1>4, <3>1
      <4>2. Back(t, (c - i) + 1) = Back(s, c - i)
        BY <1>3, <4>1
      <4>3. QED
        BY <1>9, <1>10, <4>1, <4>2
    <3>6. NewestOf(t, k)[c + 1] \in Int /\ NewestOf(t, k)[c + 1] = x
      BY <1>11, <3>1
    <3>7. Total(NewestOf(t, k), c + 1) = Total(NewestOf(s, c), c) + NewestOf(t, k)[c + 1]
      BY <1>1, <3>5, <3>6, OneMore
    <3>8. QED
      BY <1>2, <3>1, <3>3, <3>4, <3>6, <3>7
  <2>2. CASE c = m
    <3>1. k = m /\ w \in 1..c
      BY <1>1, <1>a, <2>2
    <3>2. \A i \in 1..m : d[i] \in Int /\ e[i] \in Int
      BY <1>6
    <3>3. Total(e, m) + d[w] = Total(d, m) + e[w] /\ Total(d, m) \in Int /\ Total(e, m) \in Int
      <4>1. OtherAt(m, w, d, e)
        BY <1>6 DEF OtherAt
      <4>2. m \in Nat /\ w \in 1..m
        BY <1>1
      <4>3. QED
        BY <4>1, <4>2, OneOther
    <3> DEFINE a == NewestOf(s, m)
               b == NewestOf(t, m)
    <3>4. \A i \in 1..m : a[i] \in Int /\ b[i] \in Int
      BY <1>9, <1>10, <2>2, <3>1
    <3>5. ASSUME NEW i \in 1..(m - 1) PROVE b[i] = a[i + 1]
      <4>1. /\ i \in 1..m /\ i + 1 \in 1..m /\ m - (i + 1) \in Nat /\ m - i = (m - (i + 1)) + 1
            /\ (m - (i + 1)) + 1 < Len(t)
        BY <1>1, <1>4, <3>1
      <4>2. Back(t, (m - (i + 1)) + 1) = Back(s, m - (i + 1))
        BY <1>3, <4>1
      <4>3. a[i + 1] = Back(s, m - (i + 1)) /\ b[i] = Back(t, m - i)
        BY <1>9, <1>10, <2>2, <3>1, <4>1
      <4>4. QED
        BY <4>1, <4>2, <4>3
    <3>6. a[1] = d[w] /\ b[m] = x
      <4>1. 1 \in 1..c
        BY <1>1, <2>2
      <4>2. a[1] = Back(s, m - 1)
        BY <1>9, <2>2, <4>1
      <4>3. d[w] = Back(s, m - 1)
        BY <1>2, <1>5, <2>2, <3>1
      <4>4. QED
        BY <1>11, <3>1, <4>2, <4>3
    <3> HIDE DEF a, b
    <3>7. Total(b, m) + a[1] = Total(a, m) + b[m] /\ Total(a, m) \in Int /\ Total(b, m) \in Int
      BY <1>1, <3>4, <3>5, MovesOn
    <3>8. Total(d, m) = Total(a, m)
      BY <1>2, <2>2 DEF a
    <3>9. e[w] = x /\ d[w] \in Int
      BY <1>6, <3>2
    <3>10. Total(e, m) = Total(b, m)
      BY <3>3, <3>6, <3>7, <3>8, <3>9
    <3>11. QED
      BY <3>1, <3>10 DEF b
  <2>3. QED
    BY <1>1, <2>1, <2>2
<1>13. QED
  BY <1>4, <1>5, <1>6, <1>7, <1>8, <1>12 DEF Ring

LEMMA RingEmpty ==
  ASSUME NEW m \in Nat, NEW d, NEW s \in Seq(Int)
  PROVE  Ring(m, 0, 1, d, s)
<1>1. \A data : Total(data, 0) = 0
  <2> TAKE data
  <2>1. PICK h : Sums(h, data, 0) /\ Total(data, 0) = h[0]
    BY TotalIs
  <2>2. QED
    BY <2>1 DEF Sums
<1>2. QED
  BY <1>1 DEF Ring

LEMMA RingIs ==
  /\ RingOK <=> Ring(filter.size, filter.count, filter.write_ptr, filter.data, seen)
  /\ RingOK' <=> Ring(filter'.size, filter'.count, filter'.write_ptr, filter'.data, seen')
BY DEF RingOK, Ring, Age, AgeIn, Sum, Newest, NewestOf, Recent, Back

LEMMA EnqueueIs ==
  ASSUME NEW n \in Nat \ {0}, NEW f \in Filters(n), NEW x \in Int, NEW g, g = Enqueue(f, x)
  PROVE  /\ g \in Filters(n) /\ g.size = f.size /\ f.size = n
         /\ TookIn(n, f.count, f.write_ptr, f.data, x, g.count, g.write_ptr, g.data)
<1>1. /\ f.size = n /\ f.write_ptr \in 1..n /\ f.count \in 0..n /\ f.data \in [1..n -> Int]
      /\ f.alive \in BOOLEAN
  BY DEF Filters
<1>2. PICK v : v = (f.write_ptr % f.size) + 1
  OBVIOUS
<1>3. PICK k : k = IF f.count < f.size THEN f.count + 1 ELSE f.count
  OBVIOUS
<1>4. PICK e : e = [f.data EXCEPT ![f.write_ptr] = x]
  OBVIOUS
<1>5. v = (IF f.write_ptr < n THEN f.write_ptr + 1 ELSE 1)
  BY <1>1, <1>2, Turn
<1>6. v \in 1..n /\ k \in 0..n
  BY <1>1, <1>3, <1>5
<1>7. /\ e \in [1..n -> Int] /\ e[f.write_ptr] = x
      /\ \A i \in 1..n : i # f.write_ptr => e[i] = f.data[i]
  BY <1>1, <1>4
<1>8. g = [f EXCEPT !.data = e, !.write_ptr = v, !.count = k]
  BY <1>2, <1>3, <1>4 DEF Enqueue
<1>9. g \in Filters(n) /\ g.size = f.size /\ g.count = k /\ g.write_ptr = v /\ g.data = e
  BY <1>6, <1>7, <1>8 DEF Filters
<1>10. TookIn(n, f.count, f.write_ptr, f.data, x, k, v, e)
  BY <1>1, <1>3, <1>5, <1>7 DEF TookIn
<1>11. QED
  BY <1>1, <1>9, <1>10

LEMMA NewFilterIs ==
  ASSUME NEW n \in Nat \ {0}
  PROVE  /\ NewFilter(n) \in Filters(n) /\ NewFilter(n).size = n /\ NewFilter(n).count = 0
         /\ NewFilter(n).write_ptr = 1
BY DEF NewFilter, Filters

LEMMA ClampIs ==
  ASSUME NEW w \in Nat
  PROVE  ClampFilterWindow(w) \in 1..MaxWindow /\ (w \in 1..MaxWindow => ClampFilterWindow(w) = w)
BY SensorAssumption DEF ClampFilterWindow

(* All of SensorInv but what follows from the rest.                        *)
SensorCore ==
    /\ SensorTypeOK /\ RingOK /\ FilterFits
    /\ synced = "verified" => emissivity = "wanted"

LEMMA SensorShows == SensorCore => SensorInv
<1> SUFFICES ASSUME SensorCore PROVE SensorInv
  OBVIOUS
<1>1. SensorTypeOK /\ RingOK /\ FilterFits /\ (synced = "verified" => emissivity = "wanted")
  BY DEF SensorCore
<1>2. PICK n \in 1..MaxWindow : filter \in Filters(n)
  BY <1>1 DEF SensorTypeOK
<1>3. n \in Nat \ {0} /\ filter.size = n /\ filter.count \in 0..n /\ filter_window \in Nat
  BY <1>1, <1>2, SensorAssumption DEF Filters, SensorTypeOK
<1>4. ASSUME ~raced, IsHealthy, poll.step # "mean", filter_request = "none"
      PROVE  /\ filter.count = filter.size /\ filter.size = filter_window
             /\ object_temp = <<Total(Newest(filter_window), filter_window), filter_window>>
  <2>1. filter.size = filter_window /\ filter.count = filter.size
    BY <1>1, <1>3, <1>4 DEF FilterFits, IsHealthy, IsInitializing
  <2>2. object_temp = <<Sum(filter), filter.count>>
    BY <1>1, <1>3, <1>4, <2>1 DEF FilterFits, Mean
  <2>3. Sum(filter) = Total(Newest(filter.count), filter.count)
    BY <1>1 DEF RingOK
  <2>4. QED
    BY <2>1, <2>2, <2>3
<1>5. QED
  BY <1>1, <1>4 DEF SensorInv

LEMMA SensorStarts == SensorInit => SensorCore
<1> SUFFICES ASSUME SensorInit PROVE SensorCore
  OBVIOUS
<1>1. MaxWindow \in Nat \ {0} /\ MaxFailures \in Nat \ {0} /\ 1 \in 1..MaxWindow
  BY SensorAssumption
<1>2. /\ filter = NewFilter(1) /\ seen = <<>> /\ filter_window = 1 /\ synced = "no"
      /\ sensor = "off" /\ failures = 0 /\ poll = [step |-> "idle"] /\ filter_request = "none"
      /\ raced = FALSE /\ emissivity = "other"
  BY DEF SensorInit, SensorOff
<1>3. filter \in Filters(1) /\ filter.size = 1 /\ filter.count = 0 /\ filter.write_ptr = 1
  BY <1>2, NewFilterIs
<1>4. seen \in Seq(Int) /\ Len(seen) = 0
  BY <1>2
<1>5. SensorTypeOK
  <2>1. poll \in [step : {"idle", "mean"}]
    BY <1>2
  <2>2. \E size \in 1..MaxWindow : filter \in Filters(size)
    BY <1>1, <1>3
  <2>3. failures \in 0..MaxFailures /\ filter_window \in 1..MaxWindow /\ Len(seen) <= MaxWindow
    BY <1>1, <1>2, <1>4
  <2>4. QED
    BY <1>2, <1>4, <2>1, <2>2, <2>3 DEF SensorTypeOK
<1>6. RingOK
  <2>1. Ring(1, 0, 1, filter.data, seen)
    BY <1>4, RingEmpty
  <2>2. QED
    BY <1>3, <2>1, RingIs
<1>7. FilterFits
  BY <1>2, <1>3 DEF FilterFits
<1>8. QED
  BY <1>2, <1>5, <1>6, <1>7 DEF SensorCore

(* What a step makes of the filter, and of the history.                    *)
LEMMA FilterStep ==
  ASSUME SensorTypeOK, SensorNext
  PROVE  \/ /\ UNCHANGED <<filter, seen>>
            /\ filter_request' = "delete" \/ UNCHANGED <<filter_request, filter_window>>
         \/ /\ poll.step = "enqueue" /\ filter' = Enqueue(filter, poll.reading)
            /\ seen' = LastGood(Append(seen, poll.reading)) /\ filter_request' = filter_request
            /\ filter_window' = filter_window /\ poll'.step = "mean"
         \/ /\ filter_request' = "new" /\ filter' = [filter EXCEPT !.alive = FALSE]
            /\ seen' = seen
         \/ \E n \in 1..MaxWindow :
                /\ filter' = NewFilter(n) /\ seen' \in {seen, <<>>}
                /\ filter_request' = "none" \/ filter_request' = filter_request
                /\ filter_window' = n
<1>1. filter_window \in 1..MaxWindow /\ filter_window \in Nat /\ 1 \in 1..MaxWindow
  BY SensorAssumption DEF SensorTypeOK
<1>2. ASSUME NEW w \in Windows, SensorBoot(w)
      PROVE  /\ w \in 1..MaxWindow /\ filter' = NewFilter(w) /\ seen' = seen
             /\ filter_request' = filter_request /\ filter_window' = w
  <2>1. w \in 1..MaxWindow /\ w \in Nat
    BY <1>2, SensorAssumption DEF SensorBoot
  <2>2. QED
    BY <1>2, <2>1, ClampIs DEF SensorBoot
<1>3. ASSUME SensorRestart
      PROVE  filter' = NewFilter(1) /\ seen' = <<>> /\ filter_request' = "none" /\ filter_window' = 1
  BY <1>3 DEF SensorRestart
<1>4. ASSUME RecreateFilter
      PROVE  /\ filter' = NewFilter(filter_window) /\ seen' = <<>> /\ filter_request' = "none"
             /\ filter_window' = filter_window
  BY <1>1, <1>4, ClampIs DEF RecreateFilter
<1>5. ASSUME SensorEnqueue
      PROVE  \/ UNCHANGED <<filter, seen, filter_request, filter_window>>
             \/ /\ poll.step = "enqueue" /\ filter' = Enqueue(filter, poll.reading)
                /\ seen' = LastGood(Append(seen, poll.reading)) /\ filter_request' = filter_request
                /\ filter_window' = filter_window /\ poll'.step = "mean"
  BY <1>5 DEF SensorEnqueue
<1>6. ASSUME DeleteFilter
      PROVE  filter_request' = "new" /\ filter' = [filter EXCEPT !.alive = FALSE] /\ seen' = seen
  BY <1>6 DEF DeleteFilter
<1>7. ASSUME \/ \E w \in Windows : SensorWindow(w)
             \/ \E reading \in Readings : SensorRead(reading)
             \/ EraseInterrupted \/ SensorEmissivity \/ SensorReadFails \/ SensorMean
      PROVE  /\ UNCHANGED <<filter, seen>>
             /\ filter_request' = "delete" \/ UNCHANGED <<filter_request, filter_window>>
  BY <1>7 DEF SensorWindow, SensorRead, EraseInterrupted, SensorEmissivity, SensorReadFails, SensorMean
<1>8. QED
  BY <1>1, <1>2, <1>3, <1>4, <1>5, <1>6, <1>7 DEF SensorNext

(* The ring and its history stay what they are to each other.              *)
LEMMA RingStep ==
  ASSUME SensorTypeOK, RingOK, SensorNext
  PROVE  /\ \E n \in 1..MaxWindow : filter' \in Filters(n)
         /\ seen' \in Seq(Int) /\ Len(seen') <= MaxWindow /\ RingOK'
<1>1. PICK n \in 1..MaxWindow : filter \in Filters(n)
  BY DEF SensorTypeOK
<1>2. n \in Nat \ {0} /\ n <= MaxWindow /\ MaxWindow \in Nat \ {0}
  BY SensorAssumption
<1>3. /\ filter.size = n /\ filter.count \in 0..n /\ filter.write_ptr \in 1..n
      /\ filter.data \in [1..n -> Int]
  BY <1>1 DEF Filters
<1>4. seen \in Seq(Int) /\ Len(seen) <= MaxWindow
  BY DEF SensorTypeOK
<1>5. Ring(n, filter.count, filter.write_ptr, filter.data, seen)
  BY <1>3, RingIs
<1>6. CASE UNCHANGED <<filter, seen>>
  <2>1. RingOK'
    BY <1>3, <1>5, <1>6, RingIs
  <2>2. QED
    BY <1>1, <1>4, <1>6, <2>1
<1>7. CASE /\ poll.step = "enqueue" /\ filter' = Enqueue(filter, poll.reading)
           /\ seen' = LastGood(Append(seen, poll.reading))
  <2>1. poll.reading \in Int
    BY <1>7, SensorAssumption DEF SensorTypeOK
  <2>2. PICK x \in Int : x = poll.reading
    BY <2>1
  <2>3. PICK g : g = Enqueue(filter, x)
    OBVIOUS
  <2>4. PICK t : t = LastGood(Append(seen, x))
    OBVIOUS
  <2>5. filter' = g /\ seen' = t
    BY <1>7, <2>2, <2>3, <2>4
  <2>6. /\ g \in Filters(n) /\ g.size = n
        /\ TookIn(n, filter.count, filter.write_ptr, filter.data, x, g.count, g.write_ptr, g.data)
    BY <1>1, <1>2, <2>3, EnqueueIs
  <2>7. t \in Seq(Int) /\ Len(t) <= MaxWindow
    BY <1>4, <2>4, HistoryGrows
  <2>8. Ring(n, g.count, g.write_ptr, g.data, t)
    <3>1. PICK c, w, d, s : c = filter.count /\ w = filter.write_ptr /\ d = filter.data /\ s = seen
      OBVIOUS
    <3>2. c \in 0..n /\ w \in 1..n /\ s \in Seq(Int) /\ Len(s) <= MaxWindow
      BY <1>3, <1>4, <3>1
    <3>3. Ring(n, c, w, d, s) /\ TookIn(n, c, w, d, x, g.count, g.write_ptr, g.data)
      BY <1>5, <2>6, <3>1
    <3>4. t = LastGood(Append(s, x))
      BY <2>4, <3>1
    <3>5. QED
      BY <1>2, <3>2, <3>3, <3>4, RingTakes
  <2>9. RingOK'
    BY <2>5, <2>6, <2>8, RingIs
  <2>10. QED
    BY <1>1, <2>5, <2>6, <2>7, <2>9
<1>8. CASE filter' = [filter EXCEPT !.alive = FALSE] /\ seen' = seen
  <2>1. filter' \in Filters(n)
    BY <1>1, <1>8 DEF Filters
  <2>2. /\ filter'.size = filter.size /\ filter'.count = filter.count
        /\ filter'.write_ptr = filter.write_ptr /\ filter'.data = filter.data
    BY <1>1, <1>8 DEF Filters
  <2>3. RingOK'
    BY <1>3, <1>5, <1>8, <2>2, RingIs
  <2>4. QED
    BY <1>1, <1>4, <1>8, <2>1, <2>3
<1>9. ASSUME NEW k \in 1..MaxWindow, filter' = NewFilter(k), seen' \in {seen, <<>>}
      PROVE  /\ \E m \in 1..MaxWindow : filter' \in Filters(m)
             /\ seen' \in Seq(Int) /\ Len(seen') <= MaxWindow /\ RingOK'
  <2>1. k \in Nat \ {0}
    BY <1>2, <1>9
  <2>2. filter' \in Filters(k) /\ filter'.size = k /\ filter'.count = 0 /\ filter'.write_ptr = 1
    BY <1>9, <2>1, NewFilterIs
  <2>3. seen' \in Seq(Int) /\ Len(seen') <= MaxWindow
    <3>1. CASE seen' = seen
      BY <1>4, <3>1
    <3>2. CASE seen' = <<>>
      <4>1. <<>> \in Seq(Int) /\ Len(<<>>) = 0 /\ 0 <= MaxWindow
        BY <1>2
      <4>2. QED
        BY <3>2, <4>1
    <3>3. QED
      BY <1>9, <3>1, <3>2
  <2>4. Ring(k, 0, 1, filter'.data, seen')
    BY <2>1, <2>3, RingEmpty
  <2>5. RingOK'
    BY <2>2, <2>4, RingIs
  <2>6. QED
    BY <1>9, <2>2, <2>3, <2>5
<1>10. QED
  BY <1>6, <1>7, <1>8, <1>9, FilterStep

LEMMA SensorTypeStep ==
  ASSUME SensorTypeOK, RingOK, SensorNext
  PROVE  SensorTypeOK'
<1>1. MaxWindow \in Nat \ {0} /\ MaxFailures \in Nat \ {0}
  BY SensorAssumption
<1>2. /\ sensor \in {"off", "absent", "present"} /\ emissivity \in {"other", "erased", "wanted"}
      /\ synced \in {"no", "unread", "failed", "verified"}
      /\ failures \in 0..MaxFailures /\ filter_window \in 1..MaxWindow
      /\ filter_request \in {"none", "delete", "new"} /\ raced \in BOOLEAN
      /\ \E size \in 1..MaxWindow : filter \in Filters(size)
  BY DEF SensorTypeOK
<1>3. poll \in [step : {"idle", "mean"}] \cup [step : {"enqueue"}, reading : Readings, stale : BOOLEAN]
  BY DEF SensorTypeOK
<1>4. filter.alive \in BOOLEAN
  BY <1>2 DEF Filters
<1>5. ASSUME NEW w \in Windows PROVE w \in Nat /\ ClampFilterWindow(w) \in 1..MaxWindow
  BY SensorAssumption, ClampIs
<1>6. sensor' \in {"off", "absent", "present"} /\ filter_request' \in {"none", "delete", "new"}
  BY <1>2 DEF SensorNext, SensorBoot, SensorWindow, SensorRead, EraseInterrupted, SensorEmissivity,
              SensorRestart, SensorReadFails, SensorEnqueue, SensorMean, DeleteFilter, RecreateFilter
<1>7. emissivity' \in {"other", "erased", "wanted"} /\ synced' \in {"no", "unread", "failed", "verified"}
  BY <1>2 DEF SensorNext, SensorBoot, SensorWindow, SensorRead, EraseInterrupted, SensorEmissivity,
              SensorRestart, SensorReadFails, SensorEnqueue, SensorMean, DeleteFilter, RecreateFilter,
              SyncEmissivity, WriteEmissivity
<1>8. failures' \in 0..MaxFailures
  BY <1>1, <1>2 DEF SensorNext, SensorBoot, SensorWindow, SensorRead, EraseInterrupted, SensorEmissivity,
              SensorRestart, SensorReadFails, SensorEnqueue, SensorMean, DeleteFilter, RecreateFilter
<1>9. filter_window' \in 1..MaxWindow
  BY <1>1, <1>2, <1>5 DEF SensorNext, SensorBoot, SensorWindow, SensorRead, EraseInterrupted,
              SensorEmissivity, SensorRestart, SensorReadFails, SensorEnqueue, SensorMean, DeleteFilter,
              RecreateFilter
<1>10. poll' \in [step : {"idle", "mean"}] \cup [step : {"enqueue"}, reading : Readings, stale : BOOLEAN]
  <2>1. ASSUME NEW reading \in Readings, SensorRead(reading)
        PROVE  poll' \in [step : {"enqueue"}, reading : Readings, stale : BOOLEAN]
    <3>1. PICK b \in BOOLEAN : b = ~filter.alive
      OBVIOUS
    <3>2. poll' = [step |-> "enqueue", reading |-> reading, stale |-> b]
      BY <2>1, <3>1 DEF SensorRead
    <3>3. QED
      BY <3>1, <3>2
  <2>2. CASE DeleteFilter
    <3>1. CASE poll.step = "enqueue"
      <4>1. poll \in [step : {"enqueue"}, reading : Readings, stale : BOOLEAN]
        BY <1>3, <3>1
      <4>2. poll' = [poll EXCEPT !.stale = TRUE]
        BY <2>2, <3>1 DEF DeleteFilter
      <4>3. QED
        BY <4>1, <4>2
    <3>2. CASE poll.step # "enqueue"
      BY <1>3, <2>2, <3>2 DEF DeleteFilter
    <3>3. QED
      BY <3>1, <3>2
  <2>3. ASSUME SensorRestart \/ SensorMean \/ SensorEnqueue
        PROVE  poll' \in [step : {"idle", "mean"}]
    BY <2>3 DEF SensorRestart, SensorMean, SensorEnqueue
  <2>4. ASSUME \/ \E w \in Windows : SensorBoot(w) \/ SensorWindow(w)
               \/ EraseInterrupted \/ SensorEmissivity \/ SensorReadFails \/ RecreateFilter
        PROVE  poll' = poll
    BY <2>4 DEF SensorBoot, SensorWindow, EraseInterrupted, SensorEmissivity, SensorReadFails, RecreateFilter
  <2>5. QED
    BY <1>3, <2>1, <2>2, <2>3, <2>4 DEF SensorNext
<1>11. raced' \in BOOLEAN
  <2>1. ASSUME SensorEnqueue \/ SensorMean PROVE raced' \in BOOLEAN
    <3>1. \E a \in BOOLEAN : raced' = a
      BY <2>1, Zenon DEF SensorEnqueue, SensorMean
    <3>2. QED
      BY <3>1
  <2>2. ASSUME ~(SensorEnqueue \/ SensorMean) PROVE raced' \in {raced, FALSE}
    BY <2>2 DEF SensorNext, SensorBoot, SensorWindow, SensorRead, EraseInterrupted, SensorEmissivity,
                SensorRestart, SensorReadFails, DeleteFilter, RecreateFilter
  <2>3. QED
    BY <1>2, <2>1, <2>2
<1>12. /\ \E n \in 1..MaxWindow : filter' \in Filters(n)
       /\ seen' \in Seq(Int) /\ Len(seen') <= MaxWindow
  BY RingStep
<1>13. QED
  BY <1>6, <1>7, <1>8, <1>9, <1>10, <1>11, <1>12 DEF SensorTypeOK

LEMMA FitsStep ==
  ASSUME SensorTypeOK, FilterFits, SensorNext
  PROVE  FilterFits'
<1>1. PICK n \in 1..MaxWindow : filter \in Filters(n)
  BY DEF SensorTypeOK
<1>2. filter_request' = "none" => filter'.size = filter_window'
  <2>1. filter_request = "none" => filter.size = filter_window
    BY DEF FilterFits
  <2>2. ASSUME NEW k \in 1..MaxWindow PROVE NewFilter(k).size = k
    BY NewFilterIs
  <2>3. ASSUME poll.step = "enqueue" PROVE Enqueue(filter, poll.reading).size = filter.size
    <3>1. poll.reading \in Int
      BY <2>3, SensorAssumption DEF SensorTypeOK
    <3>2. n \in Nat \ {0}
      BY SensorAssumption
    <3>3. QED
      BY <1>1, <3>1, <3>2, EnqueueIs
  <2>4. QED
    BY <2>1, <2>2, <2>3, FilterStep
<1>3. ASSUME ~raced', poll'.step # "mean", filter'.count > 0 PROVE object_temp' = Mean(filter')
  <2>1. ~raced /\ poll.step # "mean" /\ filter.count > 0 => object_temp = Mean(filter)
    BY DEF FilterFits
  <2>2. ASSUME NEW k \in 1..MaxWindow PROVE NewFilter(k).count = 0
    BY NewFilterIs
  <2>3. 1 \in 1..MaxWindow /\ filter_window \in 1..MaxWindow /\ filter_window \in Nat
    BY SensorAssumption DEF SensorTypeOK
  <2>4. ~(\E w \in Windows : SensorBoot(w))
    <3>1. ASSUME NEW w \in Windows, SensorBoot(w) PROVE FALSE
      <4>1. filter' = NewFilter(ClampFilterWindow(w)) /\ ClampFilterWindow(w) \in 1..MaxWindow
        BY <3>1, SensorAssumption, ClampIs DEF SensorBoot
      <4>2. filter'.count = 0
        BY <2>2, <4>1
      <4>3. QED
        BY <1>3, <4>2
    <3>2. QED
      BY <3>1
  <2>5. ~SensorRestart /\ ~RecreateFilter
    <3>1. ASSUME SensorRestart \/ RecreateFilter PROVE FALSE
      <4>1. filter' = NewFilter(1) \/ filter' = NewFilter(ClampFilterWindow(filter_window))
        BY <3>1 DEF SensorRestart, RecreateFilter
      <4>2. filter'.count = 0
        BY <2>2, <2>3, <4>1, ClampIs
      <4>3. QED
        BY <1>3, <4>2
    <3>2. QED
      BY <3>1
  <2>6. ~SensorEnqueue
    <3>1. ASSUME SensorEnqueue PROVE FALSE
      BY <1>3, <3>1 DEF SensorEnqueue
    <3>2. QED
      BY <3>1
  <2>7. CASE SensorMean
    <3>1. raced' = (raced \/ ~filter.alive) /\ filter' = filter
          /\ object_temp' = IF filter.alive THEN Mean(filter) ELSE object_temp
      BY <2>7, Zenon DEF SensorMean
    <3>2. filter.alive
      BY <1>3, <3>1, Zenon
    <3>3. QED
      BY <3>1, <3>2
  <2>8. CASE \E reading \in Readings : SensorRead(reading)
    <3>1. poll.step = "idle" /\ UNCHANGED <<filter, object_temp, raced>>
      BY <2>8 DEF SensorRead
    <3>2. QED
      BY <1>3, <2>1, <3>1
  <2>9. CASE DeleteFilter
    <3>1. poll'.step = poll.step
      <4>1. poll \in [step : {"idle", "mean"}] \cup [step : {"enqueue"}, reading : Readings, stale : BOOLEAN]
        BY DEF SensorTypeOK
      <4>2. [poll EXCEPT !.stale = TRUE].step = poll.step
        BY <4>1
      <4>3. QED
        BY <2>9, <4>2 DEF DeleteFilter
    <3>2. filter' = [filter EXCEPT !.alive = FALSE] /\ UNCHANGED <<object_temp, raced>>
      BY <2>9 DEF DeleteFilter
    <3>3. filter'.count = filter.count /\ filter'.data = filter.data
      BY <1>1, <3>2 DEF Filters
    <3>4. Mean(filter') = Mean(filter)
      BY <3>3 DEF Mean, Sum
    <3>5. QED
      BY <1>3, <2>1, <3>1, <3>2, <3>3, <3>4
  <2>10. CASE \/ \E w \in Windows : SensorWindow(w)
              \/ EraseInterrupted \/ SensorEmissivity \/ SensorReadFails
    <3>1. UNCHANGED <<filter, poll, object_temp, raced>>
      BY <2>10 DEF SensorWindow, EraseInterrupted, SensorEmissivity, SensorReadFails
    <3>2. QED
      BY <1>3, <2>1, <3>1
  <2>11. QED
    BY <2>4, <2>5, <2>6, <2>7, <2>8, <2>9, <2>10 DEF SensorNext
<1>4. QED
  BY <1>2, <1>3 DEF FilterFits

LEMMA EmissivityStep ==
  ASSUME synced = "verified" => emissivity = "wanted", SensorNext
  PROVE  synced' = "verified" => emissivity' = "wanted"
BY DEF SensorNext, SensorBoot, SensorWindow, SensorRead, EraseInterrupted, SensorEmissivity,
       SensorRestart, SensorReadFails, SensorEnqueue, SensorMean, DeleteFilter, RecreateFilter,
       SyncEmissivity, WriteEmissivity

(* Of a sensor on its own, for every window and every reading: what a      *)
(* healthy one shows is the average of the newest readings of a full       *)
(* window, unless a request for another window has hit a poll, and a       *)
(* verified emissivity is the wanted one.                                  *)
THEOREM ReadingsAreShown == SensorSpec => []SensorInv
<1>1. SensorInit => SensorCore
  BY SensorStarts
<1>2. SensorCore /\ [SensorNext]_sensor_vars => SensorCore'
  <2> SUFFICES ASSUME SensorCore, [SensorNext]_sensor_vars PROVE SensorCore'
    OBVIOUS
  <2>1. SensorTypeOK /\ RingOK /\ FilterFits /\ (synced = "verified" => emissivity = "wanted")
    BY DEF SensorCore
  <2>2. CASE SensorNext
    <3>1. SensorTypeOK' /\ RingOK' /\ FilterFits'
      BY <2>1, <2>2, SensorTypeStep, RingStep, FitsStep
    <3>2. synced' = "verified" => emissivity' = "wanted"
      BY <2>1, <2>2, EmissivityStep
    <3>3. QED
      BY <3>1, <3>2 DEF SensorCore
  <2>3. CASE UNCHANGED sensor_vars
    BY <2>1, <2>3 DEF sensor_vars, SensorCore, SensorTypeOK, RingOK, FilterFits, Age, Sum, Newest,
                      Recent, Mean
  <2>4. QED
    BY <2>2, <2>3
<1>3. QED
  BY <1>1, <1>2, SensorShows, PTL DEF SensorSpec

-----------------------------------------------------------------------------
(* The drivers together                                                    *)

(* What each driver promises when it runs alone it promises on a board     *)
(* where any of them may be the one that runs: they share no state.        *)
THEOREM DriversKeepTheirPromises ==
  Spec => [](FeederInv /\ WirelessInv /\ DhcpInv /\ InputInv /\ SensorInv)
<1>1. Init => MotorInit /\ WirelessInit /\ DhcpInit /\ InputInit /\ SensorInit
  BY DEF Init
<1>2. [Next]_vars => [MotorNext]_motor_vars
  BY DEF Next, vars
<1>3. [Next]_vars => [WirelessNext]_wireless_vars
  BY DEF Next, vars
<1>4. [Next]_vars => [DhcpNext]_dhcp_vars
  BY DEF Next, vars
<1>5. [Next]_vars => [InputNext]_input_vars
  BY DEF Next, vars
<1>6. [Next]_vars => [SensorNext]_sensor_vars
  BY DEF Next, vars
<1>7. Spec => MotorSpec /\ WirelessSpec /\ DhcpSpec /\ InputSpec /\ SensorSpec
  BY <1>1, <1>2, <1>3, <1>4, <1>5, <1>6, PTL
     DEF Spec, MotorSpec, WirelessSpec, DhcpSpec, InputSpec, SensorSpec
<1>8. QED
  BY <1>7, PulsesFitTheirDirection, NetworkIsShown, LeasesAreExclusive, PressesAreTold,
     ReadingsAreShown, PTL
=============================================================================
