---------------------------- MODULE MemoryProofs -----------------------------
(***************************************************************************)
(* Proofs about the memory manager, for any layout of memory that meets    *)
(* the assumptions of Memory and any sequence of requests: the lists of    *)
(* virtual address blocks, the search for free pages, the page tables and  *)
(* what the blocks find in them.                                           *)
(*                                                                         *)
(* The argument: what the rounds of a loop keep, the loop keeps;           *)
(* get_free_pages leaves a sound state or says truly that nothing is left; *)
(* set_virtual_entry, by induction on the page tables that are missing,    *)
(* maps its page or faults because of a cycle of tables; each operation    *)
(* keeps the invariant FullInv.                                            *)
(***************************************************************************)
EXTENDS Memory, FiniteSets, SequenceTheorems, NaturalsInduction,
        WellFoundedInduction, FiniteSetTheorems, TLAPS

(* Regions.                                                                *)

(* Pages and regions: a region is T pages.                                 *)
LEMMA RegionBounds ==
  ASSUME NEW p \in Nat
  PROVE  /\ Region(p) \in Nat
         /\ Region(p) * T <= p /\ p < (Region(p) + 1) * T
BY LayoutAssumption DEF Region

(* A higher page is in no lower region.                                    *)
LEMMA RegionMonotonic ==
  ASSUME NEW p \in Nat, NEW q \in Nat, p <= q
  PROVE  Region(p) <= Region(q)
BY LayoutAssumption DEF Region

(* A page from the start of a region on is in that region or above.        *)
LEMMA RegionFrom ==
  ASSUME NEW p \in Nat, NEW r \in Nat, r * T <= p
  PROVE  r <= Region(p)
BY LayoutAssumption DEF Region

(* A page before the start of a region is in a region below it.            *)
LEMMA RegionBelow ==
  ASSUME NEW p \in Nat, NEW r \in Nat, p < r * T
  PROVE  Region(p) < r
BY LayoutAssumption DEF Region

(* A region starts at a multiple of T.                                     *)
LEMMA Multiple ==
  ASSUME NEW r \in Nat
  PROVE  (r * T) % T = 0 /\ Region(r * T) = r
BY LayoutAssumption DEF Region

(* A multiple of T starts a region.                                        *)
LEMMA ModZero ==
  ASSUME NEW p \in Nat, p % T = 0
  PROVE  p = Region(p) * T
BY LayoutAssumption DEF Region

-----------------------------------------------------------------------------
(* Induction and loops.                                                    *)

(* The order of the numbers, as a relation.                                *)
Less == {ss \in Nat \X Nat : ss[1] < ss[2]}

(* It is well-founded.                                                     *)
LEMMA LessWellFounded == IsWellFoundedOn(Less, Nat)
BY NatLessThanWellFounded, Zenon DEF OpToRel, Less

(* Every set of numbers has a least one.                                   *)
LEMMA LeastNumber ==
  ASSUME NEW S \in SUBSET Nat, S # {}
  PROVE  \E x \in S : \A y \in S : x <= y
<1>1. PICK x \in S : \A y \in S : ~(<<y, x>> \in Less)
  BY LessWellFounded, WFMin, Zenon
<1>2. ASSUME NEW y \in S PROVE ~(y < x)
  <2>1. y \in Nat /\ x \in Nat /\ <<y, x>> \notin Less
    BY <1>1
  <2>2. <<y, x>> \in Nat \X Nat /\ <<y, x>>[1] = y /\ <<y, x>>[2] = x
    BY <2>1
  <2> QED
    BY <2>1, <2>2, Zenon DEF Less
<1>3. \A y \in S : x <= y
  BY <1>2
<1> QED
  BY <1>3

(* Min, which picks the first run and the first zone.                      *)
LEMMA MinProperties ==
  ASSUME NEW S \in SUBSET Nat, S # {}
  PROVE  Min(S) \in S /\ \A y \in S : Min(S) <= y
BY LeastNumber, Zenon DEF Min

(* Induction, on the set of the numbers for which a claim holds.           *)
LEMMA Induction ==
  ASSUME NEW S, 0 \in S, \A k \in Nat : k \in S => k + 1 \in S
  PROVE  Nat \subseteq S
<1> SUFFICES ASSUME Nat \ S # {} PROVE FALSE
  OBVIOUS
<1>1. PICK x \in Nat \ S : \A y \in Nat \ S : x <= y
  BY LeastNumber
<1>2. x - 1 \in Nat /\ x - 1 \in S
  BY <1>1
<1> QED
  BY <1>1, <1>2

(* The same, up to a bound.                                                *)
LEMMA InductionTo ==
  ASSUME NEW n \in Nat, NEW S, 0 \in S, \A k \in 1..n : k - 1 \in S => k \in S
  PROVE  0..n \subseteq S
<1> DEFINE R == {k \in Nat : k \in 0..n => k \in S}
<1>1. ASSUME NEW k \in Nat, k \in R PROVE k + 1 \in R
  BY <1>1
<1>2. Nat \subseteq R
  <2>1. 0 \in R
    OBVIOUS
  <2> HIDE DEF R
  <2> QED
    BY <1>1, <2>1, Induction
<1> QED
  BY <1>2

(* What a loop with body G leaves is in the last of sets that its steps    *)
(* lead through; x[i] is the state after i steps.                          *)
LEMMA StepsLead ==
  ASSUME NEW n \in Nat, NEW I, NEW x, x[0] \in I[0],
         \A k \in 1..n : x[k - 1] \in I[k - 1] => x[k] \in I[k]
  PROVE  \A k \in 0..n : x[k] \in I[k]
<1> DEFINE S == {k \in 0..n : x[k] \in I[k]}
<1>1. 0 \in S
  OBVIOUS
<1>2. ASSUME NEW k \in 1..n, k - 1 \in S PROVE k \in S
  BY <1>2
<1> HIDE DEF S
<1>3. 0..n \subseteq S
  BY <1>1, <1>2, InductionTo
<1> QED
  BY <1>3 DEF S

(* x lists the states of n rounds of G from m.                             *)
StatesOf(x, G, m, n) == x = [k \in 0..n |-> IF k = 0 THEN m ELSE G[k][x[k - 1]]]

(* A loop whose rounds stay within given sets has its list of states.      *)
LEMMA Steps ==
  ASSUME NEW n \in Nat, NEW m, NEW U, NEW I, NEW G,
         \A k \in 0..n : I[k] \subseteq U, m \in I[0],
         \A k \in 1..n : \A s \in I[k - 1] : G[k][s] \in I[k]
  PROVE  \E x : StatesOf(x, G, m, n) /\ \A k \in 0..n : x[k] \in I[k]
<1> DEFINE Eq(x, j) == x = [k \in 0..j |-> IF k = 0 THEN m ELSE G[k][x[k - 1]]]
           S == {j \in Nat : \E x : Eq(x, j)}
<1>1. 0 \in S
  <2> DEFINE x == [k \in 0..0 |-> m]
  <2>1. Eq(x, 0)
    OBVIOUS
  <2> QED
    BY <2>1
<1>2. ASSUME NEW j \in Nat, j \in S PROVE j + 1 \in S
  <2>1. PICK x : Eq(x, j)
    BY <1>2
  <2> DEFINE y == [k \in 0..j + 1 |-> IF k = j + 1 THEN G[j + 1][x[j]] ELSE x[k]]
  <2>2. ASSUME NEW k \in 0..j + 1
        PROVE  y[k] = IF k = 0 THEN m ELSE G[k][y[k - 1]]
    <3>1. CASE k = j + 1
      BY <3>1
    <3>2. CASE k # j + 1
      <4>1. k \in 0..j /\ (k # 0 => k - 1 \in 0..j /\ k - 1 # j + 1)
        BY <3>2
      <4>2. x[k] = IF k = 0 THEN m ELSE G[k][x[k - 1]]
        BY <2>1, <4>1
      <4> QED
        BY <4>1, <4>2
    <3> QED
      BY <3>1, <3>2
  <2> DEFINE h == [k \in 0..j + 1 |-> IF k = 0 THEN m ELSE G[k][y[k - 1]]]
  <2>3. y = h
    <3>1. /\ DOMAIN y = 0..j + 1 /\ DOMAIN h = 0..j + 1
          /\ y = [k \in DOMAIN y |-> y[k]] /\ h = [k \in DOMAIN h |-> h[k]]
      OBVIOUS
    <3>2. \A k \in 0..j + 1 : y[k] = h[k]
      BY <2>2
    <3> QED
      BY <3>1, <3>2, Zenon
  <2>4. \E z : Eq(z, j + 1)
    BY <2>3, Zenon
  <2> QED
    BY <2>4
<1>3. n \in S
  BY <1>1, <1>2, Induction
<1>4. PICK x : Eq(x, n)
  BY <1>3
<1>5. \A k \in 0..n : x[k] \in I[k]
  <2>1. x[0] \in I[0]
    BY <1>4
  <2>2. ASSUME NEW k \in 1..n, x[k - 1] \in I[k - 1] PROVE x[k] \in I[k]
    <3>1. x[k] = G[k][x[k - 1]]
      BY <1>4
    <3> QED
      BY <2>2, <3>1
  <2> QED
    BY <2>1, <2>2, StepsLead
<1> QED
  BY <1>4, <1>5 DEF StatesOf

(* The loop over set_virtual_entry and set_linear_entry.                   *)
LEMMA IdentityLoop ==
  ASSUME NEW n \in Nat, NEW a \in Nat, NEW m, NEW U, NEW I,
         \A k \in 0..n : I[k] \subseteq U, m \in I[0],
         \A k \in 1..n : \A s \in I[k - 1] : Identity(s, a + k - 1) \in I[k]
  PROVE  Loop(Identity, m, a, n) \in I[n]
<1> DEFINE G == [k \in 1..n |-> [s \in U |-> Identity(s, a + k - 1)]]
           Eq(x) == x = [k \in 0..n |-> IF k = 0 THEN m ELSE Identity(x[k - 1], a + k - 1)]
           y == CHOOSE x : Eq(x)
<1>1. ASSUME NEW k \in 1..n, NEW s \in U PROVE G[k][s] = Identity(s, a + k - 1)
  OBVIOUS
<1> HIDE DEF G
<1>2. PICK x : StatesOf(x, G, m, n) /\ \A k \in 0..n : x[k] \in I[k]
  <2>1. \A k \in 1..n : \A s \in I[k - 1] : G[k][s] \in I[k]
    BY <1>1
  <2> QED
    BY <2>1, Steps
<1>3. Eq(x)
  <2>1. \A k \in 0..n : k # 0 => k \in 1..n /\ k - 1 \in 0..n
    OBVIOUS
  <2>2. \A k \in 0..n : (IF k = 0 THEN m ELSE G[k][x[k - 1]])
                      = (IF k = 0 THEN m ELSE Identity(x[k - 1], a + k - 1))
    BY <1>1, <1>2, <2>1
  <2> QED
    BY <1>2, <2>2, Zenon DEF StatesOf
<1>4. Eq(y)
  BY <1>3, Zenon
<1>5. Loop(Identity, m, a, n) = y[n]
  BY Zenon DEF Loop
<1> HIDE DEF y
<1>6. y[0] = m /\ \A k \in 1..n : y[k] = Identity(y[k - 1], a + k - 1)
  BY <1>4
<1>7. \A k \in 0..n : y[k] \in I[k]
  BY <1>6, StepsLead
<1> QED
  BY <1>5, <1>7

-----------------------------------------------------------------------------
(* The search of get_free_pages.                                           *)

(* The zones of zones[].                                                   *)
Zones == {NORMAL, DMA, KERNEL}

(* What the assumptions say of the size of memory.                         *)
LEMMA Layout ==
  /\ T \in Nat /\ T >= 2 /\ MemEnd \in Nat /\ MemEnd * T \in Nat
  /\ (MemEnd + 1) * T \in Nat /\ (MemEnd + 1) * T = MemEnd * T + T
  /\ MemEnd * T <= MemPages /\ MemPages < (MemEnd + 1) * T
  /\ LinearPages \subseteq Nat /\ LinearPages \subseteq VirtualPages
  /\ LastPage \in Nat /\ LastPage \in LinearPages /\ MemPages - 1 <= LastPage
  /\ 0 \in LinearPages
<1>1. /\ T \in Nat /\ T >= 2 /\ MemEnd \in Nat /\ MemPages \in Nat
      /\ MemEnd * T <= MemPages /\ MemPages < (MemEnd + 1) * T
  BY LayoutAssumption, RegionBounds DEF MemEnd
<1>2. MemEnd * T \in Nat /\ (MemEnd + 1) * T \in Nat /\ (MemEnd + 1) * T = MemEnd * T + T
  BY <1>1
<1>3. LinearPages \subseteq Nat /\ LinearPages \subseteq VirtualPages
  BY <1>1, <1>2, LayoutAssumption, MachineAssumption DEF LinearPages, VirtualPages
<1>4. MemPages >= 1
  BY LayoutAssumption
<1>5. LastPage \in Nat /\ LastPage \in LinearPages /\ MemPages - 1 <= LastPage /\ 0 \in LinearPages
  BY <1>1, <1>2, <1>4 DEF LastPage, LinearPages
<1> QED
  BY <1>1, <1>2, <1>3, <1>5

(* Where the zones lie.                                                    *)
LEMMA ZoneFacts ==
  ASSUME NEW z \in Zones
  PROVE  /\ ZoneStart(z) \in Nat /\ ZoneStart(z) >= 1
         /\ ZoneEnd(z) \in Nat /\ Region(ZoneEnd(z)) \in Nat
         /\ Region(ZoneEnd(z)) <= MemEnd
         /\ z = KERNEL => ZoneStart(z) = 1 /\ Region(ZoneEnd(z)) = 0
         /\ z = DMA => ZoneStart(z) = LowEnd
         /\ z = NORMAL => Region(ZoneEnd(z)) = MemEnd
<1>1. /\ ZoneStart(z) \in Nat /\ ZoneStart(z) >= 1 /\ ZoneEnd(z) \in Nat
      /\ ZoneEnd(z) <= MemPages
      /\ z = KERNEL => ZoneStart(z) = 1 /\ ZoneEnd(z) = LowEnd
      /\ z = DMA => ZoneStart(z) = LowEnd
      /\ z = NORMAL => ZoneEnd(z) = MemPages
  BY LayoutAssumption DEF Zones, ZoneStart, ZoneEnd, NORMAL, DMA, KERNEL
<1>2. MemPages \in Nat /\ LowEnd \in Nat /\ LowEnd < T
  BY LayoutAssumption
<1>3. Region(LowEnd) = 0
  BY <1>2, LayoutAssumption, RegionBelow, RegionBounds
<1> QED
  BY <1>1, <1>2, <1>3, RegionMonotonic, RegionBounds DEF MemEnd

(* Where regions end.                                                      *)
LEMMA RegionEndFacts ==
  ASSUME NEW r \in Nat
  PROVE  /\ RegionEnd(r) \in Nat /\ RegionEnd(r) <= (MemEnd + 1) * T
         /\ r <= MemEnd => RegionEnd(r) = (r + 1) * T
         /\ r >= MemEnd => RegionEnd(r) = (MemEnd + 1) * T
<1>1. r <= MemEnd => (r + 1) * T <= (MemEnd + 1) * T
  BY Layout
<1>2. (r + 1) * T \in Nat
  BY Layout
<1> QED
  BY <1>1, <1>2, Layout DEF RegionEnd

(* The pages of the two passes.                                            *)
FirstPass(m, z) ==
  LET end == RegionEnd(Region(ZoneEnd(z)))
  IN  IF m.next[z] < end THEN end - m.next[z] ELSE 0
SecondPass(m, z) ==
  LET end == RegionEnd(Region(m.next[z]))
  IN  IF ZoneStart(z) < end THEN end - ZoneStart(z) ELSE 0

(* Consecutive pages.                                                      *)
LEMMA FromFacts ==
  ASSUME NEW a \in Nat, NEW n \in Nat, n = 0 \/ a + n <= (MemEnd + 1) * T
  PROVE  /\ From(a, n) \in Seq(LinearPages) /\ Len(From(a, n)) = n
         /\ \A i \in 1..n : From(a, n)[i] = a + i - 1
<1>1. \A i \in 1..n : a + i - 1 \in LinearPages
  BY Layout DEF LinearPages
<1> QED
  BY <1>1 DEF From

(* The pages get_free_pages looks at, one by one.                          *)
LEMMA VisitsFacts ==
  ASSUME NEW m \in MemType, NEW z \in Zones
  PROVE  /\ m.next[z] \in Nat
         /\ FirstPass(m, z) \in Nat /\ SecondPass(m, z) \in Nat
         /\ Visits(m, z) \in Seq(LinearPages)
         /\ Len(Visits(m, z)) = FirstPass(m, z) + SecondPass(m, z)
         /\ \A i \in 1..FirstPass(m, z) : Visits(m, z)[i] = m.next[z] + i - 1
         /\ \A i \in 1..SecondPass(m, z) : Visits(m, z)[FirstPass(m, z) + i] = ZoneStart(z) + i - 1
<1> DEFINE a == m.next[z]
           n1 == FirstPass(m, z)
           n2 == SecondPass(m, z)
           s1 == From(a, n1)
           s2 == From(ZoneStart(z), n2)
<1>1. a \in Nat /\ Region(a) \in Nat
  BY RegionBounds DEF MemType, Zones
<1>2. n1 \in Nat /\ n2 \in Nat
  BY <1>1, ZoneFacts, RegionEndFacts DEF FirstPass, SecondPass
<1>3. /\ n1 = 0 \/ a + n1 <= (MemEnd + 1) * T
      /\ n2 = 0 \/ ZoneStart(z) + n2 <= (MemEnd + 1) * T
  BY <1>1, ZoneFacts, RegionEndFacts, Layout DEF FirstPass, SecondPass
<1>4. Visits(m, z) = s1 \o s2
  BY DEF Visits, FirstPass, SecondPass
<1> HIDE DEF a, n1, n2
<1>5. /\ s1 \in Seq(LinearPages) /\ Len(s1) = n1 /\ \A i \in 1..n1 : s1[i] = a + i - 1
      /\ s2 \in Seq(LinearPages) /\ Len(s2) = n2 /\ \A i \in 1..n2 : s2[i] = ZoneStart(z) + i - 1
  BY <1>1, <1>2, <1>3, ZoneFacts, FromFacts
<1> HIDE DEF s1, s2
<1>6. /\ s1 \o s2 \in Seq(LinearPages) /\ Len(s1 \o s2) = n1 + n2
      /\ \A i \in 1..n1 + n2 : (s1 \o s2)[i] = IF i <= n1 THEN s1[i] ELSE s2[i - n1]
  BY <1>5, ConcatProperties
<1>7. \A i \in 1..n1 : (s1 \o s2)[i] = a + i - 1
  BY <1>2, <1>5, <1>6
<1>8. \A i \in 1..n2 : (s1 \o s2)[n1 + i] = ZoneStart(z) + i - 1
  <2> SUFFICES ASSUME NEW i \in 1..n2 PROVE (s1 \o s2)[n1 + i] = ZoneStart(z) + i - 1
    OBVIOUS
  <2>1. n1 + i \in 1..n1 + n2 /\ ~(n1 + i <= n1) /\ (n1 + i) - n1 = i
    BY <1>2
  <2> QED
    BY <1>5, <1>6, <2>1
<1> QED
  BY <1>1, <1>2, <1>4, <1>6, <1>7, <1>8 DEF a, n1, n2

(* A run that get_free_pages may find: together, or over the end of the    *)
(* first pass and on from the start of the zone.                           *)
Together(m, count, address, last) == last = address + count - 1

Wrapped(m, z, count, address, last) ==
  LET end == RegionEnd(Region(ZoneEnd(z)))
  IN  /\ end - 1 \in m.available
      /\ \E j \in 1..count - 1 :
           /\ address = end - (count - j)
           /\ last = ZoneStart(z) + j - 1
           /\ \A p \in ZoneStart(z)..last : p \in m.available

(* What TakeRun takes: a run that is together, or one that wraps.          *)
LEMMA RunFound ==
  ASSUME NEW m \in MemType, NEW z \in Zones, NEW count \in Nat \ {0},
         m.next[z] # 0, Ends(m, z, count) # {}
  PROVE  \E address \in m.available, last \in m.available :
           /\ TakeRun(m, z, count) =
                [m EXCEPT !.available = @ \ {last}, !.allocated = @ \cup {last},
                          !.next[z] = address + count, !.got = address]
           /\ address # 0
           /\ Together(m, count, address, last) \/ Wrapped(m, z, count, address, last)
<1> DEFINE v == Visits(m, z)
           n1 == FirstPass(m, z)
           n2 == SecondPass(m, z)
           k == Min(Ends(m, z, count))
           address == v[k - count + 1]
           last == v[k]
<1>1. /\ m.next[z] \in Nat /\ n1 \in Nat /\ n2 \in Nat /\ Len(v) = n1 + n2
      /\ \A i \in 1..n1 : v[i] = m.next[z] + i - 1
      /\ \A i \in 1..n2 : v[n1 + i] = ZoneStart(z) + i - 1
  BY VisitsFacts
<1>2. k \in Ends(m, z, count)
  <2>1. Ends(m, z, count) \in SUBSET Nat
    BY <1>1 DEF Ends
  <2> QED
    BY <2>1, MinProperties
<1>3. k \in count..n1 + n2 /\ \A i \in k - count + 1..k : v[i] \in m.available
  BY <1>1, <1>2 DEF Ends
<1>4. TakeRun(m, z, count) =
        [m EXCEPT !.available = @ \ {last}, !.allocated = @ \cup {last},
                  !.next[z] = address + count, !.got = address]
  BY DEF TakeRun
<1> HIDE DEF v, k, n1, n2
<1>5. /\ k \in Nat /\ k - count + 1 \in 1..k
      /\ k - count + 1 \in k - count + 1..k /\ k \in k - count + 1..k
  BY <1>1, <1>3
<1>6. address \in m.available /\ last \in m.available
  BY <1>3, <1>5
<1>7. ZoneStart(z) \in Nat /\ ZoneStart(z) >= 1
  BY ZoneFacts
<1>8. CASE k <= n1
  <2>1. address = m.next[z] + (k - count + 1) - 1 /\ last = m.next[z] + k - 1
    BY <1>1, <1>3, <1>5, <1>8
  <2>2. address # 0 /\ last = address + count - 1
    BY <1>1, <1>5, <2>1
  <2> QED
    BY <1>4, <1>6, <2>2 DEF Together
<1>9. CASE k - count + 1 > n1
  <2>1. /\ k - n1 \in 1..n2 /\ k - count + 1 - n1 \in 1..n2
        /\ n1 + (k - n1) = k /\ n1 + (k - count + 1 - n1) = k - count + 1
    BY <1>1, <1>3, <1>5, <1>9
  <2>2. address = ZoneStart(z) + (k - count + 1 - n1) - 1 /\ last = ZoneStart(z) + (k - n1) - 1
    BY <1>1, <2>1
  <2>3. address # 0 /\ last = address + count - 1
    BY <1>1, <1>5, <1>7, <2>1, <2>2
  <2> QED
    BY <1>4, <1>6, <2>3 DEF Together
<1>10. CASE k > n1 /\ k - count + 1 <= n1
  <2> DEFINE end == RegionEnd(Region(ZoneEnd(z)))
             j == k - n1
  <2>1. j \in 1..count - 1 /\ n1 >= 1 /\ j \in 1..n2 /\ n1 + j = k
    BY <1>1, <1>3, <1>5, <1>10
  <2>2. end \in Nat /\ m.next[z] + n1 = end
    <3>1. end \in Nat
      BY ZoneFacts, RegionEndFacts
    <3> QED
      BY <1>1, <2>1, <3>1 DEF FirstPass, n1
  <2> HIDE DEF end, j
  <2>3. v[n1] = end - 1 /\ v[n1] \in m.available
    <3>1. n1 \in 1..n1 /\ n1 \in k - count + 1..k
      BY <1>1, <1>5, <1>10, <2>1
    <3>2. v[n1] = m.next[z] + n1 - 1
      BY <1>1, <3>1
    <3>3. v[n1] = end - 1
      <4>1. m.next[z] \in Nat /\ n1 \in Nat
        BY <1>1
      <4> QED
        BY <2>2, <3>2, <4>1
    <3>4. v[n1] \in m.available
      BY <1>3, <3>1
    <3> QED
      BY <3>3, <3>4
  <2>4. address = end - (count - j) /\ address # 0
    <3>1. address = m.next[z] + (k - count + 1) - 1
      BY <1>1, <1>5, <1>10
    <3>2. m.next[z] \in Nat /\ n1 \in Nat /\ k \in Nat
      BY <1>1, <1>5
    <3>3. j \in Nat /\ count \in Nat
      BY <2>1
    <3>4. address = end - (count - j)
      BY <2>1, <2>2, <3>1, <3>2, <3>3
    <3>5. address # 0
      BY <1>1, <1>5, <3>1
    <3> QED
      BY <3>4, <3>5
  <2>5. last = ZoneStart(z) + j - 1
    BY <1>1, <2>1
  <2>6. ASSUME NEW p \in ZoneStart(z)..last PROVE p \in m.available
    <3> DEFINE i == p - ZoneStart(z) + 1
    <3>1. i \in 1..j /\ ZoneStart(z) + i - 1 = p
      BY <1>7, <2>1, <2>5
    <3> HIDE DEF i
    <3>2. i \in 1..n2 /\ n1 + i \in k - count + 1..k
      BY <1>1, <1>5, <1>10, <2>1, <3>1
    <3>3. v[n1 + i] = p
      BY <1>1, <3>1, <3>2
    <3> QED
      BY <1>3, <3>2, <3>3
  <2>7. Wrapped(m, z, count, address, last)
    BY <2>1, <2>3, <2>4, <2>5, <2>6 DEF Wrapped, end
  <2> QED
    BY <1>4, <1>6, <2>4, <2>7
<1>11. k <= n1 \/ k - count + 1 > n1 \/ (k > n1 /\ k - count + 1 <= n1)
  BY <1>1, <1>5
<1> QED
  BY <1>8, <1>9, <1>10, <1>11

(* No run of the pages wanted, as StopsForCause says.                      *)
NoRun(m) ==
  \A z \in {DMA, KERNEL} :
    \A p \in ZoneStart(z)..(Region(ZoneEnd(z)) + 1) * T - m.wanted :
      ~(p..p + m.wanted - 1 \subseteq m.available)

(* Where the search of the DMA zone starts, no run of available pages is   *)
(* cut in two, unless the second pass covers the whole zone.               *)
DmaNext(m) ==
  \/ Region(m.next[DMA]) >= Region(ZoneEnd(DMA))
  \/ m.next[DMA] = LowEnd
  \/ m.next[DMA] >= 2 /\ m.next[DMA] - 1 \notin m.available

(* What the linear page tables and the zones satisfy in every state.       *)
Sound(m) ==
  /\ m \in MemType
  /\ m.available \subseteq FirstAvailable
  /\ m.next[DMA] # 0 /\ m.next[KERNEL] # 0 /\ DmaNext(m)
  /\ m.hung = "exhausted" => NoRun(m)

(* No page beyond the last one was ever marked available.                  *)
LEMMA AvailableBounded ==
  /\ FirstAvailable \subseteq 0..LastPage /\ FirstAvailable \subseteq LinearPages
  /\ (MemEnd + 1) * T - 1 \notin FirstAvailable
  /\ 0 \in FirstAvailable
<1>1. ASSUME NEW p \in FirstAvailable PROVE p \in 0..LastPage
  <2>1. p \in Nat /\ p <= (MemEnd + 1) * T - 1 /\ (p < MemPages \/ p % T = 0)
    BY Layout DEF FirstAvailable, LinearPages
  <2>2. CASE p < MemPages
    BY <2>1, <2>2, Layout, LayoutAssumption
  <2>3. CASE p >= MemPages
    <3>1. p % T = 0 /\ p = Region(p) * T
      BY <2>1, <2>3, ModZero, LayoutAssumption
    <3>2. Region(p) \in Nat /\ Region(p) <= MemEnd
      <4>1. Region(p) \in Nat /\ Region(p) < MemEnd + 1
        BY <2>1, Layout, RegionBelow, RegionBounds
      <4> QED
        BY <4>1, Layout
    <3>3. p <= MemEnd * T
      BY <3>1, <3>2, Layout
    <3>4. p = MemPages
      BY <2>1, <2>3, <3>3, Layout, LayoutAssumption
    <3> QED
      BY <2>1, <3>1, <3>4 DEF LastPage
  <2> QED
    BY <2>1, <2>2, <2>3, LayoutAssumption
<1>2. (MemEnd + 1) * T - 1 \notin FirstAvailable
  <2> SUFFICES ASSUME (MemEnd + 1) * T - 1 \in FirstAvailable PROVE FALSE
    OBVIOUS
  <2>1. (MemEnd + 1) * T - 1 <= LastPage
    BY <1>1, Layout
  <2>2. LastPage <= MemPages
    BY LayoutAssumption DEF LastPage
  <2>3. (MemEnd + 1) * T - 1 = MemPages /\ LastPage = MemPages
    BY <2>1, <2>2, Layout, LayoutAssumption
  <2>4. MemPages % T = 0
    BY <2>3, LayoutAssumption DEF LastPage
  <2>5. MemPages = MemEnd * T
    BY <2>4, ModZero, LayoutAssumption DEF MemEnd
  <2> QED
    BY <2>3, <2>5, Layout
<1>3. 0 \in FirstAvailable
  BY LayoutAssumption, Layout DEF FirstAvailable
<1> QED
  BY <1>1, <1>2, <1>3 DEF FirstAvailable

(* The end of a wrapped run, were it together.                             *)
LEMMA WrapFits ==
  ASSUME NEW m \in MemType, m.available \subseteq FirstAvailable, NEW z \in Zones,
         NEW count \in Nat \ {0}, count <= 2 \/ LowEnd \notin m.available,
         NEW address \in Nat, NEW last \in Nat, Wrapped(m, z, count, address, last)
  PROVE  /\ address + count - 1 \in LinearPages /\ count # 1
         /\ z = DMA => Region(address + count) >= Region(ZoneEnd(DMA))
<1> DEFINE R == Region(ZoneEnd(z))
           end == RegionEnd(R)
<1>1. /\ R \in Nat /\ end \in Nat /\ R <= MemEnd /\ end = (R + 1) * T
      /\ ZoneStart(z) \in Nat /\ ZoneStart(z) >= 1
  BY ZoneFacts, RegionEndFacts
<1>2. PICK j \in 1..count - 1 :
        /\ address = end - (count - j)
        /\ last = ZoneStart(z) + j - 1
        /\ \A p \in ZoneStart(z)..last : p \in m.available
  BY DEF Wrapped
<1>3. end - 1 \in m.available
  BY DEF Wrapped
<1> HIDE DEF end, R
<1>4. R < MemEnd
  <2> SUFFICES ASSUME R = MemEnd PROVE FALSE
    BY <1>1, Layout
  <2> QED
    BY <1>1, <1>3, AvailableBounded
<1>5. end <= MemEnd * T /\ end <= MemPages
  <2>1. (R + 1) * T <= MemEnd * T
    BY <1>1, <1>4, Layout
  <2> QED
    BY <1>1, <2>1, Layout, LayoutAssumption
<1>6. z # NORMAL
  BY <1>4, ZoneFacts DEF R
<1>7. address + count - 1 = end + j - 1 /\ count # 1
  BY <1>1, <1>2
<1>8. CASE count <= 2
  <2>1. address + count - 1 = end
    BY <1>1, <1>2, <1>7, <1>8
  <2>2. end \in LinearPages
    BY <1>1, <1>5, Layout, LayoutAssumption DEF LinearPages
  <2>3. Region(address + count) >= R
    <3>1. address + count = end + 1 /\ (R + 1) * T <= end + 1
      BY <1>1, <2>1
    <3> QED
      BY <1>1, <3>1, RegionFrom, RegionBounds
  <2> QED
    BY <1>7, <2>1, <2>2, <2>3 DEF R
<1>9. CASE LowEnd \notin m.available
  <2>1. ZoneStart(z) \in ZoneStart(z)..last
    BY <1>1, <1>2
  <2>2. z = KERNEL
    BY <1>2, <1>6, <1>9, <2>1, ZoneFacts DEF Zones
  <2>3. ZoneStart(z) = 1 /\ R = 0 /\ end = T
    BY <1>1, <2>2, ZoneFacts, Layout DEF R
  <2>4. j < LowEnd
    <3> SUFFICES ASSUME j >= LowEnd PROVE FALSE
      BY LayoutAssumption
    <3>1. LowEnd \in ZoneStart(z)..last
      BY <1>2, <2>3, LayoutAssumption
    <3> QED
      BY <1>2, <1>9, <3>1
  <2>5. address + count - 1 \in LinearPages
    BY <1>1, <1>2, <1>5, <1>7, <2>3, <2>4, LayoutAssumption, Layout DEF LinearPages
  <2> QED
    BY <1>7, <2>2, <2>5 DEF DMA, KERNEL
<1> QED
  BY <1>8, <1>9

(* When no zone has a run the pages wanted are nowhere together.           *)
LEMMA Nowhere ==
  ASSUME NEW m, Sound(m), NEW count \in Nat \ {0}, NEW zone \in {NORMAL, DMA},
         ZonesWithRun(m, count, zone) = {},
         NEW z \in {DMA, KERNEL},
         NEW p \in ZoneStart(z)..(Region(ZoneEnd(z)) + 1) * T - count
  PROVE  ~(p..p + count - 1 \subseteq m.available)
<1> SUFFICES ASSUME p..p + count - 1 \subseteq m.available PROVE FALSE
  OBVIOUS
<1> DEFINE v == Visits(m, z)
           n1 == FirstPass(m, z)
           n2 == SecondPass(m, z)
           a == m.next[z]
           R == Region(ZoneEnd(z))
<1>1. m \in MemType /\ z \in Zones /\ m.available \subseteq LinearPages
  BY AvailableBounded DEF Sound, Zones
<1>2. /\ a \in Nat /\ n1 \in Nat /\ n2 \in Nat /\ v \in Seq(LinearPages) /\ Len(v) = n1 + n2
      /\ \A i \in 1..n1 : v[i] = a + i - 1
      /\ \A i \in 1..n2 : v[n1 + i] = ZoneStart(z) + i - 1
  BY <1>1, VisitsFacts
<1>3. Ends(m, z, count) = {}
  <2>1. z \in zone..KERNEL /\ m.next[z] # 0
    BY DEF Sound, NORMAL, DMA, KERNEL
  <2> QED
    BY <2>1 DEF ZonesWithRun
<1>4. /\ R \in Nat /\ R <= MemEnd /\ RegionEnd(R) = (R + 1) * T /\ (R + 1) * T \in Nat
      /\ ZoneStart(z) \in Nat
  BY <1>1, ZoneFacts, RegionEndFacts
<1>5. p \in Nat /\ p >= ZoneStart(z) /\ p + count <= (R + 1) * T
  BY <1>4
<1>6. n1 = IF a < (R + 1) * T THEN (R + 1) * T - a ELSE 0
  BY <1>4 DEF FirstPass
<1>7. n2 = IF ZoneStart(z) < RegionEnd(Region(a)) THEN RegionEnd(Region(a)) - ZoneStart(z) ELSE 0
  BY DEF SecondPass
<1>8. Region(a) \in Nat /\ RegionEnd(Region(a)) \in Nat /\ a < (Region(a) + 1) * T
  BY <1>2, RegionBounds, RegionEndFacts
<1> HIDE DEF v, n1, n2, a, R
<1>9. CASE p >= a
  <2> DEFINE k == p + count - a
  <2> DEFINE end == (R + 1) * T
  <2>1. k \in count..n1 + n2 /\ k <= n1
    <3>1. /\ end \in Nat /\ p \in Nat /\ p + count <= end /\ a \in Nat /\ n2 \in Nat
          /\ n1 = IF a < end THEN end - a ELSE 0
      BY <1>2, <1>4, <1>5, <1>6
    <3> HIDE DEF end
    <3> QED
      BY <1>9, <3>1
  <2>2. ASSUME NEW i \in k - count + 1..k PROVE v[i] \in m.available
    <3>1. i \in 1..n1 /\ a + i - 1 \in p..p + count - 1
      BY <1>2, <1>5, <1>9, <2>1
    <3> QED
      BY <1>2, <3>1
  <2>3. k \in Ends(m, z, count)
    BY <1>2, <2>1, <2>2 DEF Ends, v
  <2> QED
    BY <1>3, <2>3
<1>10. CASE p + count <= RegionEnd(Region(a))
  <2> DEFINE j == p + count - ZoneStart(z)
             k == n1 + j
  <2>1. j \in count..n2 /\ k \in count..n1 + n2
    <3>1. n1 \in Nat /\ n2 \in Nat
      BY <1>2
    <3>2. ZoneStart(z) < RegionEnd(Region(a))
      BY <1>4, <1>5, <1>8, <1>10
    <3>3. n2 = RegionEnd(Region(a)) - ZoneStart(z)
      BY <1>7, <3>2
    <3> QED
      BY <1>4, <1>5, <1>8, <1>10, <3>1, <3>3
  <2>2. ASSUME NEW i \in k - count + 1..k PROVE v[i] \in m.available
    <3> DEFINE h == i - n1
    <3>1. h \in j - count + 1..j /\ n1 + h = i
      <4>1. n1 \in Nat /\ j \in Nat
        BY <1>2, <2>1
      <4> HIDE DEF j
      <4> QED
        BY <4>1
    <3> HIDE DEF h
    <3>2. h \in 1..n2 /\ ZoneStart(z) + h - 1 \in p..p + count - 1
      <4>1. n2 \in Nat
        BY <1>2
      <4> QED
        BY <1>4, <1>5, <2>1, <3>1, <4>1
    <3>3. v[n1 + h] = ZoneStart(z) + h - 1
      BY <1>2, <3>2
    <3> QED
      BY <3>1, <3>2, <3>3
  <2>3. k \in Ends(m, z, count)
    BY <1>2, <2>1, <2>2 DEF Ends, v
  <2> QED
    BY <1>3, <2>3
<1>11. CASE p < a /\ p + count > RegionEnd(Region(a))
  <2>1. Region(a) < R
    <3> SUFFICES ASSUME Region(a) >= R PROVE FALSE
      BY <1>4, <1>8
    <3>1. RegionEnd(Region(a)) >= (R + 1) * T
      <4>1. CASE Region(a) <= MemEnd
        <5>1. RegionEnd(Region(a)) = (Region(a) + 1) * T
          BY <1>8, <4>1, RegionEndFacts
        <5>2. (Region(a) + 1) * T >= (R + 1) * T
          BY <1>4, <1>8, Layout
        <5> QED
          BY <5>1, <5>2
      <4>2. CASE Region(a) > MemEnd
        <5>1. RegionEnd(Region(a)) = (MemEnd + 1) * T
          BY <1>8, <4>2, RegionEndFacts, Layout
        <5>2. (MemEnd + 1) * T >= (R + 1) * T
          BY <1>4, Layout
        <5> QED
          BY <5>1, <5>2
      <4> QED
        BY <1>8, <4>1, <4>2, Layout
    <3> QED
      BY <1>4, <1>5, <1>8, <1>11, <3>1
  <2>2. z = DMA
    BY <1>1, <1>4, <1>8, <2>1, ZoneFacts DEF R
  <2>3. a = LowEnd \/ (a >= 2 /\ a - 1 \notin m.available)
    BY <1>4, <1>8, <2>1, <2>2 DEF Sound, DmaNext, a, R
  <2>4. a # LowEnd
    BY <1>1, <1>5, <1>11, <2>2, ZoneFacts, LayoutAssumption
  <2>5. a <= RegionEnd(Region(a))
    <3>1. Region(a) <= MemEnd
      BY <1>4, <1>8, <2>1, Layout
    <3> QED
      BY <1>2, <1>8, <3>1, RegionEndFacts
  <2>6. a - 1 \in p..p + count - 1
    BY <1>2, <1>5, <1>8, <1>11, <2>5
  <2> QED
    BY <2>3, <2>4, <2>6
<1> QED
  BY <1>2, <1>5, <1>8, <1>9, <1>10, <1>11

(* What get_free_pages leaves.                                             *)
Searched(m, g) ==
  /\ Sound(g) /\ g.entry = m.entry /\ g.table = m.table /\ g.paging = m.paging
  /\ g.available \subseteq m.available

(* The type of each field.                                                 *)
LEMMA TypeFields ==
  ASSUME NEW m \in MemType
  PROVE  /\ m.available \in SUBSET LinearPages /\ m.allocated \in SUBSET LinearPages
         /\ m.next \in [Zones -> Nat] /\ m.table \in [Regions -> LinearPages]
         /\ m.entry \in [VirtualPages -> {None, Assigned} \cup VirtualPages]
         /\ m.got \in LinearPages /\ m.paging \in BOOLEAN
         /\ m.hung \in {"no", "exhausted", "fault", "device"} /\ m.wanted \in Nat
BY DEF MemType, Zones

(* A run is taken: the tables stay sound, and the run is within memory.    *)
LEMMA Takes ==
  ASSUME NEW m, Sound(m), m.hung = "no", NEW z \in Zones, NEW count \in Nat \ {0},
         m.next[z] # 0, Ends(m, z, count) # {}, count <= 2 \/ LowEnd \notin m.available
  PROVE  LET g == TakeRun(m, z, count)
         IN  /\ Searched(m, g) /\ g.hung = "no"
             /\ g.got \in m.available /\ g.got # 0 /\ g.got + count - 1 \in LinearPages
             /\ count = 1 => g.got \notin g.available
<1> DEFINE g == TakeRun(m, z, count)
<1>1. m \in MemType /\ m.available \subseteq FirstAvailable
  BY DEF Sound
<1>2. PICK address \in m.available, last \in m.available :
        /\ g = [m EXCEPT !.available = @ \ {last}, !.allocated = @ \cup {last},
                         !.next[z] = address + count, !.got = address]
        /\ address # 0
        /\ Together(m, count, address, last) \/ Wrapped(m, z, count, address, last)
  BY <1>1, RunFound
<1> HIDE DEF g
<1>3. /\ address \in LinearPages /\ last \in LinearPages
      /\ address \in Nat /\ last \in Nat /\ address + count \in Nat
  <2>1. address \in LinearPages /\ last \in LinearPages
    BY <1>1, AvailableBounded
  <2>2. address \in Nat /\ last \in Nat
    BY <2>1, Layout
  <2> QED
    BY <2>1, <2>2
<1>4. /\ g.available = m.available \ {last} /\ g.allocated = m.allocated \cup {last}
      /\ g.next = [m.next EXCEPT ![z] = address + count] /\ g.got = address
      /\ g.entry = m.entry /\ g.table = m.table /\ g.paging = m.paging
      /\ g.hung = m.hung /\ g.wanted = m.wanted
  BY <1>1, <1>2 DEF MemType
<1>5. g \in MemType
  BY <1>1, <1>2, <1>3 DEF MemType, Zones
<1>6. /\ address + count - 1 \in LinearPages
      /\ count = 1 => address = last
      /\ z = DMA => \/ Region(address + count) >= Region(ZoneEnd(DMA))
                    \/ address + count >= 2 /\ address + count - 1 = last
  <2>1. CASE Together(m, count, address, last)
    BY <1>2, <1>3, <2>1 DEF Together
  <2>2. CASE Wrapped(m, z, count, address, last)
    BY <1>1, <1>3, <2>2, WrapFits
  <2> QED
    BY <1>2, <2>1, <2>2
<1>7. g.next[DMA] # 0 /\ g.next[KERNEL] # 0
  <2>1. m.next \in [Zones -> Nat] /\ m.next[DMA] # 0 /\ m.next[KERNEL] # 0
    BY <1>1, TypeFields DEF Sound
  <2>2. address + count # 0
    BY <1>3
  <2> QED
    BY <1>4, <2>1, <2>2 DEF Zones
<1>8. DmaNext(g)
  <2>1. m.next \in [Zones -> Nat] /\ DMA \in Zones /\ DmaNext(m)
    BY <1>1, TypeFields DEF Sound, Zones
  <2>2. CASE z = DMA
    <3>1. g.next[DMA] = address + count
      BY <1>4, <2>1, <2>2
    <3>2. CASE address + count >= 2 /\ address + count - 1 = last
      <4>1. last \notin g.available
        BY <1>4
      <4>2. g.next[DMA] - 1 = last /\ g.next[DMA] >= 2
        BY <1>3, <3>1, <3>2
      <4> QED
        BY <4>1, <4>2, Zenon DEF DmaNext
    <3> QED
      BY <1>6, <2>2, <3>1, <3>2 DEF DmaNext
  <2>3. CASE z # DMA
    <3>1. g.next[DMA] = m.next[DMA]
      BY <1>4, <2>1, <2>3
    <3> QED
      BY <1>4, <2>1, <3>1 DEF DmaNext
  <2> QED
    BY <2>2, <2>3
<1>9. Sound(g)
  BY <1>1, <1>3, <1>4, <1>5, <1>7, <1>8 DEF Sound
<1> QED
  BY <1>4, <1>6, <1>9, <1>2 DEF Searched, g

(* get_free_pages: nothing is left, or a run within memory is taken.       *)
LEMMA Got ==
  ASSUME NEW m, Sound(m), m.hung = "no", NEW count \in Nat \ {0}, NEW zone \in {NORMAL, DMA},
         count <= 2 \/ LowEnd \notin m.available
  PROVE  LET g == GetFreePages(m, count, zone)
         IN  /\ Searched(m, g)
             /\ \/ g.hung = "exhausted"
                \/ /\ g.hung = "no"
                   /\ g.got \in m.available /\ g.got # 0 /\ g.got + count - 1 \in LinearPages
                   /\ count = 1 => g.got \notin g.available
<1> DEFINE g == GetFreePages(m, count, zone)
           Z == ZonesWithRun(m, count, zone)
<1>1. m \in MemType
  BY DEF Sound
<1>2. CASE Z = {}
  <2>1. g = [m EXCEPT !.hung = "exhausted", !.wanted = count]
    BY <1>2 DEF GetFreePages
  <2> HIDE DEF g
  <2>2. /\ g \in MemType /\ g.available = m.available /\ g.allocated = m.allocated
        /\ g.next = m.next /\ g.entry = m.entry /\ g.table = m.table /\ g.paging = m.paging
        /\ g.hung = "exhausted" /\ g.wanted = count
    BY <1>1, <2>1 DEF MemType
  <2>3. NoRun(g)
    BY <1>2, <2>2, Nowhere DEF NoRun
  <2>4. Sound(g)
    BY <2>2, <2>3 DEF Sound, DmaNext
  <2> QED
    BY <2>2, <2>4 DEF Searched, g
<1>3. CASE Z # {}
  <2>1. Z \in SUBSET Nat /\ Z \subseteq Zones
    BY DEF ZonesWithRun, Zones, NORMAL, DMA, KERNEL
  <2>2. Min(Z) \in Z
    BY <1>3, <2>1, MinProperties
  <2>3. g = TakeRun(m, Min(Z), count)
    BY <1>3 DEF GetFreePages
  <2>4. Min(Z) \in Zones /\ m.next[Min(Z)] # 0 /\ Ends(m, Min(Z), count) # {}
    BY <2>1, <2>2 DEF ZonesWithRun
  <2> QED
    BY <2>3, <2>4, Takes
<1> QED
  BY <1>2, <1>3

(* The same as far as types go, for any typed state.                       *)
LEMMA GotTyped ==
  ASSUME NEW m \in MemType
  PROVE  LET g == GetFreePages(m, 1, NORMAL)
         IN  /\ g \in MemType /\ g.table = m.table
             /\ g.hung = "no" => g.got # 0
<1> DEFINE g == GetFreePages(m, 1, NORMAL)
           Z == ZonesWithRun(m, 1, NORMAL)
<1>1. CASE m.hung # "no"
  BY <1>1 DEF GetFreePages
<1>2. CASE m.hung = "no" /\ Z = {}
  BY <1>2 DEF GetFreePages, MemType
<1>3. CASE m.hung = "no" /\ Z # {}
  <2>1. Z \in SUBSET Nat /\ Z \subseteq Zones
    BY DEF ZonesWithRun, Zones, NORMAL, DMA, KERNEL
  <2>2. Min(Z) \in Z
    BY <1>3, <2>1, MinProperties
  <2> DEFINE z == Min(Z)
  <2>3. g = TakeRun(m, z, 1) /\ 1 \in Nat \ {0}
    BY <1>3 DEF GetFreePages
  <2>4. z \in Zones /\ m.next[z] # 0 /\ Ends(m, z, 1) # {}
    BY <2>1, <2>2 DEF ZonesWithRun
  <2> HIDE DEF z, g
  <2>5. PICK address \in m.available, last \in m.available :
          /\ g = [m EXCEPT !.available = @ \ {last}, !.allocated = @ \cup {last},
                           !.next[z] = address + 1, !.got = address]
          /\ address # 0
          /\ Together(m, 1, address, last) \/ Wrapped(m, z, 1, address, last)
    BY <2>3, <2>4, RunFound
  <2>6. address \in LinearPages /\ last \in LinearPages /\ address + 1 \in Nat
    BY Layout DEF MemType
  <2>7. g \in MemType /\ g.table = m.table /\ g.got = address
    BY <2>4, <2>5, <2>6 DEF MemType, Zones
  <2> QED
    BY <2>5, <2>7 DEF g
<1> QED
  BY <1>1, <1>2, <1>3

-----------------------------------------------------------------------------
(* set_virtual_entry ends.                                                 *)

(* The arguments of set_virtual_entry.                                     *)
Calls == MemType \X VirtualPages \X VirtualPages

(* The call set_virtual_entry makes of itself, and when it makes it.       *)
Inner(c) ==
  LET g == GetFreePages(c[1], 1, NORMAL)
  IN  <<[g EXCEPT !.table[Region(c[2])] = g.got], g.got, g.got>>
CallsItself(c) ==
  c[1].table[Region(c[2])] = 0 /\ GetFreePages(c[1], 1, NORMAL).hung = "no"

(* The body of the function, with f for itself.                            *)
Body(f, c) ==
  LET m == c[1]
      r == Region(c[2])
      g == GetFreePages(m, 1, NORMAL)
      mapped == IF g.hung # "no" THEN g
                ELSE f[<<[g EXCEPT !.table[r] = g.got], g.got, g.got>>]
  IN  Put(IF m.table[r] # 0 THEN m ELSE NewTable(mapped, r, g.got), c[2], c[3])

(* The regions without a page table.                                       *)
Missing(m) == {r \in Regions : m.table[r] = 0}

(* Every page lies in a region of the directory.                           *)
LEMMA RegionOfPage == \A v \in VirtualPages : v \in Nat /\ Region(v) \in Regions
<1> SUFFICES ASSUME NEW v \in VirtualPages PROVE v \in Nat /\ Region(v) \in Regions
  OBVIOUS
<1>1. v \in Nat /\ v <= VLast /\ VLast \in Nat
  BY LayoutAssumption DEF VirtualPages
<1> QED
  BY <1>1, RegionMonotonic, RegionBounds DEF Regions

(* The inner call misses one page table less.                              *)
LEMMA InnerCall ==
  ASSUME NEW c \in Calls, CallsItself(c)
  PROVE  /\ Inner(c) \in Calls
         /\ Region(c[2]) \in Missing(c[1])
         /\ Missing(Inner(c)[1]) = Missing(c[1]) \ {Region(c[2])}
<1> DEFINE m == c[1]
           r == Region(c[2])
           g == GetFreePages(m, 1, NORMAL)
           n == [g EXCEPT !.table[r] = g.got]
<1>1. m \in MemType /\ c[2] \in VirtualPages /\ r \in Regions
  BY RegionOfPage DEF Calls
<1>2. g \in MemType /\ g.table = m.table /\ g.hung = "no" /\ g.got # 0 /\ m.table[r] = 0
  BY <1>1, GotTyped DEF CallsItself
<1>3. Inner(c) = <<n, g.got, g.got>>
  BY DEF Inner
<1> HIDE DEF m, r, g
<1>4. g.got \in LinearPages /\ g.got \in VirtualPages /\ g.table \in [Regions -> LinearPages]
  BY <1>2, TypeFields, Layout
<1>5. n \in MemType /\ n.table = [g.table EXCEPT ![r] = g.got]
  BY <1>1, <1>2, <1>4 DEF MemType
<1> HIDE DEF n
<1>6. Missing(n) = Missing(m) \ {r}
  BY <1>1, <1>2, <1>4, <1>5 DEF Missing
<1>7. r \in Missing(m)
  BY <1>1, <1>2 DEF Missing
<1>8. Inner(c) \in Calls /\ Inner(c)[1] = n
  BY <1>3, <1>4, <1>5 DEF Calls
<1> QED
  BY <1>6, <1>7, <1>8 DEF m, r

(* The body depends on its function at the inner call only.                *)
LEMMA SameBody ==
  ASSUME NEW f, NEW h, NEW c, CallsItself(c) => f[Inner(c)] = h[Inner(c)]
  PROVE  Body(f, c) = Body(h, c)
<1>1. CASE CallsItself(c)
  BY <1>1 DEF Body, Inner
<1>2. CASE ~CallsItself(c)
  BY <1>2 DEF Body, CallsItself
<1> QED
  BY <1>1, <1>2

(* There are finitely many regions to miss.                                *)
LEMMA MissingFinite ==
  \A m : /\ Cardinality(Missing(m)) \in Nat
         /\ \A r \in Missing(m) : Cardinality(Missing(m) \ {r}) = Cardinality(Missing(m)) - 1
<1> SUFFICES ASSUME NEW m
             PROVE  /\ Cardinality(Missing(m)) \in Nat
                    /\ \A r \in Missing(m) :
                         Cardinality(Missing(m) \ {r}) = Cardinality(Missing(m)) - 1
  OBVIOUS
<1>1. IsFiniteSet(Regions)
  BY FS_Interval, RegionBounds, LayoutAssumption DEF Regions
<1>2. IsFiniteSet(Missing(m))
  BY <1>1, FS_Subset DEF Missing
<1> QED
  BY <1>2, FS_CardinalityType, FS_RemoveElement

(* The calls that miss at most k page tables.                              *)
CallsUpTo(k) == {c \in Calls : Cardinality(Missing(c[1])) <= k}

(* f is set_virtual_entry, as far as those calls go.                       *)
Defined(f, k) == f = [c \in CallsUpTo(k) |-> Body(f, c)]

(* The inner call has a smaller bound.                                     *)
LEMMA InnerUpTo ==
  ASSUME NEW k \in Nat, NEW c \in CallsUpTo(k), CallsItself(c)
  PROVE  k # 0 /\ Inner(c) \in CallsUpTo(k - 1)
<1>1. c \in Calls /\ Cardinality(Missing(c[1])) <= k /\ Cardinality(Missing(c[1])) \in Nat
  BY MissingFinite DEF CallsUpTo
<1>2. /\ Inner(c) \in Calls
      /\ Cardinality(Missing(Inner(c)[1])) = Cardinality(Missing(c[1])) - 1
      /\ Cardinality(Missing(Inner(c)[1])) \in Nat
  BY <1>1, InnerCall, MissingFinite
<1> QED
  BY <1>1, <1>2 DEF CallsUpTo

(* set_virtual_entry ends: the function exists.                            *)
LEMMA Exists == \A k \in Nat : \E f : Defined(f, k)
<1> DEFINE S == {k \in Nat : \E f : Defined(f, k)}
<1>1. 0 \in S
  <2> DEFINE f == [c \in CallsUpTo(0) |-> Body(0, c)]
  <2>1. \A c \in CallsUpTo(0) : Body(0, c) = Body(f, c)
    BY InnerUpTo, SameBody, Zenon
  <2>2. Defined(f, 0)
    BY <2>1, Zenon DEF Defined
  <2> QED
    BY <2>2
<1>2. ASSUME NEW k \in Nat, k \in S PROVE k + 1 \in S
  <2>1. PICK f : Defined(f, k)
    BY <1>2
  <2> DEFINE h == [c \in CallsUpTo(k + 1) |-> IF c \in CallsUpTo(k) THEN f[c] ELSE Body(f, c)]
  <2>2. CallsUpTo(k) \subseteq CallsUpTo(k + 1)
    BY MissingFinite DEF CallsUpTo
  <2>3. \A c \in CallsUpTo(k) : h[c] = f[c]
    BY <2>2
  <2>4. ASSUME NEW c \in CallsUpTo(k + 1)
        PROVE  Body(h, c) = Body(f, c)
    <3>1. CallsItself(c) => Inner(c) \in CallsUpTo(k)
      <4>1. k + 1 \in Nat /\ (k + 1) - 1 = k
        OBVIOUS
      <4> QED
        BY <4>1, InnerUpTo
    <3> HIDE DEF h
    <3> QED
      BY <2>3, <3>1, SameBody
  <2>5. ASSUME NEW c \in CallsUpTo(k + 1)
        PROVE  h[c] = Body(h, c)
    <3>1. CASE c \in CallsUpTo(k)
      <4>1. f[c] = Body(f, c)
        BY <2>1, <3>1, Zenon DEF Defined
      <4> HIDE DEF h
      <4> QED
        BY <2>3, <2>4, <3>1, <4>1
    <3>2. CASE c \notin CallsUpTo(k)
      <4>1. h[c] = Body(f, c)
        BY <3>2
      <4> HIDE DEF h
      <4> QED
        BY <2>4, <4>1
    <3> QED
      BY <3>1, <3>2
  <2>6. h = [c \in CallsUpTo(k + 1) |-> h[c]]
    OBVIOUS
  <2> HIDE DEF h
  <2>7. Defined(h, k + 1)
    BY <2>5, <2>6, Zenon DEF Defined
  <2> QED
    BY <2>7
<1> HIDE DEF S
<1>3. Nat \subseteq S
  BY <1>1, <1>2, Induction
<1> QED
  BY <1>3 DEF S

(* Hence the definition of SetVirtualEntry can be unfolded.                *)
LEMMA Unfolds ==
  ASSUME NEW c \in Calls
  PROVE  SetVirtualEntry[c] = Body(SetVirtualEntry, c)
<1> DEFINE k == Cardinality(Regions)
<1>1. IsFiniteSet(Regions)
  BY FS_Interval, RegionBounds, LayoutAssumption DEF Regions
<1>2. k \in Nat /\ CallsUpTo(k) = Calls
  <2>1. k \in Nat
    BY <1>1, FS_CardinalityType
  <2>2. \A m : Cardinality(Missing(m)) <= k
    BY <1>1, FS_Subset DEF Missing
  <2> QED
    BY <2>1, <2>2 DEF CallsUpTo
<1>3. \E f : f = [d \in Calls |-> Body(f, d)]
  <2>1. PICK f : Defined(f, k)
    BY <1>2, Exists
  <2> QED
    BY <1>2, <2>1, Zenon DEF Defined
<1>4. SetVirtualEntry = [d \in Calls |-> Body(SetVirtualEntry, d)]
  BY <1>3, Zenon DEF SetVirtualEntry, Body, Calls
<1> QED
  BY <1>4, Zenon

-----------------------------------------------------------------------------
(* What set_virtual_entry leaves.                                          *)

(* The values of an entry.                                                 *)
Entries == {None, Assigned} \cup VirtualPages

(* What the stores change.                                                 *)
LEMMA PutFields ==
  ASSUME NEW m \in MemType, NEW v \in VirtualPages, NEW e \in Entries
  PROVE  LET n == Put(m, v, e)
             t == m.table[Region(v)]
         IN  /\ n \in MemType /\ n.available = m.available /\ n.allocated = m.allocated
             /\ n.next = m.next /\ n.table = m.table /\ n.got = m.got
             /\ n.paging = m.paging /\ n.wanted = m.wanted
             /\ m.hung # "no" => n = m
             /\ m.hung = "no" /\ m.paging /\ m.entry[t] # t => n.hung = "fault" /\ n.entry = m.entry
             /\ m.hung = "no" /\ ~(m.paging /\ m.entry[t] # t) =>
                  n.hung = "no" /\ n.entry = [m.entry EXCEPT ![v] = e]
<1> DEFINE n == Put(m, v, e)
           t == m.table[Region(v)]
<1>1. CASE m.hung # "no"
  BY <1>1 DEF Put
<1>2. CASE m.hung = "no" /\ m.paging /\ m.entry[t] # t
  BY <1>2 DEF Put, MemType
<1>3. CASE m.hung = "no" /\ ~(m.paging /\ m.entry[t] # t)
  <2> DEFINE s == [m.entry EXCEPT ![v] = e]
  <2>1. n = [m EXCEPT !.entry = s]
    BY <1>3 DEF Put
  <2>2. s \in [VirtualPages -> Entries]
    BY TypeFields DEF Entries
  <2> HIDE DEF n, s
  <2>3. /\ n \in MemType /\ n.available = m.available /\ n.allocated = m.allocated
        /\ n.next = m.next /\ n.table = m.table /\ n.got = m.got
        /\ n.paging = m.paging /\ n.wanted = m.wanted /\ n.hung = m.hung /\ n.entry = s
    BY <2>1, <2>2 DEF MemType, Entries
  <2> QED
    BY <1>3, <2>3 DEF n, s
<1> QED
  BY <1>1, <1>2, <1>3

(* What marking a page changes.                                            *)
LEMMA SetLinearFields ==
  ASSUME NEW m \in MemType, NEW p \in LinearPages
  PROVE  LET n == SetLinear(m, p)
         IN  /\ n \in MemType /\ n.next = m.next /\ n.table = m.table /\ n.entry = m.entry
             /\ n.got = m.got /\ n.paging = m.paging /\ n.hung = m.hung /\ n.wanted = m.wanted
             /\ m.hung # "no" => n = m
             /\ m.hung = "no" => /\ n.available = m.available \ {p}
                                 /\ n.allocated = m.allocated \cup {p}
BY DEF SetLinear, MemType

(* And a page without a linear table.                                      *)
LEMMA SetLinearBehind ==
  ASSUME NEW m \in MemType, NEW p, p \notin LinearPages
  PROVE  LET n == SetLinear(m, p)
         IN  /\ n \in MemType /\ n.available = m.available /\ n.next = m.next
             /\ n.table = m.table /\ n.entry = m.entry /\ n.paging = m.paging
             /\ n.wanted = m.wanted
             /\ m.hung # "no" => n = m
             /\ m.hung = "no" => n.hung = "device"
BY DEF SetLinear, MemType

(* What clearing a page table changes.                                     *)
LEMMA ClearTableFields ==
  ASSUME NEW m \in MemType, NEW r
  PROVE  LET n == ClearTable(m, r)
         IN  /\ n \in MemType /\ n.available = m.available /\ n.allocated = m.allocated
             /\ n.next = m.next /\ n.table = m.table /\ n.got = m.got
             /\ n.paging = m.paging /\ n.hung = m.hung /\ n.wanted = m.wanted
             /\ \A w \in VirtualPages : n.entry[w] = IF Region(w) = r THEN None ELSE m.entry[w]
<1> DEFINE e == [w \in VirtualPages |-> IF Region(w) = r THEN None ELSE m.entry[w]]
<1>1. ClearTable(m, r) = [m EXCEPT !.entry = e]
  BY DEF ClearTable
<1>2. e \in [VirtualPages -> {None, Assigned} \cup VirtualPages]
  BY TypeFields
<1>3. \A w \in VirtualPages : e[w] = IF Region(w) = r THEN None ELSE m.entry[w]
  OBVIOUS
<1> HIDE DEF e
<1> QED
  BY <1>1, <1>2, <1>3 DEF MemType

(* Soundness does not depend on the virtual page tables, and survives that *)
(* pages are marked.                                                       *)
LEMMA SoundKept ==
  ASSUME NEW m, Sound(m), NEW n \in MemType, n.next = m.next,
         n.available \subseteq m.available,
         n.hung = "exhausted" => m.hung = "exhausted" /\ n.wanted = m.wanted
  PROVE  Sound(n)
<1>1. DmaNext(n)
  BY DEF Sound, DmaNext
<1>2. n.hung = "exhausted" => NoRun(n)
  <2> SUFFICES ASSUME n.hung = "exhausted" PROVE NoRun(n)
    OBVIOUS
  <2>1. NoRun(m) /\ n.wanted = m.wanted
    BY DEF Sound
  <2> QED
    BY <2>1 DEF NoRun
<1> QED
  BY <1>1, <1>2 DEF Sound

(* Entries are only in page tables that exist; a page that is available is *)
(* not mapped.                                                             *)
Tabled(m) == \A v \in VirtualPages : m.entry[v] # None => m.table[Region(v)] # 0
Fresh(m, except) == \A q \in m.available \ except : m.entry[q] # q

(* Nothing happens to the addresses of virtual pages, and page tables are  *)
(* never replaced.                                                         *)
LowOnly(m, n) ==
  /\ n.paging = m.paging /\ n.available \subseteq m.available
  /\ n.hung = "no" => m.hung = "no"
  /\ \A r \in Regions : m.table[r] # 0 => n.table[r] = m.table[r]
  /\ \A r \in Regions : r >= Region(VBase) => n.table[r] = m.table[r]
  /\ \A v \in VBase..VLast : n.entry[v] = m.entry[v]

(* Every table that is not mapped lies in a region whose table is not      *)
(* mapped either, or in the one about to be mapped.                        *)
Chained(m, r) == \A s \in Unmapped(m) : Region(m.table[s]) \in Unmapped(m) \cup {r}
Closed(m) == Unmapped(m) # {} /\ Settled(m)

(* set_virtual_entry(v, p): what holds when it is called.                  *)
Before(m, v, p) ==
  /\ Sound(m) /\ Tabled(m) /\ Fresh(m, {0}) /\ m.hung = "no"
  /\ v \in VirtualPages /\ v < VBase /\ p \in VirtualPages /\ (p = v \/ v \notin LinearPages)

(* And what holds of the state n it leaves.                                *)
After(m, v, p, n) ==
  /\ Sound(n) /\ Tabled(n) /\ Fresh(n, {0, v}) /\ LowOnly(m, n)
  /\ n.hung = "no" => n.entry[v] = p
  /\ n.hung # "device" /\ (n.hung = "fault" => n.paging)
  /\ n.hung = "fault" /\ Chained(m, Region(v)) => Closed(n)
  /\ n.hung = "no" /\ m.paging =>
       /\ Unmapped(n) \subseteq Unmapped(m)
       /\ \A w \in VirtualPages : Region(w) \in Unmapped(m) => n.entry[w] = m.entry[w]

(* Linear pages, and whatever is below VBase, share no region with virtual *)
(* pages.                                                                  *)
LEMMA LowRegions ==
  /\ \A v \in VirtualPages : v < VBase => Region(v) < Region(VBase)
  /\ \A v \in VBase..VLast : v \in VirtualPages /\ Region(v) >= Region(VBase) /\ v \notin LinearPages
  /\ \A p \in LinearPages : p \in Nat /\ p \in VirtualPages /\ p < VBase
<1>1. VBase \in Nat /\ VBase = Region(VBase) * T /\ Region(VBase) \in Nat
  BY LayoutAssumption, ModZero, RegionBounds
<1>2. ASSUME NEW v \in VirtualPages, v < VBase PROVE Region(v) < Region(VBase)
  BY <1>1, <1>2, RegionBelow, RegionOfPage
<1>3. ASSUME NEW p \in LinearPages PROVE p \in Nat /\ p \in VirtualPages /\ p < VBase
  BY <1>1, Layout, MachineAssumption DEF LinearPages
<1>4. ASSUME NEW v \in VBase..VLast
      PROVE  v \in VirtualPages /\ Region(v) >= Region(VBase) /\ v \notin LinearPages
  <2>1. v \in Nat /\ v \in VirtualPages /\ VBase <= v
    BY LayoutAssumption DEF VirtualPages
  <2> QED
    BY <1>1, <1>3, <2>1, RegionMonotonic
<1> QED
  BY <1>2, <1>3, <1>4

(* LowOnly composes.                                                       *)
LEMMA LowOnlyTransitive ==
  ASSUME NEW m, NEW n, NEW o, LowOnly(m, n), LowOnly(n, o)
  PROVE  LowOnly(m, o)
BY DEF LowOnly

(* The last step of set_virtual_entry: the page table is there.            *)
LEMMA Stored ==
  ASSUME NEW m, NEW v, NEW p, Before(m, v, p), m.table[Region(v)] # 0
  PROVE  /\ After(m, v, p, Put(m, v, p))
         /\ Region(v) \notin Unmapped(m) => Put(m, v, p).hung = "no"
         /\ \A w \in VirtualPages : w # v => Put(m, v, p).entry[w] = m.entry[w]
<1> DEFINE r == Region(v)
           t == m.table[r]
           n == Put(m, v, p)
<1>1. /\ m \in MemType /\ v \in VirtualPages /\ p \in Entries
      /\ v \in Nat /\ r \in Regions /\ t \in LinearPages /\ t \in VirtualPages
  <2>1. m \in MemType /\ v \in VirtualPages /\ p \in VirtualPages
    BY DEF Before, Sound
  <2>2. v \in Nat /\ r \in Regions
    BY <2>1, RegionOfPage
  <2> QED
    BY <2>1, <2>2, TypeFields, Layout DEF Entries
<1>2. /\ n \in MemType /\ n.available = m.available /\ n.allocated = m.allocated
      /\ n.next = m.next /\ n.table = m.table /\ n.paging = m.paging
      /\ m.paging /\ m.entry[t] # t => n.hung = "fault" /\ n.entry = m.entry
      /\ ~(m.paging /\ m.entry[t] # t) => n.hung = "no" /\ n.entry = [m.entry EXCEPT ![v] = p]
  BY <1>1, PutFields DEF Before
<1> HIDE DEF n
<1>3. n.hung # "exhausted" /\ n.hung # "device"
  BY <1>2
<1>4. Sound(n)
  BY <1>2, <1>3, SoundKept DEF Before, Sound
<1>5. m.entry \in [VirtualPages -> Entries] /\ v < VBase /\ VBase \in Nat
  BY <1>1, TypeFields, LayoutAssumption DEF Entries, Before
<1>6. \A w \in VirtualPages : w # v => n.entry[w] = m.entry[w]
  BY <1>1, <1>2, <1>5
<1>7. n.hung = "no" => n.entry[v] = p
  BY <1>1, <1>2, <1>5
<1>8. Tabled(n)
  <2> SUFFICES ASSUME NEW w \in VirtualPages, n.entry[w] # None PROVE n.table[Region(w)] # 0
    BY DEF Tabled
  <2>1. CASE w = v
    BY <1>2, <2>1
  <2>2. CASE w # v
    BY <1>2, <1>6, <2>2 DEF Before, Tabled
  <2> QED
    BY <2>1, <2>2
<1>9. Fresh(n, {0, v})
  <2>1. n.available \subseteq VirtualPages
    BY <1>2, TypeFields, Layout
  <2> QED
    BY <1>2, <1>6, <2>1 DEF Before, Fresh
<1>10. LowOnly(m, n)
  <2>1. \A w \in VBase..VLast : w \in VirtualPages /\ w # v
    BY <1>1, <1>5, LowRegions
  <2> QED
    BY <1>2, <1>6, <2>1 DEF Before, LowOnly
<1>11. ASSUME n.hung = "fault", Chained(m, r) PROVE Closed(n)
  <2>1. m.entry[t] # t /\ n.entry = m.entry
    BY <1>2, <1>11
  <2>2. Unmapped(n) = Unmapped(m)
    BY <1>2, <2>1 DEF Unmapped
  <2>3. r \in Unmapped(m)
    BY <1>1, <2>1 DEF Unmapped
  <2> QED
    BY <1>2, <1>11, <2>2, <2>3 DEF Closed, Settled, Chained
<1>12. ASSUME n.hung = "no", m.paging
       PROVE  /\ Unmapped(n) \subseteq Unmapped(m)
              /\ \A w \in VirtualPages : Region(w) \in Unmapped(m) => n.entry[w] = m.entry[w]
  <2>1. m.entry[t] = t /\ n.entry[v] = p
    BY <1>2, <1>7, <1>12
  <2>2. r \notin Unmapped(m)
    BY <2>1 DEF Unmapped
  <2>3. Unmapped(n) \subseteq Unmapped(m)
    <3> SUFFICES ASSUME NEW s \in Unmapped(n) PROVE s \in Unmapped(m)
      OBVIOUS
    <3>1. /\ s \in Regions /\ m.table[s] # 0 /\ n.entry[m.table[s]] # m.table[s]
          /\ m.table[s] \in LinearPages
      BY <1>1, <1>2, TypeFields DEF Unmapped
    <3>2. m.table[s] # v
      BY <2>1, <3>1 DEF Before
    <3>3. n.entry[m.table[s]] = m.entry[m.table[s]]
      BY <1>6, <3>1, <3>2, Layout
    <3> QED
      BY <3>1, <3>3 DEF Unmapped
  <2>4. \A w \in VirtualPages : Region(w) \in Unmapped(m) => w # v
    BY <2>2
  <2> QED
    BY <1>6, <2>3, <2>4
<1>13. n.hung = "fault" => n.paging
  BY <1>2
<1>14. r \notin Unmapped(m) => n.hung = "no"
  BY <1>1, <1>2 DEF Unmapped
<1> QED
  BY <1>3, <1>4, <1>6, <1>7, <1>8, <1>9, <1>10, <1>11, <1>12, <1>13, <1>14 DEF After, n

(* A page is taken for the table of the region and entered.                *)
Taken(m) == GetFreePages(m, 1, NORMAL)
WithTable(m, v) == [Taken(m) EXCEPT !.table[Region(v)] = Taken(m).got]

(* A table that was missing is entered: it is the one more not mapped.     *)
LEMMA Entered ==
  ASSUME NEW m, NEW v, NEW p, Before(m, v, p), m.table[Region(v)] = 0,
         Taken(m).hung = "no"
  PROVE  LET n == WithTable(m, v)
             t == Taken(m).got
         IN  /\ Before(n, t, t) /\ LowOnly(m, n) /\ t # 0
             /\ t \in LinearPages /\ t \notin n.available
             /\ n.entry = m.entry /\ n.table[Region(v)] = t
             /\ Region(v) \in Unmapped(n) /\ Unmapped(n) = Unmapped(m) \cup {Region(v)}
             /\ Chained(m, Region(v)) => Chained(n, Region(t))
<1> DEFINE r == Region(v)
           g == Taken(m)
           n == WithTable(m, v)
<1>1. m \in MemType /\ v \in VirtualPages /\ r \in Regions /\ Sound(m) /\ m.hung = "no"
  BY RegionOfPage DEF Before, Sound
<1>2. /\ Searched(m, g) /\ g.got \in m.available /\ g.got # 0 /\ g.got \in LinearPages
      /\ g.got \notin g.available
  <2>1. 1 \in Nat \ {0} /\ NORMAL \in {NORMAL, DMA} /\ 1 <= 2
    OBVIOUS
  <2>2. g.got + 1 - 1 \in LinearPages /\ g.got \in m.available => g.got \in LinearPages
    BY <1>1, AvailableBounded DEF Sound
  <2> QED
    BY <1>1, <2>1, <2>2, Got DEF Taken
<1>3. /\ g \in MemType /\ g.entry = m.entry /\ g.table = m.table /\ g.paging = m.paging
      /\ g.available \subseteq m.available /\ Sound(g)
  BY <1>2 DEF Searched, Sound
<1>4. g.got \in LinearPages /\ g.got \in VirtualPages /\ g.got < VBase
  BY <1>3, TypeFields, LowRegions
<1>5. /\ n \in MemType /\ n.available = g.available /\ n.allocated = g.allocated
      /\ n.next = g.next /\ n.entry = g.entry /\ n.paging = g.paging /\ n.hung = g.hung
      /\ n.wanted = g.wanted /\ n.table = [g.table EXCEPT ![r] = g.got]
  BY <1>1, <1>3, <1>4 DEF MemType, WithTable
<1>6. n.table[r] = g.got /\ \A s \in Regions : s # r => n.table[s] = m.table[s]
  <2>1. m.table \in [Regions -> LinearPages]
    BY <1>1, TypeFields
  <2> QED
    BY <1>1, <1>3, <1>5, <2>1
<1>7. Sound(n)
  BY <1>3, <1>5, SoundKept
<1>8. Tabled(n)
  BY <1>2, <1>3, <1>5, <1>6, RegionOfPage DEF Before, Tabled
<1>9. Fresh(n, {0})
  BY <1>3, <1>5 DEF Before, Fresh
<1>10. Before(n, g.got, g.got)
  BY <1>4, <1>5, <1>7, <1>8, <1>9 DEF Before
<1>11. LowOnly(m, n)
  <2>1. ~(r >= Region(VBase))
    <3>1. r < Region(VBase) /\ r \in Nat /\ Region(VBase) \in Nat
      BY <1>1, LowRegions, RegionOfPage, RegionBounds, LayoutAssumption DEF Before
    <3> QED
      BY <3>1
  <2> QED
    BY <1>1, <1>3, <1>5, <1>6, <2>1 DEF LowOnly
<1>12. m.entry[g.got] # g.got
  BY <1>2 DEF Before, Fresh
<1>13. Unmapped(n) = Unmapped(m) \cup {r} /\ r \in Unmapped(n)
  <2>1. \A s \in Regions : s \in Unmapped(n) <=> s \in Unmapped(m) \/ s = r
    BY <1>1, <1>2, <1>3, <1>5, <1>6, <1>12 DEF Unmapped
  <2>2. Unmapped(n) \subseteq Regions /\ Unmapped(m) \subseteq Regions
    BY DEF Unmapped
  <2> QED
    BY <1>1, <2>1, <2>2
<1>14. ASSUME Chained(m, r) PROVE Chained(n, Region(g.got))
  <2> SUFFICES ASSUME NEW s \in Unmapped(n)
               PROVE  Region(n.table[s]) \in Unmapped(n) \cup {Region(g.got)}
    BY DEF Chained
  <2>1. CASE s = r
    BY <1>6, <2>1
  <2>2. CASE s # r
    <3>1. s \in Unmapped(m) /\ s \in Regions /\ n.table[s] = m.table[s]
      BY <1>6, <1>13, <2>2 DEF Unmapped
    <3> QED
      BY <1>13, <1>14, <3>1 DEF Chained
  <2> QED
    BY <2>1, <2>2
<1> QED
  BY <1>2, <1>3, <1>4, <1>5, <1>6, <1>10, <1>11, <1>13, <1>14

(* The new table is marked and cleared; nothing is lost by that.           *)
LEMMA Cleared ==
  ASSUME NEW m, NEW v, NEW p, Before(m, v, p), m.table[Region(v)] = 0,
         Taken(m).hung = "no",
         NEW o, After(WithTable(m, v), Taken(m).got, Taken(m).got, o), o.hung = "no"
  PROVE  LET q == NewTable(o, Region(v), Taken(m).got)
         IN  /\ Before(q, v, p) /\ LowOnly(m, q) /\ q.table[Region(v)] # 0
             /\ m.paging =>
                  /\ Unmapped(q) \subseteq Unmapped(m)
                  /\ \A w \in VirtualPages : Region(w) \in Unmapped(m) => q.entry[w] = m.entry[w]
<1> DEFINE r == Region(v)
           t == Taken(m).got
           n == WithTable(m, v)
           q == NewTable(o, r, t)
           l == SetLinear(o, t)
<1>1. m \in MemType /\ v \in VirtualPages /\ r \in Regions /\ r < Region(VBase)
  BY RegionOfPage, LowRegions DEF Before, Sound
<1>2. /\ Before(n, t, t) /\ LowOnly(m, n) /\ t # 0
      /\ t \in LinearPages /\ t \notin n.available
      /\ n.entry = m.entry /\ n.table[r] = t
      /\ r \in Unmapped(n) /\ Unmapped(n) = Unmapped(m) \cup {r}
      /\ Chained(m, r) => Chained(n, Region(t))
  BY Entered
<1> HIDE DEF t, n
<1>3. /\ Sound(o) /\ Tabled(o) /\ Fresh(o, {0, t}) /\ LowOnly(n, o) /\ o.entry[t] = t
      /\ o \in MemType
  BY DEF After, Sound, t, n
<1>4. q = ClearTable(l, r)
  BY DEF NewTable
<1>5. /\ l \in MemType /\ l.next = o.next /\ l.table = o.table /\ l.entry = o.entry
      /\ l.paging = o.paging /\ l.hung = o.hung /\ l.wanted = o.wanted
      /\ l.available = o.available \ {t} /\ l.allocated = o.allocated \cup {t}
  BY <1>2, <1>3, SetLinearFields
<1> HIDE DEF l, q
<1>6. /\ q \in MemType /\ q.available = o.available \ {t} /\ q.allocated = o.allocated \cup {t}
      /\ q.next = o.next /\ q.table = o.table /\ q.paging = o.paging /\ q.hung = "no"
      /\ \A w \in VirtualPages : q.entry[w] = IF Region(w) = r THEN None ELSE o.entry[w]
  BY <1>4, <1>5, ClearTableFields
<1>7. Sound(q)
  BY <1>2, <1>3, <1>6, SoundKept DEF Sound
<1>8. Tabled(q)
  BY <1>3, <1>6 DEF Tabled
<1>9. Fresh(q, {0})
  <2> SUFFICES ASSUME NEW x \in q.available \ {0} PROVE q.entry[x] # x
    BY DEF Fresh
  <2>1. x \in o.available \ {0, t} /\ x \in VirtualPages /\ x \in Nat
    BY <1>3, <1>6, TypeFields, LowRegions
  <2>2. o.entry[x] # x /\ None # x
    BY <1>3, <2>1 DEF Fresh, None
  <2> QED
    BY <1>6, <2>1, <2>2
<1>10. Before(q, v, p)
  BY <1>6, <1>7, <1>8, <1>9 DEF Before
<1>11. LowOnly(n, q)
  <2>1. \A w \in VBase..VLast : w \in VirtualPages /\ Region(w) # r
    <3> SUFFICES ASSUME NEW w \in VBase..VLast PROVE w \in VirtualPages /\ Region(w) # r
      OBVIOUS
    <3>1. /\ w \in VirtualPages /\ Region(w) >= Region(VBase) /\ Region(w) \in Nat
          /\ r \in Nat /\ Region(VBase) \in Nat
      BY <1>1, LowRegions, RegionOfPage, RegionBounds, LayoutAssumption
    <3> QED
      BY <1>1, <3>1
  <2> QED
    BY <1>3, <1>6, <2>1 DEF LowOnly
<1>12. LowOnly(m, q)
  BY <1>2, <1>11, LowOnlyTransitive
<1>13. q.table[r] = t
  BY <1>1, <1>2, <1>11 DEF LowOnly
<1>14. ASSUME m.paging
       PROVE  /\ Unmapped(q) \subseteq Unmapped(m)
              /\ \A w \in VirtualPages : Region(w) \in Unmapped(m) => q.entry[w] = m.entry[w]
  <2>1. n.paging
    BY <1>2, <1>14 DEF LowOnly
  <2>2. /\ Unmapped(o) \subseteq Unmapped(n)
        /\ \A w \in VirtualPages : Region(w) \in Unmapped(n) => o.entry[w] = n.entry[w]
    BY <1>2, <1>14, <2>1 DEF After, t, n
  <2>3. \A w \in VirtualPages : Region(w) = r => m.entry[w] = None
    BY DEF Before, Tabled
  <2>4. \A w \in VirtualPages : Region(w) = r => o.entry[w] = None
    BY <1>2, <2>2, <2>3
  <2>5. \A w \in VirtualPages : q.entry[w] = o.entry[w]
    BY <1>6, <2>4
  <2>6. Unmapped(q) = Unmapped(o)
    <3>1. \A s \in Regions : o.table[s] \in VirtualPages
      BY <1>3, TypeFields, Layout
    <3> QED
      BY <1>6, <2>5, <3>1 DEF Unmapped
  <2>7. r \notin Unmapped(o)
    BY <1>3, <1>6, <1>13 DEF Unmapped
  <2>8. Unmapped(q) \subseteq Unmapped(m)
    BY <1>2, <2>2, <2>6, <2>7
  <2> QED
    BY <1>2, <2>2, <2>5, <2>8
<1> QED
  BY <1>2, <1>10, <1>12, <1>13, <1>14 DEF q, t

(* One call, given what the call within it does.                           *)
LEMMA OneCall ==
  ASSUME NEW m, NEW v, NEW p, Before(m, v, p),
         m.table[Region(v)] = 0 /\ Taken(m).hung = "no" =>
           After(WithTable(m, v), Taken(m).got, Taken(m).got,
                 SetVirtualEntry[<<WithTable(m, v), Taken(m).got, Taken(m).got>>])
  PROVE  After(m, v, p, SetVirtualEntry[<<m, v, p>>])
<1> DEFINE r == Region(v)
           g == Taken(m)
           t == Taken(m).got
           o == SetVirtualEntry[<<WithTable(m, v), t, t>>]
           q == NewTable(o, r, t)
           n == SetVirtualEntry[<<m, v, p>>]
<1>1. m \in MemType /\ Sound(m) /\ v \in VirtualPages /\ r \in Regions /\ p \in VirtualPages
  BY RegionOfPage DEF Before, Sound
<1>2. <<m, v, p>> \in Calls
  BY <1>1 DEF Calls
<1>3. n = Put(IF m.table[r] # 0 THEN m ELSE NewTable(IF g.hung # "no" THEN g ELSE o, r, t), v, p)
  BY <1>2, Unfolds DEF Body, Taken, WithTable
<1> HIDE DEF n, g, t, o
<1>4. CASE m.table[r] # 0
  BY <1>3, <1>4, Stored DEF n
<1>5. CASE m.table[r] = 0 /\ g.hung # "no"
  <2>1. n = g
    BY <1>3, <1>5 DEF NewTable, Put
  <2>2. Searched(m, g) /\ g.hung = "exhausted"
    <3>1. 1 \in Nat \ {0} /\ NORMAL \in {NORMAL, DMA} /\ 1 <= 2 /\ m.hung = "no"
      BY DEF Before
    <3> QED
      BY <1>1, <1>5, <3>1, Got DEF g, Taken
  <2>3. Sound(g) /\ Tabled(g) /\ Fresh(g, {0, v}) /\ LowOnly(m, g)
    BY <2>2 DEF Before, Searched, Tabled, Fresh, LowOnly
  <2> QED
    BY <2>1, <2>2, <2>3 DEF After, n
<1>6. CASE m.table[r] = 0 /\ g.hung = "no"
  <2> DEFINE s == WithTable(m, v)
  <2>1. After(s, t, t, o)
    BY <1>6 DEF g, t, o
  <2>2. /\ LowOnly(m, s) /\ t # 0 /\ t \notin s.available
        /\ Chained(m, r) => Chained(s, Region(t))
    BY <1>6, Entered DEF g, t
  <2> HIDE DEF s
  <2>3. CASE o.hung # "no"
    <3>1. n = o
      BY <1>3, <1>6, <2>3 DEF NewTable, Put
    <3>2. LowOnly(m, o)
      BY <2>1, <2>2, LowOnlyTransitive DEF After
    <3>3. Fresh(o, {0, v})
      BY <2>1, <2>2 DEF After, Fresh, LowOnly
    <3> QED
      BY <2>1, <2>2, <2>3, <3>1, <3>2, <3>3 DEF After, n
  <2>4. CASE o.hung = "no"
    <3>1. n = Put(q, v, p)
      BY <1>3, <1>6
    <3>2. /\ Before(q, v, p) /\ LowOnly(m, q) /\ q.table[r] # 0
          /\ m.paging => /\ Unmapped(q) \subseteq Unmapped(m)
                         /\ \A w \in VirtualPages : Region(w) \in Unmapped(m) => q.entry[w] = m.entry[w]
      BY <1>6, <2>1, <2>4, Cleared DEF g, t, s
    <3> HIDE DEF q
    <3>3. /\ After(q, v, p, n) /\ (r \notin Unmapped(q) => n.hung = "no")
          /\ \A w \in VirtualPages : w # v => n.entry[w] = q.entry[w]
      BY <3>1, <3>2, Stored
    <3>4. LowOnly(m, n)
      BY <3>2, <3>3, LowOnlyTransitive DEF After
    <3>5. r \notin Unmapped(m)
      BY <1>6 DEF Unmapped
    <3>6. n.hung # "fault"
      BY <3>2, <3>3, <3>4, <3>5 DEF After, LowOnly
    <3>7. ASSUME n.hung = "no", m.paging
          PROVE  /\ Unmapped(n) \subseteq Unmapped(m)
                 /\ \A w \in VirtualPages : Region(w) \in Unmapped(m) => n.entry[w] = m.entry[w]
      <4>1. q.paging
        BY <3>2, <3>7 DEF LowOnly
      <4>2. Unmapped(n) \subseteq Unmapped(q)
        BY <3>3, <3>7, <4>1 DEF After
      <4>3. \A w \in VirtualPages : Region(w) \in Unmapped(m) => n.entry[w] = q.entry[w]
        BY <3>3, <3>5
      <4> QED
        BY <3>2, <3>7, <4>2, <4>3
    <3> QED
      BY <3>3, <3>4, <3>6, <3>7 DEF After, n
  <2> QED
    BY <2>3, <2>4
<1> QED
  BY <1>4, <1>5, <1>6

(* set_virtual_entry, whatever page tables it has to add on the way.       *)
LEMMA EntryIsSet ==
  ASSUME NEW m, NEW v, NEW p, Before(m, v, p)
  PROVE  After(m, v, p, SetVirtualEntry[<<m, v, p>>])
<1> DEFINE Holds(c) == Before(c[1], c[2], c[3]) =>
                         After(c[1], c[2], c[3], SetVirtualEntry[<<c[1], c[2], c[3]>>])
           S == {k \in Nat : \A c \in CallsUpTo(k) : Holds(c)}
<1>1. ASSUME NEW k \in Nat, NEW c \in CallsUpTo(k),
             k # 0 => \A d \in CallsUpTo(k - 1) : Holds(d)
      PROVE  Holds(c)
  <2> SUFFICES ASSUME Before(c[1], c[2], c[3])
               PROVE  After(c[1], c[2], c[3], SetVirtualEntry[<<c[1], c[2], c[3]>>])
    OBVIOUS
  <2>1. ASSUME c[1].table[Region(c[2])] = 0, Taken(c[1]).hung = "no"
        PROVE  After(WithTable(c[1], c[2]), Taken(c[1]).got, Taken(c[1]).got,
                     SetVirtualEntry[<<WithTable(c[1], c[2]), Taken(c[1]).got, Taken(c[1]).got>>])
    <3>1. CallsItself(c)
      BY <2>1 DEF CallsItself, Taken
    <3>2. Inner(c) = <<WithTable(c[1], c[2]), Taken(c[1]).got, Taken(c[1]).got>>
      BY DEF Inner, WithTable, Taken
    <3>3. Inner(c) \in CallsUpTo(k - 1) /\ Holds(Inner(c))
      BY <1>1, <3>1, InnerUpTo
    <3>4. Before(WithTable(c[1], c[2]), Taken(c[1]).got, Taken(c[1]).got)
      BY <2>1, Entered
    <3> QED
      BY <3>2, <3>3, <3>4
  <2> QED
    BY <2>1, OneCall
<1>2. 0 \in S
  BY <1>1
<1>3. ASSUME NEW k \in Nat, k \in S PROVE k + 1 \in S
  <2>1. k + 1 \in Nat /\ (k + 1) - 1 = k /\ \A d \in CallsUpTo(k) : Holds(d)
    BY <1>3
  <2> HIDE DEF Holds
  <2> QED
    BY <1>1, <2>1
<1>4. Nat \subseteq S
  <2> HIDE DEF S
  <2> QED
    BY <1>2, <1>3, Induction
<1> DEFINE c == <<m, v, p>>
           k == Cardinality(Missing(m))
<1>5. c \in Calls /\ c[1] = m /\ c[2] = v /\ c[3] = p /\ k \in Nat
  BY MissingFinite DEF Before, Sound, Calls
<1>6. c \in CallsUpTo(k)
  BY <1>5 DEF CallsUpTo
<1>7. Holds(c)
  BY <1>4, <1>5, <1>6
<1> QED
  BY <1>5, <1>7

-----------------------------------------------------------------------------
(* Operations on linear pages.                                             *)

(* The tables that are not mapped stay so, and virtual pages have none.    *)
Steady(m) == Settled(m) /\ \A s \in Unmapped(m) : s < Region(VBase)

(* A page behind the memory is mapped.                                     *)
Behind(m) == \E v \in VirtualPages \ LinearPages : m.entry[v] = v

(* The state of the page tables between two steps of any operation.        *)
Good(m) ==
  /\ Sound(m) /\ Tabled(m)
  /\ m.hung = "no" => Fresh(m, {0}) /\ (m.paging => Steady(m))
  /\ m.hung = "fault" => Closed(m)
  /\ m.hung = "device" => Behind(m)

(* A step that changes no entry in the regions without a mapped table      *)
(* leaves them as they are.                                                *)
LEMMA SteadyKept ==
  ASSUME NEW m \in MemType, NEW n \in MemType, Steady(m), Unmapped(n) \subseteq Unmapped(m),
         \A w \in VirtualPages : Region(w) \in Unmapped(m) => n.entry[w] = m.entry[w],
         \A r \in Regions : m.table[r] # 0 => n.table[r] = m.table[r]
  PROVE  Steady(n)
<1>1. ASSUME NEW s \in Unmapped(m)
      PROVE  s \in Unmapped(n) /\ Region(n.table[s]) \in Unmapped(m)
  <2>1. s \in Regions /\ m.table[s] # 0 /\ m.entry[m.table[s]] # m.table[s]
    BY DEF Unmapped
  <2>2. Region(m.table[s]) \in Unmapped(m) /\ n.table[s] = m.table[s]
    BY <2>1 DEF Steady, Settled
  <2>3. m.table[s] \in VirtualPages
    BY <2>1, TypeFields, Layout
  <2>4. n.entry[m.table[s]] = m.entry[m.table[s]]
    BY <2>2, <2>3
  <2> QED
    BY <2>1, <2>2, <2>4 DEF Unmapped
<1>2. Unmapped(n) = Unmapped(m)
  BY <1>1
<1> QED
  BY <1>1, <1>2 DEF Steady, Settled

(* One page is mapped below the addresses of virtual pages.                *)
MapPage(m, v, p) == SetLinear(SetVirtual(m, v, p), p)

(* It is mapped, or the kernel stops for a cause.                          *)
LEMMA PageMapped ==
  ASSUME NEW m, Good(m), NEW v \in VirtualPages, v < VBase, NEW p \in VirtualPages,
         p = v \/ (v \notin LinearPages /\ p \in LinearPages)
  PROVE  LET n == MapPage(m, v, p)
         IN  /\ Good(n) /\ LowOnly(m, n)
             /\ n.hung = "no" => n.entry[v] = p
             /\ m.hung # "no" => n = m
<1> DEFINE o == SetVirtual(m, v, p)
           n == SetLinear(o, p)
<1>1. m \in MemType
  BY DEF Good, Sound
<1>2. CASE m.hung # "no"
  <2>1. n = m
    BY <1>2 DEF SetVirtual, SetLinear
  <2>2. LowOnly(m, m)
    BY DEF LowOnly
  <2> QED
    BY <1>2, <2>1, <2>2 DEF MapPage
<1>3. CASE m.hung = "no"
  <2>1. Before(m, v, p)
    BY <1>1, <1>3 DEF Before, Good
  <2>2. o = SetVirtualEntry[<<m, v, p>>]
    BY <1>3 DEF SetVirtual
  <2>3. After(m, v, p, o)
    BY <2>1, <2>2, EntryIsSet
  <2> HIDE DEF o
  <2>4. /\ Sound(o) /\ Tabled(o) /\ Fresh(o, {0, v}) /\ LowOnly(m, o) /\ o \in MemType
        /\ o.paging = m.paging /\ o.hung # "device"
    BY <2>3 DEF After, Sound, LowOnly
  <2>5. /\ n \in MemType /\ n.next = o.next /\ n.table = o.table /\ n.entry = o.entry
        /\ n.paging = o.paging /\ n.wanted = o.wanted /\ n.available \subseteq o.available
        /\ o.hung # "no" => n = o
        /\ o.hung = "no" /\ p \in LinearPages => n.hung = "no" /\ n.available = o.available \ {p}
        /\ o.hung = "no" /\ p \notin LinearPages => n.hung = "device"
    BY <2>4, SetLinearFields, SetLinearBehind
  <2> HIDE DEF n
  <2>6. Sound(n)
    BY <2>4, <2>5, SoundKept
  <2>7. Tabled(n)
    BY <2>4, <2>5 DEF Tabled
  <2>8. Fresh(n, {0}) \/ n.hung # "no"
    <3>1. o.available \subseteq LinearPages
      BY <2>4, TypeFields
    <3> QED
      BY <2>4, <2>5, <3>1 DEF Fresh
  <2>9. LowOnly(m, n)
    BY <1>3, <2>4, <2>5 DEF LowOnly
  <2>10. m.paging => Steady(m) /\ Chained(m, Region(v))
    BY <1>3 DEF Good, Steady, Settled, Chained
  <2>11. Unmapped(n) = Unmapped(o)
    BY <2>5 DEF Unmapped
  <2>12. n.hung = "no" /\ n.paging => Steady(n)
    <3>1. ASSUME n.hung = "no", n.paging PROVE Steady(o)
      <4>1. /\ Steady(m) /\ Unmapped(o) \subseteq Unmapped(m)
            /\ \A w \in VirtualPages : Region(w) \in Unmapped(m) => o.entry[w] = m.entry[w]
        BY <2>3, <2>4, <2>5, <2>10, <3>1 DEF After
      <4> QED
        BY <1>1, <2>4, <4>1, SteadyKept DEF LowOnly
    <3> QED
      BY <2>5, <2>11, <3>1 DEF Steady, Settled
  <2>13. n.hung = "fault" => Closed(n)
    <3>1. o.hung = "fault" => Closed(o)
      BY <2>3, <2>4, <2>10 DEF After
    <3> QED
      BY <2>5, <2>11, <3>1 DEF Closed, Settled
  <2>14. n.hung = "no" => n.entry[v] = p
    BY <2>3, <2>5 DEF After
  <2>15. n.hung = "device" => Behind(n)
    BY <2>3, <2>4, <2>5 DEF After, Behind
  <2> QED
    BY <1>3, <2>6, <2>7, <2>8, <2>9, <2>12, <2>13, <2>14, <2>15 DEF Good, MapPage, n, o
<1> QED
  BY <1>2, <1>3

(* A page mapped at its own address.                                       *)
LEMMA IdentityMapped ==
  ASSUME NEW m, Good(m), NEW p \in VirtualPages, p < VBase
  PROVE  LET n == Identity(m, p)
         IN  /\ Good(n) /\ LowOnly(m, n)
             /\ n.hung = "no" => n.entry[p] = p
             /\ m.hung # "no" => n = m
<1>1. Identity(m, p) = MapPage(m, p, p)
  BY DEF Identity, MapPage
<1> QED
  BY <1>1, PageMapped

(* A stopped kernel maps nothing.                                          *)
LEMMA HungIdentity ==
  ASSUME NEW m, m.hung # "no", NEW v, NEW p
  PROVE  MapPage(m, v, p) = m /\ Identity(m, p) = m
BY DEF MapPage, Identity, SetVirtual, SetLinear

(* get_free_pages.                                                         *)
LEMMA GoodGot ==
  ASSUME NEW m, Good(m), NEW count \in Nat \ {0}, NEW zone \in {NORMAL, DMA},
         count <= 2 \/ (m.hung = "no" => LowEnd \notin m.available)
  PROVE  LET g == GetFreePages(m, count, zone)
         IN  /\ Good(g) /\ LowOnly(m, g) /\ g.entry = m.entry /\ g.table = m.table
             /\ g.hung = "no" => /\ g.got # 0 /\ g.got \in LinearPages
                                 /\ g.got + count - 1 \in LinearPages
<1> DEFINE g == GetFreePages(m, count, zone)
<1>1. CASE m.hung # "no"
  BY <1>1 DEF GetFreePages, LowOnly
<1>2. CASE m.hung = "no"
  <2>1. /\ Searched(m, g)
        /\ \/ g.hung = "exhausted"
           \/ /\ g.hung = "no" /\ g.got \in m.available /\ g.got # 0
              /\ g.got + count - 1 \in LinearPages
    BY <1>2, Got DEF Good
  <2> HIDE DEF g
  <2>2. /\ Sound(g) /\ g.entry = m.entry /\ g.table = m.table /\ g.paging = m.paging
        /\ g.available \subseteq m.available
    BY <2>1 DEF Searched
  <2>3. Tabled(g) /\ Fresh(g, {0}) /\ LowOnly(m, g) /\ Unmapped(g) = Unmapped(m)
    BY <1>2, <2>2 DEF Good, Tabled, Fresh, LowOnly, Unmapped
  <2>4. m.available \subseteq LinearPages
    BY AvailableBounded DEF Good, Sound
  <2>5. Good(g)
    <3>1. m.paging => Steady(g)
      BY <1>2, <2>2, <2>3 DEF Good, Steady, Settled
    <3> QED
      BY <2>1, <2>2, <2>3, <3>1 DEF Good
  <2> QED
    BY <2>1, <2>2, <2>3, <2>4, <2>5 DEF g
<1> QED
  BY <1>1, <1>2

(* The loop over set_linear_entry.                                         *)
LEMMA SetLinearLoop ==
  ASSUME NEW n \in Nat, NEW a \in Nat, NEW m, NEW U, NEW I,
         \A k \in 0..n : I[k] \subseteq U, m \in I[0],
         \A k \in 1..n : \A s \in I[k - 1] : SetLinear(s, a + k - 1) \in I[k]
  PROVE  Loop(SetLinear, m, a, n) \in I[n]
<1> DEFINE G == [k \in 1..n |-> [s \in U |-> SetLinear(s, a + k - 1)]]
           Eq(x) == x = [k \in 0..n |-> IF k = 0 THEN m ELSE SetLinear(x[k - 1], a + k - 1)]
           y == CHOOSE x : Eq(x)
<1>1. ASSUME NEW k \in 1..n, NEW s \in U PROVE G[k][s] = SetLinear(s, a + k - 1)
  OBVIOUS
<1> HIDE DEF G
<1>2. PICK x : StatesOf(x, G, m, n) /\ \A k \in 0..n : x[k] \in I[k]
  <2>1. \A k \in 1..n : \A s \in I[k - 1] : G[k][s] \in I[k]
    BY <1>1
  <2> QED
    BY <2>1, Steps
<1>3. Eq(x)
  <2>1. \A k \in 0..n : k # 0 => k \in 1..n /\ k - 1 \in 0..n
    OBVIOUS
  <2>2. \A k \in 0..n : (IF k = 0 THEN m ELSE G[k][x[k - 1]])
                      = (IF k = 0 THEN m ELSE SetLinear(x[k - 1], a + k - 1))
    BY <1>1, <1>2, <2>1
  <2> QED
    BY <1>2, <2>2, Zenon DEF StatesOf
<1>4. Eq(y)
  BY <1>3, Zenon
<1>5. Loop(SetLinear, m, a, n) = y[n]
  BY Zenon DEF Loop
<1> HIDE DEF y
<1>6. y[0] = m /\ \A k \in 1..n : y[k] = SetLinear(y[k - 1], a + k - 1)
  BY <1>4
<1>7. \A k \in 0..n : y[k] \in I[k]
  BY <1>6, StepsLead
<1> QED
  BY <1>5, <1>7

(* The sweep of kmemory_virtual_setup.                                     *)
LEMMA SweepLoop ==
  ASSUME NEW n \in Nat, NEW a \in Nat, NEW m, NEW U, NEW I,
         \A k \in 0..n : I[k] \subseteq U, m \in I[0],
         \A k \in 1..n : \A s \in I[k - 1] : Sweep(s, a + k - 1) \in I[k]
  PROVE  Loop(Sweep, m, a, n) \in I[n]
<1> DEFINE G == [k \in 1..n |-> [s \in U |-> Sweep(s, a + k - 1)]]
           Eq(x) == x = [k \in 0..n |-> IF k = 0 THEN m ELSE Sweep(x[k - 1], a + k - 1)]
           y == CHOOSE x : Eq(x)
<1>1. ASSUME NEW k \in 1..n, NEW s \in U PROVE G[k][s] = Sweep(s, a + k - 1)
  OBVIOUS
<1> HIDE DEF G
<1>2. PICK x : StatesOf(x, G, m, n) /\ \A k \in 0..n : x[k] \in I[k]
  <2>1. \A k \in 1..n : \A s \in I[k - 1] : G[k][s] \in I[k]
    BY <1>1
  <2> QED
    BY <2>1, Steps
<1>3. Eq(x)
  <2>1. \A k \in 0..n : k # 0 => k \in 1..n /\ k - 1 \in 0..n
    OBVIOUS
  <2>2. \A k \in 0..n : (IF k = 0 THEN m ELSE G[k][x[k - 1]])
                      = (IF k = 0 THEN m ELSE Sweep(x[k - 1], a + k - 1))
    BY <1>1, <1>2, <2>1
  <2> QED
    BY <1>2, <2>2, Zenon DEF StatesOf
<1>4. Eq(y)
  BY <1>3, Zenon
<1>5. Loop(Sweep, m, a, n) = y[n]
  BY Zenon DEF Loop
<1> HIDE DEF y
<1>6. y[0] = m /\ \A k \in 1..n : y[k] = Sweep(y[k - 1], a + k - 1)
  BY <1>4
<1>7. \A k \in 0..n : y[k] \in I[k]
  BY <1>6, StepsLead
<1> QED
  BY <1>5, <1>7

(* The loop of kmemory_virtual_page_allocate.                              *)
LEMMA AssignLoop ==
  ASSUME NEW n \in Nat, NEW a \in Nat, NEW m, NEW U, NEW I,
         \A k \in 0..n : I[k] \subseteq U, m \in I[0],
         \A k \in 1..n : \A s \in I[k - 1] : Assign(s, a + k - 1) \in I[k]
  PROVE  Loop(Assign, m, a, n) \in I[n]
<1> DEFINE G == [k \in 1..n |-> [s \in U |-> Assign(s, a + k - 1)]]
           Eq(x) == x = [k \in 0..n |-> IF k = 0 THEN m ELSE Assign(x[k - 1], a + k - 1)]
           y == CHOOSE x : Eq(x)
<1>1. ASSUME NEW k \in 1..n, NEW s \in U PROVE G[k][s] = Assign(s, a + k - 1)
  OBVIOUS
<1> HIDE DEF G
<1>2. PICK x : StatesOf(x, G, m, n) /\ \A k \in 0..n : x[k] \in I[k]
  <2>1. \A k \in 1..n : \A s \in I[k - 1] : G[k][s] \in I[k]
    BY <1>1
  <2> QED
    BY <2>1, Steps
<1>3. Eq(x)
  <2>1. \A k \in 0..n : k # 0 => k \in 1..n /\ k - 1 \in 0..n
    OBVIOUS
  <2>2. \A k \in 0..n : (IF k = 0 THEN m ELSE G[k][x[k - 1]])
                      = (IF k = 0 THEN m ELSE Assign(x[k - 1], a + k - 1))
    BY <1>1, <1>2, <2>1
  <2> QED
    BY <1>2, <2>2, Zenon DEF StatesOf
<1>4. Eq(y)
  BY <1>3, Zenon
<1>5. Loop(Assign, m, a, n) = y[n]
  BY Zenon DEF Loop
<1> HIDE DEF y
<1>6. y[0] = m /\ \A k \in 1..n : y[k] = Assign(y[k - 1], a + k - 1)
  BY <1>4
<1>7. \A k \in 0..n : y[k] \in I[k]
  BY <1>6, StepsLead
<1> QED
  BY <1>5, <1>7

(* The loop of kmemory_virtual_page_unallocate.                            *)
LEMMA ReleaseLoop ==
  ASSUME NEW n \in Nat, NEW a \in Nat, NEW m, NEW U, NEW I,
         \A k \in 0..n : I[k] \subseteq U, m \in I[0],
         \A k \in 1..n : \A s \in I[k - 1] : Release(s, a + k - 1) \in I[k]
  PROVE  Loop(Release, m, a, n) \in I[n]
<1> DEFINE G == [k \in 1..n |-> [s \in U |-> Release(s, a + k - 1)]]
           Eq(x) == x = [k \in 0..n |-> IF k = 0 THEN m ELSE Release(x[k - 1], a + k - 1)]
           y == CHOOSE x : Eq(x)
<1>1. ASSUME NEW k \in 1..n, NEW s \in U PROVE G[k][s] = Release(s, a + k - 1)
  OBVIOUS
<1> HIDE DEF G
<1>2. PICK x : StatesOf(x, G, m, n) /\ \A k \in 0..n : x[k] \in I[k]
  <2>1. \A k \in 1..n : \A s \in I[k - 1] : G[k][s] \in I[k]
    BY <1>1
  <2> QED
    BY <2>1, Steps
<1>3. Eq(x)
  <2>1. \A k \in 0..n : k # 0 => k \in 1..n /\ k - 1 \in 0..n
    OBVIOUS
  <2>2. \A k \in 0..n : (IF k = 0 THEN m ELSE G[k][x[k - 1]])
                      = (IF k = 0 THEN m ELSE Release(x[k - 1], a + k - 1))
    BY <1>1, <1>2, <2>1
  <2> QED
    BY <1>2, <2>2, Zenon DEF StatesOf
<1>4. Eq(y)
  BY <1>3, Zenon
<1>5. Loop(Release, m, a, n) = y[n]
  BY Zenon DEF Loop
<1> HIDE DEF y
<1>6. y[0] = m /\ \A k \in 1..n : y[k] = Release(y[k - 1], a + k - 1)
  BY <1>4
<1>7. \A k \in 0..n : y[k] \in I[k]
  BY <1>6, StepsLead
<1> QED
  BY <1>5, <1>7

(* The loop of read_elf.                                                   *)
LEMMA PlaceLoop ==
  ASSUME NEW t, t[1] \in Nat, t[2] \in Nat, NEW got \in Nat, NEW m, NEW U, NEW I,
         \A k \in 0..t[2] : I[k] \subseteq U, m \in I[0],
         \A k \in 1..t[2] : \A s \in I[k - 1] :
           MapPage(s, t[1] + (0 + k - 1), got + (0 + k - 1)) \in I[k]
  PROVE  PlaceSegment(m, t, got) \in I[t[2]]
<1> DEFINE G == [k \in 1..t[2] |-> [s \in U |-> MapPage(s, t[1] + (0 + k - 1), got + (0 + k - 1))]]
           Eq(x) == x = [k \in 0..t[2] |->
                           IF k = 0 THEN m
                           ELSE MapPage(x[k - 1], t[1] + (0 + k - 1), got + (0 + k - 1))]
           y == CHOOSE x : Eq(x)
<1>1. ASSUME NEW k \in 1..t[2], NEW s \in U
      PROVE  G[k][s] = MapPage(s, t[1] + (0 + k - 1), got + (0 + k - 1))
  OBVIOUS
<1> HIDE DEF G
<1>2. PICK x : StatesOf(x, G, m, t[2]) /\ \A k \in 0..t[2] : x[k] \in I[k]
  <2>1. \A k \in 1..t[2] : \A s \in I[k - 1] : G[k][s] \in I[k]
    BY <1>1
  <2> QED
    BY <2>1, Steps
<1>3. Eq(x)
  <2>1. \A k \in 0..t[2] : k # 0 => k \in 1..t[2] /\ k - 1 \in 0..t[2]
    OBVIOUS
  <2>2. \A k \in 0..t[2] : (IF k = 0 THEN m ELSE G[k][x[k - 1]])
                         = (IF k = 0 THEN m
                                 ELSE MapPage(x[k - 1], t[1] + (0 + k - 1), got + (0 + k - 1)))
    BY <1>1, <1>2, <2>1
  <2> QED
    BY <1>2, <2>2, Zenon DEF StatesOf
<1>4. Eq(y)
  BY <1>3, Zenon
<1>5. PlaceSegment(m, t, got) = y[t[2]]
  BY Zenon DEF PlaceSegment, Loop, MapPage
<1> HIDE DEF y
<1>6. /\ y[0] = m
      /\ \A k \in 1..t[2] : y[k] = MapPage(y[k - 1], t[1] + (0 + k - 1), got + (0 + k - 1))
  BY <1>4
<1>7. \A k \in 0..t[2] : y[k] \in I[k]
  <2>1. \A k \in 1..t[2] : y[k - 1] \in I[k - 1] => y[k] \in I[k]
    BY <1>6
  <2> QED
    BY <1>6, <2>1, StepsLead
<1> QED
  BY <1>5, <1>7

(* The types in a good state.                                              *)
LEMMA GoodTyped ==
  ASSUME NEW m, Good(m)
  PROVE  m \in MemType /\ m.got \in Nat
BY TypeFields, Layout DEF Good, Sound

(* LowOnly is reflexive.                                                   *)
LEMMA SameLow ==
  ASSUME NEW m PROVE LowOnly(m, m)
BY DEF LowOnly

(* A page is marked.                                                       *)
LEMMA Marked ==
  ASSUME NEW m, Good(m), NEW p \in LinearPages
  PROVE  LET n == SetLinear(m, p)
         IN  /\ Good(n) /\ LowOnly(m, n)
             /\ n.hung = "no" => p \notin n.available
             /\ m.hung # "no" => n = m
<1> DEFINE n == SetLinear(m, p)
<1>1. p \in LinearPages /\ m \in MemType
  BY Layout, GoodTyped DEF LinearPages
<1>2. /\ n \in MemType /\ n.next = m.next /\ n.table = m.table /\ n.entry = m.entry
      /\ n.paging = m.paging /\ n.hung = m.hung /\ n.wanted = m.wanted
      /\ m.hung # "no" => n = m
      /\ m.hung = "no" => n.available = m.available \ {p} /\ n.allocated = m.allocated \cup {p}
  BY <1>1, SetLinearFields
<1> HIDE DEF n
<1>3. n.available \subseteq m.available
  BY <1>2
<1>4. Sound(n)
  BY <1>2, <1>3, SoundKept DEF Good
<1>5. Tabled(n) /\ LowOnly(m, n) /\ Unmapped(n) = Unmapped(m)
  BY <1>2, <1>3 DEF Good, Tabled, LowOnly, Unmapped
<1>6. m.hung = "no" => Fresh(n, {0})
  BY <1>2, <1>3 DEF Good, Fresh
<1>7. m.hung = "fault" => Closed(n)
  BY <1>2, <1>5 DEF Good, Closed, Settled
<1>8. Good(n)
  <2>1. m.hung = "no" /\ m.paging => Steady(n)
    BY <1>2, <1>5 DEF Good, Steady, Settled
  <2> QED
    BY <1>2, <1>4, <1>5, <1>6, <1>7, <2>1 DEF Good
<1> QED
  BY <1>2, <1>5, <1>8 DEF n

(* The states that operations below the virtual pages lead to.             *)
LowStates(m) == {s \in MemType : Good(s) /\ LowOnly(m, s) /\ (m.hung # "no" => s = m)}

(* One more step.                                                          *)
LEMMA LowStep ==
  ASSUME NEW m, NEW s \in LowStates(m), NEW n, Good(n), LowOnly(s, n),
         s.hung # "no" => n = s
  PROVE  n \in LowStates(m)
<1>1. n \in MemType
  BY GoodTyped
<1>2. LowOnly(m, n)
  BY LowOnlyTransitive DEF LowStates
<1> QED
  BY <1>1, <1>2 DEF LowStates

(* No step yet.                                                            *)
LEMMA LowStart ==
  ASSUME NEW m, Good(m) PROVE m \in LowStates(m)
BY GoodTyped, SameLow DEF LowStates

(* A run of pages is mapped at its own addresses.                          *)
LEMMA RunMapped ==
  ASSUME NEW m, Good(m), NEW a \in Nat, NEW count \in Nat,
         m.hung = "no" => \A i \in 1..count : a + i - 1 \in VirtualPages /\ a + i - 1 < VBase
  PROVE  Loop(Identity, m, a, count) \in LowStates(m)
<1> DEFINE I == [k \in 0..count |-> LowStates(m)]
<1>1. \A k \in 0..count : I[k] = LowStates(m) /\ I[k] \subseteq LowStates(m)
  OBVIOUS
<1> HIDE DEF I
<1>2. m \in I[0]
  BY <1>1, LowStart
<1>3. ASSUME NEW k \in 1..count, NEW s \in I[k - 1] PROVE Identity(s, a + k - 1) \in I[k]
  <2>1. s \in LowStates(m) /\ Good(s)
    BY <1>1 DEF LowStates
  <2>2. CASE m.hung # "no"
    BY <1>1, <2>1, <2>2, HungIdentity DEF LowStates
  <2>3. CASE m.hung = "no"
    <3>1. a + k - 1 \in VirtualPages /\ a + k - 1 < VBase
      BY <2>3
    <3>2. /\ Good(Identity(s, a + k - 1)) /\ LowOnly(s, Identity(s, a + k - 1))
          /\ s.hung # "no" => Identity(s, a + k - 1) = s
      BY <2>1, <3>1, IdentityMapped
    <3> QED
      BY <1>1, <2>1, <3>2, LowStep
  <2> QED
    BY <2>2, <2>3
<1>4. Loop(Identity, m, a, count) \in I[count]
  BY <1>1, <1>2, <1>3, IdentityLoop
<1> QED
  BY <1>1, <1>4

(* A run of pages is marked; its first page is no longer available.        *)
LEMMA RunMarked ==
  ASSUME NEW m, Good(m), NEW a \in Nat, NEW count \in Nat \ {0},
         m.hung = "no" => \A i \in 1..count : a + i - 1 \in LinearPages
  PROVE  /\ Loop(SetLinear, m, a, count) \in LowStates(m)
         /\ Loop(SetLinear, m, a, count).hung = "no" =>
              a \notin Loop(SetLinear, m, a, count).available
<1> DEFINE I == [k \in 0..count |->
                   {s \in LowStates(m) : k # 0 /\ s.hung = "no" => a \notin s.available}]
<1>1. \A k \in 0..count :
        /\ I[k] = {s \in LowStates(m) : k # 0 /\ s.hung = "no" => a \notin s.available}
        /\ I[k] \subseteq LowStates(m)
  OBVIOUS
<1> HIDE DEF I
<1>2. m \in I[0]
  BY <1>1, LowStart
<1>3. ASSUME NEW k \in 1..count, NEW s \in I[k - 1] PROVE SetLinear(s, a + k - 1) \in I[k]
  <2> DEFINE n == SetLinear(s, a + k - 1)
  <2>1. /\ s \in LowStates(m) /\ Good(s)
        /\ k - 1 # 0 /\ s.hung = "no" => a \notin s.available
    BY <1>1 DEF LowStates
  <2>2. CASE m.hung # "no"
    <3>1. s.hung # "no" /\ n = s
      BY <2>1, <2>2 DEF LowStates, SetLinear
    <3> QED
      BY <1>1, <2>1, <3>1
  <2>3. CASE m.hung = "no"
    <3>1. a + k - 1 \in LinearPages
      BY <2>3
    <3>2. /\ Good(n) /\ LowOnly(s, n) /\ (s.hung # "no" => n = s)
          /\ n.hung = "no" => a + k - 1 \notin n.available
      BY <2>1, <3>1, Marked
    <3>3. n \in LowStates(m)
      BY <2>1, <3>2, LowStep
    <3> HIDE DEF n
    <3>4. n.hung = "no" => a \notin n.available
      <4>1. n.available \subseteq s.available /\ (n.hung = "no" => s.hung = "no")
        BY <3>2 DEF LowOnly
      <4>2. CASE k = 1
        BY <3>2, <4>2
      <4>3. CASE k # 1
        BY <2>1, <4>1, <4>3
      <4> QED
        BY <4>2, <4>3
    <3> QED
      BY <1>1, <3>3, <3>4 DEF n
  <2> QED
    BY <2>2, <2>3
<1>4. Loop(SetLinear, m, a, count) \in I[count]
  BY <1>1, <1>2, <1>3, SetLinearLoop
<1> QED
  BY <1>1, <1>4

(* A page is got and mapped.                                               *)
LEMMA ResultMapped ==
  ASSUME NEW m, Good(m), NEW zone \in {NORMAL, DMA}
  PROVE  LET g == GetFreePages(m, 1, zone)
             n == MapResult(g)
         IN  /\ Good(n) /\ LowOnly(m, n) /\ g.got \in LinearPages
             /\ n.hung = "no" => n.entry[g.got] = g.got /\ g.got # 0
<1> DEFINE g == GetFreePages(m, 1, zone)
           n == MapResult(g)
<1>1. /\ Good(g) /\ LowOnly(m, g)
      /\ g.hung = "no" => g.got # 0 /\ g.got \in LinearPages
  <2>1. 1 \in Nat \ {0} /\ 1 <= 2
    OBVIOUS
  <2> QED
    BY <2>1, GoodGot
<1>2. g.got \in LinearPages
  BY <1>1, GoodTyped, TypeFields
<1> HIDE DEF g
<1>3. CASE g.hung # "no"
  BY <1>1, <1>2, <1>3, HungIdentity DEF g, MapResult
<1>4. CASE g.hung = "no"
  <2>1. /\ Good(n) /\ LowOnly(g, n) /\ (n.hung = "no" => n.entry[g.got] = g.got)
    BY <1>1, <1>2, LowRegions, IdentityMapped DEF MapResult
  <2>2. LowOnly(m, n)
    BY <1>1, <2>1, LowOnlyTransitive
  <2> QED
    BY <1>1, <1>2, <1>4, <2>1, <2>2 DEF g
<1> QED
  BY <1>3, <1>4

-----------------------------------------------------------------------------
(* What setup() leaves.                                                    *)

(* kmemory_linear_setup, before anything is taken.                         *)
LEMMA ResetGood == Good(AtReset) /\ ~AtReset.paging /\ AtReset.hung = "no"
<1> DEFINE m == AtReset
           kept == KernelMax..SetupEnd - 1
<1>1. /\ KernelMax \in Nat /\ KernelMax >= 2 /\ SetupEnd \in Nat /\ KernelMax < SetupEnd
      /\ SetupEnd <= MemPages /\ LowEnd \in Nat /\ LowEnd # 0 /\ DmaEnd \in Nat
      /\ MemPages \in Nat
  BY Layout, LayoutAssumption, MachineAssumption DEF SetupEnd, LinearTable
<1>2. kept \subseteq LinearPages
  BY <1>1, Layout DEF LinearPages
<1>3. /\ m.available = FirstAvailable \ kept /\ m.allocated = kept
      /\ m.table = [r \in Regions |-> 0] /\ m.entry = [v \in VirtualPages |-> None]
      /\ m.got = 0 /\ m.paging = FALSE /\ m.hung = "no" /\ m.wanted = 0
  BY DEF AtReset
<1>4. /\ m.next \in [Zones -> Nat]
      /\ m.next[DMA] = IF SetupEnd < DmaEnd THEN SetupEnd ELSE LowEnd
      /\ m.next[KERNEL] = 1
  BY <1>1 DEF AtReset, Zones, NORMAL, DMA, KERNEL
<1>5. m \in MemType
  <2>1. m.available \in SUBSET LinearPages /\ m.allocated \in SUBSET LinearPages
    BY <1>2, <1>3, AvailableBounded
  <2>2. m.table \in [Regions -> LinearPages]
    BY <1>3, Layout
  <2>3. m.entry \in [VirtualPages -> {None, Assigned} \cup LinearPages]
    BY <1>3
  <2>4. m = [available |-> m.available, allocated |-> m.allocated, next |-> m.next,
             table |-> m.table, entry |-> m.entry, got |-> m.got, paging |-> m.paging,
             hung |-> m.hung, wanted |-> m.wanted]
    BY DEF AtReset
  <2> HIDE DEF m
  <2> QED
    BY <1>3, <1>4, <2>1, <2>2, <2>3, <2>4, Layout DEF MemType, Zones
<1> HIDE DEF m
<1>6. DmaNext(m)
  <2>1. CASE SetupEnd < DmaEnd
    <3>1. m.next[DMA] = SetupEnd /\ SetupEnd - 1 \in kept /\ SetupEnd >= 2
      BY <1>1, <1>4, <2>1
    <3>2. SetupEnd - 1 \notin m.available
      BY <1>3, <3>1
    <3> QED
      BY <3>1, <3>2, Zenon DEF DmaNext
  <2>2. CASE ~(SetupEnd < DmaEnd)
    BY <1>4, <2>2 DEF DmaNext
  <2> QED
    BY <2>1, <2>2
<1>7. Sound(m)
  BY <1>1, <1>2, <1>3, <1>4, <1>5, <1>6 DEF Sound
<1>8. Tabled(m)
  BY <1>3 DEF Tabled
<1>9. Fresh(m, {0})
  <2> SUFFICES ASSUME NEW q \in m.available PROVE m.entry[q] # q
    BY DEF Fresh
  <2>1. q \in Nat /\ q \in VirtualPages
    BY <1>5, TypeFields, LowRegions
  <2>2. None # q
    BY <2>1 DEF None
  <2> QED
    BY <1>3, <2>1, <2>2
<1> QED
  BY <1>3, <1>7, <1>8, <1>9 DEF Good, m

(* The directory, virtual_block and the kernel are marked.                 *)
LEMMA LinearSetupGood ==
  /\ Good(AfterLinearSetup) /\ LowOnly(AtReset, AfterLinearSetup)
  /\ AfterLinearSetup.hung = "no" => LowEnd \notin AfterLinearSetup.available
<1> DEFINE directory == GetFreePages(AtReset, 1, DMA)
           block == GetFreePages(directory, 2, DMA)
           kept == Loop(SetLinear, block, block.got, 2)
           n == Loop(SetLinear, kept, LowEnd, KernelMax - LowEnd)
<1>1. Good(directory) /\ LowOnly(AtReset, directory)
  <2>1. 1 \in Nat \ {0} /\ 1 <= 2
    OBVIOUS
  <2> QED
    BY <2>1, ResetGood, GoodGot
<1> HIDE DEF directory
<1>2. /\ Good(block) /\ LowOnly(directory, block)
      /\ block.hung = "no" => block.got \in LinearPages /\ block.got + 2 - 1 \in LinearPages
  <2>1. 2 \in Nat \ {0} /\ 2 <= 2
    OBVIOUS
  <2> QED
    BY <1>1, <2>1, GoodGot
<1> HIDE DEF block
<1>3. Good(kept) /\ LowOnly(block, kept)
  <2>1. block.hung = "no" => \A i \in 1..2 : block.got + i - 1 \in LinearPages
    BY <1>2, Layout DEF LinearPages
  <2>2. block.got \in Nat /\ 2 \in Nat \ {0}
    BY <1>2, GoodTyped
  <2> QED
    BY <1>2, <2>1, <2>2, RunMarked DEF LowStates
<1> HIDE DEF kept
<1>4. /\ Good(n) /\ LowOnly(kept, n) /\ (n.hung = "no" => LowEnd \notin n.available)
  <2>1. LowEnd \in Nat /\ KernelMax - LowEnd \in Nat \ {0}
    BY LayoutAssumption
  <2>2. \A i \in 1..KernelMax - LowEnd : LowEnd + i - 1 \in LinearPages
    BY Layout, LayoutAssumption DEF LinearPages
  <2> QED
    BY <1>3, <2>1, <2>2, RunMarked DEF LowStates
<1>5. AfterLinearSetup = n
  BY DEF AfterLinearSetup, n, kept, block, directory
<1> HIDE DEF n
<1>6. LowOnly(AtReset, n)
  BY <1>1, <1>2, <1>3, <1>4, LowOnlyTransitive
<1> QED
  BY <1>4, <1>5, <1>6

(* One step of the sweep.                                                  *)
LEMMA SweepGood ==
  ASSUME NEW m, Good(m), NEW p \in LinearPages
  PROVE  Good(Sweep(m, p)) /\ LowOnly(m, Sweep(m, p))
<1> DEFINE l == LinearTable(Region(p))
           o == IF p % T = 0 THEN Identity(m, l) ELSE m
<1>1. l \in LinearPages
  <2>1. p \in Nat /\ p < (MemEnd + 1) * T
    BY Layout DEF LinearPages
  <2>2. Region(p) \in Nat /\ Region(p) < MemEnd + 1
    BY <2>1, Layout, RegionBelow, RegionBounds
  <2> QED
    BY <2>2, Layout, LayoutAssumption, MachineAssumption DEF SetupEnd, LinearTable, LinearPages
<1>2. Good(o) /\ LowOnly(m, o)
  BY <1>1, LowRegions, IdentityMapped, SameLow
<1> HIDE DEF o
<1>3. Sweep(m, p) = IF p \in o.allocated THEN Identity(o, p) ELSE o
  BY DEF Sweep, SweepPage, o
<1>4. CASE p \in o.allocated
  <2>1. Good(Identity(o, p)) /\ LowOnly(o, Identity(o, p))
    BY <1>2, LowRegions, IdentityMapped
  <2> QED
    BY <1>2, <1>3, <1>4, <2>1, LowOnlyTransitive
<1>5. CASE p \notin o.allocated
  BY <1>2, <1>3, <1>5
<1> QED
  BY <1>4, <1>5

(* The whole sweep.                                                        *)
LEMMA VirtualSetupGood ==
  Good(AfterVirtualSetup) /\ LowOnly(AfterLinearSetup, AfterVirtualSetup)
<1> DEFINE m == AfterLinearSetup
           count == (MemEnd + 1) * T
           U == {s \in MemType : Good(s) /\ LowOnly(m, s)}
           I == [k \in 0..count |-> U]
<1>1. \A k \in 0..count : I[k] = U /\ I[k] \subseteq U
  OBVIOUS
<1>2. count \in Nat /\ 0 \in Nat
  BY Layout
<1>3. \A p \in 0..count - 1 : p \in LinearPages
  BY DEF LinearPages
<1> HIDE DEF I, count, m
<1>4. m \in I[0]
  BY <1>1, <1>2, LinearSetupGood, GoodTyped, SameLow DEF m
<1>5. ASSUME NEW k \in 1..count, NEW s \in I[k - 1] PROVE Sweep(s, 0 + k - 1) \in I[k]
  <2>1. s \in U /\ 0 + k - 1 \in LinearPages /\ I[k] = U
    BY <1>1, <1>2, <1>3
  <2>2. Good(Sweep(s, 0 + k - 1)) /\ LowOnly(s, Sweep(s, 0 + k - 1))
    BY <2>1, SweepGood
  <2> QED
    BY <2>1, <2>2, GoodTyped, LowOnlyTransitive
<1>6. Loop(Sweep, m, 0, count) \in I[count]
  <2> HIDE DEF U
  <2> QED
    BY <1>1, <1>2, <1>4, <1>5, SweepLoop
<1>7. AfterVirtualSetup = Loop(Sweep, m, 0, count)
  BY DEF AfterVirtualSetup, m, count
<1> QED
  BY <1>1, <1>2, <1>6, <1>7 DEF m

(* What setup() leaves.                                                    *)
LEMMA SetupGood ==
  /\ Good(AfterSetup) /\ AfterSetup.paging
  /\ AfterSetup.hung = "no" => LowEnd \notin AfterSetup.available
  /\ \A v \in VBase..VLast : AfterSetup.entry[v] = None
<1> DEFINE m == AfterVirtualSetup
           o == MapResult(GetFreePages(m, 1, DMA))
           n == AfterSetup
<1>1. Good(o) /\ LowOnly(m, o)
  BY VirtualSetupGood, ResultMapped
<1>2. n = [o EXCEPT !.paging = TRUE]
  BY DEF AfterSetup
<1> HIDE DEF o, n
<1>3. /\ n \in MemType /\ n.available = o.available /\ n.allocated = o.allocated
      /\ n.next = o.next /\ n.table = o.table /\ n.entry = o.entry /\ n.paging = TRUE
      /\ n.hung = o.hung /\ n.wanted = o.wanted
  <2>1. o \in MemType /\ TRUE \in BOOLEAN
    BY <1>1, GoodTyped
  <2> QED
    BY <1>2, <2>1 DEF MemType
<1>4. Sound(n)
  <2>1. Sound(o)
    BY <1>1, GoodTyped DEF Good
  <2> QED
    BY <1>3, <2>1, SoundKept
<1>5. Tabled(n) /\ Unmapped(n) = Unmapped(o) /\ (n.hung = "no" => Fresh(n, {0}))
  BY <1>1, <1>3 DEF Good, Tabled, Unmapped, Fresh
<1>6. n.hung = "fault" => Closed(n)
  BY <1>1, <1>3, <1>5 DEF Good, Closed, Settled
<1>7. LowOnly(AtReset, o)
  BY <1>1, VirtualSetupGood, LinearSetupGood, LowOnlyTransitive
<1>8. n.hung = "no" => Steady(n)
  <2>1. ASSUME NEW s \in Unmapped(n) PROVE s < Region(VBase)
    <3>1. s \in Regions /\ o.table[s] # 0
      BY <1>3 DEF Unmapped
    <3>2. s >= Region(VBase) => o.table[s] = 0
      BY <1>7, <3>1 DEF LowOnly, AtReset
    <3>3. s \in Nat /\ Region(VBase) \in Nat
      BY <3>1, LayoutAssumption, RegionBounds DEF Regions
    <3> QED
      BY <3>1, <3>2, <3>3
  <2>2. n.hung = "no" => Settled(n)
    BY BootAssumption DEF n
  <2> QED
    BY <2>1, <2>2 DEF Steady
<1>9. Good(n)
  <2>1. n.hung = "device" => Behind(n)
    BY <1>1, <1>3 DEF Good, Behind
  <2> QED
    BY <1>4, <1>5, <1>6, <1>8, <2>1 DEF Good
<1>10. \A v \in VBase..VLast : n.entry[v] = None
  <2>1. \A v \in VBase..VLast : AtReset.entry[v] = None
    BY LowRegions DEF AtReset
  <2> QED
    BY <1>3, <1>7, <2>1 DEF LowOnly
<1>11. n.hung = "no" => LowEnd \notin n.available
  <2>1. LowOnly(AfterLinearSetup, o)
    BY <1>1, VirtualSetupGood, LowOnlyTransitive
  <2> QED
    BY <1>3, <2>1, LinearSetupGood DEF LowOnly
<1> QED
  BY <1>3, <1>9, <1>10, <1>11 DEF n

-----------------------------------------------------------------------------
(* Operations on virtual pages.                                            *)

(* The addresses of virtual pages.                                         *)
High == VBase..VLast

(* Paging is on.                                                           *)
Paged(m) == m.paging = TRUE

(* What an operation on virtual pages keeps: page tables stay where they   *)
(* are, nothing becomes available.                                         *)
TablesKept(m, n) ==
  /\ n.paging = m.paging /\ n.available \subseteq m.available
  /\ n.hung = "no" => m.hung = "no"
  /\ \A r \in Regions : m.table[r] # 0 => n.table[r] # 0

(* Virtual pages are not linear ones and share no region with them.        *)
LEMMA HighFacts ==
  ASSUME NEW v \in High
  PROVE  /\ v \in VirtualPages /\ v \in Nat /\ v \notin LinearPages
         /\ Region(v) \in Regions /\ Region(v) \in Nat
         /\ \A p \in LinearPages : Region(p) # Region(v)
<1>1. v \in VirtualPages /\ Region(v) >= Region(VBase) /\ v \notin LinearPages
  BY LowRegions DEF High
<1>2. v \in Nat /\ Region(v) \in Regions /\ Region(v) \in Nat /\ Region(VBase) \in Nat
  BY <1>1, RegionOfPage, RegionBounds, LayoutAssumption
<1>3. ASSUME NEW p \in LinearPages PROVE Region(p) # Region(v)
  <2>1. Region(p) < Region(VBase) /\ Region(p) \in Nat
    BY LowRegions, RegionBounds
  <2> QED
    BY <1>1, <1>2, <2>1
<1> QED
  BY <1>1, <1>2, <1>3

(* The page tables of virtual pages are mapped.                            *)
LEMMA HighMapped ==
  ASSUME NEW m, Good(m), Paged(m), m.hung = "no", NEW v \in High, m.table[Region(v)] # 0
  PROVE  m.entry[m.table[Region(v)]] = m.table[Region(v)]
<1>1. Region(v) \in Regions /\ Region(v) \in Nat
  BY HighFacts
<1>2. Region(v) >= Region(VBase) /\ Region(VBase) \in Nat
  BY LowRegions, LayoutAssumption, RegionBounds DEF High
<1>3. Region(v) \notin Unmapped(m)
  BY <1>1, <1>2 DEF Good, Paged, Steady
<1> QED
  BY <1>1, <1>3 DEF Unmapped

(* An entry of a virtual page is stored in a table that is mapped.         *)
LEMMA PutHigh ==
  ASSUME NEW m, Good(m), Paged(m), m.hung = "no", NEW v \in High,
         m.table[Region(v)] # 0, NEW e \in Entries
  PROVE  LET n == Put(m, v, e)
         IN  /\ Good(n) /\ n.hung = "no" /\ n.paging = m.paging
             /\ n.available = m.available /\ n.table = m.table
             /\ n.entry[v] = e /\ \A w \in VirtualPages : w # v => n.entry[w] = m.entry[w]
<1> DEFINE r == Region(v)
           t == m.table[r]
           n == Put(m, v, e)
<1>1. m \in MemType /\ v \in VirtualPages /\ v \notin LinearPages /\ r \in Regions
  BY GoodTyped, HighFacts
<1>2. Steady(m) /\ m.entry[t] = t
  BY <1>1, HighMapped DEF Good, Paged
<1>3. /\ n \in MemType /\ n.available = m.available /\ n.allocated = m.allocated
      /\ n.next = m.next /\ n.table = m.table /\ n.paging = m.paging
      /\ n.hung = "no" /\ n.entry = [m.entry EXCEPT ![v] = e]
  <2>1. /\ n \in MemType /\ n.available = m.available /\ n.allocated = m.allocated
        /\ n.next = m.next /\ n.table = m.table /\ n.paging = m.paging
        /\ ~(m.paging /\ m.entry[t] # t) => n.hung = "no" /\ n.entry = [m.entry EXCEPT ![v] = e]
    BY <1>1, PutFields
  <2> HIDE DEF n, t
  <2> QED
    BY <1>2, <2>1
<1> HIDE DEF n
<1>4. m.entry \in [VirtualPages -> Entries]
  BY <1>1, TypeFields DEF Entries
<1>5. n.entry[v] = e /\ \A w \in VirtualPages : w # v => n.entry[w] = m.entry[w]
  BY <1>1, <1>3, <1>4
<1>6. Sound(n)
  <2>1. Sound(m)
    BY GoodTyped DEF Good
  <2> QED
    BY <1>3, <2>1, SoundKept
<1>7. Tabled(n)
  <2> SUFFICES ASSUME NEW w \in VirtualPages, n.entry[w] # None PROVE n.table[Region(w)] # 0
    BY DEF Tabled
  <2>1. CASE w = v
    BY <1>3, <2>1
  <2>2. CASE w # v
    BY <1>3, <1>5, <2>2 DEF Good, Tabled
  <2> QED
    BY <2>1, <2>2
<1>8. \A p \in LinearPages : n.entry[p] = m.entry[p]
  BY <1>1, <1>5, Layout
<1>9. Fresh(n, {0})
  <2>1. m.available \subseteq LinearPages
    BY <1>1, TypeFields
  <2> QED
    BY <1>3, <1>8, <2>1 DEF Good, Fresh
<1>10. Unmapped(n) = Unmapped(m)
  <2>1. \A s \in Regions : m.table[s] \in LinearPages
    BY <1>1, TypeFields
  <2> QED
    BY <1>3, <1>8, <2>1 DEF Unmapped
<1>11. Good(n)
  <2>1. Steady(n)
    BY <1>2, <1>3, <1>10 DEF Steady, Settled
  <2> QED
    BY <1>3, <1>6, <1>7, <1>9, <2>1 DEF Good
<1> QED
  BY <1>3, <1>5, <1>11 DEF n

(* A page table for virtual pages is cleared and entered.                  *)
LEMMA TableEntered ==
  ASSUME NEW o, Good(o), Paged(o), o.hung = "no", NEW v \in High, o.table[Region(v)] = 0,
         NEW t \in LinearPages, t # 0, o.entry[t] = t
  PROVE  LET n == EnterTable(o, Region(v), t)
         IN  /\ Good(n) /\ n.hung = "no" /\ TablesKept(o, n) /\ n.table[Region(v)] # 0
             /\ \A w \in VirtualPages : n.entry[w] = o.entry[w]
<1> DEFINE r == Region(v)
           q == ClearTable(o, r)
           n == EnterTable(o, r, t)
<1>1. o \in MemType /\ r \in Regions /\ \A p \in LinearPages : Region(p) # r
  BY GoodTyped, HighFacts
<1>2. /\ q \in MemType /\ q.available = o.available /\ q.allocated = o.allocated
      /\ q.next = o.next /\ q.table = o.table /\ q.paging = o.paging /\ q.hung = o.hung
      /\ q.wanted = o.wanted
      /\ \A w \in VirtualPages : q.entry[w] = IF Region(w) = r THEN None ELSE o.entry[w]
  BY <1>1, ClearTableFields
<1>3. n = [q EXCEPT !.table[r] = t]
  BY DEF EnterTable
<1> HIDE DEF n, q
<1>4. /\ n \in MemType /\ n.available = q.available /\ n.allocated = q.allocated
      /\ n.next = q.next /\ n.entry = q.entry /\ n.paging = q.paging /\ n.hung = q.hung
      /\ n.wanted = q.wanted /\ n.table = [q.table EXCEPT ![r] = t]
  BY <1>1, <1>2, <1>3 DEF MemType
<1>5. n.table[r] = t /\ \A s \in Regions : s # r => n.table[s] = o.table[s]
  <2>1. o.table \in [Regions -> LinearPages]
    BY <1>1, TypeFields
  <2> QED
    BY <1>1, <1>2, <1>4, <2>1
<1>6. \A w \in VirtualPages : n.entry[w] = o.entry[w]
  <2>1. \A w \in VirtualPages : Region(w) = r => o.entry[w] = None
    BY DEF Good, Tabled
  <2> QED
    BY <1>2, <1>4, <2>1
<1>7. Sound(n)
  <2>1. Sound(o)
    BY GoodTyped DEF Good
  <2> QED
    BY <1>2, <1>4, <2>1, SoundKept
<1>8. Tabled(n)
  BY <1>5, <1>6, RegionOfPage DEF Good, Tabled
<1>9. Fresh(n, {0})
  <2>1. o.available \subseteq VirtualPages
    BY <1>1, TypeFields, Layout
  <2> QED
    BY <1>2, <1>4, <1>6, <2>1 DEF Good, Fresh
<1>10. Unmapped(n) = Unmapped(o)
  <2>1. ASSUME NEW s \in Regions PROVE s \in Unmapped(n) <=> s \in Unmapped(o)
    <3>1. n.table[s] \in VirtualPages
      <4>1. n \in MemType
        BY <1>4
      <4> QED
        BY <4>1, TypeFields, Layout
    <3>2. CASE s = r
      BY <1>5, <1>6, <3>1, <3>2 DEF Unmapped
    <3>3. CASE s # r
      BY <1>5, <1>6, <3>1, <3>3 DEF Unmapped
    <3> QED
      BY <3>2, <3>3
  <2> QED
    BY <2>1 DEF Unmapped
<1>11. Good(n)
  <2>1. Steady(o) /\ r \notin Unmapped(o) /\ \A s \in Unmapped(o) : s \in Regions
    BY DEF Good, Paged, Unmapped
  <2>2. Steady(n)
    BY <1>5, <1>10, <2>1 DEF Steady, Settled
  <2> QED
    BY <1>2, <1>4, <1>7, <1>8, <1>9, <2>2 DEF Good
<1>12. TablesKept(o, n)
  BY <1>2, <1>4, <1>5 DEF TablesKept
<1> QED
  BY <1>2, <1>4, <1>5, <1>6, <1>11, <1>12 DEF n

(* One page of kmemory_virtual_page_allocate.                              *)
LEMMA AssignedOne ==
  ASSUME NEW m, Good(m), Paged(m), NEW v \in High
  PROVE  LET n == Assign(m, v)
         IN  /\ Good(n) /\ TablesKept(m, n)
             /\ \A w \in High : w # v => n.entry[w] = m.entry[w]
             /\ n.hung = "no" => n.entry[v] = Assigned
<1> DEFINE r == Region(v)
           g == GetFreePages(m, 1, NORMAL)
           o == MapResult(g)
           n == Assign(m, v)
<1>1. Assigned \in Entries /\ \A w \in High : w \in VirtualPages
  BY HighFacts DEF Entries
<1>2. CASE m.hung # "no"
  <2>1. n = m
    BY <1>2 DEF Assign, Put
  <2>2. TablesKept(m, m)
    BY DEF TablesKept
  <2> HIDE DEF n
  <2> QED
    BY <1>2, <2>1, <2>2 DEF n
<1>3. CASE m.hung = "no" /\ m.table[r] # 0
  <2>1. n = Put(m, v, Assigned)
    BY <1>3 DEF Assign
  <2> DEFINE a == Put(m, v, Assigned)
  <2>2. /\ Good(a) /\ a.hung = "no" /\ a.paging = m.paging
        /\ a.available = m.available /\ a.table = m.table
        /\ a.entry[v] = Assigned /\ \A w \in VirtualPages : w # v => a.entry[w] = m.entry[w]
    BY <1>1, <1>3, PutHigh
  <2> HIDE DEF a, n
  <2>3. TablesKept(m, a)
    BY <1>3, <2>2 DEF TablesKept
  <2> QED
    BY <1>1, <2>1, <2>2, <2>3 DEF n, a
<1>4. CASE m.hung = "no" /\ m.table[r] = 0
  <2>1. n = Put(EnterTable(o, r, g.got), v, Assigned)
    BY <1>4 DEF Assign
  <2>2. /\ Good(o) /\ LowOnly(m, o) /\ g.got \in LinearPages
        /\ o.hung = "no" => o.entry[g.got] = g.got /\ g.got # 0
    BY ResultMapped
  <2> HIDE DEF n, g, o
  <2>3. /\ TablesKept(m, o) /\ \A w \in High : o.entry[w] = m.entry[w]
    BY <2>2 DEF LowOnly, TablesKept, High
  <2>4. CASE o.hung # "no"
    <3>1. n = o
      BY <2>1, <2>4 DEF EnterTable, Put
    <3> QED
      BY <2>2, <2>3, <2>4, <3>1 DEF n
  <2>5. CASE o.hung = "no"
    <3> DEFINE q == EnterTable(o, r, g.got)
    <3>1. Paged(o) /\ o.table[r] = 0
      <4>1. r \in Regions /\ r >= Region(VBase)
        BY HighFacts, LowRegions DEF High
      <4> QED
        BY <1>4, <2>2, <4>1 DEF LowOnly, Paged
    <3>2. /\ Good(q) /\ q.hung = "no" /\ TablesKept(o, q) /\ q.table[r] # 0
          /\ \A w \in VirtualPages : q.entry[w] = o.entry[w]
      BY <2>2, <2>5, <3>1, TableEntered
    <3> HIDE DEF q
    <3> DEFINE a == Put(q, v, Assigned)
    <3>3. /\ Good(a) /\ a.hung = "no" /\ a.paging = q.paging
          /\ a.available = q.available /\ a.table = q.table
          /\ a.entry[v] = Assigned /\ \A w \in VirtualPages : w # v => a.entry[w] = q.entry[w]
      <4>1. Paged(q)
        BY <3>1, <3>2 DEF TablesKept, Paged
      <4> QED
        BY <1>1, <3>2, <4>1, PutHigh
    <3>4. n = a
      BY <2>1 DEF q
    <3> HIDE DEF a
    <3>5. TablesKept(m, a)
      BY <1>4, <2>3, <3>2, <3>3 DEF TablesKept
    <3> QED
      BY <1>1, <2>3, <3>2, <3>3, <3>4, <3>5 DEF n
  <2> QED
    BY <2>4, <2>5
<1> QED
  BY <1>2, <1>3, <1>4

(* kmemory_virtual_page_allocate, after k pages: the pages of the block    *)
(* are assigned one by one, those of other blocks stay as they are.        *)
AssignedTo(m, a, count, k, s) ==
  /\ Good(s) /\ TablesKept(m, s)
  /\ \A w \in High : w \notin a..a + count - 1 => s.entry[w] = m.entry[w]
  /\ s.hung = "no" => \A w \in a..a + k - 1 : s.entry[w] = Assigned

(* The loop ends with all count pages assigned, or the kernel has stopped. *)
LEMMA AllAssigned ==
  ASSUME NEW m, Good(m), Paged(m), NEW a \in Nat, NEW count \in Nat,
         \A w \in a..a + count - 1 : w \in High
  PROVE  AssignedTo(m, a, count, count, AssignAll(m, a, count))
<1> DEFINE I == [k \in 0..count |-> {s \in MemType : AssignedTo(m, a, count, k, s)}]
<1>1. \A k \in 0..count :
        I[k] = {s \in MemType : AssignedTo(m, a, count, k, s)} /\ I[k] \subseteq MemType
  OBVIOUS
<1> HIDE DEF I
<1>2. m \in I[0]
  <2>1. AssignedTo(m, a, count, 0, m)
    BY DEF AssignedTo, TablesKept
  <2> QED
    BY <1>1, <2>1, GoodTyped
<1>3. ASSUME NEW k \in 1..count, NEW s \in I[k - 1] PROVE Assign(s, a + k - 1) \in I[k]
  <2> DEFINE v == a + k - 1
             n == Assign(s, v)
  <2>1. AssignedTo(m, a, count, k - 1, s)
    BY <1>1
  <2>2. /\ v \in High /\ v \in a..a + count - 1
        /\ \A w \in a..a + k - 1 : w = v \/ (w \in a..a + (k - 1) - 1 /\ w # v /\ w \in High)
    OBVIOUS
  <2>3. Good(s) /\ Paged(s)
    BY <2>1 DEF AssignedTo, TablesKept, Paged
  <2> HIDE DEF v
  <2>4. /\ Good(n) /\ TablesKept(s, n)
        /\ \A w \in High : w # v => n.entry[w] = s.entry[w]
        /\ n.hung = "no" => n.entry[v] = Assigned
    BY <2>2, <2>3, AssignedOne
  <2> HIDE DEF n
  <2>5. TablesKept(m, n)
    BY <2>1, <2>4 DEF AssignedTo, TablesKept
  <2>6. \A w \in High : w \notin a..a + count - 1 => n.entry[w] = m.entry[w]
    BY <2>1, <2>2, <2>4 DEF AssignedTo
  <2>7. ASSUME n.hung = "no", NEW w \in a..a + k - 1 PROVE n.entry[w] = Assigned
    <3>1. s.hung = "no"
      BY <2>4, <2>7 DEF TablesKept
    <3>2. CASE w = v
      BY <2>4, <2>7, <3>2
    <3>3. CASE w # v
      <4>1. w \in a..a + (k - 1) - 1 /\ w \in High
        BY <2>2, <3>3
      <4> QED
        BY <2>1, <2>4, <3>1, <3>3, <4>1 DEF AssignedTo
    <3> QED
      BY <3>2, <3>3
  <2>8. AssignedTo(m, a, count, k, n)
    BY <2>4, <2>5, <2>6, <2>7 DEF AssignedTo
  <2> QED
    BY <1>1, <2>4, <2>8, GoodTyped DEF n, v
<1>4. Loop(Assign, m, a, count) \in I[count]
  BY <1>1, <1>2, <1>3, AssignLoop
<1> QED
  BY <1>1, <1>4 DEF AssignAll

-----------------------------------------------------------------------------
(* Linear page 0 becomes available.                                        *)
LEMMA ZeroFreed ==
  ASSUME NEW m, Good(m), m.hung = "no", NEW e
  PROVE  LET n == Unallocated(m, e)
         IN  /\ Good(n) /\ n.hung = "no" /\ n.paging = m.paging /\ n.table = m.table
             /\ n.entry = m.entry /\ n.available \subseteq m.available \cup {0}
<1> DEFINE n == Unallocated(m, e)
<1>1. CASE ~(e >= 0)
  BY <1>1 DEF Unallocated
<1>2. CASE e >= 0
  <2>1. n = [m EXCEPT !.available = @ \cup {0}, !.allocated = @ \ {0}]
    BY <1>2 DEF Unallocated
  <2>2. m \in MemType /\ 0 \in LinearPages
    BY GoodTyped, Layout
  <2> HIDE DEF n
  <2>3. /\ n \in MemType /\ n.available = m.available \cup {0} /\ n.allocated = m.allocated \ {0}
        /\ n.next = m.next /\ n.table = m.table /\ n.entry = m.entry /\ n.paging = m.paging
        /\ n.hung = m.hung /\ n.wanted = m.wanted
    BY <2>1, <2>2 DEF MemType
  <2>4. DmaNext(n)
    <3>1. m.next[DMA] \in Nat /\ DmaNext(m)
      BY <2>2, TypeFields DEF Good, Sound, Zones
    <3>2. m.next[DMA] >= 2 => m.next[DMA] - 1 # 0
      BY <3>1
    <3> QED
      BY <2>3, <3>1, <3>2 DEF DmaNext
  <2>5. Sound(n)
    <3>1. /\ m.available \subseteq FirstAvailable
          /\ m.next[DMA] # 0 /\ m.next[KERNEL] # 0
      BY DEF Good, Sound
    <3> QED
      BY <2>3, <2>4, <3>1, AvailableBounded DEF Sound
  <2>6. Tabled(n) /\ Fresh(n, {0}) /\ Unmapped(n) = Unmapped(m)
    BY <2>3 DEF Good, Tabled, Fresh, Unmapped
  <2>7. Good(n)
    <3>1. m.paging => Steady(n)
      BY <2>3, <2>6 DEF Good, Steady, Settled
    <3> QED
      BY <2>3, <2>5, <2>6, <3>1 DEF Good
  <2> QED
    BY <2>3, <2>7 DEF n
<1> QED
  BY <1>1, <1>2

(* One page of kmemory_virtual_page_unallocate.                            *)
LEMMA ReleasedOne ==
  ASSUME NEW m, Good(m), Paged(m), m.hung = "no", NEW v \in High, m.table[Region(v)] # 0
  PROVE  LET n == Release(m, v)
         IN  /\ Good(n) /\ n.hung = "no" /\ n.paging = m.paging /\ n.table = m.table
             /\ n.available \subseteq m.available \cup {0}
             /\ n.entry[v] = None /\ \A w \in High : w # v => n.entry[w] = m.entry[w]
<1> DEFINE o == Unallocated(m, m.entry[v])
           n == Put(o, v, None)
<1>1. /\ Good(o) /\ o.hung = "no" /\ o.paging = m.paging /\ o.table = m.table
      /\ o.entry = m.entry /\ o.available \subseteq m.available \cup {0}
  BY ZeroFreed
<1> HIDE DEF o
<1>2. None \in Entries /\ Paged(o) /\ o.table[Region(v)] # 0
  BY <1>1 DEF Entries, Paged
<1>3. /\ Good(n) /\ n.hung = "no" /\ n.paging = o.paging
      /\ n.available = o.available /\ n.table = o.table
      /\ n.entry[v] = None /\ \A w \in VirtualPages : w # v => n.entry[w] = o.entry[w]
  BY <1>1, <1>2, PutHigh
<1> HIDE DEF n
<1>4. Release(m, v) = n
  BY DEF Release, n, o
<1>5. \A w \in High : w \in VirtualPages
  BY HighFacts
<1> QED
  BY <1>1, <1>3, <1>4, <1>5

(* kmemory_virtual_page_unallocate, after k pages.                         *)
ReleasedTo(m, a, k, s) ==
  /\ Good(s) /\ s.hung = "no" /\ s.paging = m.paging /\ s.table = m.table
  /\ s.available \subseteq m.available \cup {0}
  /\ \A w \in High : s.entry[w] = IF w \in a..a + k - 1 THEN None ELSE m.entry[w]

(* The loop ends with the pages of the block cleared; it never stops.      *)
LEMMA AllReleased ==
  ASSUME NEW m, Good(m), Paged(m), m.hung = "no", NEW a \in Nat, NEW count \in Nat,
         \A w \in a..a + count - 1 : w \in High /\ m.table[Region(w)] # 0
  PROVE  ReleasedTo(m, a, count, Loop(Release, m, a, count))
<1> DEFINE I == [k \in 0..count |-> {s \in MemType : ReleasedTo(m, a, k, s)}]
<1>1. \A k \in 0..count :
        I[k] = {s \in MemType : ReleasedTo(m, a, k, s)} /\ I[k] \subseteq MemType
  OBVIOUS
<1> HIDE DEF I
<1>2. m \in I[0]
  <2>1. ReleasedTo(m, a, 0, m)
    BY DEF ReleasedTo
  <2> QED
    BY <1>1, <2>1, GoodTyped
<1>3. ASSUME NEW k \in 1..count, NEW s \in I[k - 1] PROVE Release(s, a + k - 1) \in I[k]
  <2> DEFINE v == a + k - 1
             n == Release(s, v)
  <2>1. ReleasedTo(m, a, k - 1, s)
    BY <1>1
  <2>2. v \in High /\ m.table[Region(v)] # 0
    OBVIOUS
  <2>3. \A w \in High : w \in a..a + k - 1 <=> (w = v \/ w \in a..a + (k - 1) - 1)
    <3>1. \A w \in High : w \in Nat
      BY HighFacts
    <3> QED
      BY <3>1
  <2>4. Good(s) /\ Paged(s) /\ s.hung = "no" /\ s.table[Region(v)] # 0
    BY <2>1, <2>2 DEF ReleasedTo, Paged
  <2> HIDE DEF v
  <2>5. /\ Good(n) /\ n.hung = "no" /\ n.paging = s.paging /\ n.table = s.table
        /\ n.available \subseteq s.available \cup {0}
        /\ n.entry[v] = None /\ \A w \in High : w # v => n.entry[w] = s.entry[w]
    BY <2>2, <2>4, ReleasedOne
  <2> HIDE DEF n
  <2>6. ASSUME NEW w \in High
        PROVE  n.entry[w] = IF w \in a..a + k - 1 THEN None ELSE m.entry[w]
    <3>1. s.entry[w] = IF w \in a..a + (k - 1) - 1 THEN None ELSE m.entry[w]
      BY <2>1 DEF ReleasedTo
    <3>2. CASE w = v
      BY <2>3, <2>5, <3>2
    <3>3. CASE w # v
      BY <2>3, <2>5, <3>1, <3>3
    <3> QED
      BY <3>2, <3>3
  <2>7. ReleasedTo(m, a, k, n)
    BY <2>1, <2>5, <2>6 DEF ReleasedTo
  <2> QED
    BY <1>1, <2>5, <2>7, GoodTyped DEF n, v
<1>4. Loop(Release, m, a, count) \in I[count]
  BY <1>1, <1>2, <1>3, ReleaseLoop
<1> QED
  BY <1>1, <1>4

-----------------------------------------------------------------------------
(* The lists of blocks.                                                    *)

(* Two blocks with a page between them; such blocks along a list, between  *)
(* two lists, and below an address.                                        *)
Clear(b, c) == b.page + b.count < c.page \/ c.page + c.count < b.page
Spread(s) == \A i, j \in 1..Len(s) : i # j => Clear(s[i], s[j])
Across(s, u) == \A i \in 1..Len(s), j \in 1..Len(u) : Clear(s[i], u[j])
Below(s, a) == \A i \in 1..Len(s) : s[i].page + s[i].count < a

(* The types of the lists.                                                 *)
ListsTyped ==
  /\ free \in Seq(Blocks) /\ used \in Seq(Blocks)
  /\ slots \in 0..BlockSlots
  /\ virtual_address \in VBase..VLast + 1

(* The blocks are spread out below the first address not handed out yet.   *)
IInv ==
  /\ ListsTyped
  /\ Spread(used) /\ Spread(free) /\ Across(used, free)
  /\ Below(used, virtual_address) /\ Below(free, virtual_address)

-----------------------------------------------------------------------------
(* RemoveAt: what follows the block moves up.                              *)
LEMMA Removed ==
  ASSUME NEW S, NEW s \in Seq(S), NEW i \in 1..Len(s)
  PROVE  /\ RemoveAt(s, i) \in Seq(S) /\ Len(RemoveAt(s, i)) = Len(s) - 1
         /\ \A j \in 1..Len(s) - 1 : RemoveAt(s, i)[j] = IF j < i THEN s[j] ELSE s[j + 1]
<1>1. Len(s) \in Nat
  BY LenProperties
<1> DEFINE l == SubSeq(s, 1, i - 1)
           r == SubSeq(s, i + 1, Len(s))
<1>2. l \in Seq(S) /\ Len(l) = i - 1 /\ \A j \in 1..i - 1 : l[j] = s[j]
  BY <1>1
<1>3. r \in Seq(S) /\ Len(r) = Len(s) - i /\ \A j \in 1..Len(s) - i : r[j] = s[i + j]
  BY <1>1
<1> HIDE DEF l, r
<1>4. /\ l \o r \in Seq(S) /\ Len(l \o r) = Len(l) + Len(r)
      /\ \A j \in 1..Len(l) + Len(r) : (l \o r)[j] = IF j <= Len(l) THEN l[j] ELSE r[j - Len(l)]
  BY <1>2, <1>3, ConcatProperties
<1>5. ASSUME NEW j \in 1..Len(s) - 1
      PROVE  (l \o r)[j] = IF j < i THEN s[j] ELSE s[j + 1]
  <2>1. i \in Nat /\ j \in Nat /\ j \in 1..Len(l) + Len(r)
    BY <1>1, <1>2, <1>3
  <2>2. CASE j < i
    BY <1>2, <1>4, <2>1, <2>2
  <2>3. CASE ~(j < i)
    <3>1. j - Len(l) \in 1..Len(s) - i /\ i + (j - Len(l)) = j + 1
      BY <1>1, <1>2, <2>1, <2>3
    <3>2. (l \o r)[j] = r[j - Len(l)]
      BY <1>2, <1>4, <2>1, <2>3
    <3> QED
      BY <1>3, <2>3, <3>1, <3>2
  <2> QED
    BY <2>2, <2>3
<1>6. RemoveAt(s, i) = l \o r
  BY DEF RemoveAt, l, r
<1>7. Len(l \o r) = Len(s) - 1
  BY <1>1, <1>2, <1>3, <1>4
<1> QED
  BY <1>4, <1>5, <1>6, <1>7

(* A block put before a list.                                              *)
LEMMA Added ==
  ASSUME NEW S, NEW s \in Seq(S), NEW b \in S
  PROVE  /\ <<b>> \o s \in Seq(S) /\ Len(<<b>> \o s) = Len(s) + 1
         /\ (<<b>> \o s)[1] = b
         /\ \A j \in 1..Len(s) : (<<b>> \o s)[j + 1] = s[j]
         /\ \A j \in 2..Len(s) + 1 : (<<b>> \o s)[j] = s[j - 1]
BY ConcatProperties, LenProperties

(* Clear and Across read both ways.                                        *)
LEMMA Symmetric ==
  /\ \A b, c \in Blocks : Clear(b, c) <=> Clear(c, b)
  /\ \A s, u \in Seq(Blocks) : Across(s, u) => Across(u, s)
<1>1. \A b, c : Clear(b, c) <=> Clear(c, b)
  BY DEF Clear
<1> QED
  BY <1>1 DEF Across

(* A block that is clear of a list can head it.                            *)
LEMMA Headed ==
  ASSUME NEW s \in Seq(Blocks), NEW b \in Blocks, Spread(s),
         \A i \in 1..Len(s) : Clear(b, s[i])
  PROVE  Spread(<<b>> \o s)
<1> DEFINE u == <<b>> \o s
<1>1. /\ Len(s) \in Nat /\ Len(u) = Len(s) + 1 /\ u[1] = b
      /\ \A j \in 2..Len(s) + 1 : u[j] = s[j - 1]
  BY Added, LenProperties
<1> HIDE DEF u
<1> SUFFICES ASSUME NEW i \in 1..Len(u), NEW j \in 1..Len(u), i # j
             PROVE  Clear(u[i], u[j])
  BY DEF Spread, u
<1>2. CASE i = 1
  BY <1>1, <1>2
<1>3. CASE j = 1
  <2>1. Clear(b, s[i - 1])
    BY <1>1, <1>3
  <2> QED
    BY <1>1, <1>3, <2>1 DEF Clear
<1>4. CASE i # 1 /\ j # 1
  BY <1>1, <1>4 DEF Spread
<1> QED
  BY <1>2, <1>3, <1>4

(* A block moved from one list to the head of the other.                   *)
LEMMA Moved ==
  ASSUME NEW s \in Seq(Blocks), NEW u \in Seq(Blocks), NEW i \in 1..Len(s), NEW a \in Nat,
         Spread(s), Spread(u), Across(s, u), Below(s, a), Below(u, a)
  PROVE  /\ RemoveAt(s, i) \in Seq(Blocks) /\ <<s[i]>> \o u \in Seq(Blocks)
         /\ Spread(RemoveAt(s, i)) /\ Spread(<<s[i]>> \o u)
         /\ Across(RemoveAt(s, i), <<s[i]>> \o u)
         /\ Below(RemoveAt(s, i), a) /\ Below(<<s[i]>> \o u, a)
<1> DEFINE r == RemoveAt(s, i)
           h == <<s[i]>> \o u
<1>1. Len(s) \in Nat /\ Len(u) \in Nat /\ s[i] \in Blocks
  BY LenProperties, ElementOfSeq
<1>2. /\ r \in Seq(Blocks) /\ Len(r) = Len(s) - 1
      /\ \A j \in 1..Len(r) : \E k \in 1..Len(s) : k # i /\ r[j] = s[k]
      /\ \A j, l \in 1..Len(r) : j # l => \E k, m \in 1..Len(s) : k # m /\ r[j] = s[k] /\ r[l] = s[m]
  <2>1. /\ r \in Seq(Blocks) /\ Len(r) = Len(s) - 1
        /\ \A j \in 1..Len(s) - 1 : r[j] = IF j < i THEN s[j] ELSE s[j + 1]
    BY Removed
  <2> HIDE DEF r
  <2> DEFINE from(j) == IF j < i THEN j ELSE j + 1
  <2>2. \A j \in 1..Len(r) : from(j) \in 1..Len(s) /\ from(j) # i /\ r[j] = s[from(j)]
    BY <1>1, <2>1
  <2>3. \A j, l \in 1..Len(r) : j # l => from(j) # from(l)
    BY <1>1, <2>1
  <2> HIDE DEF from
  <2> QED
    BY <2>1, <2>2, <2>3
<1>3. /\ h \in Seq(Blocks) /\ Len(h) = Len(u) + 1 /\ h[1] = s[i]
      /\ \A j \in 2..Len(h) : h[j] = u[j - 1] /\ j - 1 \in 1..Len(u)
  BY <1>1, Added
<1> HIDE DEF r, h
<1>4. Spread(r) /\ Below(r, a)
  <2>1. Spread(r)
    BY <1>2 DEF Spread
  <2>2. Below(r, a)
    BY <1>2 DEF Below
  <2> QED
    BY <2>1, <2>2
<1>5. Spread(h)
  BY <1>1, Headed DEF Across, h
<1>6. Below(h, a)
  <2> SUFFICES ASSUME NEW j \in 1..Len(h) PROVE h[j].page + h[j].count < a
    BY DEF Below
  <2>1. CASE j = 1
    BY <1>3, <2>1 DEF Below
  <2>2. CASE j # 1
    <3>1. h[j] = u[j - 1] /\ j - 1 \in 1..Len(u)
      BY <1>1, <1>3, <2>2
    <3> QED
      BY <3>1 DEF Below
  <2> QED
    BY <2>1, <2>2
<1>7. Across(r, h)
  <2> SUFFICES ASSUME NEW j \in 1..Len(r), NEW l \in 1..Len(h)
               PROVE  Clear(r[j], h[l])
    BY DEF Across
  <2>1. PICK k \in 1..Len(s) : k # i /\ r[j] = s[k]
    BY <1>2
  <2>2. CASE l = 1
    BY <1>3, <2>1, <2>2 DEF Spread
  <2>3. CASE l # 1
    <3>1. h[l] = u[l - 1] /\ l - 1 \in 1..Len(u)
      BY <1>1, <1>3, <2>3
    <3> QED
      BY <2>1, <3>1 DEF Across
  <2> QED
    BY <2>2, <2>3
<1> QED
  BY <1>2, <1>3, <1>4, <1>5, <1>6, <1>7 DEF r, h

(* There are no blocks at first.                                           *)
LEMMA InitHolds == Init => IInv
<1> SUFFICES ASSUME Init PROVE IInv
  OBVIOUS
<1>1. ListsTyped
  BY LayoutAssumption, EmptySeq DEF Init, ListsTyped
<1>2. Len(free) = 0 /\ Len(used) = 0
  BY EmptySeq DEF Init
<1> QED
  BY <1>1, <1>2 DEF IInv, Spread, Across, Below

(* A free block moves to the list of those in use.                         *)
LEMMA VirtualReuseStep ==
  ASSUME IInv, NEW count \in Counts, VirtualReuse(count)
  PROVE  IInv'
<1>1. PICK i \in 1..Len(free) : used' = <<free[i]>> \o used /\ free' = RemoveAt(free, i)
  BY DEF VirtualReuse, Fitting
<1>2. /\ free \in Seq(Blocks) /\ used \in Seq(Blocks) /\ virtual_address \in Nat
      /\ UNCHANGED <<slots, virtual_address>>
  BY LayoutAssumption DEF IInv, ListsTyped, VirtualReuse
<1>3. Across(free, used)
  BY <1>2, Symmetric DEF IInv
<1>4. /\ free' \in Seq(Blocks) /\ used' \in Seq(Blocks) /\ Spread(free') /\ Spread(used')
      /\ Across(free', used') /\ Below(free', virtual_address) /\ Below(used', virtual_address)
  BY <1>1, <1>2, <1>3, Moved DEF IInv
<1>5. Across(used', free')
  BY <1>4, Symmetric
<1> QED
  BY <1>2, <1>4, <1>5 DEF IInv, ListsTyped, Spread, Across, Below

(* And back.                                                               *)
LEMMA VirtualUnallocateStep ==
  ASSUME IInv, NEW i \in 1..Len(used), VirtualUnallocate(i)
  PROVE  IInv'
<1>1. free' = <<used[i]>> \o free /\ used' = RemoveAt(used, i)
  BY DEF VirtualUnallocate
<1>2. /\ free \in Seq(Blocks) /\ used \in Seq(Blocks) /\ virtual_address \in Nat
      /\ UNCHANGED <<slots, virtual_address>>
  <2>1. UNCHANGED <<slots, virtual_address>>
    BY DEF VirtualUnallocate
  <2> QED
    BY <2>1, LayoutAssumption DEF IInv, ListsTyped
<1>3. /\ free' \in Seq(Blocks) /\ used' \in Seq(Blocks) /\ Spread(free') /\ Spread(used')
      /\ Across(used', free') /\ Below(free', virtual_address) /\ Below(used', virtual_address)
  BY <1>1, <1>2, Moved DEF IInv
<1> QED
  BY <1>2, <1>3 DEF IInv, ListsTyped, Spread, Across, Below

(* A new block starts where the last one, with the page after it, ended.   *)
LEMMA VirtualNewStep ==
  ASSUME IInv, NEW count \in Counts, VirtualNew(count)
  PROVE  IInv'
<1> DEFINE b == [page |-> virtual_address, count |-> count]
<1>1. /\ virtual_address \in Nat /\ count \in Nat \ {0} /\ b \in Blocks
      /\ virtual_address' = virtual_address + count + 1
      /\ virtual_address' \in VBase..VLast + 1
      /\ used' = <<b>> \o used /\ free' = free
  <2>1. /\ virtual_address + count <= VLast /\ free' = free /\ used' = <<b>> \o used
        /\ virtual_address' = virtual_address + Span(count)
    BY DEF VirtualNew
  <2>2. count \in Nat \ {0} /\ virtual_address \in VBase..VLast + 1
    BY LayoutAssumption DEF IInv, ListsTyped
  <2>3. virtual_address \in VBase..VLast
    BY <2>1, <2>2, LayoutAssumption
  <2>4. b \in Blocks
    BY <2>2, <2>3 DEF Blocks
  <2>5. /\ virtual_address' = virtual_address + count + 1 /\ virtual_address \in Nat
        /\ virtual_address' \in VBase..VLast + 1
    BY <2>1, <2>2, <2>3, LayoutAssumption DEF Span
  <2> QED
    BY <2>1, <2>2, <2>4, <2>5
<1>2. slots' \in 0..BlockSlots
  BY LayoutAssumption DEF IInv, ListsTyped, VirtualNew, NextSlot, Full
<1>3. free \in Seq(Blocks) /\ used \in Seq(Blocks) /\ Len(used) \in Nat /\ Len(free) \in Nat
  BY LenProperties DEF IInv, ListsTyped
<1>4. /\ \A i \in 1..Len(used) : used[i] \in Blocks /\ Clear(b, used[i])
      /\ \A i \in 1..Len(free) : free[i] \in Blocks /\ Clear(b, free[i])
  <2>1. /\ \A i \in 1..Len(used) : used[i] \in Blocks
        /\ \A i \in 1..Len(free) : free[i] \in Blocks
    BY <1>3, ElementOfSeq
  <2> QED
    BY <2>1 DEF IInv, Below, Clear
<1>5. /\ used' \in Seq(Blocks) /\ Len(used') = Len(used) + 1 /\ used'[1] = b
      /\ \A j \in 2..Len(used') : used'[j] = used[j - 1] /\ j - 1 \in 1..Len(used)
  <2>1. /\ <<b>> \o used \in Seq(Blocks) /\ Len(<<b>> \o used) = Len(used) + 1
        /\ (<<b>> \o used)[1] = b
        /\ \A j \in 2..Len(used) + 1 : (<<b>> \o used)[j] = used[j - 1]
    BY <1>1, <1>3, Added
  <2> QED
    BY <1>1, <1>3, <2>1
<1>6. Spread(used)'
  <2>1. Spread(<<b>> \o used)
    BY <1>1, <1>3, <1>4, Headed DEF IInv
  <2> QED
    BY <1>1, <2>1 DEF Spread
<1>7. Across(used, free)'
  <2> SUFFICES ASSUME NEW j \in 1..Len(used'), NEW k \in 1..Len(free)
               PROVE  Clear(used'[j], free[k])
    BY <1>1 DEF Across
  <2>1. CASE j = 1
    BY <1>4, <1>5, <2>1
  <2>2. CASE j # 1
    <3>1. used'[j] = used[j - 1] /\ j - 1 \in 1..Len(used)
      BY <1>3, <1>5, <2>2
    <3> QED
      BY <3>1 DEF IInv, Across
  <2> QED
    BY <2>1, <2>2
<1>8. Below(free, virtual_address)'
  <2> SUFFICES ASSUME NEW k \in 1..Len(free) PROVE free[k].page + free[k].count < virtual_address'
    BY <1>1 DEF Below
  <2>1. free[k].page \in Nat /\ free[k].count \in Nat
    BY <1>4, LayoutAssumption DEF Blocks
  <2> QED
    BY <1>1, <2>1 DEF IInv, Below
<1>9. Below(used, virtual_address)'
  <2> SUFFICES ASSUME NEW j \in 1..Len(used')
               PROVE  used'[j].page + used'[j].count < virtual_address'
    BY DEF Below
  <2>1. CASE j = 1
    BY <1>1, <1>5, <2>1
  <2>2. CASE j # 1
    <3>1. used'[j] = used[j - 1] /\ j - 1 \in 1..Len(used)
      BY <1>3, <1>5, <2>2
    <3>2. used[j - 1].page \in Nat /\ used[j - 1].count \in Nat
      BY <1>4, <3>1, LayoutAssumption DEF Blocks
    <3>3. used[j - 1].page + used[j - 1].count < virtual_address
      BY <3>1 DEF IInv, Below
    <3> QED
      BY <1>1, <3>1, <3>2, <3>3
  <2> QED
    BY <2>1, <2>2
<1>10. Spread(free)'
  BY <1>1 DEF IInv, Spread
<1> QED
  BY <1>1, <1>2, <1>3, <1>5, <1>6, <1>7, <1>8, <1>9, <1>10 DEF IInv, ListsTyped

(* Nothing else touches the lists.                                         *)
LEMMA NextKeeps == IInv /\ [Next]_vars => IInv'
<1> DEFINE lists == <<free, used, slots, virtual_address>>
<1>1. ASSUME IInv, UNCHANGED lists PROVE IInv'
  BY <1>1 DEF IInv, ListsTyped, Spread, Across, Below
<1>2. /\ \A s \in Segments : LoadSegment(s) => UNCHANGED lists
      /\ \A count \in Counts, dma \in BOOLEAN : LinearAllocate(count, dma) => UNCHANGED lists
      /\ \A d \in Devices : LinearMap(d) => UNCHANGED lists
      /\ \A v \in VBase..VLast : PageFault(v) => UNCHANGED lists
      /\ Stuck => UNCHANGED lists
      /\ UNCHANGED vars => UNCHANGED lists
  BY DEF LoadSegment, LinearAllocate, LinearMap, PageFault, Stuck, vars
<1> HIDE DEF lists
<1> QED
  BY <1>1, <1>2, VirtualReuseStep, VirtualNewStep, VirtualUnallocateStep DEF Next

(* The lists have their types, and every block lies below the address the  *)
(* next new one gets, a page away from all others.                         *)
THEOREM Invariance == Spec => []IInv
BY InitHolds, NextKeeps, PTL DEF Spec

(* Whatever is allocated, given back and allocated again, two blocks of    *)
(* virtual addresses never touch.                                          *)
THEOREM Separated == Spec => []BlocksApart
<1>1. IInv => BlocksApart
  <2> SUFFICES ASSUME IInv PROVE BlocksApart
    OBVIOUS
  <2> DEFINE all == used \o free
  <2>1. /\ Len(used) \in Nat /\ Len(free) \in Nat /\ Len(all) = Len(used) + Len(free)
        /\ \A i \in 1..Len(all) : all[i] = IF i <= Len(used) THEN used[i] ELSE free[i - Len(used)]
    BY ConcatProperties, LenProperties DEF IInv, ListsTyped
  <2> HIDE DEF all
  <2>2. ASSUME NEW i \in 1..Len(all), NEW j \in 1..Len(all), i # j
        PROVE  Clear(all[i], all[j])
    <3>1. CASE i <= Len(used) /\ j <= Len(used)
      BY <2>1, <2>2, <3>1 DEF IInv, Spread
    <3>2. CASE i <= Len(used) /\ ~(j <= Len(used))
      <4>1. j - Len(used) \in 1..Len(free) /\ i \in 1..Len(used)
        BY <2>1, <3>2
      <4> QED
        BY <2>1, <3>2, <4>1 DEF IInv, Across
    <3>3. CASE ~(i <= Len(used)) /\ j <= Len(used)
      <4>1. i - Len(used) \in 1..Len(free) /\ j \in 1..Len(used)
        BY <2>1, <3>3
      <4>2. Clear(all[j], all[i])
        BY <2>1, <3>3, <4>1 DEF IInv, Across
      <4> QED
        BY <4>2 DEF Clear
    <3>4. CASE ~(i <= Len(used)) /\ ~(j <= Len(used))
      <4>1. /\ i - Len(used) \in 1..Len(free) /\ j - Len(used) \in 1..Len(free)
            /\ i - Len(used) # j - Len(used)
        BY <2>1, <2>2, <3>4
      <4> QED
        BY <2>1, <3>4, <4>1 DEF IInv, Spread
    <3> QED
      BY <3>1, <3>2, <3>3, <3>4
  <2> QED
    BY <2>2 DEF BlocksApart, Clear, all
<1> QED
  BY <1>1, Invariance, PTL

-----------------------------------------------------------------------------
(* The page tables and the blocks.                                         *)

(* Blocks as sets.                                                         *)
Listed(s) == {s[i] : i \in 1..Len(s)}
Contained(B) == \A b \in B : b \in Blocks /\ \A v \in Pages(b) : v \in High

(* The pages of every block have page tables; every entry belongs to a     *)
(* block in use; the first page of a block in use has an entry.            *)
BlocksTabled(m, B) == \A b \in B : \A v \in Pages(b) : m.table[Region(v)] # 0
Owned(m, B) == \A v \in High : m.entry[v] # None => \E b \in B : v \in Pages(b)
Rooted(m, B) == \A b \in B : m.entry[b.page] # None

(* Between operations: U are the blocks in use, F the free ones.           *)
WellUsed(m, U, F) ==
  /\ Good(m) /\ Paged(m)
  /\ m.hung = "no" => /\ LowEnd \notin m.available
                      /\ BlocksTabled(m, U) /\ BlocksTabled(m, F)
                      /\ Owned(m, U) /\ Rooted(m, U)

(* Block b may be taken, free or new; the blocks V stay when it goes.      *)
Apart(B, b) == \A c \in B : Clear(c, b)
Fits(F, b, count) ==
  /\ Contained({b}) /\ count \in Nat \ {0} /\ count <= b.count
  /\ b \in F \/ count = b.count
Stay(V, U, b) == /\ \A c \in V : c \in U /\ Clear(b, c)
                 /\ \A c \in U : c = b \/ c \in V

(* Clear blocks share no page.                                             *)
LEMMA BlockPages ==
  ASSUME NEW b \in Blocks
  PROVE  /\ b.page \in Nat /\ b.count \in Nat \ {0} /\ b.page \in Pages(b)
         /\ \A c \in Blocks : Clear(b, c) => \A v \in Pages(b) : v \notin Pages(c)
<1>1. b.page \in Nat /\ b.count \in Nat \ {0}
  BY LayoutAssumption DEF Blocks
<1>2. b.page \in Pages(b)
  BY <1>1 DEF Pages
<1>3. ASSUME NEW c \in Blocks, Clear(b, c), NEW v \in Pages(b), v \in Pages(c) PROVE FALSE
  <2>1. c.page \in Nat /\ c.count \in Nat
    BY LayoutAssumption DEF Blocks
  <2> QED
    BY <1>1, <1>3, <2>1 DEF Clear, Pages
<1> QED
  BY <1>1, <1>2, <1>3

(* Operations below the virtual pages.                                     *)
LEMMA LowKeeps ==
  ASSUME NEW m, NEW U, NEW F, WellUsed(m, U, F), Contained(U), Contained(F),
         NEW n, Good(n), LowOnly(m, n)
  PROVE  WellUsed(n, U, F) /\ \A v \in High : n.entry[v] = m.entry[v]
<1>1. /\ n.paging = m.paging /\ n.available \subseteq m.available
      /\ n.hung = "no" => m.hung = "no"
      /\ \A r \in Regions : m.table[r] # 0 => n.table[r] = m.table[r]
      /\ \A v \in High : n.entry[v] = m.entry[v]
  BY DEF LowOnly, High
<1>2. Paged(n)
  BY <1>1 DEF WellUsed, Paged
<1>3. ASSUME n.hung = "no"
      PROVE  /\ LowEnd \notin n.available /\ BlocksTabled(n, U) /\ BlocksTabled(n, F)
             /\ Owned(n, U) /\ Rooted(n, U)
  <2>1. /\ LowEnd \notin m.available /\ BlocksTabled(m, U) /\ BlocksTabled(m, F)
        /\ Owned(m, U) /\ Rooted(m, U)
    BY <1>1, <1>3 DEF WellUsed
  <2>2. \A v \in High : Region(v) \in Regions
    BY HighFacts
  <2>3. BlocksTabled(n, U) /\ BlocksTabled(n, F)
    BY <1>1, <2>1, <2>2 DEF BlocksTabled, Contained
  <2>4. Owned(n, U)
    BY <1>1, <2>1 DEF Owned
  <2>5. \A b \in U : b.page \in High
    BY BlockPages DEF Contained
  <2>6. Rooted(n, U)
    BY <1>1, <2>1, <2>5 DEF Rooted
  <2> QED
    BY <1>1, <2>1, <2>3, <2>4, <2>6
<1> QED
  BY <1>1, <1>2, <1>3 DEF WellUsed

(* count pages of block b are assigned; b is a free block or a new one.    *)
LEMMA AssignKeeps ==
  ASSUME NEW m, NEW U, NEW F, WellUsed(m, U, F), Owned(m, U), Contained(U), Contained(F),
         NEW b, NEW count, Apart(U, b), Fits(F, b, count),
         NEW n, AssignedTo(m, b.page, count, count, n)
  PROVE  /\ WellUsed(n, U \cup {b}, F)
         /\ \A v \in High : m.entry[v] >= 0 => n.entry[v] = m.entry[v]
<1> USE DEF Fits
<1> DEFINE R == b.page..b.page + count - 1
<1>1. /\ Good(n) /\ TablesKept(m, n)
      /\ \A w \in High : w \notin R => n.entry[w] = m.entry[w]
      /\ n.hung = "no" => \A w \in R : n.entry[w] = Assigned
  BY DEF AssignedTo
<1>2. b \in Blocks /\ b.page \in Nat /\ b.count \in Nat \ {0}
  BY BlockPages DEF Contained
<1>3. R \subseteq Pages(b) /\ b.page \in R /\ (count = b.count => R = Pages(b))
  BY <1>2 DEF Pages
<1> HIDE DEF R
<1>4. \A w \in R : w \in High
  BY <1>3 DEF Contained
<1>5. \A c \in U : \A v \in Pages(c) : v \in High /\ v \notin R
  <2> SUFFICES ASSUME NEW c \in U, NEW v \in Pages(c) PROVE v \in High /\ v \notin R
    OBVIOUS
  <2>1. c \in Blocks /\ v \in High /\ Clear(c, b)
    BY DEF Contained, Apart
  <2>2. v \notin Pages(b)
    BY <1>2, <2>1, BlockPages
  <2> QED
    BY <1>3, <2>1, <2>2
<1>6. ASSUME NEW v \in High, m.entry[v] >= 0 PROVE n.entry[v] = m.entry[v]
  <2>1. m.entry[v] # None
    BY <1>6 DEF None
  <2>2. PICK c \in U : v \in Pages(c)
    BY <2>1 DEF Owned
  <2> QED
    BY <1>1, <1>5, <2>2
<1>7. Paged(n)
  BY <1>1 DEF WellUsed, TablesKept, Paged
<1>8. ASSUME n.hung = "no"
      PROVE  /\ LowEnd \notin n.available
             /\ BlocksTabled(n, U \cup {b}) /\ BlocksTabled(n, F)
             /\ Owned(n, U \cup {b}) /\ Rooted(n, U \cup {b})
  <2>1. /\ LowEnd \notin m.available /\ BlocksTabled(m, U) /\ BlocksTabled(m, F)
        /\ Owned(m, U) /\ Rooted(m, U)
    BY <1>1, <1>8 DEF WellUsed, TablesKept
  <2>2. \A v \in High : v \in VirtualPages /\ Region(v) \in Regions
    BY HighFacts
  <2>3. \A v \in High : m.table[Region(v)] # 0 => n.table[Region(v)] # 0
    BY <1>1, <2>2 DEF TablesKept
  <2>4. BlocksTabled(n, U) /\ BlocksTabled(n, F)
    BY <2>1, <2>3 DEF BlocksTabled, Contained
  <2>5. ASSUME NEW v \in Pages(b) PROVE n.table[Region(v)] # 0
    <3>1. CASE b \in F
      BY <2>4, <3>1 DEF BlocksTabled
    <3>2. CASE count = b.count
      <4>1. v \in VirtualPages /\ n.entry[v] = Assigned
        BY <1>1, <1>3, <1>4, <1>8, <2>2, <3>2
      <4>2. n.entry[v] # None
        BY <4>1 DEF Assigned, None
      <4> QED
        BY <1>1, <4>1, <4>2 DEF Good, Tabled
    <3> QED
      BY <3>1, <3>2
  <2>6. Owned(n, U \cup {b})
    <3> SUFFICES ASSUME NEW v \in High, n.entry[v] # None
                 PROVE  \E c \in U \cup {b} : v \in Pages(c)
      BY DEF Owned
    <3>1. CASE v \in R
      BY <1>3, <3>1
    <3>2. CASE v \notin R
      BY <1>1, <2>1, <3>2 DEF Owned
    <3> QED
      BY <3>1, <3>2
  <2>7. Rooted(n, U \cup {b})
    <3> SUFFICES ASSUME NEW c \in U \cup {b} PROVE n.entry[c.page] # None
      BY DEF Rooted
    <3>1. CASE c = b
      BY <1>1, <1>3, <1>8, <3>1 DEF Assigned, None
    <3>2. CASE c \in U
      <4>1. c.page \in Pages(c)
        BY <3>2, BlockPages DEF Contained
      <4> QED
        BY <1>1, <1>5, <2>1, <3>2, <4>1 DEF Rooted
    <3> QED
      BY <3>1, <3>2
  <2> QED
    BY <1>1, <2>1, <2>4, <2>5, <2>6, <2>7 DEF BlocksTabled, TablesKept
<1> QED
  BY <1>1, <1>6, <1>7, <1>8 DEF WellUsed

(* A free block is taken from its list.                                    *)
LEMMA FewerFree ==
  ASSUME NEW m, NEW U, NEW F, WellUsed(m, U, F), NEW G, G \subseteq F
  PROVE  WellUsed(m, U, G)
BY DEF WellUsed, BlocksTabled

(* A block is given back; V are those that stay in use.                    *)
LEMMA ReleaseKeeps ==
  ASSUME NEW m, NEW U, NEW F, WellUsed(m, U, F), m.hung = "no",
         Contained(U), Contained(F), NEW b \in U, NEW V,
         Stay(V, U, b), NEW n, ReleasedTo(m, b.page, b.count, n)
  PROVE  /\ WellUsed(n, V, F \cup {b})
         /\ \A v \in High : n.entry[v] # m.entry[v] => \A c \in V : v \notin Pages(c)
<1>1. /\ LowEnd \notin m.available /\ BlocksTabled(m, U) /\ BlocksTabled(m, F)
      /\ Owned(m, U) /\ Rooted(m, U) /\ Paged(m)
  BY DEF WellUsed
<1>2. /\ Good(n) /\ n.hung = "no" /\ n.paging = m.paging /\ n.table = m.table
      /\ n.available \subseteq m.available \cup {0}
      /\ \A w \in High : n.entry[w] = IF w \in Pages(b) THEN None ELSE m.entry[w]
  BY DEF ReleasedTo, Pages
<1>3. \A c \in V : c.page \in High /\ c.page \in Pages(c) /\ \A v \in Pages(c) : v \notin Pages(b)
  <2> SUFFICES ASSUME NEW c \in V
               PROVE  c.page \in High /\ c.page \in Pages(c) /\ \A v \in Pages(c) : v \notin Pages(b)
    OBVIOUS
  <2>1. b \in Blocks /\ c \in Blocks /\ c \in U /\ Clear(b, c)
    BY DEF Contained, Stay
  <2>2. c.page \in Pages(c) /\ \A v \in Pages(b) : v \notin Pages(c)
    BY <2>1, BlockPages
  <2> QED
    BY <2>1, <2>2 DEF Contained
<1>4. LowEnd \notin n.available
  BY <1>1, <1>2, LayoutAssumption
<1>5. BlocksTabled(n, V) /\ BlocksTabled(n, F \cup {b})
  BY <1>1, <1>2 DEF BlocksTabled, Stay
<1>6. Owned(n, V)
  <2> SUFFICES ASSUME NEW v \in High, n.entry[v] # None PROVE \E c \in V : v \in Pages(c)
    BY DEF Owned
  <2>1. v \notin Pages(b) /\ m.entry[v] # None
    BY <1>2
  <2>2. PICK c \in U : v \in Pages(c)
    BY <1>1, <2>1 DEF Owned
  <2> QED
    BY <2>1, <2>2 DEF Stay
<1>7. Rooted(n, V)
  BY <1>1, <1>2, <1>3 DEF Rooted, Stay
<1>8. Paged(n)
  BY <1>1, <1>2 DEF Paged
<1> QED
  BY <1>2, <1>3, <1>4, <1>5, <1>6, <1>7, <1>8 DEF WellUsed

(* handle_page_fault.                                                      *)
LEMMA DemandKeeps ==
  ASSUME NEW m, NEW U, NEW F, WellUsed(m, U, F), m.hung = "no",
         Contained(U), Contained(F), NEW v \in High, m.entry[v] = Assigned
  PROVE  LET g == GetFreePages(m, 1, NORMAL)
             n == IF g.hung # "no" THEN g ELSE SetLinear([g EXCEPT !.entry[v] = g.got], g.got)
         IN  /\ WellUsed(n, U, F)
             /\ \A w \in High : m.entry[w] >= 0 => n.entry[w] = m.entry[w]
<1> DEFINE g == GetFreePages(m, 1, NORMAL)
           o == Put(g, v, g.got)
           n == SetLinear(o, g.got)
<1>1. /\ Good(g) /\ LowOnly(m, g) /\ g.entry = m.entry /\ g.table = m.table
      /\ g.hung = "no" => g.got # 0 /\ g.got \in LinearPages
  <2>1. 1 \in Nat \ {0} /\ 1 <= 2
    OBVIOUS
  <2> QED
    BY <2>1, GoodGot DEF WellUsed
<1>2. WellUsed(g, U, F) /\ \A w \in High : g.entry[w] = m.entry[w]
  BY <1>1, LowKeeps
<1> HIDE DEF g
<1>3. CASE g.hung # "no"
  BY <1>2, <1>3 DEF g
<1>4. CASE g.hung = "no"
  <2>1. g.got \in Entries /\ g.got \in LinearPages /\ g.got \in Nat
    BY <1>1, <1>4, Layout DEF Entries
  <2>2. v \in VirtualPages /\ Region(v) \in Regions
    BY HighFacts
  <2>3. g.table[Region(v)] # 0
    <3>1. m.entry[v] # None
      BY DEF Assigned, None
    <3> QED
      BY <1>1, <2>2, <3>1 DEF WellUsed, Good, Tabled
  <2>4. Paged(g)
    BY <1>2 DEF WellUsed
  <2>5. /\ Good(o) /\ o.hung = "no" /\ o.paging = g.paging
        /\ o.available = g.available /\ o.table = g.table
        /\ o.entry[v] = g.got /\ \A w \in VirtualPages : w # v => o.entry[w] = g.entry[w]
    BY <1>1, <1>4, <2>1, <2>3, <2>4, PutHigh
  <2>6. o = [g EXCEPT !.entry[v] = g.got]
    <3>1. g.entry[g.table[Region(v)]] = g.table[Region(v)]
      BY <1>1, <1>4, <2>3, <2>4, HighMapped
    <3> QED
      BY <1>4, <3>1 DEF Put
  <2>7. WellUsed(o, U, F) /\ \A w \in High : m.entry[w] >= 0 => o.entry[w] = m.entry[w]
    <3> HIDE DEF o
    <3>1. /\ LowEnd \notin g.available /\ BlocksTabled(g, U) /\ BlocksTabled(g, F)
          /\ Owned(g, U) /\ Rooted(g, U)
      BY <1>2, <1>4 DEF WellUsed
    <3>2. ASSUME NEW w \in High
          PROVE  /\ o.entry[w] # None <=> g.entry[w] # None
                 /\ g.entry[w] >= 0 => o.entry[w] = g.entry[w]
      <4>1. CASE w = v
        <5>1. g.entry[w] = -2 /\ o.entry[w] \in Nat
          BY <1>1, <2>1, <2>5, <4>1 DEF Assigned
        <5> QED
          BY <5>1 DEF None
      <4>2. CASE w # v
        BY <2>5, <4>2, HighFacts
      <4> QED
        BY <4>1, <4>2
    <3>3. Owned(o, U)
      BY <3>1, <3>2 DEF Owned
    <3>4. \A b \in U : b.page \in High
      BY BlockPages DEF Contained
    <3>5. Rooted(o, U)
      BY <3>1, <3>2, <3>4 DEF Rooted
    <3>6. BlocksTabled(o, U) /\ BlocksTabled(o, F) /\ Paged(o)
      BY <2>4, <2>5, <3>1 DEF BlocksTabled, Paged
    <3> QED
      BY <1>1, <2>5, <3>1, <3>2, <3>3, <3>5, <3>6 DEF WellUsed
  <2> HIDE DEF o
  <2>8. Good(n) /\ LowOnly(o, n)
    BY <2>1, <2>5, Marked
  <2>9. WellUsed(n, U, F) /\ \A w \in High : n.entry[w] = o.entry[w]
    BY <2>7, <2>8, LowKeeps
  <2> HIDE DEF n
  <2>10. n = SetLinear([g EXCEPT !.entry[v] = g.got], g.got)
    BY <2>6 DEF n
  <2>11. \A w \in High : m.entry[w] >= 0 => n.entry[w] = m.entry[w]
    BY <2>7, <2>9
  <2> QED
    BY <1>4, <2>9, <2>10, <2>11 DEF g
<1> QED
  BY <1>3, <1>4

-----------------------------------------------------------------------------

(* Blocks below virtual_address consist of virtual pages.                  *)
LEMMA ListContained ==
  ASSUME NEW s \in Seq(Blocks), NEW a \in Nat, a <= VLast + 1, Below(s, a)
  PROVE  Contained(Listed(s))
<1> SUFFICES ASSUME NEW i \in 1..Len(s)
             PROVE  s[i] \in Blocks /\ \A v \in Pages(s[i]) : v \in High
  BY DEF Contained, Listed
<1>1. s[i] \in Blocks
  BY ElementOfSeq
<1>2. s[i].page \in VBase..VLast /\ s[i].count \in Nat /\ s[i].page + s[i].count < a
  BY <1>1 DEF Below, Blocks
<1>3. ASSUME NEW v \in Pages(s[i]) PROVE v \in High
  <2>1. v \in Int /\ s[i].page <= v /\ v <= s[i].page + s[i].count - 1
    BY <1>2, LayoutAssumption DEF Pages
  <2> QED
    BY <1>2, <2>1, LayoutAssumption DEF High
<1> QED
  BY <1>1, <1>3

(* The blocks of a list with one more.                                     *)
LEMMA ListedAdded ==
  ASSUME NEW s \in Seq(Blocks), NEW b \in Blocks
  PROVE  Listed(<<b>> \o s) = Listed(s) \cup {b}
<1> DEFINE h == <<b>> \o s
<1>1. /\ Len(s) \in Nat /\ Len(h) = Len(s) + 1 /\ h[1] = b
      /\ \A j \in 1..Len(s) : h[j + 1] = s[j]
      /\ \A j \in 2..Len(s) + 1 : h[j] = s[j - 1]
  BY Added, LenProperties
<1> HIDE DEF h
<1>2. ASSUME NEW j \in 1..Len(h) PROVE h[j] = b \/ \E k \in 1..Len(s) : h[j] = s[k]
  <2>1. CASE j = 1
    BY <1>1, <2>1
  <2>2. CASE j # 1
    <3>1. j \in 2..Len(s) + 1 /\ j - 1 \in 1..Len(s)
      BY <1>1, <2>2
    <3> QED
      BY <1>1, <3>1
  <2> QED
    BY <2>1, <2>2
<1>3. ASSUME NEW k \in 1..Len(s) PROVE \E j \in 1..Len(h) : h[j] = s[k]
  <2>1. k + 1 \in 1..Len(h) /\ h[k + 1] = s[k]
    BY <1>1
  <2> QED
    BY <2>1
<1>4. \E j \in 1..Len(h) : h[j] = b
  <2>1. 1 \in 1..Len(h)
    BY <1>1
  <2> QED
    BY <1>1, <2>1
<1>5. Listed(h) \subseteq Listed(s) \cup {b}
  BY <1>2 DEF Listed
<1>6. Listed(s) \subseteq Listed(h) /\ b \in Listed(h)
  BY <1>3, <1>4 DEF Listed
<1> QED
  BY <1>5, <1>6 DEF h

(* The blocks of a list with one less.                                     *)
LEMMA ListedRemoved ==
  ASSUME NEW s \in Seq(Blocks), NEW i \in 1..Len(s)
  PROVE  /\ \A c \in Listed(RemoveAt(s, i)) : \E k \in 1..Len(s) : k # i /\ c = s[k]
         /\ \A c \in Listed(s) : c = s[i] \/ c \in Listed(RemoveAt(s, i))
<1> DEFINE r == RemoveAt(s, i)
<1>1. /\ Len(s) \in Nat /\ Len(r) = Len(s) - 1
      /\ \A j \in 1..Len(s) - 1 : r[j] = IF j < i THEN s[j] ELSE s[j + 1]
  BY Removed, LenProperties
<1> HIDE DEF r
<1>2. ASSUME NEW j \in 1..Len(r) PROVE \E k \in 1..Len(s) : k # i /\ r[j] = s[k]
  <2>1. CASE j < i
    <3>1. j \in 1..Len(s) /\ j # i /\ r[j] = s[j]
      BY <1>1, <2>1
    <3> QED
      BY <3>1
  <2>2. CASE ~(j < i)
    <3>1. j + 1 \in 1..Len(s) /\ j + 1 # i /\ r[j] = s[j + 1]
      BY <1>1, <2>2
    <3> QED
      BY <3>1
  <2> QED
    BY <2>1, <2>2
<1>3. ASSUME NEW k \in 1..Len(s), k # i PROVE \E j \in 1..Len(r) : r[j] = s[k]
  <2>1. CASE k < i
    <3>1. k \in 1..Len(r) /\ r[k] = s[k]
      BY <1>1, <2>1
    <3> QED
      BY <3>1
  <2>2. CASE k > i
    <3>1. k - 1 \in 1..Len(r) /\ ~(k - 1 < i) /\ (k - 1) + 1 = k /\ k - 1 \in 1..Len(s) - 1
      BY <1>1, <2>2
    <3>2. r[k - 1] = s[k]
      BY <1>1, <3>1
    <3> QED
      BY <3>1, <3>2
  <2> QED
    BY <1>3, <2>1, <2>2
<1>4. \A c \in Listed(r) : \E k \in 1..Len(s) : k # i /\ c = s[k]
  BY <1>2 DEF Listed
<1>5. ASSUME NEW c \in Listed(s), c # s[i] PROVE c \in Listed(r)
  <2>1. PICK k \in 1..Len(s) : c = s[k]
    BY DEF Listed
  <2> QED
    BY <1>3, <1>5, <2>1 DEF Listed
<1> QED
  BY <1>4, <1>5 DEF r

-----------------------------------------------------------------------------
(* The invariant.                                                          *)

(* The inductive invariant of the page tables.                             *)
Runs == [page : LinearPages, count : Counts \cup {1}]
PagesInv ==
  /\ WellUsed(mem, Listed(used), Listed(free))
  /\ linears \in Seq(Runs) /\ toLoad \subseteq Segments
FullInv == IInv /\ PagesInv

(* The step of ContentsKept.                                               *)
KeepsContents ==
  \A v \in VBase..VLast :
    (mem.entry[v] >= 0 /\ mem'.entry[v] # mem.entry[v]) =>
      \A i \in 1..Len(used') : v \notin Pages(used'[i])

(* All blocks consist of virtual pages.                                    *)
LEMMA ListsContained ==
  ASSUME IInv PROVE Contained(Listed(used)) /\ Contained(Listed(free))
<1>1. /\ used \in Seq(Blocks) /\ free \in Seq(Blocks) /\ virtual_address \in Nat
      /\ virtual_address <= VLast + 1 /\ Below(used, virtual_address) /\ Below(free, virtual_address)
  BY LayoutAssumption DEF IInv, ListsTyped
<1> QED
  BY <1>1, ListContained

(* setup() establishes the invariant.                                      *)
LEMMA PagesInit == Init => PagesInv
<1> SUFFICES ASSUME Init PROVE PagesInv
  OBVIOUS
<1>1. mem = AfterSetup /\ Listed(used) = {} /\ Listed(free) = {} /\ toLoad = Segments
  BY EmptySeq DEF Init, Listed
<1>2. Good(mem) /\ Paged(mem)
  BY <1>1, SetupGood DEF Paged
<1>3. Owned(mem, {})
  BY <1>1, SetupGood DEF Owned, High
<1>4. WellUsed(mem, {}, {})
  BY <1>1, <1>2, <1>3, SetupGood DEF WellUsed, BlocksTabled, Rooted
<1>5. linears \in Seq(Runs)
  <2>1. mem.got \in LinearPages
    BY <1>2, GoodTyped, TypeFields
  <2>2. [page |-> mem.got, count |-> 1] \in Runs
    BY <2>1 DEF Runs
  <2> QED
    BY <2>2 DEF Init
<1> QED
  BY <1>1, <1>4, <1>5 DEF PagesInv

(* The operations that only touch addresses below those of virtual pages.  *)
LEMMA LowAction ==
  ASSUME FullInv, Good(mem'), LowOnly(mem, mem'), UNCHANGED <<free, used>>,
         linears' \in Seq(Runs), toLoad' \subseteq Segments
  PROVE  PagesInv' /\ KeepsContents
<1>1. /\ WellUsed(mem, Listed(used), Listed(free))
      /\ Contained(Listed(used)) /\ Contained(Listed(free))
  BY ListsContained DEF FullInv, PagesInv
<1>2. /\ WellUsed(mem', Listed(used), Listed(free))
      /\ \A v \in High : mem'.entry[v] = mem.entry[v]
  BY <1>1, LowKeeps
<1>3. PagesInv'
  BY <1>2 DEF PagesInv, Listed
<1> QED
  BY <1>2, <1>3 DEF KeepsContents, High

(* What an operation finds.                                                *)
LEMMA WorkingState ==
  ASSUME FullInv, mem.hung = "no"
  PROVE  /\ Good(mem) /\ Paged(mem) /\ LowEnd \notin mem.available
         /\ Owned(mem, Listed(used))
BY DEF FullInv, PagesInv, WellUsed

(* kmemory_linear_page_allocate.                                           *)
LEMMA LinearAllocateKeeps ==
  ASSUME FullInv, NEW count \in Counts, NEW dma \in BOOLEAN, LinearAllocate(count, dma)
  PROVE  PagesInv' /\ KeepsContents
<1> DEFINE zone == IF dma THEN DMA ELSE NORMAL
           g == GetFreePages(mem, count, zone)
<1>1. /\ mem.hung = "no" /\ mem' = Loop(Identity, g, g.got, count)
      /\ linears' = Append(linears, [page |-> g.got, count |-> count])
      /\ UNCHANGED <<free, used, toLoad>>
  BY DEF LinearAllocate, Running, Ready
<1>2. count \in Nat \ {0} /\ zone \in {NORMAL, DMA}
  BY LayoutAssumption
<1> HIDE DEF zone
<1>3. /\ Good(g) /\ LowOnly(mem, g)
      /\ g.hung = "no" => g.got \in LinearPages /\ g.got + count - 1 \in LinearPages
  BY <1>1, <1>2, WorkingState, GoodGot
<1>4. g.got \in LinearPages /\ g.got \in Nat
  BY <1>3, GoodTyped, TypeFields
<1> HIDE DEF g
<1>5. g.hung = "no" => \A i \in 1..count : /\ g.got + i - 1 \in VirtualPages
                                             /\ g.got + i - 1 < VBase
  <2>1. g.hung = "no" => \A i \in 1..count : g.got + i - 1 \in LinearPages
    BY <1>2, <1>3, <1>4, Layout DEF LinearPages
  <2> QED
    BY <2>1, LowRegions
<1>6. Good(mem') /\ LowOnly(mem, mem')
  <2>1. mem' \in LowStates(g)
    BY <1>1, <1>2, <1>3, <1>4, <1>5, RunMapped
  <2> QED
    BY <1>3, <2>1, LowOnlyTransitive DEF LowStates
<1>7. linears' \in Seq(Runs)
  <2>1. [page |-> g.got, count |-> count] \in Runs
    BY <1>4 DEF Runs
  <2> QED
    BY <1>1, <2>1 DEF FullInv, PagesInv
<1> QED
  BY <1>1, <1>6, <1>7, LowAction DEF FullInv, PagesInv

(* kmemory_linear_page_map.                                                *)
LEMMA LinearMapKeeps ==
  ASSUME FullInv, NEW d \in Devices, LinearMap(d)
  PROVE  PagesInv' /\ KeepsContents
<1>1. /\ mem.hung = "no" /\ mem' = Loop(Identity, mem, d[1], d[2])
      /\ UNCHANGED <<free, used, linears, toLoad>>
  BY DEF LinearMap, Running, Ready
<1>2. /\ d[1] \in Nat /\ d[2] \in Nat
      /\ \A i \in 1..d[2] : d[1] + i - 1 \in VirtualPages /\ d[1] + i - 1 < VBase
  BY LayoutAssumption DEF VirtualPages
<1>3. mem' \in LowStates(mem)
  BY <1>1, <1>2, WorkingState, RunMapped
<1> QED
  BY <1>1, <1>3, LowAction DEF FullInv, PagesInv, LowStates

(* read_elf.                                                               *)
LEMMA LoadSegmentKeeps ==
  ASSUME FullInv, NEW s \in Segments, LoadSegment(s)
  PROVE  PagesInv' /\ KeepsContents
<1> DEFINE g == GetFreePages(mem, s[2], NORMAL)
           I == [k \in 0..s[2] |-> LowStates(g)]
<1>1. /\ mem.hung = "no" /\ mem' = PlaceSegment(g, s, g.got)
      /\ UNCHANGED <<free, used, linears>> /\ toLoad' \subseteq Segments
  BY DEF LoadSegment, Ready, FullInv, PagesInv
<1>2. /\ s[1] \in Nat /\ s[2] \in Nat \ {0}
      /\ (MemEnd + 1) * T <= s[1] /\ s[1] + s[2] <= VBase
  BY MachineAssumption
<1>3. /\ Good(g) /\ LowOnly(mem, g)
      /\ g.hung = "no" => g.got \in LinearPages /\ g.got + s[2] - 1 \in LinearPages
  BY <1>1, <1>2, WorkingState, GoodGot
<1>4. g.got \in Nat
  BY <1>3, GoodTyped
<1>5. \A k \in 0..s[2] : I[k] = LowStates(g) /\ I[k] \subseteq LowStates(g)
  OBVIOUS
<1> HIDE DEF g, I
<1>6. ASSUME NEW k \in 1..s[2], NEW x \in I[k - 1]
      PROVE  MapPage(x, s[1] + (0 + k - 1), g.got + (0 + k - 1)) \in I[k]
  <2> DEFINE v == s[1] + (0 + k - 1)
             p == g.got + (0 + k - 1)
             n == MapPage(x, v, p)
  <2>1. x \in LowStates(g) /\ Good(x) /\ I[k] = LowStates(g)
    BY <1>2, <1>5 DEF LowStates
  <2>2. CASE g.hung # "no"
    BY <2>1, <2>2, HungIdentity DEF LowStates
  <2>3. CASE g.hung = "no"
    <3>1. v \in VirtualPages /\ v < VBase /\ v \notin LinearPages
      BY <1>2, Layout, LayoutAssumption DEF VirtualPages, LinearPages
    <3>2. p \in LinearPages /\ p \in VirtualPages
      BY <1>2, <1>3, <1>4, <2>3, Layout DEF LinearPages
    <3> HIDE DEF v, p
    <3>3. Good(n) /\ LowOnly(x, n) /\ (x.hung # "no" => n = x)
      BY <2>1, <3>1, <3>2, PageMapped
    <3> HIDE DEF n
    <3>4. n \in LowStates(g)
      BY <2>1, <3>3, LowStep
    <3> QED
      BY <2>1, <3>4 DEF n, v, p
  <2> QED
    BY <2>2, <2>3
<1>7. mem' \in LowStates(g)
  <2>1. g \in I[0]
    BY <1>2, <1>3, <1>5, LowStart
  <2>2. PlaceSegment(g, s, g.got) \in I[s[2]]
    BY <1>2, <1>4, <1>5, <1>6, <2>1, PlaceLoop
  <2> QED
    BY <1>1, <1>2, <1>5, <2>2
<1>8. Good(mem') /\ LowOnly(mem, mem')
  BY <1>3, <1>7, LowOnlyTransitive DEF LowStates
<1> QED
  BY <1>1, <1>8, LowAction DEF FullInv, PagesInv

(* handle_page_fault.                                                      *)
LEMMA PageFaultKeeps ==
  ASSUME FullInv, NEW v \in VBase..VLast, PageFault(v)
  PROVE  PagesInv' /\ KeepsContents
<1>1. /\ mem.hung = "no" /\ mem.entry[v] \in {None, Assigned} /\ v \in High
      /\ UNCHANGED <<free, used, linears, toLoad>>
  BY DEF PageFault, Ready, High
<1>2. /\ WellUsed(mem, Listed(used), Listed(free))
      /\ Contained(Listed(used)) /\ Contained(Listed(free))
  BY ListsContained DEF FullInv, PagesInv
<1>3. /\ WellUsed(mem', Listed(used), Listed(free))
      /\ \A w \in High : mem.entry[w] >= 0 => mem'.entry[w] = mem.entry[w]
  <2>1. CASE mem.entry[v] = None
    <3>1. mem' = mem
      BY <2>1 DEF PageFault
    <3> QED
      BY <1>2, <3>1
  <2>2. CASE mem.entry[v] = Assigned
    <3>1. mem.entry[v] # None
      BY <2>2 DEF Assigned, None
    <3> QED
      BY <1>1, <1>2, <2>2, <3>1, DemandKeeps DEF PageFault
  <2> QED
    BY <1>1, <2>1, <2>2
<1>4. PagesInv'
  BY <1>1, <1>3 DEF FullInv, PagesInv, Listed
<1> QED
  BY <1>3, <1>4 DEF KeepsContents, High

(* kmemory_virtual_page_allocate, with a free block.                       *)
LEMMA VirtualReuseKeeps ==
  ASSUME FullInv, NEW count \in Counts, VirtualReuse(count)
  PROVE  PagesInv' /\ KeepsContents
<1>1. PICK i \in 1..Len(free) :
        /\ free[i].count >= count
        /\ mem' = AssignAll(mem, free[i].page, count)
        /\ used' = <<free[i]>> \o used /\ free' = RemoveAt(free, i)
  BY DEF VirtualReuse, Fitting
<1>2. mem.hung = "no" /\ UNCHANGED <<linears, toLoad>>
  BY DEF VirtualReuse, Ready
<1> DEFINE b == free[i]
           U == Listed(used)
           F == Listed(free)
           G == Listed(RemoveAt(free, i))
<1>3. used \in Seq(Blocks) /\ free \in Seq(Blocks) /\ b \in Blocks /\ b \in F
  BY ElementOfSeq DEF FullInv, IInv, ListsTyped, Listed
<1>4. WellUsed(mem, U, F) /\ Contained(U) /\ Contained(F) /\ Contained({b})
  BY <1>3, ListsContained DEF FullInv, PagesInv, Contained
<1>5. Apart(U, b)
  BY DEF FullInv, IInv, Across, Listed, Apart
<1>6. /\ count \in Nat \ {0} /\ b.page \in Nat /\ b.count \in Nat /\ count <= b.count
      /\ \A w \in b.page..b.page + count - 1 : w \in High
  <2>1. count \in Nat \ {0} /\ b.page \in Nat /\ b.count \in Nat /\ count <= b.count
    BY <1>1, <1>3, BlockPages, LayoutAssumption
  <2>2. \A w \in b.page..b.page + count - 1 : w \in Pages(b)
    BY <2>1 DEF Pages
  <2> QED
    BY <1>4, <2>1, <2>2 DEF Contained
<1>7. G \subseteq F
  <2>1. \A c \in G : \E k \in 1..Len(free) : k # i /\ c = free[k]
    BY <1>3, ListedRemoved
  <2> HIDE DEF G
  <2> QED
    BY <2>1 DEF Listed
<1>8. Listed(<<b>> \o used) = U \cup {b}
  BY <1>3, ListedAdded
<1> HIDE DEF b, U, F, G
<1>9. AssignedTo(mem, b.page, count, count, mem')
  BY <1>1, <1>2, <1>6, WorkingState, AllAssigned DEF b
<1>10. /\ WellUsed(mem', U \cup {b}, G)
       /\ \A v \in High : mem.entry[v] >= 0 => mem'.entry[v] = mem.entry[v]
  <2>1. Owned(mem, U)
    BY <1>2, WorkingState DEF U
  <2>2. Fits(F, b, count)
    BY <1>3, <1>4, <1>6 DEF Fits
  <2>3. /\ WellUsed(mem', U \cup {b}, F)
        /\ \A v \in High : mem.entry[v] >= 0 => mem'.entry[v] = mem.entry[v]
    BY <1>4, <1>5, <1>9, <2>1, <2>2, AssignKeeps
  <2> QED
    BY <1>7, <2>3, FewerFree
<1>11. Listed(used') = U \cup {b} /\ Listed(free') = G
  BY <1>1, <1>8 DEF b, G
<1>12. PagesInv'
  <2>1. WellUsed(mem', Listed(used'), Listed(free'))
    BY <1>10, <1>11
  <2> QED
    BY <1>2, <2>1 DEF FullInv, PagesInv, Listed
<1> QED
  BY <1>10, <1>12 DEF KeepsContents, High

(* kmemory_virtual_page_allocate, with new addresses.                      *)
LEMMA VirtualNewKeeps ==
  ASSUME FullInv, NEW count \in Counts, VirtualNew(count)
  PROVE  PagesInv' /\ KeepsContents
<1> DEFINE b == [page |-> virtual_address, count |-> count]
           g == GetFreePages(mem, 1, NORMAL)
           o == IF Full THEN MapResult(g) ELSE mem
           U == Listed(used)
           F == Listed(free)
<1>1. /\ mem.hung = "no" /\ virtual_address + count <= VLast
      /\ mem' = AssignAll(o, virtual_address, count)
      /\ used' = <<b>> \o used /\ UNCHANGED <<free, linears, toLoad>>
  BY DEF VirtualNew, Ready
<1>2. /\ used \in Seq(Blocks) /\ virtual_address \in VBase..VLast + 1
      /\ Below(used, virtual_address)
  BY DEF FullInv, IInv, ListsTyped
<1>3. count \in Nat \ {0} /\ virtual_address \in Nat
  BY <1>2, LayoutAssumption
<1>4. /\ b \in Blocks /\ b.page = virtual_address /\ b.count = count
      /\ \A w \in Pages(b) : w \in High
  BY <1>1, <1>2, <1>3, LayoutAssumption DEF Blocks, Pages, High
<1>5. WellUsed(mem, U, F) /\ Contained(U) /\ Contained(F) /\ Contained({b})
  BY <1>4, ListsContained DEF FullInv, PagesInv, Contained
<1>6. Apart(U, b)
  BY <1>2, <1>4 DEF Below, Clear, Listed, Apart
<1>7. Listed(<<b>> \o used) = U \cup {b}
  BY <1>2, <1>4, ListedAdded
<1>8. Good(o) /\ LowOnly(mem, o)
  BY <1>1, WorkingState, ResultMapped, SameLow
<1> HIDE DEF b, g, o
<1>9. WellUsed(o, U, F) /\ \A v \in High : o.entry[v] = mem.entry[v]
  BY <1>5, <1>8, LowKeeps
<1>10. Owned(o, U)
  <2>1. Owned(mem, U)
    BY <1>1, WorkingState
  <2> QED
    BY <1>9, <2>1 DEF Owned
<1>11. AssignedTo(o, b.page, count, count, mem')
  <2>1. Paged(o)
    BY <1>9 DEF WellUsed
  <2>2. \A w \in virtual_address..virtual_address + count - 1 : w \in High
    BY <1>4 DEF Pages
  <2> QED
    BY <1>1, <1>3, <1>4, <1>8, <2>1, <2>2, AllAssigned
<1> HIDE DEF U, F
<1>12. /\ WellUsed(mem', U \cup {b}, F)
       /\ \A v \in High : o.entry[v] >= 0 => mem'.entry[v] = o.entry[v]
  <2>1. Fits(F, b, count)
    BY <1>3, <1>4, <1>5 DEF Fits
  <2> QED
    BY <1>5, <1>6, <1>9, <1>10, <1>11, <2>1, AssignKeeps
<1>13. PagesInv'
  <2>1. WellUsed(mem', Listed(used'), Listed(free'))
    BY <1>1, <1>7, <1>12 DEF F
  <2> QED
    BY <1>1, <2>1 DEF FullInv, PagesInv, Listed
<1>14. \A v \in High : mem.entry[v] >= 0 => mem'.entry[v] = mem.entry[v]
  BY <1>9, <1>12
<1> QED
  BY <1>13, <1>14 DEF KeepsContents, High

(* kmemory_virtual_page_unallocate.                                        *)
LEMMA VirtualUnallocateKeeps ==
  ASSUME FullInv, NEW i \in 1..Len(used), VirtualUnallocate(i)
  PROVE  PagesInv' /\ KeepsContents
<1> DEFINE b == used[i]
           U == Listed(used)
           F == Listed(free)
           V == Listed(RemoveAt(used, i))
<1>1. /\ mem.hung = "no" /\ mem' = Loop(Release, mem, b.page, b.count)
      /\ free' = <<b>> \o free /\ used' = RemoveAt(used, i) /\ UNCHANGED <<linears, toLoad>>
  BY DEF VirtualUnallocate, Running, Ready
<1>2. used \in Seq(Blocks) /\ free \in Seq(Blocks) /\ b \in Blocks /\ b \in U
  BY ElementOfSeq DEF FullInv, IInv, ListsTyped, Listed
<1>3. WellUsed(mem, U, F) /\ Contained(U) /\ Contained(F)
  BY ListsContained DEF FullInv, PagesInv
<1>4. Listed(<<b>> \o free) = F \cup {b}
  BY <1>2, ListedAdded
<1>5. Stay(V, U, b)
  <2>1. /\ \A c \in V : \E k \in 1..Len(used) : k # i /\ c = used[k]
        /\ \A c \in U : c = b \/ c \in V
    BY <1>2, ListedRemoved
  <2> QED
    BY <2>1 DEF FullInv, IInv, Spread, Listed, Stay
<1> HIDE DEF b, U, F, V
<1>6. /\ b.page \in Nat /\ b.count \in Nat
      /\ \A w \in b.page..b.page + b.count - 1 : w \in High /\ mem.table[Region(w)] # 0
  <2>1. BlocksTabled(mem, U)
    BY <1>1, <1>3 DEF WellUsed
  <2> QED
    BY <1>2, <1>3, <2>1, BlockPages DEF BlocksTabled, Contained, Pages
<1>7. ReleasedTo(mem, b.page, b.count, mem')
  BY <1>1, <1>6, WorkingState, AllReleased
<1>8. /\ WellUsed(mem', V, F \cup {b})
      /\ \A v \in High : mem'.entry[v] # mem.entry[v] => \A c \in V : v \notin Pages(c)
  <2>1. /\ WellUsed(mem, U, F) /\ mem.hung = "no" /\ Contained(U) /\ Contained(F) /\ b \in U
        /\ ReleasedTo(mem, b.page, b.count, mem')
    BY <1>1, <1>2, <1>3, <1>7
  <2> QED
    BY <1>5, <2>1, ReleaseKeeps
<1>9. Listed(used') = V /\ Listed(free') = F \cup {b}
  BY <1>1, <1>4 DEF V
<1>10. PagesInv'
  <2>1. WellUsed(mem', Listed(used'), Listed(free'))
    BY <1>8, <1>9
  <2> QED
    BY <1>1, <2>1 DEF FullInv, PagesInv, Listed
<1>11. KeepsContents
  <2>1. \A j \in 1..Len(used') : used'[j] \in V
    BY <1>9 DEF Listed
  <2> QED
    BY <1>8, <2>1 DEF KeepsContents, High
<1> QED
  BY <1>10, <1>11

(* Every step keeps the invariant, and the contents of pages in use.       *)
LEMMA PagesStep ==
  ASSUME FullInv, [Next]_vars PROVE PagesInv' /\ (Next => KeepsContents)
<1>1. CASE \E s \in Segments : LoadSegment(s)
  BY <1>1, LoadSegmentKeeps
<1>2. CASE \E count \in Counts, dma \in BOOLEAN : LinearAllocate(count, dma)
  BY <1>2, LinearAllocateKeeps
<1>3. CASE \E d \in Devices : LinearMap(d)
  BY <1>3, LinearMapKeeps
<1>4. CASE \E count \in Counts : VirtualReuse(count)
  BY <1>4, VirtualReuseKeeps
<1>5. CASE \E count \in Counts : VirtualNew(count)
  BY <1>5, VirtualNewKeeps
<1>6. CASE \E v \in VBase..VLast : PageFault(v)
  BY <1>6, PageFaultKeeps
<1>7. CASE \E i \in 1..Len(used) : VirtualUnallocate(i)
  BY <1>7, VirtualUnallocateKeeps
<1>8. CASE UNCHANGED vars
  <2>1. PagesInv'
    BY <1>8 DEF FullInv, PagesInv, Listed, vars
  <2>2. KeepsContents
    BY <1>8 DEF KeepsContents, vars
  <2> QED
    BY <2>1, <2>2
<1> QED
  BY <1>1, <1>2, <1>3, <1>4, <1>5, <1>6, <1>7, <1>8 DEF Next, Stuck

(* After setup() and whatever operations follow: the linear tables are     *)
(* sound, entries lie in page tables that exist, page tables are mapped at *)
(* their own addresses, a page that is available is not mapped, the pages  *)
(* of every block have page tables, and entries of virtual pages belong to *)
(* blocks in use.                                                          *)
THEOREM FullInvariance == Spec => []FullInv
<1>1. Init => FullInv
  BY InitHolds, PagesInit DEF FullInv
<1>2. FullInv /\ [Next]_vars => FullInv'
  BY NextKeeps, PagesStep DEF FullInv
<1> QED
  BY <1>1, <1>2, PTL DEF Spec

(* The state keeps its types, and no page beyond the end of memory is ever *)
(* given out or marked (kmemory_linear_setup, get_free_pages).             *)
THEOREM Typed == Spec => []TypeOK
<1>1. FullInv => TypeOK
  <2> SUFFICES ASSUME FullInv PROVE TypeOK
    OBVIOUS
  <2>1. Sound(mem)
    BY DEF FullInv, PagesInv, WellUsed, Good
  <2>2. mem \in MemType /\ mem.available \subseteq 0..LastPage
    BY <2>1, AvailableBounded DEF Sound
  <2> QED
    BY <2>2 DEF FullInv, IInv, ListsTyped, PagesInv, Runs, TypeOK
<1> QED
  BY <1>1, FullInvariance, PTL

(* A virtual address has an entry only while its block is in use, and the  *)
(* first page of a block in use has one.                                   *)
THEOREM OnlyUsed == Spec => []OnlyUsedMapped
<1>1. FullInv => OnlyUsedMapped
  <2> SUFFICES ASSUME FullInv, mem.hung = "no"
               PROVE  /\ \A v \in VBase..VLast : mem.entry[v] # None =>
                           \E i \in 1..Len(used) : v \in Pages(used[i])
                      /\ \A i \in 1..Len(used) : mem.entry[used[i].page] # None
    BY DEF OnlyUsedMapped
  <2>1. Owned(mem, Listed(used)) /\ Rooted(mem, Listed(used))
    BY DEF FullInv, PagesInv, WellUsed
  <2> QED
    BY <2>1 DEF Owned, Rooted, Listed, High
<1> QED
  BY <1>1, FullInvariance, PTL

(* The kernel stops inside the allocator only when a page table would have *)
(* to be written through itself, in a cycle of tables none of which is     *)
(* mapped, or when no run of the pages asked for is left.                  *)
THEOREM Stops == Spec => []StopsForCause
<1>1. FullInv => StopsForCause
  <2> SUFFICES ASSUME FullInv PROVE StopsForCause
    OBVIOUS
  <2>1. /\ mem.hung = "fault" => Closed(mem)
        /\ mem.hung = "device" => Behind(mem)
        /\ mem.hung = "exhausted" => NoRun(mem)
    BY DEF FullInv, PagesInv, WellUsed, Good, Sound
  <2> QED
    BY <2>1 DEF StopsForCause, Closed, Behind, NoRun
<1> QED
  BY <1>1, FullInvariance, PTL

(* No operation replaces the linear page behind an address in use.         *)
THEOREM ContentsStay == Spec => ContentsKept
<1>1. FullInv /\ [Next]_vars => [KeepsContents]_vars
  BY PagesStep
<1> QED
  BY <1>1, FullInvariance, PTL DEF Spec, ContentsKept, KeepsContents
=============================================================================
