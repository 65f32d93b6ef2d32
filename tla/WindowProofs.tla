--------------------------- MODULE WindowProofs -----------------------------
(***************************************************************************)
(* What holds of the window, the caret, the text field and the updater, for*)
(* every bound on leases, claims, widths, timers and edits, every alphabet *)
(* and length limit, and every set of feeds, every number of checks and of *)
(* refusals, with deaths between any two steps.                            *)
(***************************************************************************)
EXTENDS ActiveScreens, Shell, CaretBlink, InputField, AppUpdate, Stepwise,
        SequenceTheorems, FiniteSetTheorems, TLAPS

(* Screens and their claims.                                                *)

(* The record is the end of the history: the last MaxClaims grants.        *)
EndOf(cs, gs) ==
    /\ Len(cs) = IF Len(gs) < MaxClaims THEN Len(gs) ELSE MaxClaims
    /\ \A i \in 1..Len(cs) : cs[i] = gs[Len(gs) - Len(cs) + i]

ClaimsRemembered ==
    granted \in Seq(ScreenKeys) /\ claimed \in Seq(ScreenKeys) /\ EndOf(claimed, granted)

ClaimsInv == ClaimsRemembered /\ RefreshedOncePerCycle

LEMMA RecordKeepsTheEnd ==
    ASSUME NEW cs \in Seq(ScreenKeys), NEW gs \in Seq(ScreenKeys), NEW key \in ScreenKeys,
           EndOf(cs, gs)
    PROVE  /\ ClaimRecord(cs, key) \in Seq(ScreenKeys)
           /\ EndOf(ClaimRecord(cs, key), Append(gs, key))
<1> DEFINE new == ClaimRecord(cs, key)
           g == Append(gs, key)
<1>1. Len(cs) \in Nat /\ Len(gs) \in Nat /\ MaxClaims \in Nat \ {0}
  BY ScreensAssumption
<1>2. g \in Seq(ScreenKeys) /\ Len(g) = Len(gs) + 1 /\ g[Len(gs) + 1] = key
      /\ \A i \in 1..Len(gs) : g[i] = gs[i]
  OBVIOUS
<1>3. CASE Len(cs) >= MaxClaims
  <2> DEFINE rest == SubSeq(cs, 2, Len(cs))
  <2>1. Len(cs) = MaxClaims /\ Len(cs) - MaxClaims + 2 = 2 /\ MaxClaims <= Len(gs)
    BY <1>1, <1>3 DEF EndOf
  <2>2. new = Append(rest, key)
    BY <1>3, <2>1 DEF ClaimRecord
  <2>3. rest \in Seq(ScreenKeys) /\ Len(rest) = Len(cs) - 1
        /\ \A i \in 1..(Len(cs) - 1) : rest[i] = cs[i + 1]
    BY <1>1, <2>1
  <2>4. /\ new \in Seq(ScreenKeys) /\ Len(new) = Len(cs) /\ new[Len(cs)] = key
        /\ \A i \in 1..(Len(cs) - 1) : new[i] = cs[i + 1]
    <3> HIDE DEF rest
    <3> QED
      BY <1>1, <2>1, <2>2, <2>3
  <2> HIDE DEF new, g
  <2>5. ASSUME NEW i \in 1..Len(cs) PROVE new[i] = g[Len(gs) + 1 - Len(cs) + i]
    <3>1. CASE i = Len(cs)
      BY <1>1, <1>2, <2>4, <3>1
    <3>2. CASE i < Len(cs)
      <4>1. i + 1 \in 1..Len(cs) /\ i \in 1..(Len(cs) - 1)
            /\ Len(gs) - Len(cs) + (i + 1) = Len(gs) + 1 - Len(cs) + i
            /\ Len(gs) + 1 - Len(cs) + i \in 1..Len(gs)
        BY <1>1, <2>1, <3>2
      <4>2. new[i] = cs[i + 1] /\ cs[i + 1] = gs[Len(gs) + 1 - Len(cs) + i]
        BY <2>4, <4>1 DEF EndOf
      <4>3. QED
        BY <1>2, <4>1, <4>2
    <3>3. QED
      BY <1>1, <3>1, <3>2
  <2>6. EndOf(new, g)
    <3>1. Len(new) = MaxClaims /\ ~(Len(g) < MaxClaims)
      BY <1>1, <1>2, <2>1, <2>4
    <3>2. ASSUME NEW i \in 1..Len(new) PROVE new[i] = g[Len(g) - Len(new) + i]
      BY <1>2, <2>4, <2>5
    <3>3. QED
      BY <3>1, <3>2 DEF EndOf
  <2>7. QED
    BY <2>4, <2>6 DEF new, g
<1>4. CASE Len(cs) < MaxClaims
  <2>1. Len(cs) = Len(gs)
    BY <1>1, <1>4 DEF EndOf
  <2>2. \A i \in 1..Len(cs) : cs[i] = gs[i]
    <3>1. \A i \in 1..Len(cs) : Len(gs) - Len(cs) + i = i
      BY <2>1, <1>1
    <3>2. QED
      BY <3>1 DEF EndOf
  <2>3. new \in Seq(ScreenKeys) /\ Len(new) = Len(cs) + 1 /\ new[Len(cs) + 1] = key
        /\ \A i \in 1..Len(cs) : new[i] = cs[i]
    <3>1. new = Append(cs, key)
      BY <1>1, <1>4 DEF ClaimRecord
    <3>2. QED
      BY <3>1
  <2> HIDE DEF new, g
  <2>4. EndOf(new, g)
    BY <1>1, <1>2, <1>4, <2>1, <2>2, <2>3 DEF EndOf
  <2>5. QED
    BY <2>3, <2>4 DEF new, g
<1>5. QED
  BY <1>1, <1>3, <1>4

LEMMA ClaimKeeps ==
    ASSUME ClaimsInv, NEW owner \in ScreenOwners, NEW key \in ScreenKeys, ClaimRefresh(owner, key)
    PROVE  ClaimsInv'
<1>1. granted' = Append(granted, key) /\ claimed' = ClaimRecord(claimed, key)
  BY DEF ClaimRefresh
<1>2. ClaimsRemembered'
  BY <1>1, RecordKeepsTheEnd DEF ClaimsInv, ClaimsRemembered
<1>3. Len(granted) \in Nat /\ Len(claimed) \in Nat /\ MaxClaims \in Nat \ {0}
  BY ScreensAssumption DEF ClaimsInv, ClaimsRemembered, EndOf
<1>4. ASSUME NEW i \in 1..Len(granted), granted[i] = key
      PROVE  Len(granted) + 1 - i > MaxClaims
  <2>1. \A k \in 1..Len(claimed) : claimed[k] # key
    BY DEF ClaimRefresh, Range, ClaimsInv, ClaimsRemembered, EndOf
  <2>2. CASE i > Len(granted) - Len(claimed)
    <3>1. i - (Len(granted) - Len(claimed)) \in 1..Len(claimed)
      BY <2>2, <1>3
    <3>2. Len(granted) - Len(claimed) + (i - (Len(granted) - Len(claimed))) = i
      BY <1>3
    <3>3. claimed[i - (Len(granted) - Len(claimed))] = granted[i]
      BY <3>1, <3>2 DEF ClaimsInv, ClaimsRemembered, EndOf
    <3>4. QED
      BY <3>1, <3>3, <2>1, <1>4
  <2>3. CASE i <= Len(granted) - Len(claimed)
    BY <2>3, <1>3 DEF ClaimsInv, ClaimsRemembered, EndOf
  <2>4. QED
    BY <2>2, <2>3, <1>3
<1>5. /\ Len(granted') = Len(granted) + 1 /\ granted'[Len(granted) + 1] = key
      /\ DOMAIN granted' = 1..(Len(granted) + 1) /\ DOMAIN granted = 1..Len(granted)
      /\ \A i \in 1..Len(granted) : granted'[i] = granted[i]
  BY <1>1 DEF ClaimsInv, ClaimsRemembered, EndOf
<1>6. ASSUME NEW i \in DOMAIN granted', NEW j \in DOMAIN granted', i < j, granted'[i] = granted'[j]
      PROVE  j - i > MaxClaims
  <2>1. i \in 1..Len(granted)
    BY <1>3, <1>5, <1>6
  <2>2. CASE j = Len(granted) + 1
    BY <2>1, <2>2, <1>4, <1>5, <1>6
  <2>3. CASE j \in 1..Len(granted)
    BY <2>1, <2>3, <1>5, <1>6 DEF ClaimsInv, RefreshedOncePerCycle
  <2>4. QED
    BY <2>2, <2>3, <1>3, <1>5
<1>7. QED
  BY <1>2, <1>6 DEF ClaimsInv, RefreshedOncePerCycle

LEMMA ClaimsInvHolds == ScreensSpec => []ClaimsInv
<1>1. ScreensInit => ClaimsInv
  BY ScreensAssumption DEF ScreensInit, ClaimsInv, ClaimsRemembered, EndOf, RefreshedOncePerCycle
<1>2. ClaimsInv /\ [ScreensNext]_screenVars => ClaimsInv'
  <2> SUFFICES ASSUME ClaimsInv, [ScreensNext]_screenVars PROVE ClaimsInv'
    OBVIOUS
  <2>1. CASE BeginCycle
    BY <2>1, ScreensAssumption DEF BeginCycle, ClaimsInv, ClaimsRemembered, EndOf, RefreshedOncePerCycle
  <2>2. CASE UNCHANGED <<claimed, granted>>
    BY <2>2 DEF ClaimsInv, ClaimsRemembered, EndOf, RefreshedOncePerCycle
  <2>3. QED
    BY <2>1, <2>2, ClaimKeeps DEF ScreensNext, Register, Release, Sync, screenVars
<1>3. QED
  BY <1>1, <1>2, PTL DEF ScreensSpec

(* A key is granted a refresh once per cycle, whichever screens appear,     *)
(* leave or share it (ActiveScreens::claim): the record forgets a grant     *)
(* only when it is full of later ones, for every number of leases and of    *)
(* claims that are kept.                                                    *)
THEOREM KeysRefreshOnce == ScreensSpec => []RefreshedOncePerCycle
<1>1. ClaimsInv => RefreshedOncePerCycle
  BY DEF ClaimsInv
<1>2. QED
  BY <1>1, ClaimsInvHolds, PTL

-----------------------------------------------------------------------------
ScreenLeases == [owner : ScreenOwners, key : ScreenKeys \cup ScreenOwners, column : LeaseColumns, depth : Nat \ {0}]
OwnersApart(ls) == \A i, j \in 1..Len(ls) : ls[i].owner = ls[j].owner => i = j

(* A registry: each screen has one lease, and there are no more than may be. *)
Registered(ls) == ls \in Seq(ScreenLeases) /\ OwnersApart(ls) /\ Len(ls) <= MaxLeases

LEMMA RegistryIs ==
    ASSUME NEW ls \in Seq(ScreenLeases)
    PROVE  /\ Len(ls) \in Nat /\ DOMAIN ls = 1..Len(ls)
           /\ \A i \in 1..Len(ls) : /\ ls[i] \in ScreenLeases /\ ls[i].owner \in ScreenOwners
                                    /\ ls[i].key \in ScreenKeys \cup ScreenOwners
                                    /\ ls[i].column \in LeaseColumns /\ ls[i].depth \in Nat \ {0}
<1>1. Len(ls) \in Nat /\ DOMAIN ls = 1..Len(ls) /\ \A i \in 1..Len(ls) : ls[i] \in ScreenLeases
  BY ElementOfSeq
<1>2. QED
  BY <1>1 DEF ScreenLeases

LEMMA NextDepthIs ==
    ASSUME NEW ls \in Seq(ScreenLeases), NEW column
    PROVE  NextDepth(ls, column) \in Nat \ {0}
<1> DEFINE n == Len(ls)
           d == [i \in 1..n |-> ls[i].depth]
           J == {j \in 1..n : ls[j].column = column}
           S == {0} \cup {ls[i].depth : i \in J}
<1>1. n \in Nat /\ DOMAIN ls = 1..n /\ \A i \in 1..n : ls[i].depth \in Nat
  BY RegistryIs
<1>2. \A i \in 1..n : d[i] = ls[i].depth /\ d[i] \in Nat
  BY <1>1
<1> HIDE DEF d, n
<1>3. PICK m \in Nat : /\ m = 0 \/ \E i \in 1..n : i \in J /\ d[i] = m
                       /\ \A i \in 1..n : i \in J => d[i] <= m
  BY <1>1, <1>2, GreatestAmong
<1>4. m \in S /\ \A y \in S : m >= y
  BY <1>1, <1>2, <1>3
<1>5. S \subseteq Nat
  BY <1>1, <1>2
<1>6. Max(S) \in S
  BY <1>4 DEF Max
<1>7. NextDepth(ls, column) = 1 + Max(S)
  BY <1>1 DEF NextDepth, n
<1> HIDE DEF S
<1>8. PICK x \in Nat : x = Max(S)
  BY <1>5, <1>6
<1>9. 1 + x \in Nat \ {0}
  OBVIOUS
<1>10. QED
  BY <1>7, <1>8, <1>9

(* A screen is registered again or for the first time.                      *)
LEMMA InsertRegisters ==
    ASSUME NEW ls, Registered(ls), NEW owner \in ScreenOwners, NEW key \in ScreenKeys \cup ScreenOwners,
           NEW column \in LeaseColumns, NEW new, new = InsertOrUpdate(ls, owner, key, column)
    PROVE  /\ Registered(new)
           /\ \A i \in 1..Len(new) : new[i].owner = owner \/ \E j \in 1..Len(ls) : ls[j].owner = new[i].owner
<1> DEFINE n == Len(ls)
<1>1. /\ n \in Nat /\ DOMAIN ls = 1..n /\ ls \in Seq(ScreenLeases) /\ n <= MaxLeases
      /\ MaxLeases \in Nat /\ MaxLeases >= 1
      /\ \A i \in 1..n : ls[i] \in ScreenLeases
  BY RegistryIs, ScreensAssumption DEF Registered
<1>2. \A i, j \in 1..n : ls[i].owner = ls[j].owner => i = j
  BY DEF Registered, OwnersApart
<1>3. CASE HasLease(ls, owner)
  <2> DEFINE k == IndexOf(ls, owner)
             depth == IF ls[k].column = column THEN ls[k].depth ELSE NextDepth(ls, column)
             lease == [owner |-> owner, key |-> key, column |-> column, depth |-> depth]
  <2>1. k \in 1..n /\ ls[k].owner = owner
    BY <1>1, <1>3 DEF HasLease, IndexOf
  <2>2. new = [ls EXCEPT ![k] = lease]
    BY <1>3 DEF InsertOrUpdate
  <2> HIDE DEF k
  <2>3. lease \in ScreenLeases
    <3>1. NextDepth(ls, column) \in Nat \ {0}
      BY <1>1, NextDepthIs
    <3>2. QED
      BY <1>1, <2>1, <3>1 DEF ScreenLeases
  <2>5. lease.owner = ls[k].owner
    BY <2>1
  <2> HIDE DEF lease
  <2>6. new \in Seq(ScreenLeases) /\ Len(new) = n /\ \A i \in 1..n : new[i] = IF i = k THEN lease ELSE ls[i]
    BY <1>1, <2>1, <2>2, <2>3, ExceptSeq
  <2>7. \A i \in 1..n : new[i].owner = ls[i].owner
    BY <2>5, <2>6
  <2>8. OwnersApart(new)
    BY <1>2, <2>6, <2>7 DEF OwnersApart
  <2>9. QED
    BY <1>1, <2>6, <2>7, <2>8 DEF Registered
<1>4. CASE ~HasLease(ls, owner)
  <2> DEFINE a == n - MaxLeases + 2
             room == IF n >= MaxLeases THEN SubSeq(ls, a, n) ELSE ls
             lease == [owner |-> owner, key |-> key, column |-> column, depth |-> NextDepth(room, column)]
  <2>1. new = Append(room, lease)
    BY <1>4 DEF InsertOrUpdate
  <2>2. PICK skipped \in Nat :
           /\ room \in Seq(ScreenLeases) /\ Len(room) < MaxLeases /\ Len(room) + skipped <= n
           /\ \A i \in 1..Len(room) : room[i] = ls[i + skipped]
    <3>1. CASE n >= MaxLeases
      <4>0. n \in Nat /\ MaxLeases \in Nat /\ n <= MaxLeases /\ n >= 1
        BY <1>1, <3>1
      <4>1. n = MaxLeases /\ a = 2
        <5> HIDE DEF n
        <5>1. n = MaxLeases
          BY <3>1, <4>0
        <5>2. a = n - n + 2
          BY <5>1
        <5>3. QED
          BY <4>0, <5>1, <5>2
      <4>2. room = SubSeq(ls, 2, n)
        BY <3>1, <4>1
      <4>3. /\ SubSeq(ls, 2, n) \in Seq(ScreenLeases) /\ Len(SubSeq(ls, 2, n)) = n - 1
            /\ \A i \in 1..(n - 1) : SubSeq(ls, 2, n)[i] = ls[i + 1]
        BY <1>1, <4>0
      <4> HIDE DEF room
      <4>4. Len(room) = n - 1 /\ room \in Seq(ScreenLeases) /\ \A i \in 1..Len(room) : room[i] = ls[i + 1]
        BY <4>2, <4>3
      <4> HIDE DEF n
      <4>5. n - 1 < MaxLeases /\ (n - 1) + 1 <= n
        BY <4>0
      <4>6. QED
        BY <4>4, <4>5
    <3>2. CASE ~(n >= MaxLeases)
      <4>1. room = ls
        BY <3>2
      <4> HIDE DEF room
      <4>2. \A i \in 1..n : i + 0 = i
        BY <1>1
      <4>3. QED
        BY <1>1, <3>2, <4>1, <4>2
    <3>3. QED
      BY <3>1, <3>2
  <2> HIDE DEF room
  <2>3. lease \in ScreenLeases /\ lease.owner = owner
    <3>1. NextDepth(room, column) \in Nat \ {0}
      BY <2>2, NextDepthIs
    <3>2. QED
      BY <3>1 DEF ScreenLeases
  <2> HIDE DEF lease, n
  <2> DEFINE m == Len(room)
  <2>4. /\ m \in Nat /\ new \in Seq(ScreenLeases) /\ Len(new) = m + 1 /\ new[m + 1] = lease
        /\ \A i \in 1..m : new[i] = room[i]
    BY <2>1, <2>2, <2>3
  <2>5. \A i \in 1..m : i + skipped \in 1..n /\ new[i] = ls[i + skipped]
    <3>1. m + skipped <= n /\ skipped \in Nat /\ n \in Nat
      BY <1>1, <2>2 DEF n
    <3>2. \A i \in 1..m : new[i] = ls[i + skipped]
      BY <2>2, <2>4
    <3> HIDE DEF m
    <3>3. \A i \in 1..m : i + skipped \in 1..n
      BY <2>4, <3>1
    <3>4. QED
      BY <3>2, <3>3
  <2>6. \A i \in 1..n : ls[i].owner # owner
    BY <1>1, <1>4 DEF HasLease
  <2>7. OwnersApart(new)
    <3>1. ASSUME NEW i \in 1..Len(new), NEW j \in 1..Len(new), new[i].owner = new[j].owner PROVE i = j
      <4>1. (i \in 1..m \/ i = m + 1) /\ (j \in 1..m \/ j = m + 1)
        BY <2>4, <3>1
      <4>2. CASE i \in 1..m /\ j \in 1..m
        <5>1. i + skipped = j + skipped
          BY <1>2, <2>5, <3>1, <4>2 DEF n
        <5>2. QED
          BY <2>2, <4>2, <5>1
      <4>3. CASE i = m + 1 \/ j = m + 1
        BY <2>3, <2>4, <2>5, <2>6, <3>1, <4>1, <4>3
      <4>4. QED
        BY <4>1, <4>2, <4>3
    <3>2. QED
      BY <3>1 DEF OwnersApart
  <2>8. Len(new) <= MaxLeases
    BY <1>1, <2>2, <2>4
  <2>9. \A i \in 1..Len(new) : new[i].owner = owner \/ \E j \in 1..n : ls[j].owner = new[i].owner
    <3>1. \A i \in 1..Len(new) : i \in 1..m \/ i = m + 1
      BY <2>4
    <3>2. QED
      BY <2>3, <2>4, <2>5, <3>1
  <2>10. QED
    BY <2>4, <2>7, <2>8, <2>9 DEF Registered, n
<1>5. QED
  BY <1>3, <1>4

(* Leases are taken back.                                                   *)
LEMMA RemainingRegistered ==
    ASSUME NEW ls, Registered(ls), NEW gone, NEW new, new = Remaining(ls, gone)
    PROVE  /\ Registered(new)
           /\ \A i \in 1..Len(new) : new[i] \notin gone /\ \E j \in 1..Len(ls) : new[i] = ls[j]
<1> DEFINE n == Len(ls)
           m == Len(new)
<1>1. ls \in Seq(ScreenLeases) /\ n \in Nat /\ n <= MaxLeases /\ MaxLeases \in Nat
  BY RegistryIs, ScreensAssumption DEF Registered
<1>2. new \in Seq(ScreenLeases) /\ m \in Nat
  BY <1>1, RemainingKeeps
<1>3. PICK e : KeptAt(e, new, ls, n, gone)
  BY <1>1, RemainingKeeps
<1> HIDE DEF n
<1>4. /\ \A i \in 1..m : e[i] \in 1..n /\ e[i] \in Nat /\ new[i] = ls[e[i]] /\ ls[e[i]] \notin gone
      /\ \A i, j \in 1..m : i < j => e[i] < e[j]
  BY <1>1, <1>2, <1>3 DEF KeptAt
<1>5. m <= n
  <2> DEFINE Good == {k \in 0..m : k = 0 \/ k <= e[k]}
  <2>1. 0 \in Good
    BY <1>2
  <2>2. ASSUME NEW k \in 0..m, k + 1 \in 0..m, k \in Good PROVE k + 1 \in Good
    <3>1. k + 1 \in 1..m /\ e[k + 1] \in Nat /\ e[k + 1] >= 1
      BY <1>4, <2>2
    <3>2. CASE k = 0
      BY <2>2, <3>1, <3>2
    <3>3. CASE k # 0
      <4>1. k \in 1..m /\ k <= e[k] /\ e[k] < e[k + 1] /\ e[k] \in Nat
        BY <1>4, <2>2, <3>1, <3>3
      <4>2. QED
        BY <2>2, <3>1, <4>1
    <3>4. QED
      BY <3>2, <3>3
  <2> HIDE DEF Good
  <2>3. 0..m \subseteq Good
    BY <1>2, <2>1, <2>2, StepByStep
  <2>4. m = 0 \/ m <= e[m]
    BY <1>2, <2>3 DEF Good
  <2>5. QED
    BY <1>1, <1>2, <1>4, <2>4
<1>6. OwnersApart(new)
  <2>1. ASSUME NEW i \in 1..m, NEW j \in 1..m, new[i].owner = new[j].owner PROVE i = j
    <3>1. e[i] = e[j]
      BY <1>4, <2>1 DEF Registered, OwnersApart, n
    <3>2. ~(i < j) /\ ~(j < i)
      BY <1>4, <3>1
    <3>3. QED
      BY <1>2, <3>2
  <2>2. QED
    BY <2>1 DEF OwnersApart
<1>7. QED
  BY <1>1, <1>2, <1>4, <1>5, <1>6 DEF Registered, n

(* added: the leases after each of the shown screens.                     *)
Enters(added, ls, shown) ==
    /\ added[0] = ls
    /\ \A n \in 1..Len(shown) :
          added[n] = IF HasLease(added[n - 1], shown[n][1]) THEN added[n - 1]
                     ELSE InsertOrUpdate(added[n - 1], shown[n][1], shown[n][1], shown[n][2])

OnScreen == ScreenOwners \X LeaseColumns

LEMMA EnterSteps ==
    ASSUME NEW ls, Registered(ls), NEW shown \in Seq(OnScreen)
    PROVE  \E added : Enters(added, ls, shown) /\ WithScreens(ls, shown) = added[Len(shown)]
<1> DEFINE N == Len(shown)
           T == {acc \in Seq(ScreenLeases) : Registered(acc)}
           O(n) == shown[n][1]
           Step(acc, n) == IF HasLease(acc, O(n)) THEN acc
                           ELSE InsertOrUpdate(acc, O(n), O(n), shown[n][2])
           next == [n \in 1..N |-> [acc \in T |-> Step(acc, n)]]
           Is(f) == f = [n \in 0..N |-> IF n = 0 THEN ls ELSE Step(f[n - 1], n)]
           added == CHOOSE f : Is(f)
<1>1. N \in Nat /\ \A n \in 1..N : O(n) \in ScreenOwners /\ shown[n][2] \in LeaseColumns
  <2>1. N \in Nat /\ \A n \in 1..N : shown[n] \in OnScreen
    BY ElementOfSeq
  <2>2. QED
    BY <2>1 DEF OnScreen
<1> HIDE DEF N
<1>2. next \in [1..N -> [T -> T]]
  <2>1. ASSUME NEW n \in 1..N, NEW acc \in T PROVE Step(acc, n) \in T
    <3>1. CASE HasLease(acc, O(n))
      BY <3>1
    <3>2. CASE ~HasLease(acc, O(n))
      <4>1. O(n) \in ScreenOwners /\ O(n) \in ScreenKeys \cup ScreenOwners
            /\ shown[n][2] \in LeaseColumns /\ Registered(acc)
        BY <1>1
      <4> HIDE DEF O
      <4>2. Registered(InsertOrUpdate(acc, O(n), O(n), shown[n][2]))
        BY <4>1, InsertRegisters
      <4>3. QED
        BY <3>2, <4>2 DEF Registered
    <3>3. QED
      BY <3>1, <3>2
  <2> HIDE DEF T, Step
  <2>2. QED
    BY <2>1
<1>3. \A n \in 1..N : \A acc \in T : next[n][acc] = Step(acc, n)
  <2> HIDE DEF T, Step
  <2>1. QED
    OBVIOUS
<1> HIDE DEF next, T
<1>4. ls \in T
  BY DEF T, Registered
<1>5. PICK f : Takes(f, T, N, ls, next)
  BY <1>1, <1>2, <1>4, StepsCanBeTaken
<1> HIDE DEF Step
<1>6. Is(f)
  <2>1. f \in [0..N -> T] /\ f[0] = ls /\ \A n \in 1..N : f[n] = next[n][f[n - 1]]
    BY <1>5 DEF Takes
  <2>2. ASSUME NEW i \in 0..N PROVE f[i] = IF i = 0 THEN ls ELSE Step(f[i - 1], i)
    <3>1. CASE i = 0
      BY <2>1, <3>1
    <3>2. CASE i # 0
      <4>1. i \in 1..N /\ i - 1 \in 0..N
        BY <1>1, <3>2
      <4>2. f[i - 1] \in T
        BY <2>1, <4>1
      <4>3. QED
        BY <1>3, <2>1, <3>2, <4>1, <4>2
    <3>3. QED
      BY <3>1, <3>2
  <2>3. f = [i \in 0..N |-> f[i]]
    BY <2>1
  <2>4. QED
    BY <2>2, <2>3
<1> HIDE DEF Is
<1>7. Is(added)
  BY <1>6, Zenon
<1>8. added[0] = ls /\ \A n \in 1..N : added[n] = Step(added[n - 1], n)
  <2>1. added = [n \in 0..N |-> IF n = 0 THEN ls ELSE Step(added[n - 1], n)]
    BY <1>7 DEF Is
  <2> HIDE DEF added
  <2>2. \A n \in 0..N : added[n] = IF n = 0 THEN ls ELSE Step(added[n - 1], n)
    BY <2>1
  <2>3. 0 \in 0..N /\ \A n \in 1..N : n \in 0..N /\ n # 0
    BY <1>1
  <2>4. QED
    BY <2>2, <2>3
<1>9. WithScreens(ls, shown) = added[N]
  BY Zenon DEF WithScreens, added, Is, Step, N, O
<1> HIDE DEF added
<1>10. Enters(added, ls, shown)
  BY <1>8 DEF Enters, Step, O, N
<1>11. QED
  BY <1>9, <1>10 DEF N

Visibly(ls, shown) == \A i \in 1..Len(ls) : \E k \in 1..Len(shown) : shown[k][1] = ls[i].owner

LEMMA WithScreensRegistered ==
    ASSUME NEW ls, Registered(ls), NEW shown \in Seq(OnScreen), Visibly(ls, shown),
           NEW new, new = WithScreens(ls, shown)
    PROVE  Registered(new) /\ Visibly(new, shown)
<1> DEFINE N == Len(shown)
<1>1. PICK added : Enters(added, ls, shown) /\ new = added[N]
  BY EnterSteps
<1>2. N \in Nat /\ \A n \in 1..N : shown[n][1] \in ScreenOwners /\ shown[n][2] \in LeaseColumns
  <2>1. N \in Nat /\ \A n \in 1..N : shown[n] \in OnScreen
    BY ElementOfSeq
  <2>2. QED
    BY <2>1 DEF OnScreen
<1> DEFINE Good == {n \in 0..N : Registered(added[n]) /\ Visibly(added[n], shown)}
<1>3. 0 \in Good
  BY <1>1, <1>2 DEF Enters
<1>4. ASSUME NEW n \in 0..N, n + 1 \in 0..N, n \in Good PROVE n + 1 \in Good
  <2> DEFINE owner == shown[n + 1][1]
             column == shown[n + 1][2]
  <2>1. n + 1 \in 1..N /\ (n + 1) - 1 = n
    BY <1>2, <1>4
  <2>2. owner \in ScreenOwners /\ owner \in ScreenKeys \cup ScreenOwners /\ column \in LeaseColumns
    BY <1>2, <2>1
  <2>3. \/ added[n + 1] = added[n]
        \/ added[n + 1] = InsertOrUpdate(added[n], owner, owner, column)
    BY <1>1, <2>1 DEF Enters
  <2>4. Registered(added[n]) /\ Visibly(added[n], shown)
    BY <1>4
  <2>5. CASE added[n + 1] = added[n]
    BY <1>4, <2>4, <2>5
  <2>6. CASE added[n + 1] = InsertOrUpdate(added[n], owner, owner, column)
    <3>1. /\ Registered(added[n + 1])
          /\ \A i \in 1..Len(added[n + 1]) :
                \/ added[n + 1][i].owner = shown[n + 1][1]
                \/ \E j \in 1..Len(added[n]) : added[n][j].owner = added[n + 1][i].owner
      <4> HIDE DEF owner, column
      <4>1. /\ Registered(added[n + 1])
            /\ \A i \in 1..Len(added[n + 1]) :
                  \/ added[n + 1][i].owner = owner
                  \/ \E j \in 1..Len(added[n]) : added[n][j].owner = added[n + 1][i].owner
        BY <2>2, <2>4, <2>6, InsertRegisters
      <4>2. QED
        BY <4>1 DEF owner
    <3>2. Visibly(added[n + 1], shown)
      BY <2>1, <2>4, <3>1 DEF Visibly
    <3>3. QED
      BY <1>4, <3>1, <3>2
  <2>7. QED
    BY <2>3, <2>5, <2>6
<1> HIDE DEF Good
<1>5. 0..N \subseteq Good
  BY <1>2, <1>3, <1>4, StepByStep
<1>6. N \in Good
  BY <1>2, <1>5
<1>7. QED
  BY <1>1, <1>6 DEF Good

(* Depths follow the order of what is shown.                              *)
LEMMA SyncRegisters ==
    ASSUME NEW ls, Registered(ls), NEW shown \in Seq(OnScreen),
           NEW new, new = SyncVisible(ls, shown)
    PROVE  Registered(new) /\ \A i \in 1..Len(new) : new[i].depth <= Len(shown)
<1> DEFINE hidden == {l \in Range(ls) : \A i \in DOMAIN shown : shown[i][1] # l.owner}
           stays == Remaining(ls, hidden)
           added == WithScreens(stays, shown)
           place(owner) == CHOOSE i \in DOMAIN shown : shown[i][1] = owner
           same(i) == {j \in 1..i : shown[j][2] = shown[i][2]}
           n == Len(shown)
<1>1. /\ n \in Nat /\ DOMAIN shown = 1..n
      /\ \A i \in 1..n : shown[i][1] \in ScreenOwners /\ shown[i][2] \in LeaseColumns
  <2>1. n \in Nat /\ DOMAIN shown = 1..n /\ \A i \in 1..n : shown[i] \in OnScreen
    BY ElementOfSeq
  <2>2. QED
    BY <2>1 DEF OnScreen
<1>2. Registered(stays) /\ Visibly(stays, shown)
  <2>1. /\ Registered(stays)
        /\ \A i \in 1..Len(stays) : stays[i] \notin hidden /\ \E j \in 1..Len(ls) : stays[i] = ls[j]
    <3> HIDE DEF hidden
    <3>1. QED
      BY RemainingRegistered
  <2> HIDE DEF stays
  <2>2. ls \in Seq(ScreenLeases)
    BY DEF Registered
  <2>3. \A j \in 1..Len(ls) : ls[j] \in Range(ls)
    BY <2>2, ElementsOf
  <2>4. \A i \in 1..Len(stays) : \E k \in DOMAIN shown : shown[k][1] = stays[i].owner
    BY <2>1, <2>3
  <2>5. QED
    BY <1>1, <2>1, <2>4 DEF Visibly
<1> HIDE DEF stays
<1>3. Registered(added) /\ Visibly(added, shown)
  BY <1>2, WithScreensRegistered
<1>4. new = [k \in DOMAIN added |-> [added[k] EXCEPT !.column = shown[place(added[k].owner)][2],
                                                     !.depth = Cardinality(same(place(added[k].owner)))]]
  BY Zenon DEF SyncVisible, added, stays, hidden
<1> HIDE DEF added, n
<1>5. ASSUME NEW i \in 1..n PROVE Cardinality(same(i)) \in Nat \ {0} /\ Cardinality(same(i)) <= n
  <2>1. i \in Nat /\ i \in Int /\ 1 \in Int /\ i <= n /\ i >= 1 /\ i \in same(i) /\ same(i) \subseteq 1..i
    BY <1>1, <1>5
  <2> HIDE DEF same
  <2>2. IsFiniteSet(1..i) /\ Cardinality(1..i) = IF 1 > i THEN 0 ELSE i - 1 + 1
    BY <2>1, FS_Interval
  <2>3. Cardinality(1..i) = i
    BY <2>1, <2>2
  <2>4. IsFiniteSet(same(i)) /\ Cardinality(same(i)) <= Cardinality(1..i)
    BY <2>1, <2>2, FS_Subset
  <2>5. Cardinality(same(i)) \in Nat /\ Cardinality(same(i)) # 0
    BY <2>1, <2>4, FS_CardinalityType, FS_EmptySet
  <2>6. QED
    BY <1>1, <2>1, <2>3, <2>4, <2>5
<1>6. /\ added \in Seq(ScreenLeases) /\ Len(added) \in Nat /\ DOMAIN added = 1..Len(added)
      /\ \A k \in 1..Len(added) : added[k] \in ScreenLeases
  BY <1>3, RegistryIs DEF Registered
<1>7. \A k \in 1..Len(added) : place(added[k].owner) \in 1..n
  <2>1. \A k \in 1..Len(added) : \E i \in 1..n : shown[i][1] = added[k].owner
    BY <1>3 DEF Visibly, n
  <2>2. QED
    BY <1>1, <2>1 DEF n
<1> DEFINE at(k) == place(added[k].owner)
           lease(k) == [owner |-> added[k].owner, key |-> added[k].key, column |-> shown[at(k)][2],
                        depth |-> Cardinality(same(at(k)))]
<1> HIDE DEF place, same
<1>8. ASSUME NEW k \in 1..Len(added)
      PROVE  /\ new[k] = lease(k) /\ lease(k) \in ScreenLeases
             /\ lease(k).owner = added[k].owner /\ lease(k).depth <= n
  <2>1. at(k) \in 1..n
    BY <1>7
  <2>2. shown[at(k)][2] \in LeaseColumns /\ Cardinality(same(at(k))) \in Nat \ {0} /\ Cardinality(same(at(k))) <= n
    <3> HIDE DEF at
    <3>1. QED
      BY <1>1, <1>5, <2>1
  <2>3. new[k] = [added[k] EXCEPT !.column = shown[at(k)][2], !.depth = Cardinality(same(at(k)))]
    BY <1>4, <1>6
  <2> HIDE DEF at
  <2>4. added[k] \in [owner : ScreenOwners, key : ScreenKeys \cup ScreenOwners, column : LeaseColumns,
                      depth : Nat \ {0}]
    BY <1>6 DEF ScreenLeases
  <2>5. new[k] = lease(k)
    BY <2>3, <2>4
  <2>6. QED
    BY <2>2, <2>4, <2>5 DEF ScreenLeases
<1> HIDE DEF lease
<1>9. new \in Seq(ScreenLeases) /\ Len(new) = Len(added)
  <2>1. DOMAIN new = 1..Len(added) /\ new = [k \in 1..Len(added) |-> new[k]]
    BY <1>4, <1>6
  <2>2. \A k \in 1..Len(added) : new[k] \in ScreenLeases
    BY <1>8
  <2>3. new \in [1..Len(added) -> ScreenLeases]
    BY <2>1, <2>2
  <2>4. QED
    BY <1>6, <2>3
<1>10. OwnersApart(new) /\ Len(new) <= MaxLeases
  BY <1>3, <1>8, <1>9 DEF Registered, OwnersApart
<1>11. \A i \in 1..Len(new) : new[i].depth <= n
  BY <1>8, <1>9
<1>12. QED
  BY <1>9, <1>10, <1>11 DEF Registered, n

LeasesInv == Registered(leases) /\ \A i \in 1..Len(leases) : leases[i].depth <= MaxDepth

LEMMA LeasesInvStep ==
    ASSUME MaxDepth \in Nat, MaxDepth >= 2, LeasesInv, [ScreensNext]_screenVars
    PROVE  LeasesInv'
<1>1. Registered(leases) /\ leases \in Seq(ScreenLeases)
  BY DEF LeasesInv, Registered
<1>2. ASSUME NEW o \in ScreenOwners, NEW k \in ScreenKeys, NEW c \in {1, OverlayColumn}, Register(o, k, c)
      PROVE  LeasesInv'
  <2>1. leases' = InsertOrUpdate(leases, o, k, c) /\ Bounded(leases')
    BY <1>2 DEF Register
  <2>2. k \in ScreenKeys \cup ScreenOwners /\ c \in LeaseColumns
    BY DEF LeaseColumns, OverlayColumn
  <2>3. Registered(leases')
    BY <1>1, <2>1, <2>2, InsertRegisters
  <2>4. DOMAIN leases' = 1..Len(leases')
    BY <2>3, RegistryIs DEF Registered
  <2>5. QED
    BY <2>1, <2>3, <2>4 DEF LeasesInv, Bounded
<1>3. ASSUME NEW o \in ScreenOwners, Release(o) PROVE LeasesInv'
  <2> DEFINE gone == {l \in Range(leases) : l.owner = o}
  <2>1. leases' = Remaining(leases, gone)
    BY <1>3 DEF Release, ReleaseLease
  <2> HIDE DEF gone
  <2>2. /\ Registered(leases')
        /\ \A i \in 1..Len(leases') : \E j \in 1..Len(leases) : leases'[i] = leases[j]
    BY <1>1, <2>1, RemainingRegistered
  <2>3. QED
    BY <2>2 DEF LeasesInv
<1>4. ASSUME NEW v \in Visible, Sync(v) PROVE LeasesInv'
  <2>1. PICK n \in 0..2 : v \in [1..n -> ScreenOwners \X {1, OverlayColumn}]
    BY <1>4 DEF Visible
  <2>2. \A x \in ScreenOwners \X {1, OverlayColumn} : x \in OnScreen
    BY DEF OnScreen, LeaseColumns, OverlayColumn
  <2>3. v \in [1..n -> OnScreen] /\ n \in Nat
    BY <2>1, <2>2
  <2>4. v \in Seq(OnScreen) /\ Len(v) = n
    BY <2>3
  <2>5. leases' = SyncVisible(leases, v)
    BY <1>4 DEF Sync
  <2>6. Registered(leases') /\ \A i \in 1..Len(leases') : leases'[i].depth <= Len(v)
    BY <1>1, <2>4, <2>5, SyncRegisters
  <2>7. \A i \in 1..Len(leases') : leases'[i].depth \in Nat
    BY <2>6, RegistryIs DEF Registered
  <2>8. n <= 2 /\ n \in Nat /\ \A d \in Nat : d <= n => d <= MaxDepth
    BY <2>1
  <2>9. QED
    BY <2>4, <2>6, <2>7, <2>8 DEF LeasesInv
<1>5. CASE UNCHANGED leases
  BY <1>5 DEF LeasesInv
<1>6. QED
  BY <1>2, <1>3, <1>4, <1>5, Zenon DEF ScreensNext, BeginCycle, ClaimRefresh, screenVars

(* Each screen on the glass has one lease, no more are kept than may be,    *)
(* and each stands in a column at a depth it can have, whichever screens    *)
(* register, move, leave or are dropped for room (ActiveScreens::register,  *)
(* release and sync_visible), when two screens may be synced at once.       *)
THEOREM ScreensKeepTheirTypes ==
    ASSUME MaxDepth \in Nat, MaxDepth >= 2
    PROVE  ScreensSpec => []ScreensTypeOK
<1>1. ScreensInit => LeasesInv
  <2>1. ASSUME ScreensInit PROVE LeasesInv
    <3>1. leases = <<>> /\ leases \in Seq(ScreenLeases) /\ Len(leases) = 0
      BY <2>1 DEF ScreensInit
    <3>2. QED
      BY <3>1, ScreensAssumption DEF LeasesInv, Registered, OwnersApart
  <2>2. QED
    BY <2>1
<1>2. LeasesInv /\ [ScreensNext]_screenVars => LeasesInv'
  BY LeasesInvStep
<1>3. LeasesInv /\ ClaimsInv => ScreensTypeOK
  <2> SUFFICES ASSUME LeasesInv, ClaimsInv PROVE ScreensTypeOK
    OBVIOUS
  <2>1. /\ DOMAIN leases = 1..Len(leases) /\ Len(leases) <= MaxLeases
        /\ \A i \in 1..Len(leases) : leases[i].column \in LeaseColumns /\ leases[i].depth \in Nat \ {0}
    BY RegistryIs DEF LeasesInv, Registered
  <2>2. \A i \in 1..Len(leases) : leases[i].depth \in 1..MaxDepth
    BY <2>1 DEF LeasesInv
  <2>3. Len(claimed) <= MaxClaims
    <3>1. Len(granted) \in Nat /\ MaxClaims \in Nat
      BY ScreensAssumption DEF ClaimsInv, ClaimsRemembered
    <3>2. Len(claimed) = IF Len(granted) < MaxClaims THEN Len(granted) ELSE MaxClaims
      BY DEF ClaimsInv, ClaimsRemembered, EndOf
    <3>3. QED
      BY <3>1, <3>2
  <2>4. \A i, j \in 1..Len(leases) : leases[i].owner = leases[j].owner => i = j
    BY DEF LeasesInv, Registered, OwnersApart
  <2>5. QED
    BY <2>1, <2>2, <2>3, <2>4 DEF ScreensTypeOK
<1>4. QED
  BY <1>1, <1>2, <1>3, ClaimsInvHolds, PTL DEF ScreensSpec

-----------------------------------------------------------------------------
(* The columns of the window.                                               *)

(* The width of the last turn lies on the far side of the boundary between  *)
(* the two layouts, by the hysteresis when it was a step down.              *)
TurnedBeyond(from, to, at) ==
    \/ from = to
    \/ from = "two" /\ to = "stacked" /\ at + Hysteresis < TwoColumns
    \/ from = "three" /\ to = "two" /\ at + Hysteresis < ThreeColumns
    \/ from = "three" /\ to = "stacked" /\ at < TwoColumns
    \/ from = "stacked" /\ to = "two" /\ at >= TwoColumns
    \/ from \in {"stacked", "two"} /\ to = "three" /\ at >= ThreeColumns

ColumnsInv ==
    /\ columns \in Layouts /\ turned \in [from : Layouts, at : Nat]
    /\ TurnedBeyond(turned.from, columns, turned.at)

LEMMA BoundariesAreNat ==
    /\ TwoColumns \in Nat /\ ThreeColumns \in Nat /\ Hysteresis \in Nat
    /\ TwoColumns + Hysteresis <= ThreeColumns
  BY PaneAssumption DEF TwoColumns, ThreeColumns

LEMMA LayoutsTurnBeyond ==
    ASSUME NEW width \in Nat, NEW current \in Layouts
    PROVE  /\ LayoutForResize(width, current) \in Layouts
           /\ TurnedBeyond(current, LayoutForResize(width, current), width)
<1> DEFINE next == LayoutFor(width)
<1> USE BoundariesAreNat
<1>1. /\ next \in Layouts
      /\ next = "three" => width >= ThreeColumns
      /\ next = "two" => width >= TwoColumns
      /\ next = "stacked" => width < TwoColumns
  BY DEF LayoutFor, Layouts
<1> HIDE DEF next
<1>2. CASE current = "two" /\ next = "stacked"
  BY <1>1, <1>2 DEF LayoutForResize, TurnedBeyond, Layouts, next
<1>3. CASE current = "three" /\ next = "two"
  BY <1>1, <1>3 DEF LayoutForResize, TurnedBeyond, Layouts, next
<1>4. CASE ~(current = "two" /\ next = "stacked") /\ ~(current = "three" /\ next = "two")
  <2>1. LayoutForResize(width, current) = next
    BY <1>4 DEF LayoutForResize, next
  <2>2. QED
    BY <1>1, <1>4, <2>1 DEF TurnedBeyond, Layouts
<1>5. QED
  BY <1>2, <1>3, <1>4

LEMMA TurnsAreApart ==
    ASSUME NEW one \in Layouts, NEW other \in Layouts, one # other, NEW at \in Nat, NEW later \in Nat,
           TurnedBeyond(one, other, at), TurnedBeyond(other, one, later)
    PROVE  later > at + Hysteresis \/ at > later + Hysteresis
  BY BoundariesAreNat DEF TurnedBeyond, Layouts

LEMMA ColumnsStart == ColumnsInit => ColumnsInv
  BY BoundariesAreNat DEF ColumnsInit, ColumnsInv, TurnedBeyond, Layouts

LEMMA ColumnsStep == ColumnsInv /\ [ColumnsNext]_columnVars => ColumnsInv'
<1>1. ASSUME ColumnsInv, NEW width \in 1..ThreeColumns + Hysteresis + 1, Drag(width) PROVE ColumnsInv'
  <2>1. width \in Nat
    BY BoundariesAreNat
  <2>2. columns' \in Layouts /\ TurnedBeyond(columns, columns', width)
    BY <1>1, <2>1, LayoutsTurnBeyond DEF Drag, ColumnsInv
  <2>3. CASE columns' = columns
    BY <1>1, <2>3 DEF Drag, ColumnsInv
  <2>4. CASE columns' # columns
    BY <1>1, <2>1, <2>2, <2>4 DEF Drag, ColumnsInv
  <2>5. QED
    BY <2>3, <2>4
<1>2. ASSUME ColumnsInv, UNCHANGED columnVars PROVE ColumnsInv'
  BY <1>2 DEF columnVars, ColumnsInv
<1>3. QED
  BY <1>1, <1>2 DEF ColumnsNext

(* A window dragged about a boundary between two layouts does not flip back *)
(* and forth (layout_for_resize): it turns back only after the window moved *)
(* by more than the hysteresis, for any widths of the columns.              *)
THEOREM ColumnsDoNotStrobe == ColumnsSpec => LayoutDoesNotStrobe
<1>1. ColumnsInv /\ ColumnsInv' /\ [ColumnsNext]_columnVars =>
        [columns' # columns /\ columns' = turned.from =>
            \/ turned'.at > turned.at + Hysteresis
            \/ turned.at > turned'.at + Hysteresis]_columnVars
  <2> SUFFICES ASSUME ColumnsInv, ColumnsInv', ColumnsNext, columns' # columns, columns' = turned.from
               PROVE  turned'.at > turned.at + Hysteresis \/ turned.at > turned'.at + Hysteresis
    OBVIOUS
  <2>1. turned'.from = columns
    BY DEF ColumnsNext, Drag
  <2>2. QED
    BY <2>1, TurnsAreApart DEF ColumnsInv
<1>2. QED
  BY <1>1, ColumnsStart, ColumnsStep, PTL DEF ColumnsSpec, LayoutDoesNotStrobe

-----------------------------------------------------------------------------
(* The caret.                                                               *)

CopiesOf(x, b) == IF BagIn(x, b) THEN b[x] ELSE 0

(* One more and one less of a timer in the bag.                            *)
LEMMA OneMore ==
    ASSUME NEW b, IsABag(b), NEW t
    PROVE  /\ IsABag(b (+) SetToBag({t}))
           /\ BagToSet(b (+) SetToBag({t})) = BagToSet(b) \cup {t}
           /\ \A x : CopiesOf(x, b (+) SetToBag({t})) =
                        CopiesOf(x, b) + IF x = t THEN 1 ELSE 0
  BY DEF IsABag, BagToSet, SetToBag, CopiesOf, BagIn, (+)

LEMMA OneLess ==
    ASSUME NEW b, IsABag(b), NEW t, BagIn(t, b)
    PROVE  /\ IsABag(b (-) SetToBag({t}))
           /\ BagToSet(b (-) SetToBag({t})) \subseteq BagToSet(b)
           /\ \A x : CopiesOf(x, b (-) SetToBag({t})) =
                        CopiesOf(x, b) - IF x = t THEN 1 ELSE 0
<1> DEFINE less == [e \in DOMAIN b |-> IF e \in {t} THEN b[e] - 1 ELSE b[e]]
<1>1. b (-) SetToBag({t}) = [e \in {d \in DOMAIN b : less[d] > 0} |-> less[e]]
  BY DEF SetToBag, (-)
<1>2. \A e \in DOMAIN b : b[e] \in Nat /\ b[e] > 0
  BY DEF IsABag
<1>3. \A e \in DOMAIN b : less[e] = IF e = t THEN b[e] - 1 ELSE b[e]
  OBVIOUS
<1> DEFINE result == b (-) SetToBag({t})
<1>4. DOMAIN result = {d \in DOMAIN b : less[d] > 0} /\ \A e \in DOMAIN result : result[e] = less[e]
  BY <1>1
<1>5. result = [e \in DOMAIN result |-> result[e]]
  BY <1>1
<1> HIDE DEF less, result
<1>6. IsABag(result)
  <2>1. \A e \in DOMAIN result : result[e] \in {n \in Nat : n > 0}
    BY <1>2, <1>3, <1>4
  <2>2. QED
    BY <1>5, <2>1 DEF IsABag
<1>7. ASSUME NEW x PROVE CopiesOf(x, result) = CopiesOf(x, b) - IF x = t THEN 1 ELSE 0
  BY <1>2, <1>3, <1>4 DEF CopiesOf, BagIn, BagToSet
<1>8. BagToSet(result) \subseteq BagToSet(b)
  BY <1>4 DEF BagToSet
<1>9. QED
  BY <1>6, <1>7, <1>8 DEF result

LEMMA CopiesCount ==
    ASSUME NEW b, IsABag(b), NEW x
    PROVE  CopiesOf(x, b) \in Nat /\ (x \in BagToSet(b) <=> CopiesOf(x, b) > 0)
  BY DEF IsABag, BagToSet, CopiesOf, BagIn

(* In focus the cycle of this epoch has one timer, the one its pause wants. *)
Current(does) == CopiesOf(Timer(does, epoch), timers)
CaretInv ==
    /\ CaretTypeOK
    /\ focused /\ paused => Current("resume") = 1 /\ Current("tick") = 0
    /\ focused /\ ~paused => Current("resume") = 0 /\ Current("tick") = 1
    /\ paused => visible

LEMMA CaretStarts == CaretInit => CaretInv
<1> SUFFICES ASSUME CaretInit PROVE CaretInv
  OBVIOUS
<1>1. IsABag(timers) /\ BagToSet(timers) = {}
  BY DEF CaretInit, EmptyBag, SetToBag, IsABag, BagToSet
<1>2. CaretTypeOK
  <2>1. {focused, visible, paused} \subseteq BOOLEAN
    BY Zenon DEF CaretInit
  <2>2. epoch \in 0..MaxEpoch
    BY CaretAssumption DEF CaretInit
  <2>3. QED
    BY <1>1, <2>1, <2>2 DEF CaretTypeOK
<1>3. QED
  BY <1>2 DEF CaretInit, CaretInv

(* A disturbance starts an epoch no timer knows.                            *)
LEMMA FreshEpoch ==
    ASSUME CaretInv, NEW does, NEW e, e = epoch + 1 PROVE CopiesOf(Timer(does, e), timers) = 0
<1>1. Timer(does, e) \notin BagToSet(timers)
  BY DEF CaretInv, CaretTypeOK, Timer
<1>2. QED
  BY <1>1 DEF CopiesOf, BagIn

LEMMA DisturbanceKeeps ==
    ASSUME CaretInv, Disturb \/ FocusCaret \/ BlurCaret PROVE CaretInv'
<1>1. /\ epoch \in 0..MaxEpoch /\ epoch < MaxEpoch /\ epoch' = epoch + 1
      /\ visible' = TRUE /\ paused' = TRUE /\ MaxEpoch \in Nat
      /\ IsABag(timers) /\ BagToSet(timers) \subseteq [does : {"resume", "tick"}, epoch : 1..epoch]
  BY CaretAssumption DEF Disturb, FocusCaret, BlurCaret, Interrupt, CaretInv, CaretTypeOK
<1>2. focused' \in BOOLEAN
  BY DEF Disturb, FocusCaret, BlurCaret, CaretInv, CaretTypeOK
<1>3. epoch' \in 0..MaxEpoch /\ 1..epoch \subseteq 1..epoch' /\ epoch' \in 1..epoch'
  BY <1>1
<1>4. CASE timers' = timers (+) SetToBag({Timer("resume", epoch')})
  <2>1. /\ IsABag(timers') /\ BagToSet(timers') = BagToSet(timers) \cup {Timer("resume", epoch')}
        /\ \A x : CopiesOf(x, timers') =
                     CopiesOf(x, timers) + IF x = Timer("resume", epoch') THEN 1 ELSE 0
    BY <1>1, <1>4, OneMore
  <2>2. CaretTypeOK'
    BY <1>1, <1>2, <1>3, <2>1 DEF CaretTypeOK, Timer
  <2>3. Timer("tick", epoch') # Timer("resume", epoch')
    <3>1. Timer("tick", epoch').does = "tick" /\ Timer("resume", epoch').does = "resume"
      BY DEF Timer
    <3>2. QED
      BY <3>1
  <2>4. (Current("resume"))' = 1 /\ (Current("tick"))' = 0
    BY <1>1, <2>1, <2>3, FreshEpoch DEF Current
  <2>5. QED
    BY <1>1, <2>2, <2>4 DEF CaretInv
<1>5. CASE ~focused' /\ UNCHANGED timers
  BY <1>1, <1>2, <1>3, <1>5 DEF CaretInv, CaretTypeOK
<1>6. QED
  BY <1>4, <1>5 DEF Disturb, FocusCaret, BlurCaret

LEMMA TimersKeep ==
    ASSUME CaretInv, NEW t \in BagToSet(timers), Resume(t) \/ Tick(t) PROVE CaretInv'
<1>1. /\ UNCHANGED <<epoch, focused>> /\ IsABag(timers)
      /\ t \in [does : {"resume", "tick"}, epoch : 1..epoch] /\ BagIn(t, timers)
  BY DEF Resume, Tick, CaretInv, CaretTypeOK, BagIn
<1> DEFINE now == t.epoch = epoch /\ focused
<1>2. t = Timer(t.does, t.epoch)
  BY <1>1 DEF Timer
<1>3. \A d, e : Timer(d, epoch) = Timer(e, epoch) <=> d = e
  <2>1. \A d : Timer(d, epoch).does = d
    BY DEF Timer
  <2>2. QED
    BY <2>1
<1>4. /\ IsABag(Spent(t)) /\ BagToSet(Spent(t)) \subseteq BagToSet(timers)
      /\ \A x : CopiesOf(x, Spent(t)) = CopiesOf(x, timers) - IF x = t THEN 1 ELSE 0
  BY <1>1, OneLess DEF Spent
<1>5. CopiesOf(t, timers) > 0 /\ \A x : CopiesOf(x, timers) \in Nat
  BY <1>1, CopiesCount
<1>6. CASE now /\ (t.does = "tick" => ~paused)
  <2>1. /\ timers' = Spent(t) (+) SetToBag({Timer("tick", t.epoch)})
        /\ t.does = "resume" => paused' = FALSE /\ visible' = visible
        /\ t.does = "tick" => visible' = ~visible /\ paused' = paused
    BY <1>6 DEF Resume, Tick
  <2>2. /\ IsABag(timers') /\ BagToSet(timers') = BagToSet(Spent(t)) \cup {Timer("tick", epoch)}
        /\ \A x : CopiesOf(x, timers') =
                     CopiesOf(x, Spent(t)) + IF x = Timer("tick", epoch) THEN 1 ELSE 0
    <3> DEFINE more == Spent(t) (+) SetToBag({Timer("tick", epoch)})
    <3>1. /\ IsABag(more) /\ BagToSet(more) = BagToSet(Spent(t)) \cup {Timer("tick", epoch)}
          /\ \A x : CopiesOf(x, more) = CopiesOf(x, Spent(t)) + IF x = Timer("tick", epoch) THEN 1 ELSE 0
      BY <1>4, OneMore
    <3>2. timers' = more
      BY <1>6, <2>1
    <3>3. QED
      BY <3>1, <3>2, Zenon
  <2>3. CaretTypeOK'
    <3>1. epoch \in 1..epoch /\ Timer("tick", epoch) \in [does : {"resume", "tick"}, epoch : 1..epoch]
      BY <1>1, <1>6 DEF Timer
    <3>2. {focused', visible', paused'} \subseteq BOOLEAN
      BY <1>1, <2>1 DEF CaretInv, CaretTypeOK
    <3>3. QED
      BY <1>1, <1>4, <2>2, <3>1, <3>2 DEF CaretInv, CaretTypeOK
  <2>4. paused' = FALSE
    BY <1>1, <1>6, <2>1 DEF CaretInv, CaretTypeOK
  <2>5. (Current("resume"))' = 0 /\ (Current("tick"))' = 1
    <3>1. CASE t.does = "resume"
      <4>1. Current("resume") > 0 /\ t = Timer("resume", epoch) /\ t # Timer("tick", epoch)
        BY <1>2, <1>3, <1>5, <1>6, <3>1 DEF Current
      <4>2. Current("resume") = 1 /\ Current("tick") = 0
        BY <1>6, <4>1 DEF CaretInv
      <4>3. QED
        BY <1>1, <1>4, <2>2, <4>1, <4>2 DEF Current
    <3>2. CASE t.does = "tick"
      <4>1. t = Timer("tick", epoch) /\ t # Timer("resume", epoch)
        BY <1>2, <1>3, <1>6, <3>2
      <4>2. Current("resume") = 0 /\ Current("tick") = 1
        BY <1>6, <3>2 DEF CaretInv
      <4>3. QED
        BY <1>1, <1>4, <2>2, <4>1, <4>2 DEF Current
    <3>3. QED
      BY <1>1, <3>1, <3>2
  <2>6. QED
    BY <2>3, <2>4, <2>5 DEF CaretInv
<1>7. CASE ~(now /\ (t.does = "tick" => ~paused))
  <2>1. timers' = Spent(t) /\ UNCHANGED <<paused, visible>>
    BY <1>7 DEF Resume, Tick
  <2>2. CaretTypeOK'
    BY <1>1, <1>4, <2>1 DEF CaretInv, CaretTypeOK
  <2>3. ASSUME focused PROVE UNCHANGED <<Current("resume"), Current("tick")>>
    <3>1. CASE t.epoch = epoch
      <4>1. t = Timer("tick", epoch) /\ paused
        BY <1>1, <1>2, <1>7, <2>3, <3>1
      <4>2. QED
        BY <1>5, <2>3, <4>1 DEF CaretInv, Current
    <3>2. CASE t.epoch # epoch
      <4>1. \A d : Timer(d, epoch) # t
        BY <3>2 DEF Timer
      <4>2. QED
        BY <1>1, <1>4, <1>5, <2>1, <4>1 DEF Current
    <3>3. QED
      BY <3>1, <3>2
  <2>4. QED
    BY <1>1, <2>1, <2>2, <2>3 DEF CaretInv
<1>8. QED
  BY <1>6, <1>7

LEMMA CaretIsDriven == CaretInv => OneBlinkCycle
<1> SUFFICES ASSUME CaretInv PROVE OneBlinkCycle
  OBVIOUS
<1>1. /\ IsABag(timers) /\ {focused, paused} \subseteq BOOLEAN
      /\ \A t \in BagToSet(timers) : t.does \in {"resume", "tick"} /\ t = Timer(t.does, t.epoch)
  BY DEF CaretInv, CaretTypeOK, Timer
<1>2. \A d : Timer(d, epoch).does = d /\ Timer(d, epoch).epoch = epoch
  BY DEF Timer
<1>3. ASSUME focused PROVE \E t \in Driving : Driving = {t} /\ timers[t] = 1
  <2> DEFINE driver == Timer(IF paused THEN "resume" ELSE "tick", epoch)
             other == Timer(IF paused THEN "tick" ELSE "resume", epoch)
  <2>1. CopiesOf(driver, timers) = 1 /\ CopiesOf(other, timers) = 0
    BY <1>1, <1>3 DEF CaretInv, Current
  <2>2. driver \in BagToSet(timers) /\ timers[driver] = 1 /\ other \notin BagToSet(timers)
    BY <1>1, <2>1, CopiesCount DEF CopiesOf, BagIn
  <2>3. driver \in Driving
    BY <1>2, <1>3, <2>2 DEF Driving
  <2>4. ASSUME NEW t \in Driving PROVE t = driver
    <3>1. t = Timer("resume", epoch) \/ t = Timer("tick", epoch)
      BY <1>1 DEF Driving
    <3>2. QED
      BY <1>1, <2>2, <3>1 DEF Driving
  <2>5. QED
    BY <2>2, <2>3, <2>4
<1>4. ~focused => Driving = {}
  BY DEF Driving
<1>5. QED
  BY <1>1, <1>3, <1>4 DEF OneBlinkCycle, CaretInv

LEMMA CaretInvHolds == CaretSpec => []CaretInv
<1>1. CaretInv /\ [CaretNext]_caretVars => CaretInv'
  <2>1. ASSUME CaretInv, UNCHANGED caretVars PROVE CaretInv'
    BY <2>1 DEF caretVars, CaretInv, CaretTypeOK, Current
  <2>2. QED
    BY <2>1, DisturbanceKeeps, TimersKeep DEF CaretNext
<1>2. QED
  BY <1>1, CaretStarts, PTL DEF CaretSpec

LEMMA CaretIsTyped == CaretSpec => []CaretTypeOK
<1>1. CaretInv => CaretTypeOK
  BY DEF CaretInv
<1>2. QED
  BY <1>1, CaretInvHolds, PTL

(* One timer drives the caret while the field has the focus, and none after *)
(* it lost it, however often typing pauses it and timers of earlier epochs  *)
(* still fire (CaretBlink::tick and resume), for any number of timers and   *)
(* epochs.                                                                  *)
THEOREM CaretBlinksOnce == CaretSpec => []OneBlinkCycle
  BY CaretInvHolds, CaretIsDriven, PTL

-----------------------------------------------------------------------------
(* The text field.                                                          *)

Doc == Seq(Characters)
Join(p, s) == p \o s

LEMMA Joined ==
    ASSUME NEW p \in Doc, NEW s \in Doc
    PROVE  Join(p, s) \in Doc /\ Len(Join(p, s)) = Len(p) + Len(s) /\ Len(p) \in Nat /\ Len(s) \in Nat
  BY ConcatProperties DEF Doc, Join

LEMMA Regrouped ==
    ASSUME NEW p \in Doc, NEW a \in Doc, NEW b \in Doc
    PROVE  Join(Join(p, a), b) = Join(p, Join(a, b))
  BY ConcatAssociative DEF Doc, Join

LEMMA NothingJoined ==
    ASSUME NEW p \in Doc
    PROVE  Join(p, <<>>) = p /\ Join(<<>>, p) = p /\ <<>> \in Doc
  BY ConcatEmptySeq DEF Doc, Join

(* A document falls into what is before a range, in it and after it.        *)
Before(doc, from) == Slice(doc, 0, from)
Behind(doc, to) == Slice(doc, to, Len(doc))

LEMMA Pieces ==
    ASSUME NEW doc \in Doc, NEW from \in Nat, NEW to \in Nat, from <= to, to <= Len(doc)
    PROVE  /\ Before(doc, from) \in Doc /\ Slice(doc, from, to) \in Doc /\ Behind(doc, to) \in Doc
           /\ Len(Before(doc, from)) = from /\ Len(Slice(doc, from, to)) = to - from
           /\ doc = Join(Join(Before(doc, from), Slice(doc, from, to)), Behind(doc, to))
<1>1. /\ Before(doc, from) = SubSeq(doc, 1, from) /\ Slice(doc, from, to) = SubSeq(doc, from + 1, to)
      /\ Behind(doc, to) = SubSeq(doc, to + 1, Len(doc))
  BY DEF Slice, Before, Behind
<1>2. Len(doc) \in Nat /\ \A i \in 1..Len(doc) : doc[i] \in Characters
  BY DEF Doc
<1>3. SubSeq(doc, 1, from) \in Doc /\ Len(SubSeq(doc, 1, from)) = from
  BY <1>2, SubSeqProperties DEF Doc
<1>4. SubSeq(doc, from + 1, to) \in Doc /\ Len(SubSeq(doc, from + 1, to)) = to - from
  BY <1>2, SubSeqProperties DEF Doc
<1>5. SubSeq(doc, to + 1, Len(doc)) \in Doc
  BY <1>2, SubSeqProperties DEF Doc
<1>6. SubSeq(doc, 1, from) \o SubSeq(doc, from + 1, to) = SubSeq(doc, 1, to)
  BY <1>2, ConcatAdjacentSubSeq DEF Doc
<1>7. SubSeq(doc, 1, to) \o SubSeq(doc, to + 1, Len(doc)) = SubSeq(doc, 1, Len(doc))
  <2>1. /\ doc \in Seq(Characters) /\ 1 \in 1..Len(doc) + 1 /\ to \in (1 - 1)..Len(doc)
        /\ Len(doc) \in to..Len(doc)
    BY <1>2 DEF Doc
  <2>2. QED
    BY <2>1, ConcatAdjacentSubSeq, Zenon
<1>8. SubSeq(doc, 1, Len(doc)) = doc
  BY SubSeqFull DEF Doc
<1>9. QED
  BY <1>1, <1>3, <1>4, <1>5, <1>6, <1>7, <1>8, Zenon DEF Join

LEMMA Apart ==
    ASSUME NEW q \in Doc, NEW t \in Doc, NEW a \in Doc, NEW b \in Doc,
           Join(q, t) = Join(a, b), Len(q) = Len(a)
    PROVE  q = a /\ t = b
<1>0. q \o t = a \o b
  BY DEF Join
<1>1. q = a
  <2>1. \A i \in 1..Len(q) : (q \o t)[i] = q[i] /\ (a \o b)[i] = a[i]
    BY DEF Doc
  <2>2. \A i \in 1..Len(q) : q[i] = a[i]
    BY <1>0, <2>1
  <2>3. QED
    BY <2>2, SeqEqual DEF Doc
<1>2. t = b
  <2>1. q \o t = q \o b
    BY <1>0, <1>1
  <2>2. Len(Join(q, t)) = Len(q) + Len(t) /\ Len(Join(q, b)) = Len(q) + Len(b)
        /\ Len(q) \in Nat /\ Len(t) \in Nat /\ Len(b) \in Nat
    BY Joined
  <2>3. Len(t) = Len(b)
    BY <1>1, <2>2
  <2>4. \A i \in 1..Len(t) : (q \o t)[Len(q) + i] = t[i] /\ (q \o b)[Len(q) + i] = b[i]
    <3>1. \A i \in 1..Len(q) + Len(t) : /\ (q \o t)[i] = IF i <= Len(q) THEN q[i] ELSE t[i - Len(q)]
                                      /\ (q \o b)[i] = IF i <= Len(q) THEN q[i] ELSE b[i - Len(q)]
      BY <2>3, ConcatProperties DEF Doc
    <3>2. ASSUME NEW i \in 1..Len(t)
          PROVE  Len(q) + i \in 1..Len(q) + Len(t) /\ ~(Len(q) + i <= Len(q)) /\ (Len(q) + i) - Len(q) = i
      BY <2>2
    <3>3. QED
      BY <3>1, <3>2
  <2>5. \A i \in 1..Len(t) : t[i] = b[i]
    BY <2>1, <2>4
  <2>6. QED
    BY <2>3, <2>5, SeqEqual DEF Doc
<1>3. QED
  BY <1>1, <1>2

Three(p, a, s) == Join(Join(p, a), s)

SameThree(p, a, s, q, b, t) ==
    Three(p, a, s) = Three(q, b, t) /\ Len(p) = Len(q) /\ Len(a) = Len(b) => p = q /\ a = b /\ s = t

LEMMA ThreeApart ==
    ASSUME NEW p \in Doc, NEW a \in Doc, NEW s \in Doc, NEW q \in Doc, NEW b \in Doc, NEW t \in Doc
    PROVE  SameThree(p, a, s, q, b, t)
<1> SUFFICES ASSUME Three(p, a, s) = Three(q, b, t), Len(p) = Len(q), Len(a) = Len(b)
             PROVE  p = q /\ a = b /\ s = t
  BY DEF SameThree
<1>1. Join(p, a) \in Doc /\ Join(q, b) \in Doc /\ Len(Join(p, a)) = Len(Join(q, b))
  <2>1. Join(p, a) \in Doc /\ Len(Join(p, a)) = Len(p) + Len(a)
    BY Joined, Zenon
  <2>2. Join(q, b) \in Doc /\ Len(Join(q, b)) = Len(q) + Len(b)
    BY Joined, Zenon
  <2>3. QED
    BY <2>1, <2>2
<1>2. Join(p, a) = Join(q, b) /\ s = t
  BY <1>1, Apart DEF Three
<1>3. QED
  BY <1>2, Apart

LEMMA ThreeJoined ==
    ASSUME NEW p \in Doc, NEW a \in Doc, NEW s \in Doc
    PROVE  /\ Three(p, a, s) \in Doc /\ Len(Three(p, a, s)) = Len(p) + Len(a) + Len(s)
           /\ Len(p) \in Nat /\ Len(a) \in Nat /\ Len(s) \in Nat
<1>1. Join(p, a) \in Doc /\ Len(Join(p, a)) = Len(p) + Len(a) /\ Len(p) \in Nat /\ Len(a) \in Nat
  BY Joined
<1>2. Three(p, a, s) \in Doc /\ Len(Three(p, a, s)) = Len(Join(p, a)) + Len(s) /\ Len(s) \in Nat
  BY <1>1, Joined, Zenon DEF Three
<1>3. QED
  BY <1>1, <1>2

(* Splicing replaces the piece in the middle.                               *)
Replaces(doc, p, a, s, b) ==
    /\ doc \in Doc /\ Len(p) + Len(a) <= Len(doc)
    /\ Slice(doc, Len(p), Len(p) + Len(a)) = a
    /\ Splice(doc, Len(p), Len(p) + Len(a), b) = Three(p, b, s)

LEMMA Spliced ==
    ASSUME NEW p \in Doc, NEW a \in Doc, NEW s \in Doc, NEW b \in Doc
    PROVE  Replaces(Three(p, a, s), p, a, s, b)
<1> DEFINE doc == Three(p, a, s)
           m == Len(p)
           n == Len(p) + Len(a)
<1>1. doc \in Doc /\ Len(doc) = Len(p) + Len(a) + Len(s) /\ Len(p) \in Nat /\ Len(a) \in Nat /\ Len(s) \in Nat
  BY ThreeJoined
<1>2. m \in Nat /\ n \in Nat /\ m <= n /\ n <= Len(doc) /\ n - m = Len(a) /\ m = Len(p)
  BY <1>1
<1>3. Splice(doc, m, n, b) = Three(Before(doc, m), b, Behind(doc, n))
  BY DEF Splice, Three, Join, Before, Behind
<1>4. n = Len(p) + Len(a) /\ doc = Three(p, a, s)
  OBVIOUS
<1> HIDE DEF m, n, doc
<1>5. /\ Before(doc, m) \in Doc /\ Slice(doc, m, n) \in Doc /\ Behind(doc, n) \in Doc
      /\ Len(Before(doc, m)) = m /\ Len(Slice(doc, m, n)) = n - m
      /\ doc = Three(Before(doc, m), Slice(doc, m, n), Behind(doc, n))
  <2>1. /\ Before(doc, m) \in Doc /\ Slice(doc, m, n) \in Doc /\ Behind(doc, n) \in Doc
        /\ Len(Before(doc, m)) = m /\ Len(Slice(doc, m, n)) = n - m
        /\ doc = Join(Join(Before(doc, m), Slice(doc, m, n)), Behind(doc, n))
    <3>1. doc \in Doc /\ m \in Nat /\ n \in Nat /\ m <= n /\ n <= Len(doc)
      BY <1>1, <1>2
    <3>2. QED
      BY ONLY <3>1, Pieces, Zenon
  <2>2. QED
    BY <2>1 DEF Three
<1>6. p = Before(doc, m) /\ a = Slice(doc, m, n) /\ s = Behind(doc, n)
  <2>1. /\ Three(p, a, s) = Three(Before(doc, m), Slice(doc, m, n), Behind(doc, n))
        /\ Len(p) = Len(Before(doc, m)) /\ Len(a) = Len(Slice(doc, m, n))
    BY <1>2, <1>4, <1>5
  <2>2. Before(doc, m) \in Doc /\ Slice(doc, m, n) \in Doc /\ Behind(doc, n) \in Doc
    BY <1>5
  <2>3. p \in Doc /\ a \in Doc /\ s \in Doc
    OBVIOUS
  <2>4. SameThree(p, a, s, Before(doc, m), Slice(doc, m, n), Behind(doc, n))
    BY ONLY <2>2, <2>3, ThreeApart, Zenon
  <2>5. QED
    BY <2>1, <2>4 DEF SameThree
<1>7. QED
  BY <1>1, <1>2, <1>3, <1>4, <1>6 DEF Replaces

LEMMA SplicedAt ==
    ASSUME NEW doc \in Doc, NEW from \in Nat, NEW to \in Nat, from <= to, to <= Len(doc), NEW b \in Doc
    PROVE  /\ Splice(doc, from, to, b) = Three(Before(doc, from), b, Behind(doc, to))
           /\ Splice(doc, from, to, b) \in Doc
           /\ from + Len(b) <= Len(Splice(doc, from, to, b))
<1>1. Splice(doc, from, to, b) = Three(Before(doc, from), b, Behind(doc, to))
  BY DEF Splice, Three, Join, Before, Behind
<1>2. Before(doc, from) \in Doc /\ Behind(doc, to) \in Doc /\ Len(Before(doc, from)) = from
  BY Pieces, Zenon
<1>3. LET f == Three(Before(doc, from), b, Behind(doc, to)) IN
      /\ f \in Doc /\ Len(f) = Len(Before(doc, from)) + Len(b) + Len(Behind(doc, to))
      /\ Len(b) \in Nat /\ Len(Behind(doc, to)) \in Nat
  BY <1>2, ThreeJoined, Zenon
<1>4. QED
  BY <1>1, <1>2, <1>3
-----------------------------------------------------------------------------
(* An edit leads from one document to another.                              *)
Selected == [anchor : Nat, head : Nat]
EditType == [at : Nat, removed : Doc, inserted : Doc, before : Selected, after : Selected]

Leads(d, e, f) ==
    /\ \E p, s \in Doc : Len(p) = e.at /\ d = Three(p, e.removed, s) /\ f = Three(p, e.inserted, s)
    /\ Within(e.before, d) /\ Within(e.after, f)

LEMMA LeadsBothWays ==
    ASSUME NEW d, NEW f, NEW e \in EditType, Leads(d, e, f)
    PROVE  /\ d \in Doc /\ f \in Doc
           /\ e.at + Len(e.inserted) <= Len(f) /\ Holds(f, e.at, e.inserted)
           /\ Splice(f, e.at, e.at + Len(e.inserted), e.removed) = d
           /\ e.at + Len(e.removed) <= Len(d) /\ Holds(d, e.at, e.removed)
           /\ Splice(d, e.at, e.at + Len(e.removed), e.inserted) = f
<1>1. PICK p, s \in Doc : Len(p) = e.at /\ d = Three(p, e.removed, s) /\ f = Three(p, e.inserted, s)
  BY DEF Leads
<1>2. e.removed \in Doc /\ e.inserted \in Doc
  BY DEF EditType
<1>3. /\ f \in Doc /\ e.at + Len(e.inserted) <= Len(f)
      /\ Splice(f, e.at, e.at + Len(e.inserted), e.removed) = d
      /\ Slice(f, e.at, e.at + Len(e.inserted)) = e.inserted
  <2>1. Replaces(Three(p, e.inserted, s), p, e.inserted, s, e.removed)
    BY <1>1, <1>2, Spliced, Zenon
  <2>2. QED
    BY <1>1, <2>1 DEF Replaces
<1>4. /\ d \in Doc /\ e.at + Len(e.removed) <= Len(d)
      /\ Splice(d, e.at, e.at + Len(e.removed), e.inserted) = f
      /\ Slice(d, e.at, e.at + Len(e.removed)) = e.removed
  <2>1. Replaces(Three(p, e.removed, s), p, e.removed, s, e.inserted)
    BY <1>1, <1>2, Spliced, Zenon
  <2>2. QED
    BY <1>1, <2>1 DEF Replaces
<1>5. QED
  BY <1>3, <1>4 DEF Holds

(* Two edits that may merge lead where the merged one leads.                *)
LEMMA MergedLeads ==
    ASSUME NEW d, NEW f, NEW g, NEW e \in EditType, NEW previous \in EditType,
           Leads(d, previous, f), Leads(f, e, g), NEW kind, CanMerge(previous, e, kind)
    PROVE  Merged(previous, e, kind) \in EditType /\ Leads(d, Merged(previous, e, kind), g)
<1> DEFINE m == Merged(previous, e, kind)
<1>1. PICK p, s \in Doc : /\ Len(p) = previous.at /\ d = Three(p, previous.removed, s)
                          /\ f = Three(p, previous.inserted, s)
  BY DEF Leads
<1>2. PICK q, t \in Doc : Len(q) = e.at /\ f = Three(q, e.removed, t) /\ g = Three(q, e.inserted, t)
  BY DEF Leads
<1>3. /\ previous.removed \in Doc /\ previous.inserted \in Doc /\ e.removed \in Doc
      /\ e.inserted \in Doc /\ e.at \in Nat /\ previous.at \in Nat
      /\ previous.before \in Selected /\ e.after \in Selected
  BY DEF EditType
<1>4. Within(previous.before, d) /\ Within(e.after, g)
  BY DEF Leads
<1>5. CASE kind = "typing"
  <2>1. /\ e.at = previous.at + Len(previous.inserted)
        /\ e.removed = <<>> /\ previous.removed = <<>>
    BY <1>5 DEF CanMerge
  <2>2. Join(p, previous.inserted) \in Doc /\ Len(Join(p, previous.inserted)) = e.at
    <3>1. /\ Join(p, previous.inserted) \in Doc
          /\ Len(Join(p, previous.inserted)) = Len(p) + Len(previous.inserted)
      BY <1>3, Joined
    <3>2. Len(p) = previous.at
      BY <1>1
    <3>3. QED
      BY <2>1, <3>1, <3>2
  <2>3. Join(q, t) = Join(Join(p, previous.inserted), s)
    BY <1>1, <1>2, <2>1, NothingJoined DEF Three
  <2>4. q = Join(p, previous.inserted) /\ t = s
    BY <1>1, <1>2, <2>2, <2>3, Apart
  <2>5. Join(q, e.inserted) = Join(p, Join(previous.inserted, e.inserted))
    BY <1>1, <1>3, <2>4, Regrouped
  <2>6. m = [previous EXCEPT !.inserted = Join(@, e.inserted), !.after = e.after]
    BY <1>5 DEF Merged, Join
  <2>7. /\ m.at = previous.at /\ m.removed = previous.removed /\ m.before = previous.before
        /\ m.inserted = Join(previous.inserted, e.inserted) /\ m.after = e.after
    BY <2>6 DEF EditType
  <2>8. m \in EditType
    BY <1>3, <2>6, Joined DEF EditType
  <2> HIDE DEF m
  <2>9. g = Three(p, m.inserted, s) /\ d = Three(p, m.removed, s) /\ Len(p) = m.at
    BY <1>1, <1>2, <2>4, <2>5, <2>7 DEF Three
  <2>10. Leads(d, m, g)
    BY <1>1, <1>4, <2>7, <2>9 DEF Leads
  <2>11. QED
    BY <2>8, <2>10 DEF m
<1>6. CASE kind # "typing"
  <2>1. /\ kind = "deleting" /\ e.inserted = <<>> /\ previous.inserted = <<>>
        /\ e.at + Len(e.removed) = previous.at \/ e.at = previous.at
    BY <1>6 DEF CanMerge
  <2>2. f = Join(p, s) /\ f = Join(Join(q, e.removed), t)
    BY <1>1, <1>2, <2>1, NothingJoined DEF Three
  <2>3. CASE e.at + Len(e.removed) = previous.at
    <3>1. Join(q, e.removed) \in Doc /\ Len(Join(q, e.removed)) = Len(p)
      BY <1>1, <1>2, <1>3, <2>3, Joined
    <3>2. Join(q, e.removed) = p /\ t = s
      BY <1>1, <1>2, <2>2, <3>1, Apart
    <3>3. Join(p, previous.removed) = Join(q, Join(e.removed, previous.removed))
      BY <1>2, <1>3, <3>2, Regrouped
    <3>4. m = [previous EXCEPT !.at = e.at, !.removed = Join(e.removed, @), !.after = e.after]
      BY <2>1, <2>3 DEF Merged, Join
    <3>5. /\ m.at = e.at /\ m.removed = Join(e.removed, previous.removed)
          /\ m.before = previous.before /\ m.inserted = <<>> /\ m.after = e.after
      BY <2>1, <3>4 DEF EditType
    <3>6. m \in EditType
      BY <1>3, <3>4, Joined DEF EditType
    <3> HIDE DEF m
    <3>7. Len(q) = m.at /\ d = Three(q, m.removed, t) /\ g = Three(q, m.inserted, t)
      BY <1>1, <1>2, <2>1, <3>2, <3>3, <3>5 DEF Three
    <3>8. Leads(d, m, g)
      BY <1>2, <1>4, <3>5, <3>7 DEF Leads
    <3>9. QED
      BY <3>6, <3>8 DEF m
  <2>4. CASE e.at + Len(e.removed) # previous.at
    <3>1. e.at = previous.at
      BY <2>1, <2>4
    <3>2. Join(e.removed, t) \in Doc /\ f = Join(q, Join(e.removed, t))
      <4>1. Join(e.removed, t) \in Doc
        BY <1>2, <1>3, Joined, Zenon
      <4>2. Join(Join(q, e.removed), t) = Join(q, Join(e.removed, t))
        BY <1>3, Regrouped
      <4>3. QED
        BY <2>2, <4>1, <4>2
    <3>3. q = p /\ s = Join(e.removed, t)
      <4>1. Join(q, Join(e.removed, t)) = Join(p, s) /\ Len(q) = Len(p)
        BY <1>1, <1>2, <2>2, <3>1, <3>2
      <4>2. QED
        BY <1>1, <1>2, <3>2, <4>1, Apart, Zenon
    <3>4. Three(p, previous.removed, s) = Three(p, Join(previous.removed, e.removed), t)
      <4>1. Join(p, previous.removed) \in Doc
        BY <1>1, <1>3, Joined
      <4>2. Three(p, previous.removed, s) = Join(Join(Join(p, previous.removed), e.removed), t)
        BY <1>2, <1>3, <3>3, <4>1, Regrouped DEF Three
      <4>3. QED
        BY <1>1, <1>3, <4>2, Regrouped DEF Three
    <3>5. m = [previous EXCEPT !.removed = Join(@, e.removed), !.after = e.after]
      BY <2>1, <2>4 DEF Merged, Join
    <3>6. /\ m.at = previous.at /\ m.removed = Join(previous.removed, e.removed)
          /\ m.before = previous.before /\ m.inserted = <<>> /\ m.after = e.after
      BY <2>1, <3>5 DEF EditType
    <3>7. m \in EditType
      BY <1>3, <3>5, Joined DEF EditType
    <3> HIDE DEF m
    <3>8. Len(q) = m.at /\ d = Three(q, m.removed, t) /\ g = Three(q, m.inserted, t)
      BY <1>1, <1>2, <2>1, <3>1, <3>3, <3>4, <3>6
    <3>9. Leads(d, m, g)
      BY <1>2, <1>4, <3>6, <3>8 DEF Leads
    <3>10. QED
      BY <3>7, <3>9 DEF m
  <2>5. QED
    BY <2>3, <2>4
<1>7. QED
  BY <1>5, <1>6
-----------------------------------------------------------------------------
(* Replacements at one place of one document.                               *)
LEMMA SpliceAgain ==
    ASSUME NEW doc \in Doc, NEW from \in Nat, NEW to \in Nat, from <= to, to <= Len(doc),
           NEW x \in Doc, NEW y \in Doc
    PROVE  /\ Splice(Splice(doc, from, to, x), from, from + Len(x), y) = Splice(doc, from, to, y)
           /\ Slice(Splice(doc, from, to, x), from, from + Len(x)) = x
<1>1. Before(doc, from) \in Doc /\ Behind(doc, to) \in Doc /\ Len(Before(doc, from)) = from
  BY Pieces, Zenon
<1>2. Replaces(Three(Before(doc, from), x, Behind(doc, to)), Before(doc, from), x, Behind(doc, to), y)
  BY ONLY <1>1, x \in Doc, y \in Doc, Spliced, Zenon
<1>3. /\ Splice(doc, from, to, x) = Three(Before(doc, from), x, Behind(doc, to))
      /\ Splice(doc, from, to, y) = Three(Before(doc, from), y, Behind(doc, to))
  BY SplicedAt, Zenon
<1>4. QED
  BY <1>1, <1>2, <1>3 DEF Replaces

LEMMA SliceAgain ==
    ASSUME NEW doc \in Doc, NEW from \in Nat, NEW to \in Nat, from <= to, to <= Len(doc), NEW x \in Doc
    PROVE  Slice(Splice(doc, from, to, x), from, from + Len(x)) = x
  BY SpliceAgain

SplicesAgain(doc, from, to, x, y) ==
    Splice(Splice(doc, from, to, x), from, from + Len(x), y) = Splice(doc, from, to, y)

LEMMA SpliceTwice ==
    ASSUME NEW doc \in Doc, NEW from \in Nat, NEW to \in Nat, from <= to, to <= Len(doc),
           NEW x \in Doc, NEW y \in Doc
    PROVE  SplicesAgain(doc, from, to, x, y)
  BY SpliceAgain DEF SplicesAgain

LEMMA SpliceSame ==
    ASSUME NEW doc \in Doc, NEW from \in Nat, NEW to \in Nat, from <= to, to <= Len(doc)
    PROVE  Slice(doc, from, to) \in Doc /\ Splice(doc, from, to, Slice(doc, from, to)) = doc
<1>1. Slice(doc, from, to) \in Doc /\ doc = Three(Before(doc, from), Slice(doc, from, to), Behind(doc, to))
  BY Pieces, Zenon DEF Three
<1>2. QED
  BY <1>1, SplicedAt, Zenon

LEMMA SpliceLeads ==
    ASSUME NEW doc \in Doc, NEW from \in Nat, NEW to \in Nat, from <= to, to <= Len(doc),
           NEW x \in Doc, NEW y \in Doc, NEW before \in Selected, NEW after \in Selected,
           Within(before, Splice(doc, from, to, x)), Within(after, Splice(doc, from, to, y))
    PROVE  /\ Edit(from, x, y, before, after) \in EditType
           /\ Leads(Splice(doc, from, to, x), Edit(from, x, y, before, after), Splice(doc, from, to, y))
<1>1. Before(doc, from) \in Doc /\ Behind(doc, to) \in Doc /\ Len(Before(doc, from)) = from
  BY Pieces, Zenon
<1>2. /\ Splice(doc, from, to, x) = Three(Before(doc, from), x, Behind(doc, to))
      /\ Splice(doc, from, to, y) = Three(Before(doc, from), y, Behind(doc, to))
  BY SplicedAt, Zenon
<1>3. QED
  BY <1>1, <1>2 DEF Edit, EditType, Leads
-----------------------------------------------------------------------------
(* A history: the documents between its edits.                              *)
Path(docs, stack, d0, d1) ==
    /\ docs \in [1..Len(stack) + 1 -> Doc]
    /\ docs[1] = d0 /\ docs[Len(stack) + 1] = d1
    /\ \A i \in 1..Len(stack) : Leads(docs[i], stack[i], docs[i + 1])
Run(stack, d0, d1) == \E docs : Path(docs, stack, d0, d1)

PathBack(docs, stack, d) ==
    /\ docs \in [1..Len(stack) + 1 -> Doc]
    /\ docs[Len(stack) + 1] = d
    /\ \A i \in 1..Len(stack) : Leads(docs[i + 1], stack[i], docs[i])
RunBack(stack, d) == \E docs : PathBack(docs, stack, d)

Edits == Seq(EditType)

LEMMA RunEmpty ==
    ASSUME NEW d \in Doc
    PROVE  Run(<<>>, d, d) /\ RunBack(<<>>, d)
<1>1. Path([i \in 1..1 |-> d], <<>>, d, d) /\ PathBack([i \in 1..1 |-> d], <<>>, d)
  BY DEF Path, PathBack
<1>2. QED
  BY <1>1 DEF Run, RunBack

LEMMA RunAppend ==
    ASSUME NEW stack \in Edits, NEW e \in EditType, NEW d0, NEW d1, NEW d2 \in Doc,
           Run(stack, d0, d1), Leads(d1, e, d2)
    PROVE  Run(Append(stack, e), d0, d2)
<1>1. PICK docs : Path(docs, stack, d0, d1)
  BY DEF Run
<1> DEFINE n == Len(stack)
           more == [i \in 1..n + 2 |-> IF i = n + 2 THEN d2 ELSE docs[i]]
           stack2 == Append(stack, e)
<1>2. n \in Nat /\ Len(stack2) = n + 1 /\ stack2[n + 1] = e /\ \A i \in 1..n : stack2[i] = stack[i]
  BY DEF Edits
<1> HIDE DEF stack2
<1>3. Path(more, stack2, d0, d2)
  <2>1. more \in [1..n + 2 -> Doc] /\ more[1] = d0 /\ more[n + 2] = d2
    BY <1>1, <1>2 DEF Path
  <2>2. ASSUME NEW i \in 1..n + 1 PROVE Leads(more[i], stack2[i], more[i + 1])
    <3>1. CASE i = n + 1
      BY <1>1, <1>2, <3>1 DEF Path
    <3>2. CASE i \in 1..n
      BY <1>1, <1>2, <3>2 DEF Path
    <3>3. QED
      BY <1>2, <3>1, <3>2
  <2>3. 1..Len(stack2) + 1 = 1..n + 2 /\ 1..Len(stack2) = 1..n + 1 /\ Len(stack2) + 1 = n + 2
    BY <1>2
  <2> HIDE DEF more, n
  <2>4. QED
    BY <2>1, <2>2, <2>3 DEF Path
<1>4. QED
  BY <1>3 DEF Run, stack2

LEMMA RunBackAppend ==
    ASSUME NEW stack \in Edits, NEW e \in EditType, NEW d1, NEW d2 \in Doc,
           RunBack(stack, d1), Leads(d2, e, d1)
    PROVE  RunBack(Append(stack, e), d2)
<1>1. PICK docs : PathBack(docs, stack, d1)
  BY DEF RunBack
<1> DEFINE n == Len(stack)
           more == [i \in 1..n + 2 |-> IF i = n + 2 THEN d2 ELSE docs[i]]
           stack2 == Append(stack, e)
<1>2. n \in Nat /\ Len(stack2) = n + 1 /\ stack2[n + 1] = e /\ \A i \in 1..n : stack2[i] = stack[i]
  BY DEF Edits
<1> HIDE DEF stack2
<1>3. PathBack(more, stack2, d2)
  <2>1. more \in [1..n + 2 -> Doc] /\ more[n + 2] = d2
    BY <1>1, <1>2 DEF PathBack
  <2>2. ASSUME NEW i \in 1..n + 1 PROVE Leads(more[i + 1], stack2[i], more[i])
    <3>1. CASE i = n + 1
      BY <1>1, <1>2, <3>1 DEF PathBack
    <3>2. CASE i \in 1..n
      BY <1>1, <1>2, <3>2 DEF PathBack
    <3>3. QED
      BY <1>2, <3>1, <3>2
  <2>3. 1..Len(stack2) + 1 = 1..n + 2 /\ 1..Len(stack2) = 1..n + 1 /\ Len(stack2) + 1 = n + 2
    BY <1>2
  <2> HIDE DEF more, n
  <2>4. QED
    BY <2>1, <2>2, <2>3 DEF PathBack
<1>4. QED
  BY <1>3 DEF RunBack, stack2

LEMMA TopAndRest ==
    ASSUME NEW stack \in Edits, stack # <<>>
    PROVE  /\ Len(stack) \in Nat \ {0} /\ Top(stack) = stack[Len(stack)] /\ Top(stack) \in EditType
           /\ Popped(stack) \in Edits /\ Len(Popped(stack)) = Len(stack) - 1
           /\ \A i \in 1..Len(stack) - 1 : Popped(stack)[i] = stack[i]
<1>1. Len(stack) \in Nat \ {0}
  BY EmptySeq DEF Edits
<1>2. Top(stack) = stack[Len(stack)] /\ Top(stack) \in EditType
  BY <1>1 DEF Edits, Top
<1>3. /\ stack \in Seq(EditType) /\ 1 \in 1..Len(stack) + 1 /\ Len(stack) - 1 \in (1 - 1)..Len(stack)
      /\ \A i \in 1..Len(stack) : stack[i] \in EditType
  BY <1>1 DEF Edits
<1>4. /\ Popped(stack) \in Edits /\ Len(Popped(stack)) = Len(stack) - 1
      /\ \A i \in 1..Len(stack) - 1 : Popped(stack)[i] = stack[i]
  <2> DEFINE k == Len(stack) - 1
  <2>1. k \in Nat /\ \A i \in 1..k : stack[i] \in EditType
    BY <1>1, <1>3
  <2>2. Popped(stack) = SubSeq(stack, 1, k)
    BY DEF Popped
  <2> HIDE DEF k
  <2>3. /\ SubSeq(stack, 1, k) \in Seq(EditType) /\ Len(SubSeq(stack, 1, k)) = IF 1 <= k THEN k - 1 + 1 ELSE 0
        /\ \A i \in 1..k - 1 + 1 : SubSeq(stack, 1, k)[i] = stack[1 + i - 1]
    BY <2>1, SubSeqProperties
  <2>4. Len(SubSeq(stack, 1, k)) = k /\ \A i \in 1..k : SubSeq(stack, 1, k)[i] = stack[i]
    <3>1. \A i \in 1..k : i \in 1..k - 1 + 1 /\ 1 + i - 1 = i
      BY <2>1
    <3>2. QED
      BY <2>1, <2>3, <3>1
  <2>5. QED
    BY <2>2, <2>3, <2>4 DEF Edits, k
<1>5. QED
  BY <1>1, <1>2, <1>4

LEMMA RunPop ==
    ASSUME NEW stack \in Edits, stack # <<>>, NEW d0, NEW d1, Run(stack, d0, d1)
    PROVE  \E d \in Doc : Run(Popped(stack), d0, d) /\ Leads(d, Top(stack), d1)
<1>1. PICK docs : Path(docs, stack, d0, d1)
  BY DEF Run
<1> DEFINE n == Len(stack)
           rest == Popped(stack)
           less == [i \in 1..n |-> docs[i]]
<1>2. /\ n \in Nat \ {0} /\ Top(stack) = stack[n] /\ Len(rest) = n - 1
      /\ \A i \in 1..n - 1 : rest[i] = stack[i]
  BY TopAndRest
<1> HIDE DEF rest
<1>3. Path(less, rest, d0, docs[n]) /\ docs[n] \in Doc
  BY <1>1, <1>2 DEF Path
<1>4. Leads(docs[n], Top(stack), d1)
  BY <1>1, <1>2 DEF Path
<1>5. QED
  BY <1>3, <1>4 DEF Run, rest

LEMMA RunBackPop ==
    ASSUME NEW stack \in Edits, stack # <<>>, NEW d, RunBack(stack, d)
    PROVE  \E f \in Doc : RunBack(Popped(stack), f) /\ Leads(d, Top(stack), f)
<1>1. PICK docs : PathBack(docs, stack, d)
  BY DEF RunBack
<1> DEFINE n == Len(stack)
           rest == Popped(stack)
           less == [i \in 1..n |-> docs[i]]
<1>2. /\ n \in Nat \ {0} /\ Top(stack) = stack[n] /\ Len(rest) = n - 1
      /\ \A i \in 1..n - 1 : rest[i] = stack[i]
  BY TopAndRest
<1> HIDE DEF rest
<1>3. PathBack(less, rest, docs[n]) /\ docs[n] \in Doc
  BY <1>1, <1>2 DEF PathBack
<1>4. Leads(d, Top(stack), docs[n])
  BY <1>1, <1>2 DEF PathBack
<1>5. QED
  BY <1>3, <1>4 DEF RunBack, rest

(* What a push does to the history, typed and, when the edit leads on from  *)
(* where the history ends, true.                                            *)
LEMMA MergedType ==
    ASSUME NEW previous \in EditType, NEW e \in EditType, NEW kind
    PROVE  Merged(previous, e, kind) \in EditType
<1>1. /\ previous.inserted \in Doc /\ previous.removed \in Doc /\ e.inserted \in Doc
      /\ e.removed \in Doc /\ e.at \in Nat /\ e.after \in Selected
  BY DEF EditType
<1>2. /\ Join(previous.inserted, e.inserted) \in Doc /\ Join(e.removed, previous.removed) \in Doc
      /\ Join(previous.removed, e.removed) \in Doc
  BY <1>1, Joined, Zenon
<1>3. CASE kind = "typing"
  <2>1. Merged(previous, e, kind)
            = [previous EXCEPT !.inserted = Join(previous.inserted, e.inserted), !.after = e.after]
    BY <1>3 DEF Merged, Join
  <2>2. QED
    BY <1>1, <1>2, <2>1 DEF EditType
<1>4. CASE kind # "typing" /\ e.at + Len(e.removed) = previous.at
  <2>1. Merged(previous, e, kind)
            = [previous EXCEPT !.at = e.at, !.removed = Join(e.removed, previous.removed), !.after = e.after]
    BY <1>4 DEF Merged, Join
  <2>2. QED
    BY <1>1, <1>2, <2>1 DEF EditType
<1>5. CASE kind # "typing" /\ e.at + Len(e.removed) # previous.at
  <2>1. Merged(previous, e, kind)
            = [previous EXCEPT !.removed = Join(previous.removed, e.removed), !.after = e.after]
    BY <1>5 DEF Merged, Join
  <2>2. QED
    BY <1>1, <1>2, <2>1 DEF EditType
<1>6. QED
  BY <1>3, <1>4, <1>5

LEMMA TopReplaced ==
    ASSUME NEW stack \in Edits, stack # <<>>, NEW m \in EditType
    PROVE  /\ [stack EXCEPT ![Len(stack)] = m] = Append(Popped(stack), m)
           /\ Append(Popped(stack), m) \in Edits /\ Len(Append(Popped(stack), m)) = Len(stack)
<1> DEFINE n == Len(stack)
           rest == Popped(stack)
           one == [stack EXCEPT ![n] = m]
           two == Append(rest, m)
<1>1. /\ n \in Nat \ {0} /\ rest \in Edits /\ Len(rest) = n - 1
      /\ \A i \in 1..n - 1 : rest[i] = stack[i]
  BY TopAndRest
<1> HIDE DEF rest
<1>2. two \in Edits /\ Len(two) = n /\ two[n] = m /\ \A i \in 1..n - 1 : two[i] = rest[i]
  BY <1>1 DEF Edits
<1>3. one \in Edits /\ Len(one) = n /\ one[n] = m /\ \A i \in 1..n - 1 : one[i] = stack[i]
  BY <1>1 DEF Edits
<1>4. one = two
  <2> HIDE DEF one, two
  <2>1. \A i \in 1..n : one[i] = two[i]
    <3>1. ASSUME NEW i \in 1..n PROVE one[i] = two[i]
      <4>1. CASE i = n
        BY <1>2, <1>3, <4>1
      <4>2. CASE i \in 1..n - 1
        BY <1>1, <1>2, <1>3, <4>2
      <4>3. QED
        BY <1>1, <4>1, <4>2
    <3>2. QED
      BY <3>1
  <2>2. QED
    BY <1>2, <1>3, <2>1, SeqEqual DEF Edits
<1>5. QED
  BY <1>2, <1>4 DEF rest

LEMMA PushKeepsTypes ==
    ASSUME undoStack \in Edits, NEW e \in EditType, NEW kind, PushEdit(e, kind),
           coalescing \in BOOLEAN
    PROVE  /\ undoStack' \in Edits /\ Len(undoStack') <= Len(undoStack) + 1
           /\ redoStack' = <<>> /\ lastKind' = kind /\ coalescing' \in BOOLEAN
<1>1. redoStack' = <<>> /\ lastKind' = kind
  BY DEF PushEdit
<1>2. CASE /\ coalescing /\ lastKind = kind
           /\ undoStack # <<>> /\ CanMerge(Top(undoStack), e, kind)
  <2>1. undoStack' = [undoStack EXCEPT ![Len(undoStack)] = Merged(@, e, kind)] /\ coalescing' = coalescing
    BY <1>2, Zenon DEF PushEdit
  <2>2. Top(undoStack) = undoStack[Len(undoStack)] /\ Top(undoStack) \in EditType /\ Len(undoStack) \in Nat
    BY <1>2, TopAndRest
  <2>3. Merged(Top(undoStack), e, kind) \in EditType
    BY <2>2, MergedType
  <2>4. undoStack' = [undoStack EXCEPT ![Len(undoStack)] = Merged(Top(undoStack), e, kind)]
    BY <2>1, <2>2
  <2>5. undoStack' \in Edits /\ Len(undoStack') = Len(undoStack)
    BY <1>2, <2>3, <2>4, TopReplaced, Zenon
  <2>6. QED
    BY <1>1, <2>1, <2>2, <2>5
<1>3. CASE ~(/\ coalescing /\ lastKind = kind
             /\ undoStack # <<>> /\ CanMerge(Top(undoStack), e, kind))
  <2>1. undoStack' = Append(undoStack, e) /\ coalescing' = TRUE
    BY <1>3, Zenon DEF PushEdit
  <2>2. QED
    BY <1>1, <2>1 DEF Edits
<1>4. QED
  BY <1>2, <1>3

LEMMA PushRuns ==
    ASSUME undoStack \in Edits, NEW e \in EditType, NEW kind, PushEdit(e, kind),
           NEW d0, NEW d1, NEW d2, Run(undoStack, d0, d1), Leads(d1, e, d2)
    PROVE  Run(undoStack', d0, d2) /\ RunBack(redoStack', d2)
<1>1. d2 \in Doc
  BY LeadsBothWays, Zenon
<1>2. RunBack(redoStack', d2)
  BY <1>1, RunEmpty DEF PushEdit
<1>3. CASE /\ coalescing /\ lastKind = kind
           /\ undoStack # <<>> /\ CanMerge(Top(undoStack), e, kind)
  <2>1. undoStack' = [undoStack EXCEPT ![Len(undoStack)] = Merged(@, e, kind)]
    BY <1>3, Zenon DEF PushEdit
  <2>2. Top(undoStack) = undoStack[Len(undoStack)] /\ Top(undoStack) \in EditType /\ Len(undoStack) \in Nat
    BY <1>3, TopAndRest
  <2>3. PICK d \in Doc : Run(Popped(undoStack), d0, d) /\ Leads(d, Top(undoStack), d1)
    BY <1>3, RunPop, Zenon
  <2>4. /\ Merged(Top(undoStack), e, kind) \in EditType
        /\ Leads(d, Merged(Top(undoStack), e, kind), d2)
    BY <1>3, <2>2, <2>3, MergedLeads, Zenon
  <2>5. undoStack' = Append(Popped(undoStack), Merged(Top(undoStack), e, kind))
    <3>1. undoStack' = [undoStack EXCEPT ![Len(undoStack)] = Merged(Top(undoStack), e, kind)]
      BY <2>1, <2>2
    <3>2. QED
      BY <1>3, <2>4, <3>1, TopReplaced, Zenon
  <2>6. Popped(undoStack) \in Edits
    BY <1>3, TopAndRest, Zenon
  <2>7. QED
    BY <1>1, <1>2, <2>3, <2>4, <2>5, <2>6, RunAppend, Zenon
<1>4. CASE ~(/\ coalescing /\ lastKind = kind
             /\ undoStack # <<>> /\ CanMerge(Top(undoStack), e, kind))
  <2>1. undoStack' = Append(undoStack, e)
    BY <1>4, Zenon DEF PushEdit
  <2>2. QED
    BY <1>1, <1>2, <2>1, RunAppend, Zenon
<1>5. QED
  BY <1>3, <1>4
-----------------------------------------------------------------------------
(* The invariant.                                                           *)
EditKinds == {"typing", "deleting", "atomic"}
Composing(c, doc) ==
    /\ c \in [open : {TRUE}, at : Nat, removed : Doc, before : Selected, from : Nat, to : Nat]
    /\ c.from <= c.to /\ c.to <= Len(doc)

FieldShape ==
    /\ text \in Doc /\ base \in Doc /\ selection \in Selected
    /\ composition = NoComposition \/ Composing(composition, text)
    /\ undoStack \in Edits /\ redoStack \in Edits /\ lastKind \in EditKinds \cup {"none"}
    /\ coalescing \in BOOLEAN /\ disabled \in BOOLEAN /\ drag \in BOOLEAN
    /\ crashed \in BOOLEAN /\ interrupted \in BOOLEAN

Whole ==
    /\ LastOf(selection) <= Len(text)
    /\ composition.open => composition.at = composition.from /\ Within(composition.before, Committed)

FieldTruth ==
    ~interrupted => /\ ~crashed /\ Whole
                    /\ Run(undoStack, base, Committed) /\ RunBack(redoStack, Committed)

Grows == Len(undoStack') + Len(redoStack') <= Len(undoStack) + Len(redoStack) + 1
Keeps == FieldShape' /\ FieldTruth' /\ Grows

LEMMA CommittedIsDoc ==
    ASSUME FieldShape, FieldTruth, ~interrupted
    PROVE  /\ Committed \in Doc
           /\ composition.open =>
                /\ composition \in [open : {TRUE}, at : Nat, removed : Doc, before : Selected, from : Nat, to : Nat]
                /\ composition.from <= composition.to /\ composition.to <= Len(text)
                /\ composition.at = composition.from /\ Within(composition.before, Committed)
                /\ Committed = Splice(text, composition.from, composition.to, composition.removed)
           /\ ~composition.open => Committed = text
<1>1. CASE composition = NoComposition
  BY <1>1 DEF NoComposition, Committed, FieldShape
<1>2. CASE Composing(composition, text)
  <2>1. /\ composition.open /\ composition.at = composition.from /\ composition.from \in Nat
        /\ composition.to \in Nat /\ composition.removed \in Doc /\ text \in Doc
        /\ composition.from <= composition.to /\ composition.to <= Len(text)
        /\ Within(composition.before, Committed)
    BY <1>2 DEF Composing, FieldShape, FieldTruth, Whole
  <2>2. Committed = Splice(text, composition.from, composition.to, composition.removed)
    BY <2>1 DEF Committed
  <2>3. Committed \in Doc
    BY <2>1, <2>2, SplicedAt, Zenon
  <2>4. QED
    BY <1>2, <2>1, <2>2, <2>3 DEF Composing
<1>3. QED
  BY <1>1, <1>2 DEF FieldShape

(* A step that tells the history of an edit and ends the composition.       *)
LEMMA PushKeeps ==
    ASSUME FieldShape, FieldTruth, NEW e \in EditType, NEW kind \in EditKinds, PushEdit(e, kind),
           composition' = NoComposition, text' \in Doc, selection' \in Selected, base' = base,
           interrupted' \in BOOLEAN, crashed' = crashed, disabled' \in BOOLEAN, drag' \in BOOLEAN,
           ~interrupted' => ~interrupted /\ Leads(Committed, e, text') /\ LastOf(selection') <= Len(text')
    PROVE  Keeps
<1>1. undoStack \in Edits /\ redoStack \in Edits /\ coalescing \in BOOLEAN
  BY Zenon DEF FieldShape
<1>2. /\ undoStack' \in Edits /\ Len(undoStack') <= Len(undoStack) + 1
      /\ redoStack' = <<>> /\ lastKind' = kind /\ coalescing' \in BOOLEAN
  BY <1>1, PushKeepsTypes, Zenon
<1>3. FieldShape'
  <2>1. redoStack' \in Edits
    BY <1>2 DEF Edits
  <2>2. QED
    BY <1>2, <2>1, Zenon DEF FieldShape
<1>4. Grows
  BY <1>1, <1>2 DEF Grows, Edits
<1>5. ASSUME ~interrupted'
      PROVE  /\ ~crashed' /\ Whole'
             /\ Run(undoStack', base', Committed') /\ RunBack(redoStack', Committed')
  <2>1. ~interrupted /\ Leads(Committed, e, text') /\ LastOf(selection') <= Len(text')
    BY <1>5, Zenon
  <2>2. Committed' = text' /\ ~(composition.open)'
    BY DEF Committed, NoComposition
  <2>3. ~crashed /\ Run(undoStack, base, Committed)
    BY <2>1, Zenon DEF FieldTruth
  <2>4. Run(undoStack', base, text') /\ RunBack(redoStack', text')
    BY <1>1, <2>1, <2>3, PushRuns, Zenon
  <2>5. Whole'
    BY <2>1, <2>2, Zenon DEF Whole
  <2>6. QED
    BY <2>2, <2>3, <2>4, <2>5, Zenon
<1>6. FieldTruth'
  BY <1>5, Zenon DEF FieldTruth
<1>7. QED
  BY <1>3, <1>4, <1>6, Zenon DEF Keeps

(* A step that leaves the history where it was.                             *)
LEMMA StayKeeps ==
    ASSUME FieldShape, FieldTruth, UNCHANGED <<undoStack, redoStack, base>>,
           lastKind' \in EditKinds \cup {"none"}, coalescing' \in BOOLEAN,
           composition' = NoComposition \/ Composing(composition', text'),
           text' \in Doc, selection' \in Selected, interrupted' \in BOOLEAN, crashed' \in BOOLEAN,
           disabled' \in BOOLEAN, drag' \in BOOLEAN,
           ~interrupted' => ~interrupted /\ crashed' = crashed /\ Whole' /\ Committed' = Committed
    PROVE  Keeps
<1>1. FieldShape'
  BY Zenon DEF FieldShape
<1>2. Grows
  BY DEF Grows, FieldShape, Edits
<1>3. FieldTruth'
  BY Zenon DEF FieldTruth
<1>4. QED
  BY <1>1, <1>2, <1>3, Zenon DEF Keeps
-----------------------------------------------------------------------------
(* The actions.                                                             *)
LEMMA FitIsDoc ==
    ASSUME text \in Doc, NEW new \in Doc, NEW from \in Nat, NEW to \in Nat, from <= to, to <= Len(text)
    PROVE  Fit(new, from, to) \in Doc
<1> DEFINE kept == Len(text) - (to - from)
           k == IF Len(new) <= MaxLength - kept THEN Len(new) ELSE MaxLength - kept
<1>1. kept \in Nat /\ MaxLength \in Nat /\ Len(new) \in Nat
  BY FieldAssumption DEF Doc
<1>2. CASE kept >= MaxLength
  BY <1>2 DEF Fit, Doc
<1>3. CASE ~(kept >= MaxLength)
  <2>1. k \in Nat /\ k <= Len(new)
    BY <1>1, <1>3
  <2>2. Fit(new, from, to) = SubSeq(new, 1, k)
    BY <1>3 DEF Fit
  <2> HIDE DEF k
  <2>3. \A i \in 1..k : new[i] \in Characters
    BY <1>1, <2>1 DEF Doc
  <2>4. SubSeq(new, 1, k) \in Doc
    BY <2>1, <2>3, SubSeqProperties DEF Doc
  <2>5. QED
    BY <2>2, <2>4
<1>4. QED
  BY <1>2, <1>3

LEMMA ClampIsIn ==
    ASSUME text \in Doc, NEW at \in Nat
    PROVE  Clamp(at) \in Nat /\ Clamp(at) <= Len(text) /\ Clamp(at) <= at
           /\ \A from \in Nat : from <= at /\ from <= Len(text) => from <= Clamp(at)
  BY DEF Clamp, Doc

LEMMA SpanIsIn ==
    ASSUME NEW sel \in Selected
    PROVE  /\ FirstOf(sel) \in Nat /\ LastOf(sel) \in Nat /\ FirstOf(sel) <= LastOf(sel)
           /\ Span(sel) \in Selected /\ LastOf(Span(sel)) = LastOf(sel)
  BY DEF Selected, FirstOf, LastOf, Span

LEMMA CursorIsIn ==
    ASSUME NEW at \in Nat
    PROVE  Cursor(at) \in Selected /\ LastOf(Cursor(at)) = at
  BY DEF Selected, LastOf, Cursor

LEMMA ReplaceKeeps ==
    ASSUME FieldShape, FieldTruth, NEW start \in Nat, NEW end \in Nat, NEW new \in Doc, NEW kind \in EditKinds,
           Replace(start, end, new, kind)
    PROVE  Keeps
<1> DEFINE from == Clamp(start)
           to == IF end < from THEN from ELSE Clamp(end)
           insertion == Fit(new, from, to)
           caret == from + Len(insertion)
           e == Edit(from, Slice(text, from, to), insertion, Span(selection), Cursor(caret))
<1>1. /\ text' = Splice(text, from, to, insertion) /\ selection' = Cursor(caret) /\ PushEdit(e, kind)
      /\ composition' = NoComposition /\ interrupted' = (interrupted \/ composition.open)
      /\ disabled' = disabled /\ drag' = drag /\ crashed' = crashed /\ base' = base
  BY Zenon DEF Replace
<1>2. /\ text \in Doc /\ selection \in Selected /\ disabled \in BOOLEAN /\ drag \in BOOLEAN
      /\ interrupted \in BOOLEAN
  BY Zenon DEF FieldShape
<1>3. from \in Nat /\ to \in Nat /\ from <= to /\ to <= Len(text)
  BY <1>2, ClampIsIn
<1> HIDE DEF from, to
<1>4. insertion \in Doc /\ Len(insertion) \in Nat
  BY <1>2, <1>3, FitIsDoc DEF Doc
<1> HIDE DEF insertion
<1>5. caret \in Nat /\ Cursor(caret) \in Selected /\ LastOf(Cursor(caret)) = caret
  BY <1>3, <1>4, CursorIsIn
<1>6. /\ Splice(text, from, to, insertion) \in Doc
      /\ caret <= Len(Splice(text, from, to, insertion))
  BY <1>2, <1>3, <1>4, SplicedAt
<1>7. Slice(text, from, to) \in Doc /\ Splice(text, from, to, Slice(text, from, to)) = text
  BY <1>2, <1>3, SpliceSame
<1>8. Span(selection) \in Selected /\ LastOf(Span(selection)) = LastOf(selection)
  BY <1>2, SpanIsIn
<1>9. Within(Cursor(caret), text')
  BY <1>1, <1>5, <1>6 DEF Within
<1>10. e \in EditType
  BY <1>3, <1>4, <1>5, <1>7, <1>8 DEF Edit, EditType
<1> HIDE DEF caret
<1>11. ASSUME ~interrupted'
       PROVE  ~interrupted /\ Leads(Committed, e, text') /\ LastOf(selection') <= Len(text')
  <2>1. ~interrupted /\ ~composition.open
    BY <1>1, <1>11, Zenon
  <2>2. Committed = text
    BY <2>1, CommittedIsDoc, Zenon
  <2>3. Within(Span(selection), text)
    <3>1. LastOf(selection) <= Len(text)
      BY <2>1, Zenon DEF FieldTruth, Whole
    <3>2. QED
      BY <1>8, <3>1 DEF Within
  <2>4. Leads(text, e, text')
    <3>1. Leads(Splice(text, from, to, Slice(text, from, to)), e, Splice(text, from, to, insertion))
      BY <1>1, <1>2, <1>3, <1>4, <1>5, <1>7, <1>8, <1>9, <2>3, SpliceLeads, Zenon
    <3>2. QED
      BY <1>1, <1>7, <3>1, Zenon
  <2>5. QED
    BY <1>1, <1>9, <2>1, <2>2, <2>4, Zenon DEF Within
<1>12. interrupted' \in BOOLEAN
  BY <1>1, Zenon
<1> HIDE DEF e
<1>13. QED
  BY <1>1, <1>2, <1>5, <1>6, <1>10, <1>11, <1>12, PushKeeps, Zenon

LEMMA SelectionKeeps ==
    ASSUME FieldShape, FieldTruth, NEW new \in Doc, NEW kind \in EditKinds, ReplaceSelection(new, kind)
    PROVE  Keeps
<1>1. FirstOf(selection) \in Nat /\ LastOf(selection) \in Nat
  BY SpanIsIn DEF FieldShape
<1>2. QED
  BY <1>1, ReplaceKeeps, Zenon DEF ReplaceSelection

LEMMA WordsAreDocs ==
    /\ <<LineBreak>> \in Doc /\ <<>> \in Doc
    /\ \A new \in Inserted : new \in Doc
    /\ \A new \in Composed : new \in Doc
  BY FieldAssumption DEF Doc

LEMMA CutKeeps ==
    ASSUME FieldShape, FieldTruth, Cut
    PROVE  Keeps
<1>1. CASE LastOf(selection) <= Len(text)
  BY <1>1, SelectionKeeps, WordsAreDocs, Zenon DEF Cut, EditKinds
<1>2. CASE ~(LastOf(selection) <= Len(text))
  <2>1. /\ crashed' = TRUE
        /\ UNCHANGED <<text, selection, composition, undoStack, redoStack, lastKind, coalescing>>
        /\ UNCHANGED <<disabled, drag, base, interrupted>>
    BY <1>2, Zenon DEF Cut, historyOfEdits, ghosts
  <2>2. interrupted
    BY <1>2, Zenon DEF FieldTruth, Whole
  <2>3. interrupted' /\ crashed' \in BOOLEAN /\ interrupted' \in BOOLEAN
    BY <2>1, <2>2, Zenon
  <2>4. /\ UNCHANGED <<undoStack, redoStack, base>> /\ lastKind' \in EditKinds \cup {"none"}
        /\ coalescing' \in BOOLEAN /\ disabled' \in BOOLEAN /\ drag' \in BOOLEAN
        /\ composition' = NoComposition \/ Composing(composition', text')
        /\ text' \in Doc /\ selection' \in Selected
    BY <2>1, Zenon DEF FieldShape
  <2>5. QED
    BY <2>3, <2>4, StayKeeps, Zenon
<1>3. QED
  BY <1>1, <1>2

LEMMA BackspaceKeeps ==
    ASSUME FieldShape, FieldTruth, Backspace
    PROVE  Keeps
<1>1. CASE HasSelection
  BY <1>1, SelectionKeeps, WordsAreDocs, Zenon DEF Backspace, EditKinds
<1>2. CASE ~HasSelection
  <2>1. PICK start \in 0..Clamp(selection.head) : Replace(start, selection.head, <<>>, "deleting")
    BY <1>2, Zenon DEF Backspace
  <2>2. selection.head \in Nat /\ start \in Nat
    BY DEF FieldShape, Selected
  <2>3. QED
    BY <2>1, <2>2, ReplaceKeeps, WordsAreDocs, Zenon DEF EditKinds
<1>3. QED
  BY <1>1, <1>2

LEMMA DeleteKeeps ==
    ASSUME FieldShape, FieldTruth, Delete
    PROVE  Keeps
<1>1. CASE HasSelection
  BY <1>1, SelectionKeeps, WordsAreDocs, Zenon DEF Delete, EditKinds
<1>2. CASE ~HasSelection
  <2>1. PICK end \in selection.head..Len(text) : Replace(selection.head, end, <<>>, "deleting")
    BY <1>2, Zenon DEF Delete
  <2>2. selection.head \in Nat
    BY DEF FieldShape, Selected
  <2>3. end \in Nat
    BY <2>2
  <2>4. QED
    BY <2>1, <2>2, <2>3, ReplaceKeeps, WordsAreDocs, Zenon DEF EditKinds
<1>3. QED
  BY <1>1, <1>2

LEMMA TextResetKeeps ==
    ASSUME FieldShape, FieldTruth, ~crashed, NEW new \in Doc, ResetText(new)
    PROVE  Keeps
<1>1. /\ text' = Fit(new, 0, Len(text)) /\ base' = text' /\ selection' = Cursor(Len(text'))
      /\ composition' = NoComposition /\ undoStack' = <<>> /\ redoStack' = <<>>
      /\ lastKind' = "none" /\ coalescing' = FALSE /\ interrupted' = FALSE
      /\ disabled' = disabled /\ drag' = drag /\ crashed' = crashed
  BY DEF ResetText
<1>2. text' \in Doc /\ Len(text') \in Nat
  <2>1. Len(text) \in Nat /\ text \in Doc
    BY DEF FieldShape, Doc
  <2>2. QED
    BY <1>1, <2>1, FitIsDoc DEF Doc
<1>3. Cursor(Len(text')) \in Selected /\ LastOf(Cursor(Len(text'))) = Len(text')
  BY <1>2, CursorIsIn
<1>4. FieldShape'
  <2>1. <<>> \in Edits
    BY DEF Edits
  <2>2. QED
    BY <1>1, <1>2, <1>3, <2>1, Zenon DEF FieldShape
<1>5. Grows
  BY <1>1 DEF Grows, FieldShape, Edits
<1>6. FieldTruth'
  <2>1. Committed' = text' /\ ~(composition.open)'
    BY <1>1 DEF Committed, NoComposition
  <2>2. Run(undoStack', base', Committed') /\ RunBack(redoStack', Committed')
    BY <1>1, <1>2, <2>1, RunEmpty
  <2>3. Whole'
    BY <1>1, <1>2, <1>3, <2>1 DEF Whole
  <2>4. QED
    BY <1>1, <2>2, <2>3, Zenon DEF FieldTruth
<1>7. QED
  BY <1>4, <1>5, <1>6 DEF Keeps

(* Undo and redo.                                                           *)
LEMMA UndoKeeps ==
    ASSUME FieldShape, FieldTruth, Undo
    PROVE  Keeps
<1> DEFINE edit == Top(undoStack)
<1>1. /\ undoStack # <<>> /\ undoStack' = Popped(undoStack) /\ redoStack' = Append(redoStack, edit)
      /\ lastKind' = "none" /\ coalescing' = FALSE
      /\ interrupted' = (interrupted \/ composition.open)
      /\ IF edit.at + Len(edit.inserted) <= Len(text)
         THEN /\ text' = Splice(text, edit.at, edit.at + Len(edit.inserted), edit.removed)
              /\ selection' = edit.before /\ composition' = NoComposition /\ UNCHANGED crashed
         ELSE /\ crashed' = TRUE /\ UNCHANGED <<text, selection, composition>>
      /\ UNCHANGED <<disabled, drag, base>>
  BY Zenon DEF Undo, RunHistory
<1>2. /\ text \in Doc /\ selection \in Selected /\ undoStack \in Edits /\ redoStack \in Edits
      /\ interrupted \in BOOLEAN /\ crashed \in BOOLEAN
  BY Zenon DEF FieldShape
<1>3. /\ Len(undoStack) \in Nat \ {0} /\ edit \in EditType
      /\ Popped(undoStack) \in Edits /\ Len(Popped(undoStack)) = Len(undoStack) - 1
  BY <1>1, <1>2, TopAndRest
<1> HIDE DEF edit
<1>4. edit.at \in Nat /\ edit.inserted \in Doc /\ edit.removed \in Doc /\ edit.before \in Selected
  BY <1>3 DEF EditType
<1>5. Append(redoStack, edit) \in Edits /\ Len(Append(redoStack, edit)) = Len(redoStack) + 1 /\ Len(redoStack) \in Nat
  BY <1>2, <1>3 DEF Edits
<1>6. Grows
  BY <1>1, <1>3, <1>5 DEF Grows
<1>7. FieldShape'
  <2>1. /\ undoStack' \in Edits /\ redoStack' \in Edits /\ lastKind' \in EditKinds \cup {"none"}
        /\ coalescing' \in BOOLEAN /\ interrupted' \in BOOLEAN /\ base' \in Doc
        /\ disabled' \in BOOLEAN /\ drag' \in BOOLEAN
    BY <1>1, <1>3, <1>5, Zenon DEF FieldShape
  <2>2. CASE edit.at + Len(edit.inserted) <= Len(text)
    <3>1. Splice(text, edit.at, edit.at + Len(edit.inserted), edit.removed) \in Doc
      <4>1. /\ edit.at + Len(edit.inserted) \in Nat /\ edit.at <= edit.at + Len(edit.inserted)
        BY <1>4 DEF Doc
      <4>2. QED
        BY <1>2, <1>4, <2>2, <4>1, SplicedAt, Zenon
    <3>2. QED
      BY <1>1, <1>2, <1>4, <2>1, <2>2, <3>1, Zenon DEF FieldShape
  <2>3. CASE ~(edit.at + Len(edit.inserted) <= Len(text))
    BY <1>1, <2>1, <2>3, Zenon DEF FieldShape
  <2>4. QED
    BY <2>2, <2>3
<1>8. ASSUME ~interrupted'
      PROVE  /\ ~crashed' /\ Whole'
             /\ Run(undoStack', base', Committed') /\ RunBack(redoStack', Committed')
  <2>1. ~interrupted /\ ~composition.open
    BY <1>1, <1>8, Zenon
  <2>2. Committed = text
    BY <2>1, CommittedIsDoc, Zenon
  <2>3. ~crashed /\ Run(undoStack, base, text) /\ RunBack(redoStack, text)
    BY <2>1, <2>2, Zenon DEF FieldTruth
  <2>4. PICK d \in Doc : Run(Popped(undoStack), base, d) /\ Leads(d, edit, text)
    BY <1>1, <1>2, <2>3, RunPop, Zenon DEF edit
  <2>5. /\ edit.at + Len(edit.inserted) <= Len(text)
        /\ Splice(text, edit.at, edit.at + Len(edit.inserted), edit.removed) = d
    BY <1>3, <2>4, LeadsBothWays, Zenon
  <2>6. text' = d /\ selection' = edit.before /\ composition' = NoComposition /\ crashed' = crashed /\ base' = base
    BY <1>1, <2>5, Zenon
  <2>7. Committed' = d /\ ~(composition.open)'
    BY <2>6 DEF Committed, NoComposition
  <2>8. Whole'
    <3>1. Within(edit.before, d)
      BY <2>4, Zenon DEF Leads
    <3>2. QED
      BY <2>6, <2>7, <3>1, Zenon DEF Whole, Within
  <2>9. RunBack(Append(redoStack, edit), d)
    BY <1>2, <1>3, <2>3, <2>4, RunBackAppend, Zenon
  <2>10. QED
    BY <1>1, <2>3, <2>4, <2>6, <2>7, <2>8, <2>9, Zenon
<1>9. FieldTruth'
  BY <1>8, Zenon DEF FieldTruth
<1>10. QED
  BY <1>6, <1>7, <1>9, Zenon DEF Keeps

LEMMA RedoKeeps ==
    ASSUME FieldShape, FieldTruth, Redo
    PROVE  Keeps
<1> DEFINE edit == Top(redoStack)
<1>1. /\ redoStack # <<>> /\ redoStack' = Popped(redoStack) /\ undoStack' = Append(undoStack, edit)
      /\ lastKind' = "none" /\ coalescing' = FALSE
      /\ interrupted' = (interrupted \/ composition.open)
      /\ IF edit.at + Len(edit.removed) <= Len(text)
         THEN /\ text' = Splice(text, edit.at, edit.at + Len(edit.removed), edit.inserted)
              /\ selection' = edit.after /\ composition' = NoComposition /\ UNCHANGED crashed
         ELSE /\ crashed' = TRUE /\ UNCHANGED <<text, selection, composition>>
      /\ UNCHANGED <<disabled, drag, base>>
  BY Zenon DEF Redo, RunHistory
<1>2. /\ text \in Doc /\ selection \in Selected /\ undoStack \in Edits /\ redoStack \in Edits
      /\ interrupted \in BOOLEAN /\ crashed \in BOOLEAN
  BY Zenon DEF FieldShape
<1>3. /\ Len(redoStack) \in Nat \ {0} /\ edit \in EditType
      /\ Popped(redoStack) \in Edits /\ Len(Popped(redoStack)) = Len(redoStack) - 1
  BY <1>1, <1>2, TopAndRest
<1> HIDE DEF edit
<1>4. edit.at \in Nat /\ edit.inserted \in Doc /\ edit.removed \in Doc /\ edit.after \in Selected
  BY <1>3 DEF EditType
<1>5. Append(undoStack, edit) \in Edits /\ Len(Append(undoStack, edit)) = Len(undoStack) + 1 /\ Len(undoStack) \in Nat
  BY <1>2, <1>3 DEF Edits
<1>6. Grows
  BY <1>1, <1>3, <1>5 DEF Grows
<1>7. FieldShape'
  <2>1. /\ undoStack' \in Edits /\ redoStack' \in Edits /\ lastKind' \in EditKinds \cup {"none"}
        /\ coalescing' \in BOOLEAN /\ interrupted' \in BOOLEAN /\ base' \in Doc
        /\ disabled' \in BOOLEAN /\ drag' \in BOOLEAN
    BY <1>1, <1>3, <1>5, Zenon DEF FieldShape
  <2>2. CASE edit.at + Len(edit.removed) <= Len(text)
    <3>1. Splice(text, edit.at, edit.at + Len(edit.removed), edit.inserted) \in Doc
      <4>1. /\ edit.at + Len(edit.removed) \in Nat /\ edit.at <= edit.at + Len(edit.removed)
        BY <1>4 DEF Doc
      <4>2. QED
        BY <1>2, <1>4, <2>2, <4>1, SplicedAt, Zenon
    <3>2. QED
      BY <1>1, <1>2, <1>4, <2>1, <2>2, <3>1, Zenon DEF FieldShape
  <2>3. CASE ~(edit.at + Len(edit.removed) <= Len(text))
    BY <1>1, <2>1, <2>3, Zenon DEF FieldShape
  <2>4. QED
    BY <2>2, <2>3
<1>8. ASSUME ~interrupted'
      PROVE  /\ ~crashed' /\ Whole'
             /\ Run(undoStack', base', Committed') /\ RunBack(redoStack', Committed')
  <2>1. ~interrupted /\ ~composition.open
    BY <1>1, <1>8, Zenon
  <2>2. Committed = text
    BY <2>1, CommittedIsDoc, Zenon
  <2>3. ~crashed /\ Run(undoStack, base, text) /\ RunBack(redoStack, text)
    BY <2>1, <2>2, Zenon DEF FieldTruth
  <2>4. PICK f \in Doc : RunBack(Popped(redoStack), f) /\ Leads(text, edit, f)
    BY <1>1, <1>2, <2>3, RunBackPop, Zenon DEF edit
  <2>5. /\ edit.at + Len(edit.removed) <= Len(text)
        /\ Splice(text, edit.at, edit.at + Len(edit.removed), edit.inserted) = f
    BY <1>3, <2>4, LeadsBothWays, Zenon
  <2>6. text' = f /\ selection' = edit.after /\ composition' = NoComposition /\ crashed' = crashed /\ base' = base
    BY <1>1, <2>5, Zenon
  <2>7. Committed' = f /\ ~(composition.open)'
    BY <2>6 DEF Committed, NoComposition
  <2>8. Whole'
    <3>1. Within(edit.after, f)
      BY <2>4, Zenon DEF Leads
    <3>2. QED
      BY <2>6, <2>7, <3>1, Zenon DEF Whole, Within
  <2>9. Run(Append(undoStack, edit), base, f)
    BY <1>2, <1>3, <2>3, <2>4, RunAppend, Zenon
  <2>10. QED
    BY <1>1, <2>3, <2>4, <2>6, <2>7, <2>8, <2>9, Zenon
<1>9. FieldTruth'
  BY <1>8, Zenon DEF FieldTruth
<1>10. QED
  BY <1>6, <1>7, <1>9, Zenon DEF Keeps

(* The input method.                                                        *)
LEMMA RangeIsIn ==
    ASSUME FieldShape, NEW range \in Ranges \cup {ImeRange}
    PROVE  range.from \in Nat /\ range.to \in Nat /\ range.from <= range.to /\ range.to <= Len(text)
<1>1. text \in Doc /\ Len(text) \in Nat /\ selection \in Selected
  BY DEF FieldShape, Doc
<1>2. CASE range \in Ranges
  BY <1>1, <1>2 DEF Ranges
<1>3. CASE range = ImeRange /\ composition.open
  <2>1. Composing(composition, text)
    BY <1>3 DEF FieldShape, NoComposition
  <2>2. QED
    BY <1>3, <2>1 DEF Composing, ImeRange
<1>4. CASE range = ImeRange /\ ~composition.open
  <2>1. FirstOf(selection) \in Nat /\ LastOf(selection) \in Nat /\ FirstOf(selection) <= LastOf(selection)
    BY <1>1, SpanIsIn
  <2>2. /\ Clamp(FirstOf(selection)) \in Nat /\ Clamp(LastOf(selection)) \in Nat
        /\ Clamp(FirstOf(selection)) <= Clamp(LastOf(selection)) /\ Clamp(LastOf(selection)) <= Len(text)
    BY <1>1, <2>1 DEF Clamp
  <2>3. range = [from |-> Clamp(FirstOf(selection)), to |-> Clamp(LastOf(selection))]
    BY <1>4, Zenon DEF ImeRange
  <2>4. QED
    BY <2>2, <2>3
<1>5. QED
  BY <1>2, <1>3, <1>4

LEMMA OpenIsComposing ==
    ASSUME FieldShape, composition.open
    PROVE  /\ composition.at \in Nat /\ composition.removed \in Doc /\ composition.before \in Selected
           /\ composition.from \in Nat /\ composition.to \in Nat
           /\ composition.from <= composition.to /\ composition.to <= Len(text)
           /\ ImeRange.from = composition.from /\ ImeRange.to = composition.to
<1>1. Composing(composition, text)
  BY DEF FieldShape, NoComposition
<1>2. QED
  BY <1>1 DEF Composing, ImeRange

LEMMA CommitKeeps ==
    ASSUME FieldShape, FieldTruth, NEW range \in Ranges \cup {ImeRange}, NEW new \in Doc, Commit(range, new)
    PROVE  Keeps
<1> DEFINE insertion == Fit(new, range.from, range.to)
           at == IF composition.at <= range.from THEN composition.at ELSE range.from
           end == range.from + Len(insertion)
           e == Edit(at, composition.removed, Slice(text', at, end), composition.before, Cursor(end))
<1>1. /\ composition.open /\ text' = Splice(text, range.from, range.to, insertion)
      /\ selection' = Cursor(end) /\ PushEdit(e, "atomic") /\ composition' = NoComposition
      /\ interrupted' = (interrupted \/ Strays(range))
      /\ disabled' = disabled /\ drag' = drag /\ crashed' = crashed /\ base' = base
  BY Zenon DEF Commit
<1>2. /\ text \in Doc /\ disabled \in BOOLEAN /\ drag \in BOOLEAN /\ interrupted \in BOOLEAN
  BY Zenon DEF FieldShape
<1>3. range.from \in Nat /\ range.to \in Nat /\ range.from <= range.to /\ range.to <= Len(text)
  BY RangeIsIn, Zenon
<1>4. /\ composition.at \in Nat /\ composition.removed \in Doc /\ composition.before \in Selected
      /\ ImeRange.from = composition.from /\ ImeRange.to = composition.to
  BY <1>1, OpenIsComposing, Zenon
<1>5. insertion \in Doc /\ Len(insertion) \in Nat
  <2>1. insertion \in Doc
    BY <1>2, <1>3, FitIsDoc
  <2> HIDE DEF insertion
  <2>2. QED
    BY <2>1 DEF Doc
<1> HIDE DEF insertion
<1>6. /\ text' \in Doc /\ end <= Len(text') /\ end \in Nat /\ at \in Nat /\ at <= end
  <2>1. /\ Splice(text, range.from, range.to, insertion) \in Doc
        /\ end <= Len(Splice(text, range.from, range.to, insertion))
    BY <1>2, <1>3, <1>5, SplicedAt, Zenon
  <2>2. QED
    BY <1>1, <1>3, <1>4, <1>5, <2>1
<1>7. Cursor(end) \in Selected /\ LastOf(Cursor(end)) = end
  BY <1>6, CursorIsIn
<1>8. Slice(text', at, end) \in Doc
  <2> HIDE DEF at, end
  <2>1. QED
    BY <1>6, SpliceSame
<1>9. e \in EditType
  BY <1>4, <1>6, <1>7, <1>8 DEF Edit, EditType
<1>10. ASSUME ~interrupted'
       PROVE  ~interrupted /\ Leads(Committed, e, text') /\ LastOf(selection') <= Len(text')
  <2>1. ~interrupted /\ range = ImeRange
    BY <1>1, <1>10, Zenon DEF Strays
  <2>2. /\ composition.at = composition.from /\ Within(composition.before, Committed)
        /\ Committed = Splice(text, composition.from, composition.to, composition.removed)
    BY <1>1, <2>1, CommittedIsDoc, Zenon
  <2>3. composition.at = range.from /\ Committed = Splice(text, range.from, range.to, composition.removed)
    BY <1>4, <2>1, <2>2, Zenon
  <2>4. at = range.from
    BY <1>3, <2>3
  <2>5. Slice(text', range.from, range.from + Len(insertion)) = insertion
    <3>1. Slice(Splice(text, range.from, range.to, insertion), range.from, range.from + Len(insertion)) = insertion
      BY <1>2, <1>3, <1>5, SliceAgain
    <3>2. QED
      BY <1>1, <3>1, Zenon
  <2>6. e = Edit(range.from, composition.removed, insertion, composition.before, Cursor(end))
    BY <2>4, <2>5
  <2>7. Within(Cursor(end), text')
    BY <1>6, <1>7 DEF Within
  <2>8. Leads(Committed, e, text')
    <3> HIDE DEF e, end
    <3>1. /\ Within(composition.before, Splice(text, range.from, range.to, composition.removed))
          /\ Within(Cursor(end), Splice(text, range.from, range.to, insertion))
      BY <1>1, <2>2, <2>3, <2>7, Zenon
    <3>2. Leads(Splice(text, range.from, range.to, composition.removed),
                Edit(range.from, composition.removed, insertion, composition.before, Cursor(end)),
                Splice(text, range.from, range.to, insertion))
      BY <1>2, <1>3, <1>4, <1>5, <1>7, <3>1, SpliceLeads, Zenon
    <3>3. QED
      BY <1>1, <2>3, <2>6, <3>2, Zenon
  <2>9. QED
    BY <1>1, <1>6, <1>7, <2>1, <2>8
<1>11. interrupted' \in BOOLEAN
  BY <1>1, Zenon
<1> HIDE DEF e, end
<1>12. QED
  BY <1>1, <1>2, <1>6, <1>7, <1>9, <1>10, <1>11, PushKeeps, Zenon DEF EditKinds

LEMMA TypeKeeps ==
    ASSUME FieldShape, FieldTruth, NEW range \in Ranges \cup {ImeRange}, NEW new \in Doc, Type(range, new)
    PROVE  Keeps
<1>1. CASE Replace(range.from, range.to, new, "typing")
  <2>1. range.from \in Nat /\ range.to \in Nat
    BY RangeIsIn, Zenon
  <2>2. QED
    BY <1>1, <2>1, ReplaceKeeps, Zenon DEF EditKinds
<1>2. CASE Commit(range, new)
  BY <1>2, CommitKeeps, Zenon
<1>3. QED
  BY <1>1, <1>2, Zenon DEF Type

(* A composition that ends with nothing.                                    *)
LEMMA EndKeeps ==
    ASSUME FieldShape, FieldTruth, NEW ended, ended.at \in Nat, ended.removed \in Doc,
           ended.before \in Selected, NEW sel \in Selected, EndEmpty(ended, sel), selection' = sel,
           text' \in Doc, base' = base, interrupted' \in BOOLEAN, crashed' = crashed,
           disabled' \in BOOLEAN, drag' \in BOOLEAN,
           ~interrupted' => /\ ~interrupted /\ LastOf(sel) <= Len(text')
                            /\ Leads(Committed, Edit(ended.at, ended.removed, <<>>, ended.before, sel), text')
                            /\ ended.removed = <<>> => Committed = text'
    PROVE  Keeps
<1>1. composition' = NoComposition
  BY DEF EndEmpty
<1>2. CASE ended.removed # <<>>
  <2> DEFINE e == Edit(ended.at, ended.removed, <<>>, ended.before, sel)
  <2>1. PushEdit(e, "atomic")
    BY <1>2, Zenon DEF EndEmpty
  <2>2. e \in EditType
    BY WordsAreDocs DEF Edit, EditType
  <2>3. ~interrupted' => ~interrupted /\ Leads(Committed, e, text') /\ LastOf(selection') <= Len(text')
    BY Zenon
  <2> HIDE DEF e
  <2>4. selection' \in Selected /\ "atomic" \in EditKinds
    BY DEF EditKinds
  <2>5. QED
    BY <1>1, <2>1, <2>2, <2>3, <2>4, PushKeeps, Zenon
<1>3. CASE ended.removed = <<>>
  <2>1. UNCHANGED <<undoStack, redoStack, lastKind, coalescing>>
    BY <1>3, Zenon DEF EndEmpty, historyOfEdits
  <2>2. /\ UNCHANGED <<undoStack, redoStack, base>> /\ lastKind' \in EditKinds \cup {"none"}
        /\ coalescing' \in BOOLEAN /\ crashed' \in BOOLEAN
    BY <2>1, Zenon DEF FieldShape
  <2>3. Committed' = text' /\ ~(composition.open)'
    BY <1>1 DEF Committed, NoComposition
  <2>4. ~interrupted' => ~interrupted /\ crashed' = crashed /\ Whole' /\ Committed' = Committed
    BY <1>3, <2>3, Zenon DEF Whole
  <2>5. selection' \in Selected
    OBVIOUS
  <2>6. QED
    BY <1>1, <2>2, <2>4, <2>5, StayKeeps, Zenon
<1>4. QED
  BY <1>2, <1>3

LEMMA BegunIs ==
    ASSUME FieldShape, FieldTruth, NEW range \in Ranges \cup {ImeRange}
    PROVE  /\ Begun(range) \in [open : {TRUE}, at : Nat, removed : Doc, before : Selected, from : Nat, to : Nat]
           /\ ~interrupted /\ ~Strays(range) =>
                /\ Begun(range).at = range.from
                /\ Committed = Splice(text, range.from, range.to, Begun(range).removed)
                /\ Within(Begun(range).before, Committed)
<1>1. range.from \in Nat /\ range.to \in Nat /\ range.from <= range.to /\ range.to <= Len(text) /\ text \in Doc
  BY RangeIsIn DEF FieldShape
<1>2. CASE composition.open
  <2>1. Begun(range) = composition
    BY <1>2 DEF Begun
  <2>2. Composing(composition, text)
    BY <1>2 DEF FieldShape, NoComposition
  <2>3. ASSUME ~interrupted, ~Strays(range)
        PROVE  /\ composition.at = range.from
               /\ Committed = Splice(text, range.from, range.to, composition.removed)
               /\ Within(composition.before, Committed)
    <3>1. range.from = composition.from /\ range.to = composition.to
      BY <1>2, <2>3, OpenIsComposing, Zenon DEF Strays
    <3>2. QED
      BY <1>2, <2>3, <3>1, CommittedIsDoc, Zenon
  <2>4. QED
    BY <2>1, <2>2, <2>3, Zenon DEF Composing
<1>3. CASE ~composition.open
  <2>1. Begun(range) = [open |-> TRUE, at |-> range.from, removed |-> Slice(text, range.from, range.to),
                        before |-> Span(selection), from |-> range.from, to |-> range.to]
    BY <1>3 DEF Begun
  <2>2. /\ Slice(text, range.from, range.to) \in Doc
        /\ Splice(text, range.from, range.to, Slice(text, range.from, range.to)) = text
    BY <1>1, SpliceSame
  <2>3. Span(selection) \in Selected /\ LastOf(Span(selection)) = LastOf(selection)
    BY SpanIsIn DEF FieldShape
  <2>4. Begun(range) \in [open : {TRUE}, at : Nat, removed : Doc, before : Selected, from : Nat, to : Nat]
    BY <1>1, <2>1, <2>2, <2>3
  <2>5. /\ Begun(range).at = range.from /\ Begun(range).before = Span(selection)
        /\ Begun(range).removed = Slice(text, range.from, range.to)
    BY <2>1
  <2>6. ASSUME ~interrupted PROVE Committed = text /\ Within(Span(selection), Committed)
    <3>1. Committed = text /\ LastOf(selection) <= Len(text)
      BY <1>3, <2>6, CommittedIsDoc, Zenon DEF FieldTruth, Whole
    <3>2. QED
      BY <2>3, <3>1 DEF Within
  <2>7. QED
    BY <2>2, <2>4, <2>5, <2>6, Zenon
<1>4. QED
  BY <1>2, <1>3

LEMMA MarkKeeps ==
    ASSUME FieldShape, FieldTruth, NEW range \in Ranges \cup {ImeRange}, NEW new \in Doc, Mark(range, new)
    PROVE  Keeps
<1> DEFINE insertion == Fit(new, range.from, range.to)
           end == range.from + Len(insertion)
           begun == Begun(range)
<1>1. /\ text' = Splice(text, range.from, range.to, insertion)
      /\ \E a \in range.from..end, h \in range.from..end :
            a <= h /\ selection' = [anchor |-> a, head |-> h]
      /\ IF insertion = <<>>
         THEN EndEmpty(begun, selection')
         ELSE /\ composition' = [begun EXCEPT !.from = range.from, !.to = end]
              /\ UNCHANGED historyOfEdits
      /\ interrupted' = (interrupted \/ Strays(range))
      /\ disabled' = disabled /\ drag' = drag /\ crashed' = crashed /\ base' = base
  BY Zenon DEF Mark
<1>2. /\ text \in Doc /\ disabled \in BOOLEAN /\ drag \in BOOLEAN /\ interrupted \in BOOLEAN
      /\ crashed \in BOOLEAN
  BY Zenon DEF FieldShape
<1>3. range.from \in Nat /\ range.to \in Nat /\ range.from <= range.to /\ range.to <= Len(text)
  BY RangeIsIn, Zenon
<1>4. begun \in [open : {TRUE}, at : Nat, removed : Doc, before : Selected, from : Nat, to : Nat]
  BY BegunIs, Zenon
<1>5. ~interrupted /\ ~Strays(range) =>
        /\ begun.at = range.from /\ Committed = Splice(text, range.from, range.to, begun.removed)
        /\ Within(begun.before, Committed)
  BY BegunIs, Zenon
<1> HIDE DEF begun
<1>6. begun.at \in Nat /\ begun.removed \in Doc /\ begun.before \in Selected
  BY <1>4
<1>7. insertion \in Doc /\ Len(insertion) \in Nat
  <2>1. insertion \in Doc
    BY <1>2, <1>3, FitIsDoc
  <2> HIDE DEF insertion
  <2>2. QED
    BY <2>1 DEF Doc
<1> HIDE DEF insertion
<1>8. /\ text' \in Doc /\ end \in Nat /\ end <= Len(text')
  <2>1. /\ Splice(text, range.from, range.to, insertion) \in Doc
        /\ end <= Len(Splice(text, range.from, range.to, insertion))
    BY <1>2, <1>3, <1>7, SplicedAt, Zenon
  <2>2. QED
    BY <1>1, <1>3, <1>7, <2>1
<1>9. PICK sel \in Selected : selection' = sel /\ LastOf(sel) <= Len(text')
  <2>1. PICK a \in range.from..end, h \in range.from..end : a <= h /\ selection' = [anchor |-> a, head |-> h]
    BY <1>1, Zenon
  <2>2. a \in Nat /\ h \in Nat /\ a <= h /\ h <= Len(text')
    <3>1. Len(text') \in Nat
      BY <1>8 DEF Doc
    <3>2. QED
      BY <1>3, <1>8, <2>1, <3>1
  <2>3. [anchor |-> a, head |-> h] \in Selected /\ LastOf([anchor |-> a, head |-> h]) = h
    BY <2>2 DEF Selected, LastOf
  <2>4. QED
    BY <2>1, <2>2, <2>3
<1>10. ASSUME ~interrupted' PROVE ~interrupted /\ ~Strays(range)
  BY <1>1, <1>10, Zenon
<1>11. interrupted' \in BOOLEAN
  BY <1>1, Zenon
<1>12. CASE insertion = <<>>
  <2>1. EndEmpty(begun, sel)
    BY <1>1, <1>9, <1>12, Zenon
  <2>2. ASSUME ~interrupted'
        PROVE  /\ ~interrupted /\ LastOf(sel) <= Len(text')
               /\ Leads(Committed, Edit(begun.at, begun.removed, <<>>, begun.before, sel), text')
               /\ begun.removed = <<>> => Committed = text'
    <3>1. /\ ~interrupted /\ begun.at = range.from
          /\ Committed = Splice(text, range.from, range.to, begun.removed)
          /\ Within(begun.before, Committed)
      BY <1>5, <1>10, <2>2, Zenon
    <3>2. text' = Splice(text, range.from, range.to, <<>>)
      BY <1>1, <1>12, Zenon
    <3>3. /\ Within(begun.before, Splice(text, range.from, range.to, begun.removed))
          /\ Within(sel, Splice(text, range.from, range.to, <<>>))
      BY <1>9, <3>1, <3>2, Zenon DEF Within
    <3>4. Leads(Splice(text, range.from, range.to, begun.removed),
                Edit(range.from, begun.removed, <<>>, begun.before, sel),
                Splice(text, range.from, range.to, <<>>))
      BY <1>2, <1>3, <1>6, <3>3, SpliceLeads, WordsAreDocs, Zenon
    <3>5. QED
      BY <1>9, <3>1, <3>2, <3>4, Zenon
  <2>3. QED
    BY <1>1, <1>2, <1>6, <1>8, <1>9, <1>11, <2>1, <2>2, EndKeeps, Zenon
<1>13. CASE insertion # <<>>
  <2>1. /\ composition' = [begun EXCEPT !.from = range.from, !.to = end]
        /\ UNCHANGED <<undoStack, redoStack, lastKind, coalescing>>
    BY <1>1, <1>13, Zenon DEF historyOfEdits
  <2>2. /\ composition' \in [open : {TRUE}, at : Nat, removed : Doc, before : Selected, from : Nat, to : Nat]
        /\ composition'.from = range.from /\ composition'.to = end /\ composition'.at = begun.at
        /\ composition'.removed = begun.removed /\ composition'.before = begun.before
        /\ composition'.open = TRUE
    BY <1>3, <1>4, <1>8, <2>1
  <2>3. Composing(composition', text')
    <3>1. range.from <= end
      BY <1>3, <1>7
    <3> HIDE DEF end
    <3>2. QED
      BY <1>8, <2>2, <3>1, Zenon DEF Composing
  <2>4. ASSUME ~interrupted'
        PROVE  ~interrupted /\ crashed' = crashed /\ Whole' /\ Committed' = Committed
    <3>1. /\ ~interrupted /\ begun.at = range.from
          /\ Committed = Splice(text, range.from, range.to, begun.removed)
          /\ Within(begun.before, Committed)
      BY <1>5, <1>10, <2>4, Zenon
    <3>2. Committed' = Splice(text', range.from, end, begun.removed)
      BY <2>2, <3>1 DEF Committed
    <3>3. SplicesAgain(text, range.from, range.to, insertion, begun.removed)
      BY ONLY <1>2, <1>3, <1>6, <1>7, SpliceTwice, Zenon
    <3>4. Committed' = Committed
      BY <1>1, <3>1, <3>2, <3>3, Zenon DEF SplicesAgain
    <3>5. Whole'
      BY <1>9, <2>2, <3>1, <3>4, Zenon DEF Whole
    <3>6. QED
      BY <1>1, <3>1, <3>4, <3>5, Zenon
  <2>5. /\ UNCHANGED <<undoStack, redoStack, base>> /\ lastKind' \in EditKinds \cup {"none"}
        /\ coalescing' \in BOOLEAN /\ crashed' \in BOOLEAN /\ selection' \in Selected
    BY <1>1, <1>9, <2>1, Zenon DEF FieldShape
  <2>6. QED
    BY <1>1, <1>2, <1>8, <1>11, <2>3, <2>4, <2>5, StayKeeps, Zenon
<1>14. QED
  BY <1>12, <1>13

LEMMA UnmarkKeeps ==
    ASSUME FieldShape, FieldTruth, Unmark
    PROVE  Keeps
<1> DEFINE at == IF composition.at <= composition.to THEN composition.at ELSE composition.to
           inserted == Slice(text, at, composition.to)
           e == Edit(at, composition.removed, inserted, composition.before, Span(selection))
<1>1. /\ composition.open /\ composition' = NoComposition
      /\ IF inserted # composition.removed
         THEN PushEdit(e, "atomic")
         ELSE UNCHANGED <<undoStack, redoStack, lastKind, coalescing>>
      /\ UNCHANGED <<text, selection, disabled, drag, crashed, base, interrupted>>
  BY Zenon DEF Unmark, historyOfEdits, ghosts
<1>2. /\ text \in Doc /\ disabled \in BOOLEAN /\ drag \in BOOLEAN /\ interrupted \in BOOLEAN
      /\ crashed \in BOOLEAN /\ selection \in Selected
  BY Zenon DEF FieldShape
<1>3. /\ composition.at \in Nat /\ composition.removed \in Doc /\ composition.before \in Selected
      /\ composition.from \in Nat /\ composition.to \in Nat
      /\ composition.from <= composition.to /\ composition.to <= Len(text)
  BY <1>1, OpenIsComposing, Zenon
<1>4. at \in Nat /\ at <= composition.to
  BY <1>3
<1>5. Span(selection) \in Selected /\ LastOf(Span(selection)) = LastOf(selection)
  BY <1>2, SpanIsIn
<1>6. inserted \in Doc /\ e \in EditType
  <2>1. inserted \in Doc
    <3> HIDE DEF at
    <3>1. QED
      BY <1>2, <1>3, <1>4, SpliceSame
  <2> HIDE DEF inserted
  <2>2. QED
    BY <1>3, <1>4, <1>5, <2>1 DEF Edit, EditType
<1>7. ASSUME ~interrupted
      PROVE  /\ at = composition.from
             /\ Committed = Splice(text, composition.from, composition.to, composition.removed)
             /\ Within(composition.before, Committed) /\ Within(Span(selection), text)
             /\ Splice(text, composition.from, composition.to, inserted) = text
  <2>1. /\ composition.at = composition.from /\ Within(composition.before, Committed)
        /\ Committed = Splice(text, composition.from, composition.to, composition.removed)
    BY <1>1, <1>7, CommittedIsDoc, Zenon
  <2>2. LastOf(selection) <= Len(text)
    BY <1>7, Zenon DEF FieldTruth, Whole
  <2>3. Within(Span(selection), text)
    BY <1>5, <2>2 DEF Within
  <2>4. at = composition.from
    BY <1>3, <2>1
  <2>5. Splice(text, composition.from, composition.to, Slice(text, composition.from, composition.to)) = text
    BY <1>2, <1>3, SpliceSame
  <2>6. QED
    BY <2>1, <2>3, <2>4, <2>5
<1> HIDE DEF at, inserted
<1>8. Committed' = text' /\ ~(composition.open)'
  BY <1>1 DEF Committed, NoComposition
<1>9. CASE inserted # composition.removed
  <2>1. PushEdit(e, "atomic")
    BY <1>1, <1>9, Zenon
  <2>2. ASSUME ~interrupted'
        PROVE  ~interrupted /\ Leads(Committed, e, text') /\ LastOf(selection') <= Len(text')
    <3>1. ~interrupted /\ LastOf(selection) <= Len(text)
      BY <1>1, <2>2, Zenon DEF FieldTruth, Whole
    <3>2. /\ Within(composition.before, Splice(text, composition.from, composition.to, composition.removed))
          /\ Within(Span(selection), Splice(text, composition.from, composition.to, inserted))
      BY <1>7, <3>1, Zenon
    <3>3. Leads(Splice(text, composition.from, composition.to, composition.removed),
                Edit(composition.from, composition.removed, inserted, composition.before, Span(selection)),
                Splice(text, composition.from, composition.to, inserted))
      BY <1>2, <1>3, <1>5, <1>6, <3>2, SpliceLeads, Zenon
    <3>4. QED
      BY <1>1, <1>7, <3>1, <3>3, Zenon
  <2> HIDE DEF e
  <2>3. QED
    BY <1>1, <1>2, <1>6, <2>1, <2>2, PushKeeps, Zenon DEF EditKinds
<1>10. CASE inserted = composition.removed
  <2>1. UNCHANGED <<undoStack, redoStack, lastKind, coalescing>>
    BY <1>1, <1>10, Zenon
  <2>2. /\ UNCHANGED <<undoStack, redoStack, base>> /\ lastKind' \in EditKinds \cup {"none"}
        /\ coalescing' \in BOOLEAN
    BY <1>1, <2>1, Zenon DEF FieldShape
  <2>3. ASSUME ~interrupted'
        PROVE  ~interrupted /\ crashed' = crashed /\ Whole' /\ Committed' = Committed
    <3>1. ~interrupted /\ LastOf(selection) <= Len(text)
      BY <1>1, <2>3, Zenon DEF FieldTruth, Whole
    <3>2. Committed = text
      BY <1>7, <1>10, <3>1, Zenon
    <3>3. QED
      BY <1>1, <1>8, <3>1, <3>2, Zenon DEF Whole
  <2>4. QED
    BY <1>1, <1>2, <2>2, <2>3, StayKeeps, Zenon
<1>11. QED
  BY <1>9, <1>10

LEMMA CancelKeeps ==
    ASSUME FieldShape, FieldTruth, CancelComposition
    PROVE  Keeps
<1> DEFINE sel == Cursor(composition.from)
<1>1. /\ composition.open /\ text' = Splice(text, composition.from, composition.to, <<>>)
      /\ selection' = sel /\ EndEmpty(composition, sel)
      /\ UNCHANGED <<disabled, drag, crashed, base, interrupted>>
  BY Zenon DEF CancelComposition, ghosts
<1>2. /\ text \in Doc /\ disabled \in BOOLEAN /\ drag \in BOOLEAN /\ interrupted \in BOOLEAN
  BY Zenon DEF FieldShape
<1>3. /\ composition.at \in Nat /\ composition.removed \in Doc /\ composition.before \in Selected
      /\ composition.from \in Nat /\ composition.to \in Nat
      /\ composition.from <= composition.to /\ composition.to <= Len(text)
  BY <1>1, OpenIsComposing, Zenon
<1>4. sel \in Selected /\ LastOf(sel) = composition.from
  BY <1>3, CursorIsIn
<1> HIDE DEF sel
<1>5. text' \in Doc /\ composition.from <= Len(text')
  <2>1. /\ Splice(text, composition.from, composition.to, <<>>) \in Doc
        /\ composition.from + Len(<<>>) <= Len(Splice(text, composition.from, composition.to, <<>>))
    BY <1>2, <1>3, SplicedAt, WordsAreDocs, Zenon
  <2>2. QED
    BY <1>1, <1>3, <2>1
<1>6. ASSUME ~interrupted'
      PROVE  /\ ~interrupted /\ LastOf(sel) <= Len(text')
             /\ Leads(Committed, Edit(composition.at, composition.removed, <<>>, composition.before, sel), text')
             /\ composition.removed = <<>> => Committed = text'
  <2>1. ~interrupted
    BY <1>1, <1>6, Zenon
  <2>2. /\ composition.at = composition.from /\ Within(composition.before, Committed)
        /\ Committed = Splice(text, composition.from, composition.to, composition.removed)
    BY <1>1, <2>1, CommittedIsDoc, Zenon
  <2>3. LastOf(sel) <= Len(text')
    BY <1>4, <1>5
  <2>4. /\ Within(composition.before, Splice(text, composition.from, composition.to, composition.removed))
        /\ Within(sel, Splice(text, composition.from, composition.to, <<>>))
    BY <1>1, <2>2, <2>3, Zenon DEF Within
  <2>5. Leads(Splice(text, composition.from, composition.to, composition.removed),
              Edit(composition.from, composition.removed, <<>>, composition.before, sel),
              Splice(text, composition.from, composition.to, <<>>))
    BY <1>2, <1>3, <1>4, <2>4, SpliceLeads, WordsAreDocs, Zenon
  <2>6. QED
    BY <1>1, <2>1, <2>2, <2>3, <2>5, Zenon
<1>7. QED
  BY <1>1, <1>2, <1>3, <1>4, <1>5, <1>6, EndKeeps, Zenon

(* What only moves the selection.                                           *)
LEMMA SelectKeeps ==
    ASSUME FieldShape, FieldTruth, NEW sel \in Selected, Select(sel),
           ~interrupted => LastOf(sel) <= Len(text), coalescing' \in BOOLEAN, drag' \in BOOLEAN
    PROVE  Keeps /\ UNCHANGED <<undoStack, redoStack>>
<1>1. /\ selection' = sel
      /\ UNCHANGED <<text, composition, undoStack, redoStack, lastKind, disabled, crashed, base, interrupted>>
  BY Zenon DEF Select, ghosts
<1>2. Committed' = Committed
  BY <1>1, Zenon DEF Committed
<1>3. /\ text' \in Doc /\ disabled' \in BOOLEAN /\ interrupted' \in BOOLEAN
      /\ crashed' \in BOOLEAN /\ selection' \in Selected /\ lastKind' \in EditKinds \cup {"none"}
      /\ composition' = NoComposition \/ Composing(composition', text')
  BY <1>1, Zenon DEF FieldShape
<1>4. ASSUME ~interrupted'
      PROVE  ~interrupted /\ crashed' = crashed /\ Whole' /\ Committed' = Committed
  BY <1>1, <1>2, <1>4, Zenon DEF FieldTruth, Whole
<1>5. QED
  BY <1>1, <1>3, <1>4, StayKeeps, Zenon

LEMMA SelectionsAreIn ==
    ASSUME FieldShape, FieldTruth, NEW sel \in Selections
    PROVE  sel \in Selected /\ (~interrupted => LastOf(sel) <= Len(text))
<1>1. selection \in Selected /\ Len(text) \in Nat
  BY DEF FieldShape, Doc
<1>2. sel \in Selected /\ sel.head \in 0..Len(text) /\ (sel.anchor \in 0..Len(text) \/ sel.anchor = selection.anchor)
  BY <1>1 DEF Selections, Selected
<1>3. ASSUME ~interrupted PROVE LastOf(sel) <= Len(text)
  <2>1. LastOf(selection) <= Len(text)
    BY <1>3, Zenon DEF FieldTruth, Whole
  <2>2. selection.anchor <= Len(text)
    BY <1>1, <2>1 DEF LastOf, Selected
  <2>3. QED
    BY <1>1, <1>2, <2>2 DEF LastOf, Selected
<1>4. QED
  BY <1>2, <1>3

LEMMA MovesKeep ==
    ASSUME FieldShape, FieldTruth,
           (\E sel \in Selections : MoveCaret(sel) \/ MouseDown(sel) \/ MouseDrag(sel)) \/ MouseUp
    PROVE  Keeps /\ UNCHANGED <<undoStack, redoStack>>
<1>1. coalescing \in BOOLEAN /\ drag \in BOOLEAN
  BY Zenon DEF FieldShape
<1>2. ASSUME NEW sel \in Selections, MoveCaret(sel) \/ MouseDown(sel) \/ MouseDrag(sel)
      PROVE  Keeps /\ UNCHANGED <<undoStack, redoStack>>
  <2>1. Select(sel) /\ coalescing' \in BOOLEAN /\ drag' \in BOOLEAN
    <3>1. CASE MoveCaret(sel)
      BY <1>1, <3>1, Zenon DEF MoveCaret
    <3>2. CASE MouseDown(sel)
      BY <1>1, <3>2, Zenon DEF MouseDown
    <3>3. CASE MouseDrag(sel)
      BY <1>1, <3>3, Zenon DEF MouseDrag
    <3>4. QED
      BY <1>2, <3>1, <3>2, <3>3, Zenon
  <2>2. sel \in Selected /\ (~interrupted => LastOf(sel) <= Len(text))
    BY SelectionsAreIn, Zenon
  <2>3. QED
    BY <2>1, <2>2, SelectKeeps, Zenon
<1>3. ASSUME MouseUp PROVE Keeps /\ UNCHANGED <<undoStack, redoStack>>
  <2>1. Select(selection) /\ coalescing' \in BOOLEAN /\ drag' \in BOOLEAN
    BY <1>1, <1>3, Zenon DEF MouseUp
  <2>2. selection \in Selected /\ (~interrupted => LastOf(selection) <= Len(text))
    BY Zenon DEF FieldShape, FieldTruth, Whole
  <2>3. QED
    BY <2>1, <2>2, SelectKeeps, Zenon
<1>4. QED
  BY <1>2, <1>3, Zenon

LEMMA DisabledKeeps ==
    ASSUME FieldShape, FieldTruth, SetDisabled
    PROVE  Keeps
<1>1. /\ disabled' = ~disabled
      /\ UNCHANGED <<text, selection, composition, undoStack, redoStack, lastKind, coalescing>>
      /\ UNCHANGED <<drag, crashed, base, interrupted>>
  BY Zenon DEF SetDisabled, historyOfEdits, ghosts
<1>2. Committed' = Committed
  BY <1>1, Zenon DEF Committed
<1>3. /\ text' \in Doc /\ drag' \in BOOLEAN /\ interrupted' \in BOOLEAN /\ coalescing' \in BOOLEAN
      /\ crashed' \in BOOLEAN /\ selection' \in Selected /\ lastKind' \in EditKinds \cup {"none"}
      /\ composition' = NoComposition \/ Composing(composition', text')
  BY <1>1, Zenon DEF FieldShape
<1>4. disabled' \in BOOLEAN
  BY <1>1, Zenon
<1>5. ASSUME ~interrupted'
      PROVE  ~interrupted /\ crashed' = crashed /\ Whole' /\ Committed' = Committed
  BY <1>1, <1>2, <1>5, Zenon DEF FieldTruth, Whole
<1>6. QED
  BY <1>1, <1>3, <1>4, <1>5, StayKeeps, Zenon

LEMMA EditsKeep ==
    ASSUME FieldShape, FieldTruth, EditOrCompose
    PROVE  Keeps
<1>1. ASSUME NEW new \in Inserted, Paste(new) \/ SetText(new) PROVE Keeps
  <2>1. new \in Doc /\ Len(text) \in Nat
    BY WordsAreDocs DEF FieldShape, Doc
  <2>2. CASE Paste(new)
    BY <2>1, <2>2, SelectionKeeps, Zenon DEF Paste, EditKinds
  <2>3. CASE SetText(new)
    BY <2>1, <2>3, ReplaceKeeps, Zenon DEF SetText, EditKinds
  <2>4. QED
    BY <1>1, <2>2, <2>3, Zenon
<1>2. ASSUME Confirm PROVE Keeps
  BY <1>2, SelectionKeeps, WordsAreDocs, Zenon DEF Confirm, EditKinds
<1>3. ASSUME NEW range \in Ranges \cup {ImeRange}, NEW new \in Doc, Type(range, new) \/ Mark(range, new)
      PROVE  Keeps
  BY <1>3, TypeKeeps, MarkKeeps, Zenon
<1>4. QED
  BY <1>1, <1>2, <1>3, CutKeeps, BackspaceKeeps, DeleteKeeps, UnmarkKeeps, CancelKeeps, WordsAreDocs,
     Zenon DEF EditOrCompose

FieldInv ==
    /\ FieldShape /\ FieldTruth
    /\ edits \in Nat /\ edits <= MaxFieldEdits /\ Len(undoStack) + Len(redoStack) <= edits

LEMMA FieldStarts == FieldInit => FieldInv
<1> SUFFICES ASSUME FieldInit PROVE FieldInv
  OBVIOUS
<1>1. <<>> \in Doc /\ <<>> \in Edits /\ Cursor(0) \in Selected /\ LastOf(Cursor(0)) = 0
  BY CursorIsIn DEF Doc, Edits
<1>2. FieldShape
  BY <1>1, Zenon DEF FieldInit, FieldShape
<1>3. Run(<<>>, <<>>, <<>>) /\ RunBack(<<>>, <<>>)
  BY <1>1, RunEmpty, Zenon
<1>4. Committed = <<>> /\ ~composition.open
  BY DEF FieldInit, Committed, NoComposition
<1>5. Whole
  BY <1>1, <1>4 DEF FieldInit, Whole
<1>6. FieldTruth
  BY <1>3, <1>4, <1>5, Zenon DEF FieldInit, FieldTruth
<1>7. edits \in Nat /\ edits <= MaxFieldEdits /\ Len(undoStack) + Len(redoStack) <= edits
  BY FieldAssumption DEF FieldInit
<1>8. QED
  BY <1>2, <1>6, <1>7 DEF FieldInv

LEMMA HistoryCount ==
    ASSUME FieldShape, Undo \/ Redo
    PROVE  Len(undoStack') + Len(redoStack') = Len(undoStack) + Len(redoStack)
<1>1. undoStack \in Edits /\ redoStack \in Edits /\ Len(undoStack) \in Nat /\ Len(redoStack) \in Nat
  BY DEF FieldShape, Edits
<1>2. CASE Undo
  <2>1. undoStack # <<>> /\ undoStack' = Popped(undoStack) /\ redoStack' = Append(redoStack, Top(undoStack))
    BY <1>2, Zenon DEF Undo
  <2>2. Len(undoStack') = Len(undoStack) - 1
    BY <1>1, <2>1, TopAndRest
  <2>3. Len(redoStack') = Len(redoStack) + 1
    BY <1>1, <2>1 DEF Edits
  <2>4. QED
    BY <1>1, <2>2, <2>3
<1>3. CASE Redo
  <2>1. redoStack # <<>> /\ redoStack' = Popped(redoStack) /\ undoStack' = Append(undoStack, Top(redoStack))
    BY <1>3, Zenon DEF Redo
  <2>2. Len(redoStack') = Len(redoStack) - 1
    BY <1>1, <2>1, TopAndRest
  <2>3. Len(undoStack') = Len(undoStack) + 1
    BY <1>1, <2>1 DEF Edits
  <2>4. QED
    BY <1>1, <2>2, <2>3
<1>4. QED
  BY <1>2, <1>3

LEMMA FieldSteps == FieldInv /\ [FieldNext]_fieldVars => FieldInv'
<1> SUFFICES ASSUME FieldInv, [FieldNext]_fieldVars PROVE FieldInv'
  OBVIOUS
<1>1. /\ FieldShape /\ FieldTruth /\ edits \in Nat /\ edits <= MaxFieldEdits /\ MaxFieldEdits \in Nat
      /\ Len(undoStack) + Len(redoStack) <= edits
      /\ Len(undoStack) \in Nat /\ Len(redoStack) \in Nat
  BY FieldAssumption DEF FieldInv, FieldShape, Edits
<1>2. ASSUME edits < MaxFieldEdits, edits' = edits + 1, Keeps PROVE FieldInv'
  <2>1. FieldShape' /\ FieldTruth' /\ Grows
    BY <1>2, Zenon DEF Keeps
  <2>2. Len(undoStack') \in Nat /\ Len(redoStack') \in Nat
    BY <2>1 DEF FieldShape, Edits
  <2>3. edits' \in Nat /\ edits' <= MaxFieldEdits /\ Len(undoStack') + Len(redoStack') <= edits'
    BY <1>1, <1>2, <2>1, <2>2 DEF Grows
  <2>4. QED
    BY <2>1, <2>3, Zenon DEF FieldInv
<1>3. CASE /\ edits < MaxFieldEdits /\ edits' = edits + 1 /\ ~crashed
           /\ EditOrCompose \/ SetDisabled \/ \E new \in Inserted : ResetText(new)
  BY <1>1, <1>2, <1>3, EditsKeep, DisabledKeeps, TextResetKeeps, WordsAreDocs, Zenon
<1>4. CASE UNCHANGED edits /\ (Undo \/ Redo)
  <2>1. Keeps
    BY <1>1, <1>4, UndoKeeps, RedoKeeps, Zenon
  <2>2. Len(undoStack') + Len(redoStack') = Len(undoStack) + Len(redoStack)
    BY <1>1, <1>4, HistoryCount, Zenon
  <2>3. QED
    BY <1>1, <1>4, <2>1, <2>2, Zenon DEF FieldInv, Keeps
<1>5. CASE /\ edits < MaxFieldEdits /\ UNCHANGED edits
           /\ (\E sel \in Selections : MoveCaret(sel) \/ MouseDown(sel) \/ MouseDrag(sel)) \/ MouseUp
  <2>1. Keeps /\ undoStack' = undoStack /\ redoStack' = redoStack
    BY <1>1, <1>5, MovesKeep, Zenon
  <2>2. QED
    BY <1>1, <1>5, <2>1, Zenon DEF FieldInv, Keeps
<1>6. CASE UNCHANGED fieldVars
  <2>1. /\ UNCHANGED <<text, selection, composition, undoStack, redoStack, lastKind, coalescing>>
        /\ UNCHANGED <<disabled, drag, crashed, base, interrupted, edits>>
    BY <1>6, Zenon DEF fieldVars, historyOfEdits, ghosts
  <2>2. Committed' = Committed /\ Whole' = Whole
    BY <2>1, Zenon DEF Committed, Whole
  <2>3. FieldShape'
    BY <1>1, <2>1, Zenon DEF FieldShape
  <2>4. FieldTruth'
    BY <1>1, <2>1, <2>2, Zenon DEF FieldTruth
  <2>5. QED
    BY <1>1, <2>1, <2>3, <2>4, Zenon DEF FieldInv
<1>7. QED
  BY <1>3, <1>4, <1>5, <1>6, Zenon DEF FieldNext

-----------------------------------------------------------------------------
(* The documents of the invariant are those undo and redo lead to.          *)
LEMMA EarlierIs ==
    ASSUME undoStack \in Edits, NEW docs, Path(docs, undoStack, base, Committed)
    PROVE  \A n \in 0..Len(undoStack) : Earlier[n] = docs[Len(undoStack) + 1 - n]
<1> DEFINE L == Len(undoStack)
           back == [n \in 0..L |-> docs[L + 1 - n]]
           edit(n) == undoStack[L + 1 - n]
           step(f, n) == Splice(f[n - 1], edit(n).at, edit(n).at + Len(edit(n).inserted), edit(n).removed)
           Runs(f) == f = [n \in 0..L |-> IF n = 0 THEN Committed ELSE step(f, n)]
<1>1. L \in Nat /\ docs[L + 1] = Committed /\ \A i \in 1..L : Leads(docs[i], undoStack[i], docs[i + 1]) /\ undoStack[i] \in EditType
  BY DEF Edits, Path
<1>2. \A n \in 1..L : /\ back[n] = docs[L + 1 - n] /\ back[n - 1] = docs[L + 2 - n]
                      /\ L + 1 - n \in 1..L /\ (L + 1 - n) + 1 = L + 2 - n
  BY <1>1
<1>3. \A n \in 1..L : back[n] = step(back, n)
  <2>1. SUFFICES ASSUME NEW n \in 1..L PROVE back[n] = step(back, n)
    BY Zenon
  <2>2. Leads(back[n], edit(n), back[n - 1]) /\ edit(n) \in EditType
    BY <1>1, <1>2
  <2> HIDE DEF back, edit
  <2>3. Splice(back[n - 1], edit(n).at, edit(n).at + Len(edit(n).inserted), edit(n).removed) = back[n]
    BY <2>2, LeadsBothWays
  <2>4. QED
    BY <2>3, Zenon
<1>4. back[0] = Committed /\ back = [n \in 0..L |-> back[n]]
  BY <1>1
<1>5. Runs(back)
  <2> HIDE DEF back, step
  <2>1. \A n \in 0..L : back[n] = IF n = 0 THEN Committed ELSE step(back, n)
    BY <1>1, <1>3, <1>4
  <2>2. QED
    BY <1>4, <2>1
<1>6. Runs(Earlier)
  <2>1. \E f : Runs(f)
    BY <1>5
  <2>2. Earlier = CHOOSE f : Runs(f)
    BY DEF Earlier
  <2> HIDE DEF Runs
  <2>3. QED
    BY <2>1, <2>2
<1>7. Earlier[0] = Committed /\ \A n \in 1..L : Earlier[n] = step(Earlier, n)
  <2> HIDE DEF step
  <2>1. \A n \in 0..L : Earlier[n] = IF n = 0 THEN Committed ELSE step(Earlier, n)
    BY <1>6
  <2>2. QED
    BY <1>1, <2>1
<1> DEFINE Good == {n \in 0..L : Earlier[n] = back[n]}
<1>8. 0 \in Good
  BY <1>1, <1>4, <1>7
<1>9. \A n \in 0..L : n + 1 \in 0..L /\ n \in Good => n + 1 \in Good
  <2>1. SUFFICES ASSUME NEW n \in 0..L, n + 1 \in 0..L, n \in Good PROVE n + 1 \in Good
    BY Zenon
  <2>2. n + 1 \in 1..L /\ (n + 1) - 1 = n
    BY <1>1, <2>1
  <2> HIDE DEF back, edit
  <2>3. step(Earlier, n + 1) = step(back, n + 1)
    BY <2>1, <2>2
  <2> HIDE DEF step
  <2>4. QED
    BY <1>3, <1>7, <2>1, <2>2, <2>3
<1>10. 0..L \subseteq Good
  <2> HIDE DEF Good
  <2>1. QED
    BY <1>1, <1>8, <1>9, StepByStep
<1>11. QED
  BY <1>1, <1>10

LEMMA AheadIs ==
    ASSUME redoStack \in Edits, NEW docs, PathBack(docs, redoStack, Committed)
    PROVE  \A n \in 0..Len(redoStack) : Ahead[n] = docs[Len(redoStack) + 1 - n]
<1> DEFINE L == Len(redoStack)
           back == [n \in 0..L |-> docs[L + 1 - n]]
           edit(n) == redoStack[L + 1 - n]
           step(f, n) == Splice(f[n - 1], edit(n).at, edit(n).at + Len(edit(n).removed), edit(n).inserted)
           Runs(f) == f = [n \in 0..L |-> IF n = 0 THEN Committed ELSE step(f, n)]
<1>1. L \in Nat /\ docs[L + 1] = Committed /\ \A i \in 1..L : Leads(docs[i + 1], redoStack[i], docs[i]) /\ redoStack[i] \in EditType
  BY DEF Edits, PathBack
<1>2. \A n \in 1..L : /\ back[n] = docs[L + 1 - n] /\ back[n - 1] = docs[L + 2 - n]
                      /\ L + 1 - n \in 1..L /\ (L + 1 - n) + 1 = L + 2 - n
  BY <1>1
<1>3. \A n \in 1..L : back[n] = step(back, n)
  <2>1. SUFFICES ASSUME NEW n \in 1..L PROVE back[n] = step(back, n)
    BY Zenon
  <2>2. Leads(back[n - 1], edit(n), back[n]) /\ edit(n) \in EditType
    BY <1>1, <1>2
  <2> HIDE DEF back, edit
  <2>3. Splice(back[n - 1], edit(n).at, edit(n).at + Len(edit(n).removed), edit(n).inserted) = back[n]
    BY <2>2, LeadsBothWays
  <2>4. QED
    BY <2>3, Zenon
<1>4. back[0] = Committed /\ back = [n \in 0..L |-> back[n]]
  BY <1>1
<1>5. Runs(back)
  <2> HIDE DEF back, step
  <2>1. \A n \in 0..L : back[n] = IF n = 0 THEN Committed ELSE step(back, n)
    BY <1>1, <1>3, <1>4
  <2>2. QED
    BY <1>4, <2>1
<1>6. Runs(Ahead)
  <2>1. \E f : Runs(f)
    BY <1>5
  <2>2. Ahead = CHOOSE f : Runs(f)
    BY DEF Ahead
  <2> HIDE DEF Runs
  <2>3. QED
    BY <2>1, <2>2
<1>7. Ahead[0] = Committed /\ \A n \in 1..L : Ahead[n] = step(Ahead, n)
  <2> HIDE DEF step
  <2>1. \A n \in 0..L : Ahead[n] = IF n = 0 THEN Committed ELSE step(Ahead, n)
    BY <1>6
  <2>2. QED
    BY <1>1, <2>1
<1> DEFINE Good == {n \in 0..L : Ahead[n] = back[n]}
<1>8. 0 \in Good
  BY <1>1, <1>4, <1>7
<1>9. \A n \in 0..L : n + 1 \in 0..L /\ n \in Good => n + 1 \in Good
  <2>1. SUFFICES ASSUME NEW n \in 0..L, n + 1 \in 0..L, n \in Good PROVE n + 1 \in Good
    BY Zenon
  <2>2. n + 1 \in 1..L /\ (n + 1) - 1 = n
    BY <1>1, <2>1
  <2> HIDE DEF back, edit
  <2>3. step(Ahead, n + 1) = step(back, n + 1)
    BY <2>1, <2>2
  <2> HIDE DEF step
  <2>4. QED
    BY <1>3, <1>7, <2>1, <2>2, <2>3
<1>10. 0..L \subseteq Good
  <2> HIDE DEF Good
  <2>1. QED
    BY <1>1, <1>8, <1>9, StepByStep
<1>11. QED
  BY <1>1, <1>10

LEMMA UndoIsTrue == FieldInv => UndoRunsBack
<1> SUFFICES ASSUME FieldInv, ~interrupted PROVE UndoRunsBack
  BY Zenon DEF UndoRunsBack
<1>1. /\ ~crashed /\ LastOf(selection) <= Len(text) /\ undoStack \in Edits /\ redoStack \in Edits
      /\ Run(undoStack, base, Committed) /\ RunBack(redoStack, Committed)
  BY Zenon DEF FieldInv, FieldTruth, FieldShape, Whole
<1>2. PICK docs : Path(docs, undoStack, base, Committed)
  BY <1>1, Zenon DEF Run
<1>3. PICK more : PathBack(more, redoStack, Committed)
  BY <1>1, Zenon DEF RunBack
<1>4. \A n \in 0..Len(undoStack) : Earlier[n] = docs[Len(undoStack) + 1 - n]
  BY <1>1, <1>2, EarlierIs, Zenon
<1>5. \A n \in 0..Len(redoStack) : Ahead[n] = more[Len(redoStack) + 1 - n]
  BY <1>1, <1>3, AheadIs, Zenon
<1>6. ASSUME NEW n \in 1..Len(undoStack), NEW edit, edit = undoStack[Len(undoStack) + 1 - n]
      PROVE  Holds(Earlier[n - 1], edit.at, edit.inserted) /\ Within(edit.before, Earlier[n])
  <2> DEFINE k == Len(undoStack) + 1 - n
  <2>1. /\ k \in 1..Len(undoStack) /\ Len(undoStack) + 1 - (n - 1) = k + 1 /\ n \in 0..Len(undoStack)
        /\ n - 1 \in 0..Len(undoStack)
    BY <1>1 DEF Edits
  <2>2. Earlier[n] = docs[k] /\ Earlier[n - 1] = docs[k + 1]
    BY <1>4, <2>1
  <2>3. edit \in EditType /\ edit = undoStack[k]
    BY <1>1, <1>6, <2>1 DEF Edits
  <2>4. Leads(docs[k], edit, docs[k + 1])
    BY <1>2, <2>1, <2>3 DEF Path
  <2>5. Holds(docs[k + 1], edit.at, edit.inserted)
    BY <2>3, <2>4, LeadsBothWays, Zenon
  <2>6. Within(edit.before, docs[k])
    BY <2>4, Zenon DEF Leads
  <2>7. QED
    BY <2>2, <2>5, <2>6
<1>7. ASSUME NEW n \in 1..Len(redoStack), NEW edit, edit = redoStack[Len(redoStack) + 1 - n]
      PROVE  Holds(Ahead[n - 1], edit.at, edit.removed) /\ Within(edit.after, Ahead[n])
  <2> DEFINE k == Len(redoStack) + 1 - n
  <2>1. /\ k \in 1..Len(redoStack) /\ Len(redoStack) + 1 - (n - 1) = k + 1 /\ n \in 0..Len(redoStack)
        /\ n - 1 \in 0..Len(redoStack)
    BY <1>1 DEF Edits
  <2>2. Ahead[n] = more[k] /\ Ahead[n - 1] = more[k + 1]
    BY <1>5, <2>1
  <2>3. edit \in EditType /\ edit = redoStack[k]
    BY <1>1, <1>7, <2>1 DEF Edits
  <2>4. Leads(more[k + 1], edit, more[k])
    BY <1>3, <2>1, <2>3 DEF PathBack
  <2>5. Holds(more[k + 1], edit.at, edit.removed)
    BY <2>3, <2>4, LeadsBothWays, Zenon
  <2>6. Within(edit.after, more[k])
    BY <2>4, Zenon DEF Leads
  <2>7. QED
    BY <2>2, <2>5, <2>6
<1>8. Earlier[Len(undoStack)] = base
  <2>1. Len(undoStack) \in 0..Len(undoStack) /\ Len(undoStack) + 1 - Len(undoStack) = 1
    BY <1>1 DEF Edits
  <2>2. QED
    BY <1>2, <1>4, <2>1 DEF Path
<1>9. QED
  BY <1>1, <1>6, <1>7, <1>8, Zenon DEF UndoRunsBack

LEMMA FieldIsTyped == FieldInv => FieldTypeOK
<1> SUFFICES ASSUME FieldInv PROVE FieldTypeOK
  OBVIOUS
<1>1. FieldShape
  BY DEF FieldInv
<1>2. composition.open \in BOOLEAN
  <2>1. CASE composition = NoComposition
    BY <2>1 DEF NoComposition
  <2>2. CASE Composing(composition, text)
    BY <2>2 DEF Composing
  <2>3. QED
    BY <1>1, <2>1, <2>2 DEF FieldShape
<1>3. DOMAIN selection = {"anchor", "head"} /\ text \in Seq(Characters) /\ base \in Seq(Characters)
  BY <1>1 DEF FieldShape, Selected, Doc
<1>4. /\ lastKind \in {"none", "typing", "deleting", "atomic"}
      /\ {coalescing, disabled, drag, crashed, interrupted} \subseteq BOOLEAN
  BY <1>1, Zenon DEF FieldShape, EditKinds
<1>5. {text, base} \subseteq Seq(Characters)
  BY <1>3
<1>6. QED
  BY <1>2, <1>3, <1>4, <1>5, Zenon DEF FieldInv, FieldTypeOK

(* Whatever is typed, pasted, composed, undone and redone, in any order,    *)
(* the parts of a field keep their types.                                   *)
THEOREM FieldKeepsItsTypes == FieldSpec => []FieldTypeOK
  BY FieldStarts, FieldSteps, FieldIsTyped, PTL DEF FieldSpec

(* In every field, of any length limit, undo finds in the document exactly  *)
(* what it put there and leads back to the text of the last reset, and redo *)
(* finds what undo brought back, unless a composition was forgotten.        *)
THEOREM UndoAlwaysRunsBack == FieldSpec => []UndoRunsBack
  BY FieldStarts, FieldSteps, UndoIsTrue, PTL DEF FieldSpec

-----------------------------------------------------------------------------
(* Updates.                                                                 *)

Builds == Nat \cup {Nothing}
Between == swap.at \in {"in", "undo"} /\ swap.had

UpdateTypes ==
    /\ running \in Builds /\ newestRun \in Nat
    /\ offer \in Releases \cup {Nothing} /\ plan \in Builds
    /\ installed \in Builds /\ staged \in Builds /\ displaced \in Builds
    /\ swap \in [at : {"idle", "aside", "in", "undo", "clean"}, had : BOOLEAN]
    /\ stranded \in BOOLEAN

(* Whoever is to be installed is newer than all that ran; only a process   *)
(* that runs holds an offer or a plan, and a swap is under a plan.         *)
PlansGoForward ==
    /\ running # Nothing => running = newestRun
    /\ running = Nothing => offer = Nothing /\ plan = Nothing
    /\ offer # Nothing => offer.version > newestRun
    /\ plan # Nothing => plan > newestRun /\ (staged = Nothing \/ staged = plan)
    /\ swap.at # "idle" => plan # Nothing

(* What lies at the path, or will lie there again, is not older than what  *)
(* ran.                                                                    *)
CopiesGoForward ==
    /\ installed # Nothing => installed >= newestRun
    /\ Between => installed = Nothing /\ ~stranded /\ displaced # Nothing /\ displaced >= newestRun

(* Only what was permitted is staged, and so only that is installed.       *)
CopiesArePermitted ==
    /\ plan # Nothing => Permitted(policy)
    /\ installed \notin {1, Nothing} => Permitted(policy)
    /\ Between /\ displaced # 1 => Permitted(policy)

(* The place is empty between the renames, and while it is stranded.        *)
ACopyIsKept == IF stranded THEN installed = Nothing ELSE installed # Nothing \/ Between

UpdateInv ==
    UpdateTypes /\ PlansGoForward /\ CopiesGoForward /\ CopiesArePermitted /\ ACopyIsKept

USE DEF Builds, Between, At, Idle, Fine, Troubled, paths, caller

LEMMA NothingIsNoBuild == Nothing \notin Nat /\ Nothing \notin Releases
  BY UpdateAssumption

LEMMA UpdateStarts == UpdateInit => UpdateInv
<1> SUFFICES ASSUME UpdateInit PROVE UpdateInv
  OBVIOUS
<1>1. swap.at = "idle" /\ installed = 1 /\ installed # Nothing /\ 1 # Nothing
  BY NothingIsNoBuild DEF UpdateInit
<1>2. UpdateTypes
  BY DEF UpdateInit, UpdateTypes
<1>3. PlansGoForward
  BY <1>1 DEF UpdateInit, PlansGoForward
<1>4. CopiesGoForward /\ CopiesArePermitted /\ ACopyIsKept
  BY <1>1 DEF UpdateInit, CopiesGoForward, CopiesArePermitted, ACopyIsKept
<1>5. QED
  BY <1>2, <1>3, <1>4 DEF UpdateInv

(* The invariant says more than the property.                              *)
LEMMA UpdateInvSafe == UpdateInv => UpdatesAreSafe
  BY UpdateAssumption
  DEF UpdateInv, UpdateTypes, PlansGoForward, CopiesGoForward, CopiesArePermitted, ACopyIsKept,
      UpdatesAreSafe

LEMMA DecideKeeps ==
    ASSUME UpdateInv, NEW feed \in Feeds, Decide(feed) PROVE UpdateInv'
<1>1. offer' \in Releases \cup {Nothing} /\ (offer' # Nothing => offer'.version > running)
  <2>1. \A r \in Candidates(feed) : r \in Releases /\ r.version > running
    BY UpdateAssumption DEF Candidates, Acceptable
  <2>2. offer' = Nothing \/ offer' \in Candidates(feed)
    BY DEF Decide
  <2>3. QED
    BY <2>1, <2>2
<1>2. running = newestRun
  BY DEF Decide, UpdateInv, PlansGoForward
<1>3. QED
  BY <1>1, <1>2
  DEF Decide, UpdateInv, UpdateTypes, PlansGoForward, CopiesGoForward, CopiesArePermitted,
      ACopyIsKept, Permitted

LEMMA PrepareKeeps ==
    ASSUME UpdateInv, NEW bytes, Prepare(bytes) PROVE UpdateInv'
<1>1. bytes \in Nat /\ bytes > newestRun
  BY DEF Prepare, Verified, UpdateInv, UpdateTypes, PlansGoForward, Releases
<1>2. bytes # Nothing
  BY <1>1, UpdateAssumption
<1>3. running # Nothing
  BY DEF Prepare, UpdateInv, PlansGoForward
<1>4. QED
  BY <1>1, <1>2, <1>3
  DEF Prepare, UpdateInv, UpdateTypes, PlansGoForward, CopiesGoForward, CopiesArePermitted,
      ACopyIsKept, Permitted

(* One step per step of swap_in_place.                                     *)
LEMMA SwapKeeps ==
    ASSUME UpdateInv, BeginSwap \/ MoveAside \/ MoveIn \/ PutBack \/ CleanUp PROVE UpdateInv'
<1> USE DEF UpdateInv, UpdateTypes, PlansGoForward, CopiesGoForward, CopiesArePermitted,
            ACopyIsKept, Permitted
<1>1. CASE BeginSwap
  <2>1. CASE displaced' = Nothing /\ swap' = At("aside", FALSE)
    <3>1. swap'.at = "aside" /\ swap' \in [at : {"idle", "aside", "in", "undo", "clean"}, had : BOOLEAN]
      BY <2>1
    <3>2. swap.at = "idle" /\ UNCHANGED <<caller, plan, staged, installed, stranded>> /\ plan # Nothing
      BY <1>1 DEF BeginSwap
    <3>3. QED
      BY <2>1, <3>1, <3>2
  <2>2. CASE UNCHANGED <<displaced, swap>>
    BY <1>1, <2>2 DEF BeginSwap
  <2>3. QED
    BY <1>1, <2>1, <2>2 DEF BeginSwap
<1>2. CASE MoveAside
  <2>1. swap.at = "aside" /\ UNCHANGED <<caller, plan, staged, stranded>>
    BY <1>2 DEF MoveAside
  <2>2. CASE installed = Nothing /\ swap' = At("in", FALSE) /\ UNCHANGED <<installed, displaced>>
    <3>1. swap'.at = "in" /\ swap'.had = FALSE
          /\ swap' \in [at : {"idle", "aside", "in", "undo", "clean"}, had : BOOLEAN]
      BY <2>2
    <3>2. QED
      BY <2>1, <2>2, <3>1
  <2>3. CASE /\ installed # Nothing /\ displaced' = installed /\ installed' = Nothing
             /\ swap' = At("in", TRUE)
    <3>1. swap'.at = "in" /\ swap'.had = TRUE
          /\ swap' \in [at : {"idle", "aside", "in", "undo", "clean"}, had : BOOLEAN]
      BY <2>3
    <3>2. QED
      BY <2>1, <2>3, <3>1
  <2>4. CASE swap' = Idle /\ UNCHANGED <<installed, displaced>>
    BY <2>1, <2>4
  <2>5. QED
    BY <1>2, <2>2, <2>3, <2>4 DEF MoveAside
<1>3. CASE MoveIn
  <2> DEFINE at == [at : {"idle", "aside", "in", "undo", "clean"}, had : BOOLEAN]
  <2>1. swap.at = "in" /\ UNCHANGED <<caller, plan, displaced>>
    BY <1>3 DEF MoveIn
  <2>2. CASE /\ staged # Nothing /\ installed' = staged /\ staged' = Nothing
             /\ swap' = At("clean", swap.had) /\ stranded' = FALSE
    <3>1. swap'.at = "clean" /\ swap' \in at
      BY <2>2
    <3>2. staged = plan /\ plan > newestRun /\ Permitted(policy) /\ installed' = plan /\ plan \in Nat
      BY <2>1, <2>2
    <3>3. installed' # Nothing /\ installed' \in Nat /\ installed' > newestRun' /\ ~Between'
      BY <2>1, <3>1, <3>2, NothingIsNoBuild
    <3>4. UpdateTypes' /\ PlansGoForward'
      BY <2>1, <2>2, <3>1, <3>2
    <3>5. CopiesGoForward' /\ CopiesArePermitted' /\ ACopyIsKept'
      BY <2>1, <2>2, <3>1, <3>2, <3>3
    <3>6. QED
      BY <3>4, <3>5
  <2>3. CASE swap' = At("undo", swap.had) /\ UNCHANGED <<staged, installed, stranded>>
    <3>1. swap'.at = "undo" /\ swap'.had = swap.had /\ swap' \in at
      BY <2>3
    <3>2. QED
      BY <2>1, <2>3, <3>1
  <2>4. QED
    BY <1>3, <2>2, <2>3 DEF MoveIn
<1>4. CASE PutBack
  <2>1. swap.at = "undo" /\ swap' = Idle /\ UNCHANGED <<caller, plan, staged>>
    BY <1>4 DEF PutBack
  <2>2. swap'.at = "idle" /\ swap'.had = FALSE
        /\ swap' \in [at : {"idle", "aside", "in", "undo", "clean"}, had : BOOLEAN]
    BY <2>1
  <2>3. CASE swap.had /\ installed' = displaced /\ displaced' = Nothing /\ UNCHANGED stranded
    <3>1. displaced # Nothing /\ displaced >= newestRun /\ (displaced # 1 => Permitted(policy))
      BY <2>1, <2>3
    <3>2. ~stranded
      BY <2>1, <2>3
    <3>3. QED
      BY <2>1, <2>2, <2>3, <3>1, <3>2
  <2>4. CASE swap.had /\ stranded' = TRUE /\ UNCHANGED <<installed, displaced>>
    <3>1. installed = Nothing
      BY <2>1, <2>4
    <3>2. QED
      BY <2>1, <2>2, <2>4, <3>1
  <2>5. CASE ~swap.had /\ UNCHANGED <<installed, displaced, stranded>>
    BY <2>1, <2>2, <2>5
  <2>6. QED
    BY <1>4, <2>3, <2>4, <2>5 DEF PutBack
<1>5. CASE CleanUp
  BY <1>5, UpdateAssumption DEF CleanUp
<1>6. QED
  BY <1>1, <1>2, <1>3, <1>4, <1>5

LEMMA ProcessesKeep ==
    ASSUME UpdateInv, Relaunch \/ Die \/ Start \/ SweepStaging PROVE UpdateInv'
<1> USE DEF UpdateInv, UpdateTypes, PlansGoForward, CopiesGoForward, CopiesArePermitted,
            ACopyIsKept, Permitted
<1>1. CASE Relaunch
  BY <1>1, UpdateAssumption DEF Relaunch, Begin
<1>2. CASE Die
  BY <1>2, UpdateAssumption DEF Die
<1>3. CASE Start
  BY <1>3, UpdateAssumption DEF Start, Begin
<1>4. CASE SweepStaging
  BY <1>4, UpdateAssumption DEF SweepStaging
<1>5. QED
  BY <1>1, <1>2, <1>3, <1>4

LEMMA UpdateInvHolds == UpdateSpec => []UpdateInv
<1>1. UpdateInv /\ [UpdateNext]_updateVars => UpdateInv'
  <2> SUFFICES ASSUME UpdateInv, [UpdateNext]_updateVars PROVE UpdateInv'
    OBVIOUS
  <2>1. CASE UNCHANGED updateVars
    BY <2>1
    DEF updateVars, UpdateInv, UpdateTypes, PlansGoForward, CopiesGoForward, CopiesArePermitted,
        ACopyIsKept, Permitted
  <2>2. CASE UpdateNext
    BY <2>2, DecideKeeps, PrepareKeeps, SwapKeeps, ProcessesKeep DEF UpdateNext
  <2>3. QED
    BY <2>1, <2>2
<1>2. QED
  BY <1>1, UpdateStarts, PTL DEF UpdateSpec

(* What the caller passes, and the bounds.                                  *)
UpdateBounds ==
    /\ channel \in Channels /\ policy \in Policies
    /\ checks \in 0..MaxChecks /\ troubles \in 0..MaxTroubles

LEMMA UpdateIsTyped == UpdateSpec => []UpdateTypeOK
<1>1. UpdateInit => UpdateBounds
  BY UpdateAssumption DEF UpdateInit, UpdateBounds
<1>2. UpdateBounds /\ [UpdateNext]_updateVars => UpdateBounds'
  <2> SUFFICES ASSUME UpdateBounds, [UpdateNext]_updateVars PROVE UpdateBounds'
    OBVIOUS
  <2> DEFINE InCase == /\ UNCHANGED <<channel, policy>>
                       /\ checks' = checks \/ (checks < MaxChecks /\ checks' = checks + 1)
                       /\ troubles' = troubles \/ (troubles < MaxTroubles /\ troubles' = troubles + 1)
  <2>1. InCase
    <3>1. ASSUME NEW feed \in Feeds, Decide(feed) PROVE InCase
      BY <3>1 DEF Decide
    <3>2. ASSUME NEW bytes, Prepare(bytes) PROVE InCase
      BY <3>2 DEF Prepare
    <3>3. CASE BeginSwap \/ MoveAside \/ MoveIn
      BY <3>3 DEF BeginSwap, MoveAside, MoveIn
    <3>4. CASE PutBack \/ CleanUp
      BY <3>4 DEF PutBack, CleanUp
    <3>5. CASE Relaunch \/ Die \/ Start \/ SweepStaging
      BY <3>5 DEF Relaunch, Die, Start, SweepStaging, Begin
    <3>6. CASE UNCHANGED updateVars
      BY <3>6 DEF updateVars
    <3>7. QED
      BY <3>1, <3>2, <3>3, <3>4, <3>5, <3>6 DEF UpdateNext
  <2>2. QED
    BY <2>1, UpdateAssumption DEF UpdateBounds
<1>3. UpdateInv /\ UpdateBounds => UpdateTypeOK
  BY DEF UpdateInv, UpdateTypes, UpdateBounds, UpdateTypeOK
<1>4. QED
  BY <1>1, <1>2, <1>3, UpdateInvHolds, PTL DEF UpdateSpec

(* decide, prepare, install and relaunch, with refused renames, an empty   *)
(* staging directory and deaths at any step, never install an older copy   *)
(* than what ran, nor one that is not permitted; and but for a death       *)
(* between the renames or a refused rollback, which leave the place empty  *)
(* until a later swap succeeds, a whole copy is in place or aside.         *)
THEOREM UpdatesStaySafe == UpdateSpec => []UpdatesAreSafe
  BY UpdateInvHolds, UpdateInvSafe, PTL

HIDE DEF Builds, Between, At, Idle, Fine, Troubled, paths, caller

-----------------------------------------------------------------------------
(* Where a window is.                                                       *)

SectionType == [stacks : [PaneSlots -> Seq(Routes)], touched : Seq(PaneSlots),
                forward : Seq(PaneSlots \X Routes)]
NavType == [layout : Layouts, tab : Sections, sections : [Sections -> SectionType]]

(* What a slot holds: the root at the bottom of the first, and elsewhere    *)
(* only screens of that slot, which are those that are restored to it.      *)
Belongs(r, slot) == r \in Screens /\ SlotOf[r] = slot
StacksHold(stacks, root) ==
    \A s \in PaneSlots : \A i \in 1..Len(stacks[s]) :
        IF s = 1 /\ i = 1 THEN stacks[s][i] = root ELSE Belongs(stacks[s][i], s)
ForwardHolds(forward) == \A i \in 1..Len(forward) : Belongs(forward[i][2], forward[i][1])
(* Who was touched is occupied, and whoever is occupied, but by a root      *)
(* alone, was touched.                                                      *)
TouchedHolds(touched, stacks) ==
    /\ AllApart(touched)
    /\ \A s \in Range(touched) : stacks[s] # <<>>
    /\ \A s \in {2, 3} : stacks[s] # <<>> => s \in Range(touched)

SectionHolds(section, root) ==
    /\ section \in SectionType
    /\ StacksHold(section.stacks, root)
    /\ ForwardHolds(section.forward)
    /\ TouchedHolds(section.touched, section.stacks)
NavHolds(place) ==
    /\ place \in NavType
    /\ StackOf(place, 1) # <<>>
    /\ \A t \in Sections : SectionHolds(place.sections[t], t)

(* Nothing is open above a root, and other slots were touched after it.     *)
RootsOnly(section) ==
    /\ Len(section.stacks[1]) <= 1
    /\ \A i \in 1..Len(section.forward) : section.forward[i][1] # 1
    /\ FirstOrNot(section.touched, 1)
AllRootsOnly(place) == \A t \in Sections : RootsOnly(place.sections[t])

LEMMA SectionIsTyped ==
    ASSUME NEW section \in SectionType
    PROVE  /\ section.stacks \in [PaneSlots -> Seq(Routes)]
           /\ section.touched \in Seq(PaneSlots) /\ section.forward \in Seq(PaneSlots \X Routes)
           /\ section = [stacks |-> section.stacks, touched |-> section.touched, forward |-> section.forward]
           /\ \A s \in PaneSlots : section.stacks[s] \in Seq(Routes) /\ Len(section.stacks[s]) \in Nat
<1>1. /\ section.stacks \in [PaneSlots -> Seq(Routes)]
      /\ section.touched \in Seq(PaneSlots) /\ section.forward \in Seq(PaneSlots \X Routes)
      /\ section = [stacks |-> section.stacks, touched |-> section.touched, forward |-> section.forward]
  BY DEF SectionType
<1>2. \A s \in PaneSlots : section.stacks[s] \in Seq(Routes) /\ Len(section.stacks[s]) \in Nat
  BY <1>1
<1>3. QED
  BY <1>1, <1>2

LEMMA TouchedIn ==
    ASSUME NEW section \in SectionType, NEW t
    PROVE  [section EXCEPT !.touched = t]
             = [stacks |-> section.stacks, touched |-> t, forward |-> section.forward]
  BY DEF SectionType

LEMMA TouchedIs ==
    ASSUME NEW section \in SectionType, NEW slot \in PaneSlots
    PROVE  /\ Touched(section, slot) \in SectionType
           /\ Touched(section, slot).stacks = section.stacks
           /\ Touched(section, slot).forward = section.forward
           /\ Touched(section, slot).touched = Append(Remaining(section.touched, {slot}), slot)
<1>1. Remaining(section.touched, {slot}) \in Seq(PaneSlots)
  BY SectionIsTyped, ApartFromSome
<1> DEFINE t == Append(Remaining(section.touched, {slot}), slot)
<1>2. t \in Seq(PaneSlots)
  BY <1>1
<1> HIDE DEF t
<1>3. [section EXCEPT !.touched = t] = [stacks |-> section.stacks, touched |-> t, forward |-> section.forward]
  BY TouchedIn
<1>4. Touched(section, slot) = [section EXCEPT !.touched = t]
  BY DEF Touched, t
<1>5. QED
  BY <1>2, <1>3, <1>4, SectionIsTyped DEF SectionType, t

LEMMA StampedIs ==
    ASSUME NEW section \in SectionType
    PROVE  /\ Stamped(section) \in SectionType
           /\ Stamped(section).stacks = section.stacks
           /\ Stamped(section).forward = section.forward
           /\ Stamped(section).touched =
                 Remaining(section.touched, {s \in PaneSlots : section.stacks[s] = <<>>})
<1> DEFINE t == Remaining(section.touched, {s \in PaneSlots : section.stacks[s] = <<>>})
<1>1. t \in Seq(PaneSlots)
  BY SectionIsTyped, ApartFromSome
<1>2. Stamped(section) = [section EXCEPT !.touched = t]
  BY DEF Stamped
<1> HIDE DEF t
<1>3. [section EXCEPT !.touched = t] = [stacks |-> section.stacks, touched |-> t, forward |-> section.forward]
  BY TouchedIn
<1>4. QED
  BY <1>1, <1>2, <1>3, SectionIsTyped DEF SectionType, t

(* Touching a slot that is occupied keeps the order of the others.          *)
LEMMA TouchKeeps ==
    ASSUME NEW touched \in Seq(PaneSlots), NEW stacks \in [PaneSlots -> Seq(Routes)], NEW slot \in PaneSlots,
           AllApart(touched), stacks[slot] # <<>>,
           \A s \in Range(touched) : stacks[s] # <<>>,
           \A s \in {2, 3} : stacks[s] # <<>> => s \in Range(touched) \cup {slot}
    PROVE  TouchedHolds(Append(Remaining(touched, {slot}), slot), stacks)
<1> DEFINE rest == Remaining(touched, {slot})
<1>1. rest \in Seq(PaneSlots) /\ Range(rest) = Range(touched) \ {slot} /\ AllApart(rest)
  BY ApartFromSome
<1> HIDE DEF rest
<1>2. slot \notin Range(rest)
  BY <1>1
<1>3. AllApart(Append(rest, slot)) /\ Range(Append(rest, slot)) = Range(rest) \cup {slot}
  BY <1>1, <1>2, ApartWithLast
<1>4. QED
  BY <1>1, <1>3 DEF TouchedHolds, rest

LEMMA StampKeeps ==
    ASSUME NEW touched \in Seq(PaneSlots), NEW stacks \in [PaneSlots -> Seq(Routes)],
           AllApart(touched), \A s \in {2, 3} : stacks[s] # <<>> => s \in Range(touched)
    PROVE  TouchedHolds(Remaining(touched, {s \in PaneSlots : stacks[s] = <<>>}), stacks)
<1> DEFINE gone == {s \in PaneSlots : stacks[s] = <<>>}
           rest == Remaining(touched, gone)
<1>1. rest \in Seq(PaneSlots) /\ Range(rest) = Range(touched) \ gone /\ AllApart(rest)
  BY ApartFromSome
<1>2. Range(rest) \subseteq PaneSlots
  BY <1>1, ElementsAreOf
<1> HIDE DEF rest
<1>3. QED
  BY <1>1, <1>2 DEF TouchedHolds, rest

LEMMA RootStaysFirst ==
    ASSUME NEW touched \in Seq(PaneSlots), FirstOrNot(touched, 1), NEW slot \in PaneSlots, slot # 1
    PROVE  FirstOrNot(Append(Remaining(touched, {slot}), slot), 1)
<1> DEFINE rest == Remaining(touched, {slot})
<1>1. rest \in Seq(PaneSlots) /\ FirstOrNot(rest, 1)
  BY ApartFromSome, FirstOfRemaining
<1> HIDE DEF rest
<1>2. /\ Len(Append(rest, slot)) = Len(rest) + 1 /\ Append(rest, slot)[Len(rest) + 1] = slot
      /\ Len(rest) \in Nat /\ \A i \in 1..Len(rest) : Append(rest, slot)[i] = rest[i]
  BY <1>1
<1>3. \A i \in 1..(Len(rest) + 1) : i = Len(rest) + 1 \/ i \in 1..Len(rest)
  BY <1>2
<1>4. QED
  BY <1>1, <1>2, <1>3 DEF FirstOrNot, rest

-----------------------------------------------------------------------------
(* A section that takes the place of the current one.                       *)
LEMMA SectionUpdates ==
    ASSUME NEW place \in NavType, NEW section \in SectionType
    PROVE  /\ UpdateSection(place, section) \in NavType
           /\ UpdateSection(place, section).layout = place.layout /\ UpdateSection(place, section).tab = place.tab
           /\ UpdateSection(place, section).sections[place.tab] = section
           /\ \A t \in Sections : t # place.tab => UpdateSection(place, section).sections[t] = place.sections[t]
<1> DEFINE sections == [place.sections EXCEPT ![place.tab] = section]
<1>1. place.tab \in Sections /\ place.sections \in [Sections -> SectionType] /\ place.layout \in Layouts
  BY DEF NavType
<1>2. /\ sections \in [Sections -> SectionType] /\ sections[place.tab] = section
      /\ \A t \in Sections : t # place.tab => sections[t] = place.sections[t]
  BY <1>1
<1>3. UpdateSection(place, section) = [place EXCEPT !.sections = sections]
  BY <1>1 DEF UpdateSection
<1> HIDE DEF sections
<1>4. [place EXCEPT !.sections = sections] = [layout |-> place.layout, tab |-> place.tab, sections |-> sections]
  BY DEF NavType
<1>5. QED
  BY <1>1, <1>2, <1>3, <1>4 DEF NavType

LEMMA SectionUpdateKeeps ==
    ASSUME NEW place, NavHolds(place), NEW section, SectionHolds(section, place.tab), section.stacks[1] # <<>>
    PROVE  /\ NavHolds(UpdateSection(place, section))
           /\ AllRootsOnly(place) /\ RootsOnly(section) => AllRootsOnly(UpdateSection(place, section))
<1> DEFINE new == UpdateSection(place, section)
<1>1. place \in NavType /\ section \in SectionType /\ \A t \in Sections : SectionHolds(place.sections[t], t)
  BY DEF NavHolds, SectionHolds
<1>2. /\ new \in NavType /\ new.tab = place.tab /\ new.sections[place.tab] = section
      /\ \A t \in Sections : t # place.tab => new.sections[t] = place.sections[t]
  BY <1>1, SectionUpdates
<1> HIDE DEF new
<1>3. \A t \in Sections : SectionHolds(new.sections[t], t)
  BY <1>1, <1>2
<1>4. StackOf(new, 1) # <<>>
  BY <1>2 DEF StackOf, SectionOf
<1>5. AllRootsOnly(place) /\ RootsOnly(section) => AllRootsOnly(new)
  BY <1>2 DEF AllRootsOnly
<1>6. QED
  BY <1>2, <1>3, <1>4, <1>5 DEF NavHolds, new

LEMMA NavIsTyped ==
    ASSUME NEW place, NavHolds(place)
    PROVE  /\ place \in NavType /\ place.tab \in Sections /\ place.layout \in Layouts
           /\ SectionOf(place) \in SectionType /\ SectionHolds(SectionOf(place), place.tab)
           /\ SectionOf(place).stacks[1] # <<>>
           /\ AllRootsOnly(place) => RootsOnly(SectionOf(place))
           /\ \A s \in PaneSlots : StackOf(place, s) = SectionOf(place).stacks[s] /\ StackOf(place, s) \in Seq(Routes)
<1>1. place \in NavType /\ place.tab \in Sections /\ place.layout \in Layouts
  BY DEF NavHolds, NavType
<1>2. SectionHolds(SectionOf(place), place.tab) /\ SectionOf(place) \in SectionType
  BY <1>1 DEF NavHolds, SectionOf, SectionHolds
<1>3. SectionOf(place).stacks[1] # <<>> /\ (AllRootsOnly(place) => RootsOnly(SectionOf(place)))
  BY <1>1 DEF NavHolds, SectionOf, StackOf, AllRootsOnly
<1>4. \A s \in PaneSlots : StackOf(place, s) = SectionOf(place).stacks[s] /\ StackOf(place, s) \in Seq(Routes)
  BY <1>2, SectionIsTyped DEF StackOf
<1>5. QED
  BY <1>1, <1>2, <1>3, <1>4

-----------------------------------------------------------------------------
LEMMA RestackedIs ==
    ASSUME NEW section \in SectionType, NEW slot \in PaneSlots, NEW stack \in Seq(Routes),
           NEW forward \in Seq(PaneSlots \X Routes)
    PROVE  /\ Restacked(section, slot, stack, forward) \in SectionType
           /\ Restacked(section, slot, stack, forward).stacks[slot] = stack
           /\ \A s \in PaneSlots : s # slot =>
                 Restacked(section, slot, stack, forward).stacks[s] = section.stacks[s]
           /\ Restacked(section, slot, stack, forward).touched = section.touched
           /\ Restacked(section, slot, stack, forward).forward = forward
<1> DEFINE new == Restacked(section, slot, stack, forward)
           stacks == [section.stacks EXCEPT ![slot] = stack]
<1>1. /\ stacks \in [PaneSlots -> Seq(Routes)] /\ stacks[slot] = stack
      /\ \A s \in PaneSlots : s # slot => stacks[s] = section.stacks[s]
  BY SectionIsTyped
<1>2. new.stacks = stacks /\ new.touched = section.touched /\ new.forward = forward
  BY DEF Restacked
<1>3. new \in SectionType
  <2>1. section.touched \in Seq(PaneSlots)
    BY SectionIsTyped
  <2> HIDE DEF stacks
  <2>2. [stacks |-> stacks, touched |-> section.touched, forward |-> forward] \in SectionType
    BY <1>1, <2>1 DEF SectionType
  <2>3. QED
    BY <2>2 DEF Restacked, stacks
<1>4. QED
  BY <1>1, <1>2, <1>3

LEMMA FrontIs ==
    ASSUME NEW T, NEW s \in Seq(T), s # <<>>
    PROVE  /\ Front(s) \in Seq(T) /\ Len(Front(s)) = Len(s) - 1 /\ Len(s) \in Nat /\ Len(s) > 0
           /\ \A i \in 1..Len(Front(s)) : i \in 1..Len(s) /\ Front(s)[i] = s[i]
<1>1. Len(s) \in Nat /\ Len(s) > 0
  OBVIOUS
<1>2. PICK k \in Nat : k = Len(s) - 1
  BY <1>1
<1>3. k <= Len(s) /\ Front(s) = SubSeq(s, 1, k) /\ \A i \in 1..k : i \in 1..Len(s)
  BY <1>1, <1>2 DEF Front
<1>4. SubSeq(s, 1, k) \in Seq(T) /\ Len(SubSeq(s, 1, k)) = k /\ \A i \in 1..k : SubSeq(s, 1, k)[i] = s[i]
  BY <1>3
<1>5. QED
  BY <1>1, <1>2, <1>3, <1>4

LEMMA ForwardEnds ==
    ASSUME NEW forward \in Seq(PaneSlots \X Routes), ForwardHolds(forward), forward # <<>>
    PROVE  /\ Front(forward) \in Seq(PaneSlots \X Routes) /\ ForwardHolds(Front(forward))
           /\ Tail(forward) \in Seq(PaneSlots \X Routes) /\ ForwardHolds(Tail(forward))
           /\ Last(forward) \in PaneSlots \X Routes /\ Belongs(Last(forward)[2], Last(forward)[1])
           /\ (\A i \in 1..Len(forward) : forward[i][1] # 1) =>
                 /\ \A i \in 1..Len(Front(forward)) : Front(forward)[i][1] # 1
                 /\ \A i \in 1..Len(Tail(forward)) : Tail(forward)[i][1] # 1
                 /\ Last(forward)[1] # 1
<1> DEFINE n == Len(forward)
<1>1. n \in Nat /\ n > 0 /\ n \in 1..n /\ n - 1 \in Nat
  OBVIOUS
<1>2. /\ Front(forward) \in Seq(PaneSlots \X Routes) /\ Len(Front(forward)) = n - 1
      /\ \A i \in 1..(n - 1) : i \in 1..n /\ Front(forward)[i] = forward[i]
  BY FrontIs
<1>3. /\ Tail(forward) \in Seq(PaneSlots \X Routes) /\ Len(Tail(forward)) = n - 1
      /\ \A i \in 1..(n - 1) : i + 1 \in 1..n /\ Tail(forward)[i] = forward[i + 1]
  BY <1>1
<1>4. Last(forward) = forward[n] /\ forward[n] \in PaneSlots \X Routes
  BY <1>1, ElementOfSeq DEF Last
<1> HIDE DEF n
<1>5. \A i \in 1..n : Belongs(forward[i][2], forward[i][1])
  BY DEF ForwardHolds, n
<1>6. ForwardHolds(Front(forward)) /\ ForwardHolds(Tail(forward))
  BY <1>2, <1>3, <1>5 DEF ForwardHolds
<1>7. QED
  BY <1>1, <1>2, <1>3, <1>4, <1>5, <1>6 DEF n

LEMMA ForwardGrows ==
    ASSUME NEW forward \in Seq(PaneSlots \X Routes), ForwardHolds(forward), NEW slot \in PaneSlots,
           NEW r \in Routes, Belongs(r, slot)
    PROVE  /\ Append(forward, <<slot, r>>) \in Seq(PaneSlots \X Routes)
           /\ ForwardHolds(Append(forward, <<slot, r>>))
           /\ slot # 1 /\ (\A i \in 1..Len(forward) : forward[i][1] # 1) =>
                 \A i \in 1..Len(Append(forward, <<slot, r>>)) : Append(forward, <<slot, r>>)[i][1] # 1
<1> DEFINE n == Len(forward)
           more == Append(forward, <<slot, r>>)
<1>1. /\ n \in Nat /\ more \in Seq(PaneSlots \X Routes) /\ Len(more) = n + 1 /\ more[n + 1] = <<slot, r>>
      /\ \A i \in 1..n : more[i] = forward[i]
  OBVIOUS
<1> HIDE DEF more
<1>2. \A i \in 1..(n + 1) : i = n + 1 \/ i \in 1..n
  BY <1>1
<1>3. ForwardHolds(more)
  <2>1. ASSUME NEW i \in 1..(n + 1) PROVE Belongs(more[i][2], more[i][1])
    BY <1>1, <1>2 DEF ForwardHolds
  <2>2. QED
    BY <1>1, <2>1 DEF ForwardHolds
<1>4. ASSUME slot # 1, \A i \in 1..n : forward[i][1] # 1, NEW i \in 1..(n + 1) PROVE more[i][1] # 1
  BY <1>1, <1>2, <1>4
<1>5. QED
  BY <1>1, <1>3, <1>4 DEF more

(* A screen is put on top of its stack, which is the last one touched.      *)
LEMMA SectionGrows ==
    ASSUME NEW root, NEW section, SectionHolds(section, root), section.stacks[1] # <<>>,
           NEW slot \in PaneSlots, NEW r \in Routes, Belongs(r, slot),
           NEW forward \in Seq(PaneSlots \X Routes), ForwardHolds(forward),
           NEW new, new = Touched(Restacked(section, slot, Append(section.stacks[slot], r), forward), slot)
    PROVE  /\ SectionHolds(new, root) /\ new.stacks[1] # <<>>
           /\ RootsOnly(section) /\ slot # 1 /\ (\A i \in 1..Len(forward) : forward[i][1] # 1) => RootsOnly(new)
<1> DEFINE was == section.stacks[slot]
           stack == Append(was, r)
           grown == Restacked(section, slot, stack, forward)
<1>1. section \in SectionType /\ StacksHold(section.stacks, root) /\ TouchedHolds(section.touched, section.stacks)
  BY DEF SectionHolds
<1>2. /\ was \in Seq(Routes) /\ stack \in Seq(Routes) /\ Len(stack) = Len(was) + 1 /\ Len(was) \in Nat
      /\ stack[Len(was) + 1] = r /\ (\A i \in 1..Len(was) : stack[i] = was[i]) /\ stack # <<>>
  <2>1. was \in Seq(Routes)
    BY <1>1, SectionIsTyped
  <2>2. QED
    BY <2>1
<1> HIDE DEF stack
<1> DEFINE stacks == grown.stacks
<1>3. /\ grown \in SectionType /\ stacks[slot] = stack /\ grown.touched = section.touched
      /\ grown.forward = forward /\ \A s \in PaneSlots : s # slot => stacks[s] = section.stacks[s]
  BY <1>1, <1>2, RestackedIs
<1>4. stacks \in [PaneSlots -> Seq(Routes)] /\ grown.touched \in Seq(PaneSlots)
  BY <1>3, SectionIsTyped
<1> HIDE DEF grown
<1>5. /\ new \in SectionType /\ new.stacks = stacks /\ new.forward = forward
      /\ new.touched = Append(Remaining(section.touched, {slot}), slot)
  <2>1. new = Touched(grown, slot)
    BY Zenon DEF grown, stack, was
  <2>2. /\ new \in SectionType /\ new.stacks = grown.stacks /\ new.forward = grown.forward
        /\ new.touched = Append(Remaining(grown.touched, {slot}), slot)
    <3>1. grown \in SectionType
      BY <1>3
    <3>2. /\ Touched(grown, slot) \in SectionType
          /\ Touched(grown, slot).stacks = grown.stacks /\ Touched(grown, slot).forward = grown.forward
          /\ Touched(grown, slot).touched = Append(Remaining(grown.touched, {slot}), slot)
      BY <3>1, TouchedIs, Zenon
    <3>3. QED
      BY <2>1, <3>2, Zenon
  <2>3. QED
    BY <1>3, <2>2
<1>6. StacksHold(stacks, root)
  <2>1. ASSUME NEW i \in 1..Len(stack) PROVE IF slot = 1 /\ i = 1 THEN stack[i] = root ELSE Belongs(stack[i], slot)
    <3>1. CASE i \in 1..Len(was)
      BY <1>1, <1>2, <3>1 DEF StacksHold
    <3>2. CASE i = Len(was) + 1
      <4>1. slot = 1 => Len(was) > 0
        BY <1>2
      <4>2. QED
        BY <1>2, <3>2, <4>1
    <3>3. QED
      BY <1>2, <3>1, <3>2
  <2>2. ASSUME NEW s \in PaneSlots, s # slot, NEW i \in 1..Len(stacks[s])
        PROVE IF s = 1 /\ i = 1 THEN stacks[s][i] = root ELSE Belongs(stacks[s][i], s)
    <3>1. stacks[s] = section.stacks[s]
      BY <1>3, <2>2
    <3>2. QED
      BY <1>1, <2>2, <3>1 DEF StacksHold
  <2>3. QED
    BY <1>3, <2>1, <2>2 DEF StacksHold
<1>7. \A s \in PaneSlots : s = slot \/ stacks[s] = section.stacks[s]
  BY <1>3
<1>8. TouchedHolds(new.touched, stacks)
  <2>1. AllApart(section.touched) /\ section.touched \in Seq(PaneSlots) /\ Range(section.touched) \subseteq PaneSlots
    BY <1>1, SectionIsTyped, ElementsAreOf DEF TouchedHolds
  <2>2. \A s \in Range(section.touched) : stacks[s] # <<>>
    BY <1>1, <1>2, <1>3, <1>7, <2>1 DEF TouchedHolds
  <2>3. \A s \in {2, 3} : stacks[s] # <<>> => s \in Range(section.touched) \cup {slot}
    <3>1. \A s \in {2, 3} : s \in PaneSlots
      BY DEF PaneSlots
    <3>2. QED
      BY <1>1, <1>7, <3>1 DEF TouchedHolds
  <2>4. stacks[slot] # <<>>
    BY <1>2, <1>3
  <2>5. QED
    BY <1>4, <1>5, <2>1, <2>2, <2>3, <2>4, TouchKeeps
<1>9. stacks[1] # <<>>
  BY <1>2, <1>3, <1>7 DEF PaneSlots
<1>10. ASSUME RootsOnly(section), slot # 1, \A i \in 1..Len(forward) : forward[i][1] # 1 PROVE RootsOnly(new)
  <2>1. stacks[1] = section.stacks[1]
    BY <1>3, <1>10 DEF PaneSlots
  <2>2. FirstOrNot(new.touched, 1)
    BY <1>1, <1>5, <1>10, SectionIsTyped, RootStaysFirst DEF RootsOnly
  <2>3. QED
    BY <1>5, <1>10, <2>1, <2>2 DEF RootsOnly
<1>11. QED
  BY <1>5, <1>6, <1>8, <1>9, <1>10 DEF SectionHolds

-----------------------------------------------------------------------------
LEMMA ScreensBelong ==
    /\ \A r \in Screens : r \in Routes /\ r \notin Sections /\ SlotOf[r] \in PaneSlots
                         /\ RouteSlot(r) = SlotOf[r] /\ Belongs(r, SlotOf[r])
    /\ \A r \in Sections : r \in Routes /\ RouteSlot(r) = 1 /\ r \notin Screens
    /\ \A r \in Routes : r \in Sections \/ r \in Screens
    /\ 1 \in PaneSlots /\ 2 \in PaneSlots /\ 3 \in PaneSlots /\ \A s \in PaneSlots : s = 1 \/ s = 2 \/ s = 3
  BY ShellAssumption DEF Routes, RouteSlot, Belongs, PaneSlots

OnlyRoot(stack, root) == stack = <<root>>

(* What keeps the root of a section and touches nothing.                    *)
LEMMA RootedHolds ==
    ASSUME NEW root \in Sections, NEW section \in SectionType, NEW stack \in Seq(Routes), stack # <<>>,
           StacksHold(section.stacks, root), TouchedHolds(section.touched, section.stacks),
           OnlyRoot(stack, root), NEW forward \in Seq(PaneSlots \X Routes), ForwardHolds(forward)
    PROVE  /\ SectionHolds(Restacked(section, 1, stack, forward), root)
           /\ Restacked(section, 1, stack, forward).stacks[1] # <<>>
           /\ FirstOrNot(section.touched, 1) /\ (\A i \in 1..Len(forward) : forward[i][1] # 1) =>
                 RootsOnly(Restacked(section, 1, stack, forward))
<1> DEFINE new == Restacked(section, 1, stack, forward)
<1>1. /\ new \in SectionType /\ new.stacks[1] = stack /\ new.touched = section.touched
      /\ new.forward = forward /\ \A s \in PaneSlots : s # 1 => new.stacks[s] = section.stacks[s]
  <2>1. 1 \in PaneSlots
    BY ScreensBelong
  <2>2. QED
    BY <2>1, RestackedIs
<1> HIDE DEF new
<1>2. Len(stack) = 1 /\ stack[1] = root /\ \A i \in 1..1 : i = 1
  BY DEF OnlyRoot
<1>3. StacksHold(new.stacks, root)
  <2>1. ASSUME NEW s \in PaneSlots, NEW i \in 1..Len(new.stacks[s])
        PROVE IF s = 1 /\ i = 1 THEN new.stacks[s][i] = root ELSE Belongs(new.stacks[s][i], s)
    <3>1. CASE s = 1
      BY <1>1, <1>2, <2>1, <3>1
    <3>2. CASE s # 1
      BY <1>1, <2>1, <3>2 DEF StacksHold
    <3>3. QED
      BY <3>1, <3>2
  <2>2. QED
    BY <2>1 DEF StacksHold
<1>4. TouchedHolds(new.touched, new.stacks)
  <2>1. Range(section.touched) \subseteq PaneSlots
    BY SectionIsTyped, ElementsAreOf
  <2>2. \A s \in Range(section.touched) : new.stacks[s] # <<>>
    BY <1>1, <2>1 DEF TouchedHolds
  <2>3. \A s \in {2, 3} : new.stacks[s] = section.stacks[s]
    BY <1>1, ScreensBelong
  <2>4. QED
    BY <1>1, <2>2, <2>3 DEF TouchedHolds
<1>5. SectionHolds(new, root) /\ new.stacks[1] # <<>>
  BY <1>1, <1>3, <1>4 DEF SectionHolds
<1>6. FirstOrNot(section.touched, 1) /\ (\A i \in 1..Len(forward) : forward[i][1] # 1) => RootsOnly(new)
  BY <1>1, <1>2 DEF RootsOnly
<1>7. QED
  BY <1>5, <1>6 DEF new

LEMMA SeedHolds ==
    ASSUME NEW place, place \in NavType, \A t \in Sections : SectionHolds(place.sections[t], t)
    PROVE  /\ NavHolds(SeedSectionRoot(place))
           /\ AllRootsOnly(place) => AllRootsOnly(SeedSectionRoot(place))
<1> DEFINE section == SectionOf(place)
           stack == <<place.tab>>
           new == Restacked(section, 1, stack, section.forward)
           seeded == UpdateSection(place, new)
<1>1. place.tab \in Sections /\ SectionHolds(section, place.tab) /\ section = place.sections[place.tab]
  BY DEF NavType, SectionOf
<1>2. /\ section \in SectionType /\ StacksHold(section.stacks, place.tab)
      /\ TouchedHolds(section.touched, section.stacks) /\ ForwardHolds(section.forward)
      /\ section.forward \in Seq(PaneSlots \X Routes) /\ stack \in Seq(Routes) /\ stack # <<>>
      /\ OnlyRoot(stack, place.tab)
  BY <1>1, SectionIsTyped, ScreensBelong DEF SectionHolds, OnlyRoot
<1> HIDE DEF section, stack
<1>3. /\ SectionHolds(new, place.tab) /\ new.stacks[1] # <<>> /\ new \in SectionType
      /\ RootsOnly(section) => RootsOnly(new)
  BY <1>1, <1>2, RootedHolds DEF RootsOnly, SectionHolds
<1> HIDE DEF new
<1>4. /\ seeded \in NavType /\ seeded.tab = place.tab /\ seeded.sections[place.tab] = new
      /\ \A t \in Sections : t # place.tab => seeded.sections[t] = place.sections[t]
  BY <1>3, SectionUpdates
<1> HIDE DEF seeded
<1>5. NavHolds(seeded)
  <2>1. \A t \in Sections : SectionHolds(seeded.sections[t], t)
    BY <1>3, <1>4
  <2>2. StackOf(seeded, 1) # <<>>
    BY <1>3, <1>4 DEF StackOf, SectionOf
  <2>3. QED
    BY <1>4, <2>1, <2>2 DEF NavHolds
<1>6. AllRootsOnly(place) => AllRootsOnly(seeded)
  BY <1>1, <1>3, <1>4 DEF AllRootsOnly
<1>7. SeedSectionRoot(place) = IF StackOf(place, 1) = <<>> THEN seeded ELSE place
  BY DEF SeedSectionRoot, seeded, new, section, stack
<1>8. StackOf(place, 1) # <<>> => NavHolds(place)
  BY DEF NavHolds
<1>9. QED
  BY <1>5, <1>6, <1>7, <1>8

LEMMA SelectHolds ==
    ASSUME NEW place, NavHolds(place), NEW tab \in Sections
    PROVE  /\ NavHolds(SelectTab(place, tab))
           /\ AllRootsOnly(place) => AllRootsOnly(SelectTab(place, tab))
<1>1. CASE place.tab = tab
  <2> DEFINE section == SectionOf(place)
             stack == <<Head(StackOf(place, 1))>>
             none == <<>>
             new == Restacked(section, 1, stack, none)
  <2>1. /\ section \in SectionType /\ SectionHolds(section, tab) /\ section.stacks[1] # <<>>
        /\ StacksHold(section.stacks, tab) /\ TouchedHolds(section.touched, section.stacks)
        /\ StackOf(place, 1) = section.stacks[1] /\ section.stacks[1] \in Seq(Routes)
        /\ AllRootsOnly(place) => RootsOnly(section)
    BY <1>1, NavIsTyped, ScreensBelong DEF SectionHolds
  <2>2. Head(StackOf(place, 1)) = tab
    <3>1. 1 \in 1..Len(section.stacks[1]) /\ Head(section.stacks[1]) = section.stacks[1][1]
      BY <2>1
    <3>2. QED
      BY <2>1, <3>1, ScreensBelong DEF StacksHold
  <2>3. /\ none \in Seq(PaneSlots \X Routes) /\ ForwardHolds(none) /\ Len(none) = 0
        /\ \A i \in 1..Len(none) : none[i][1] # 1
    BY DEF ForwardHolds
  <2>4. OnlyRoot(stack, tab) /\ stack \in Seq(Routes) /\ stack # <<>>
    BY <2>2, ScreensBelong DEF OnlyRoot
  <2> HIDE DEF section, stack, none
  <2>5. /\ SectionHolds(new, tab) /\ new.stacks[1] # <<>> /\ (RootsOnly(section) => RootsOnly(new))
    BY <2>1, <2>3, <2>4, RootedHolds DEF RootsOnly
  <2> HIDE DEF new
  <2>6. SelectTab(place, tab) = UpdateSection(place, new)
    BY <1>1 DEF SelectTab, new, section, stack, none
  <2>7. QED
    BY <1>1, <2>1, <2>5, <2>6, SectionUpdateKeeps
<1>2. CASE place.tab # tab
  <2> DEFINE other == [place EXCEPT !.tab = tab]
  <2>1. other = [layout |-> place.layout, tab |-> tab, sections |-> place.sections] /\ other \in NavType
    BY DEF NavHolds, NavType
  <2>2. other.sections = place.sections
    BY <2>1
  <2> HIDE DEF other
  <2>3. (\A t \in Sections : SectionHolds(other.sections[t], t)) /\ (AllRootsOnly(place) => AllRootsOnly(other))
    BY <2>2 DEF NavHolds, AllRootsOnly
  <2>4. SelectTab(place, tab) = SeedSectionRoot(other)
    BY <1>2 DEF SelectTab, other
  <2>5. QED
    BY <2>1, <2>3, <2>4, SeedHolds
<1>3. QED
  BY <1>1, <1>2

LEMMA PushHolds ==
    ASSUME NEW place, NavHolds(place), NEW route \in Routes
    PROVE  /\ NavHolds(Push(place, route))
           /\ AllRootsOnly(place) /\ (route \in Screens => SlotOf[route] # 1) => AllRootsOnly(Push(place, route))
<1> DEFINE slot == RouteSlot(route)
           section == SectionOf(place)
           touched == Touched(section, slot)
           none == <<>>
           stack == StackOf(place, slot)
           new == Touched(Restacked(section, slot, Append(section.stacks[slot], route), none), slot)
<1>1. CASE route \in Sections
  BY <1>1, SelectHolds, ScreensBelong DEF Push
<1>2. CASE route \in Screens
  <2>1. slot \in PaneSlots /\ Belongs(route, slot) /\ route \notin Sections /\ slot = SlotOf[route]
    BY <1>2, ScreensBelong
  <2> HIDE DEF slot
  <2>2. /\ section \in SectionType /\ SectionHolds(section, place.tab) /\ section.stacks[1] # <<>>
        /\ stack = section.stacks[slot] /\ (AllRootsOnly(place) => RootsOnly(section))
    BY <2>1, NavIsTyped
  <2> HIDE DEF section
  <2>3. CASE stack # <<>> /\ TopOf(place, slot) = route
    <3>1. /\ touched \in SectionType /\ touched.stacks = section.stacks /\ touched.forward = section.forward
          /\ touched.touched = Append(Remaining(section.touched, {slot}), slot)
      BY <2>1, <2>2, TouchedIs
    <3> HIDE DEF touched
    <3>2. /\ section.stacks \in [PaneSlots -> Seq(Routes)] /\ section.touched \in Seq(PaneSlots)
          /\ TouchedHolds(section.touched, section.stacks)
      BY <2>2, SectionIsTyped DEF SectionHolds
    <3>3. TouchedHolds(touched.touched, section.stacks)
      BY <2>1, <2>2, <2>3, <3>1, <3>2, TouchKeeps DEF TouchedHolds
    <3>4. SectionHolds(touched, place.tab)
      BY <2>2, <3>1, <3>3 DEF SectionHolds
    <3>5. RootsOnly(section) /\ slot # 1 => RootsOnly(touched)
      BY <2>1, <3>1, <3>2, RootStaysFirst DEF RootsOnly
    <3>6. Push(place, route) = UpdateSection(place, touched)
      BY <2>1, <2>3 DEF Push, slot, section, touched, stack
    <3>7. QED
      BY <1>2, <2>1, <2>2, <3>1, <3>4, <3>5, <3>6, SectionUpdateKeeps
  <2>4. CASE ~(stack # <<>> /\ TopOf(place, slot) = route)
    <3>1. /\ none \in Seq(PaneSlots \X Routes) /\ ForwardHolds(none)
          /\ \A i \in 1..Len(none) : none[i][1] # 1
      BY DEF ForwardHolds
    <3> HIDE DEF none
    <3>2. SectionHolds(new, place.tab) /\ new.stacks[1] # <<>> /\ (RootsOnly(section) /\ slot # 1 => RootsOnly(new))
      BY <2>1, <2>2, <3>1, SectionGrows
    <3> HIDE DEF new
    <3>3. Push(place, route) = UpdateSection(place, new)
      BY <2>1, <2>2, <2>4 DEF Push, slot, section, new, stack, none
    <3>4. QED
      BY <1>2, <2>1, <2>2, <3>2, <3>3, SectionUpdateKeeps
  <2>5. QED
    BY <2>3, <2>4
<1>3. QED
  BY <1>1, <1>2, ScreensBelong

-----------------------------------------------------------------------------
LEMMA RecencyIs ==
    ASSUME NEW section \in SectionType, NEW s
    PROVE  /\ Recency(section, s) \in Nat
           /\ s \in Range(section.touched) => /\ Recency(section, s) \in 1..Len(section.touched)
                                              /\ section.touched[Recency(section, s)] = s
           /\ s \notin Range(section.touched) => Recency(section, s) = 0
<1> DEFINE touched == section.touched
           n == Len(touched)
<1>1. /\ touched \in Seq(PaneSlots) /\ n \in Nat /\ DOMAIN touched = 1..n
      /\ (\A x \in Range(touched) : \E i \in 1..n : x = touched[i]) /\ \A i \in 1..n : touched[i] \in Range(touched)
  BY SectionIsTyped, ElementsOf
<1> HIDE DEF touched, n
<1>2. Recency(section, s) = IF \E i \in 1..n : touched[i] = s THEN CHOOSE i \in 1..n : touched[i] = s ELSE 0
  BY <1>1 DEF Recency, touched
<1>3. CASE s \in Range(touched)
  <2>1. \E i \in 1..n : touched[i] = s
    BY <1>1, <1>3
  <2>2. Recency(section, s) \in 1..n /\ touched[Recency(section, s)] = s
    BY <1>2, <2>1
  <2>3. QED
    BY <1>1, <1>3, <2>2 DEF touched, n
<1>4. CASE s \notin Range(touched)
  <2>1. ~ \E i \in 1..n : touched[i] = s
    BY <1>1, <1>4
  <2>2. QED
    BY <1>2, <1>4, <2>1 DEF touched
<1>5. QED
  BY <1>3, <1>4

(* Of some slots there is one no other comes after.                         *)
LEMMA LatestSlot ==
    ASSUME NEW section \in SectionType, NEW slots \in SUBSET PaneSlots, slots # {}
    PROVE  \E s \in slots : \A t \in slots : Later(section, s, t)
<1> DEFINE r1 == Recency(section, 1)
           r2 == Recency(section, 2)
           r3 == Recency(section, 3)
<1>1. r1 \in Nat /\ r2 \in Nat /\ r3 \in Nat
  BY RecencyIs
<1> HIDE DEF r1, r2, r3
<1> DEFINE L(s, t) == Later(section, s, t)
<1>2. /\ L(1, 1) /\ L(2, 2) /\ L(3, 3)
      /\ (L(1, 2) <=> r1 > r2) /\ (L(1, 3) <=> r1 > r3) /\ (L(2, 3) <=> r2 > r3)
      /\ (L(2, 1) <=> r2 >= r1) /\ (L(3, 1) <=> r3 >= r1) /\ (L(3, 2) <=> r3 >= r2)
  BY <1>1 DEF Later, r1, r2, r3
<1> HIDE DEF L
<1>3. \A s \in slots : s = 1 \/ s = 2 \/ s = 3
  BY ScreensBelong
<1>4. \E s \in slots : \A t \in slots : L(s, t)
  <2>1. CASE 1 \in slots /\ (2 \in slots => L(1, 2)) /\ (3 \in slots => L(1, 3))
    BY <1>2, <1>3, <2>1
  <2>2. CASE 2 \in slots /\ (1 \in slots => L(2, 1)) /\ (3 \in slots => L(2, 3))
    BY <1>2, <1>3, <2>2
  <2>3. CASE 3 \in slots /\ (1 \in slots => L(3, 1)) /\ (2 \in slots => L(3, 2))
    BY <1>2, <1>3, <2>3
  <2>4. /\ \/ 1 \in slots \/ 2 \in slots \/ 3 \in slots
        /\ L(1, 2) \/ L(2, 1)
        /\ L(1, 3) \/ L(3, 1)
        /\ L(2, 3) \/ L(3, 2)
        /\ L(1, 2) /\ L(2, 3) => L(1, 3)
        /\ L(1, 3) /\ L(3, 2) => L(1, 2)
        /\ L(2, 1) /\ L(1, 3) => L(2, 3)
        /\ L(2, 3) /\ L(3, 1) => L(2, 1)
        /\ L(3, 1) /\ L(1, 2) => L(3, 2)
        /\ L(3, 2) /\ L(2, 1) => L(3, 1)
    BY <1>1, <1>2, <1>3
  <2>5. QED
    BY <2>1, <2>2, <2>3, <2>4, Zenon
<1>5. QED
  BY <1>4 DEF L

LEMMA MostRecentIs ==
    ASSUME NEW place, NavHolds(place), CanGoBack(place), NEW slot, slot = MostRecentOccupied(place)
    PROVE  /\ slot \in PaneSlots /\ slot \in Closable(place)
           /\ \A t \in Closable(place) : Later(SectionOf(place), slot, t)
<1>1. SectionOf(place) \in SectionType /\ Closable(place) \in SUBSET PaneSlots /\ Closable(place) # {}
  BY NavIsTyped DEF Closable, CanGoBack
<1>2. \E s \in Closable(place) : \A t \in Closable(place) : Later(SectionOf(place), s, t)
  BY <1>1, LatestSlot
<1>3. /\ MostRecentOccupied(place) \in Closable(place)
      /\ \A t \in Closable(place) : Later(SectionOf(place), MostRecentOccupied(place), t)
  BY <1>2 DEF MostRecentOccupied
<1>4. QED
  BY <1>1, <1>3

LEMMA TopIs ==
    ASSUME NEW place, NavHolds(place), NEW slot \in PaneSlots, StackOf(place, slot) # <<>>
    PROVE  /\ TopOf(place, slot) \in Routes /\ RouteSlot(TopOf(place, slot)) = slot
           /\ Len(StackOf(place, slot)) > (IF slot = 1 THEN 1 ELSE 0) => Belongs(TopOf(place, slot), slot)
<1> DEFINE stack == StackOf(place, slot)
           n == Len(stack)
<1>1. /\ stack = SectionOf(place).stacks[slot] /\ stack \in Seq(Routes) /\ StacksHold(SectionOf(place).stacks, place.tab)
      /\ place.tab \in Sections
  BY NavIsTyped DEF SectionHolds
<1>2. n \in Nat /\ n \in 1..n /\ TopOf(place, slot) = stack[n]
  BY <1>1 DEF TopOf, Last
<1>3. IF slot = 1 /\ n = 1 THEN stack[n] = place.tab ELSE Belongs(stack[n], slot)
  BY <1>1, <1>2 DEF StacksHold
<1>4. stack[n] \in Routes /\ RouteSlot(stack[n]) = slot
  BY <1>1, <1>3, ScreensBelong DEF Belongs
<1>5. n > (IF slot = 1 THEN 1 ELSE 0) => ~(slot = 1 /\ n = 1)
  BY <1>2
<1>6. QED
  BY <1>2, <1>3, <1>4, <1>5

-----------------------------------------------------------------------------
(* What back leaves of a section, and what it puts by.                      *)
BackIn(place) ==
    LET slot == MostRecentOccupied(place)
        forward == SectionOf(place).forward
        kept == IF Len(forward) = ForwardLimit THEN Tail(forward) ELSE forward
    IN  Restacked(SectionOf(place), slot, Front(StackOf(place, slot)), Append(kept, <<slot, TopOf(place, slot)>>))

LEMMA BackIs ==
    ASSUME NEW place, NavHolds(place), CanGoBack(place), NEW slot, slot = MostRecentOccupied(place)
    PROVE  /\ BackIn(place) \in SectionType /\ BackIn(place).touched = SectionOf(place).touched
           /\ BackIn(place).stacks[slot] = Front(StackOf(place, slot))
           /\ \A s \in PaneSlots : s # slot => BackIn(place).stacks[s] = StackOf(place, s)
           /\ BackIn(place).forward # <<>> /\ Last(BackIn(place).forward) = <<slot, TopOf(place, slot)>>
           /\ ForwardHolds(BackIn(place).forward)
           /\ AllRootsOnly(place) /\ slot # 1 =>
                 \A i \in 1..Len(BackIn(place).forward) : BackIn(place).forward[i][1] # 1
<1> DEFINE section == SectionOf(place)
           forward == section.forward
           kept == IF Len(forward) = ForwardLimit THEN Tail(forward) ELSE forward
           more == Append(kept, <<slot, TopOf(place, slot)>>)
           stack == Front(StackOf(place, slot))
<1>1. slot \in PaneSlots /\ slot \in Closable(place)
  BY MostRecentIs
<1>2. Len(StackOf(place, slot)) > (IF slot = 1 THEN 1 ELSE 0) /\ StackOf(place, slot) \in Seq(Routes)
  BY <1>1, NavIsTyped DEF Closable
<1>3. StackOf(place, slot) # <<>> /\ stack \in Seq(Routes)
  <2>1. StackOf(place, slot) # <<>> /\ Len(StackOf(place, slot)) \in Nat /\ Len(StackOf(place, slot)) > 0
    BY <1>2
  <2>2. QED
    BY <1>2, <2>1 DEF Front
<1>4. TopOf(place, slot) \in Routes /\ Belongs(TopOf(place, slot), slot)
  BY <1>1, <1>2, <1>3, TopIs
<1>5. /\ section \in SectionType /\ forward \in Seq(PaneSlots \X Routes) /\ ForwardHolds(forward)
      /\ AllRootsOnly(place) => \A i \in 1..Len(forward) : forward[i][1] # 1
      /\ \A s \in PaneSlots : StackOf(place, s) = section.stacks[s]
  BY NavIsTyped, SectionIsTyped DEF SectionHolds, RootsOnly
<1> HIDE DEF section, forward, stack
<1>6. /\ kept \in Seq(PaneSlots \X Routes) /\ ForwardHolds(kept)
      /\ AllRootsOnly(place) => \A i \in 1..Len(kept) : kept[i][1] # 1
  <2>1. CASE Len(forward) = ForwardLimit
    <3>1. forward # <<>>
      BY <2>1, PaneAssumption
    <3>2. QED
      BY <1>5, <2>1, <3>1, ForwardEnds
  <2>2. CASE Len(forward) # ForwardLimit
    BY <1>5, <2>2
  <2>3. QED
    BY <2>1, <2>2
<1> HIDE DEF kept
<1>7. /\ more \in Seq(PaneSlots \X Routes) /\ ForwardHolds(more)
      /\ AllRootsOnly(place) /\ slot # 1 => \A i \in 1..Len(more) : more[i][1] # 1
  BY <1>1, <1>4, <1>6, ForwardGrows
<1>8. more # <<>> /\ Last(more) = <<slot, TopOf(place, slot)>>
  <2>1. Len(more) = Len(kept) + 1 /\ Len(kept) \in Nat /\ more[Len(kept) + 1] = <<slot, TopOf(place, slot)>>
    BY <1>1, <1>4, <1>6
  <2> HIDE DEF more
  <2>2. QED
    BY <2>1 DEF Last
<1> HIDE DEF more
<1>9. BackIn(place) = Restacked(section, slot, stack, more)
  BY DEF BackIn, section, stack, more, kept, forward
<1>10. /\ BackIn(place) \in SectionType /\ BackIn(place).stacks[slot] = stack
       /\ (\A s \in PaneSlots : s # slot => BackIn(place).stacks[s] = section.stacks[s])
       /\ BackIn(place).touched = section.touched /\ BackIn(place).forward = more
  BY <1>1, <1>3, <1>5, <1>7, <1>9, RestackedIs
<1>11. QED
  BY <1>5, <1>7, <1>8, <1>10 DEF section, stack

LEMMA BackHolds ==
    ASSUME NEW place, NavHolds(place), CanGoBack(place)
    PROVE  /\ NavHolds(Back(place))
           /\ AllRootsOnly(place) => AllRootsOnly(Back(place))
<1> DEFINE slot == MostRecentOccupied(place)
           section == SectionOf(place)
           back == BackIn(place)
           new == Stamped(back)
           was == StackOf(place, slot)
           rest == Front(was)
<1>1. /\ slot \in PaneSlots /\ slot \in Closable(place)
  BY MostRecentIs
<1>2. /\ back \in SectionType /\ back.touched = section.touched /\ back.stacks[slot] = rest
      /\ \A s \in PaneSlots : s # slot => back.stacks[s] = StackOf(place, s)
      /\ ForwardHolds(back.forward)
      /\ AllRootsOnly(place) /\ slot # 1 => \A i \in 1..Len(back.forward) : back.forward[i][1] # 1
  BY BackIs
<1>3. Len(was) > (IF slot = 1 THEN 1 ELSE 0) /\ was \in Seq(Routes)
  BY <1>1, NavIsTyped DEF Closable
<1> HIDE DEF back, slot
<1>4. /\ rest \in Seq(Routes) /\ Len(rest) = Len(was) - 1 /\ Len(was) \in Nat
      /\ \A i \in 1..Len(rest) : i \in 1..Len(was) /\ rest[i] = was[i]
  <2>1. was # <<>>
    BY <1>3
  <2>2. QED
    BY <1>3, <2>1, FrontIs
<1>5. slot = 1 => rest # <<>>
  BY <1>3, <1>4
<1> HIDE DEF rest
<1>6. /\ section \in SectionType /\ StacksHold(section.stacks, place.tab)
      /\ TouchedHolds(section.touched, section.stacks) /\ section.stacks[1] # <<>>
      /\ \A s \in PaneSlots : StackOf(place, s) = section.stacks[s]
      /\ AllRootsOnly(place) => RootsOnly(section)
  BY NavIsTyped DEF SectionHolds
<1>7. /\ new \in SectionType /\ new.stacks = back.stacks /\ new.forward = back.forward
      /\ new.touched = Remaining(section.touched, {s \in PaneSlots : back.stacks[s] = <<>>})
  BY <1>2, StampedIs
<1> HIDE DEF new, section
<1>8. StacksHold(back.stacks, place.tab)
  <2>1. ASSUME NEW s \in PaneSlots, NEW i \in 1..Len(back.stacks[s])
        PROVE IF s = 1 /\ i = 1 THEN back.stacks[s][i] = place.tab ELSE Belongs(back.stacks[s][i], s)
    <3>1. CASE s = slot
      <4>1. i \in 1..Len(rest) /\ i \in 1..Len(section.stacks[s]) /\ back.stacks[s][i] = section.stacks[s][i]
        BY <1>2, <1>4, <1>6, <2>1, <3>1
      <4>2. QED
        BY <1>6, <4>1 DEF StacksHold
    <3>2. CASE s # slot
      BY <1>2, <1>6, <2>1, <3>2 DEF StacksHold
    <3>3. QED
      BY <3>1, <3>2
  <2>2. QED
    BY <2>1 DEF StacksHold
<1>9. back.stacks \in [PaneSlots -> Seq(Routes)] /\ section.touched \in Seq(PaneSlots)
  BY <1>2, <1>6, SectionIsTyped
<1>10. \A s \in {2, 3} : back.stacks[s] # <<>> => s \in Range(section.touched)
  <2>1. ASSUME NEW s \in {2, 3}, back.stacks[s] # <<>> PROVE section.stacks[s] # <<>>
    <3>1. s \in PaneSlots
      BY ScreensBelong
    <3>2. CASE s = slot
      <4>1. Len(section.stacks[s]) > 0 /\ section.stacks[s] \in Seq(Routes)
        BY <1>3, <1>6, <3>1, <3>2
      <4>2. QED
        BY <4>1
    <3>3. QED
      BY <1>2, <1>6, <2>1, <3>1, <3>2
  <2>2. QED
    BY <1>6, <2>1 DEF TouchedHolds
<1>11. TouchedHolds(new.touched, new.stacks)
  <2>1. AllApart(section.touched)
    BY <1>6 DEF TouchedHolds
  <2>2. QED
    BY <1>7, <1>9, <1>10, <2>1, StampKeeps
<1>12. new.stacks[1] # <<>>
  BY <1>2, <1>5, <1>6, <1>7, ScreensBelong
<1>13. SectionHolds(new, place.tab)
  BY <1>2, <1>7, <1>8, <1>11 DEF SectionHolds
<1>14. RootsOnly(section) => slot # 1
  <2>1. ASSUME RootsOnly(section), slot = 1 PROVE FALSE
    <3>1. Len(section.stacks[1]) <= 1 /\ Len(section.stacks[1]) > 1 /\ Len(section.stacks[1]) \in Nat
      BY <1>3, <1>4, <1>6, <2>1, ScreensBelong DEF RootsOnly
    <3>2. QED
      BY <3>1
  <2>2. QED
    BY <2>1
<1>15. ASSUME AllRootsOnly(place) PROVE RootsOnly(new)
  <2>1. new.stacks[1] = section.stacks[1]
    BY <1>2, <1>6, <1>7, <1>14, <1>15, ScreensBelong
  <2>2. FirstOrNot(new.touched, 1)
    BY <1>6, <1>7, <1>9, <1>15, FirstOfRemaining DEF RootsOnly
  <2>3. QED
    BY <1>2, <1>6, <1>7, <1>14, <1>15, <2>1, <2>2 DEF RootsOnly
<1>16. Back(place) = UpdateSection(place, new)
  BY DEF Back, BackIn, back, new
<1>17. QED
  BY <1>12, <1>13, <1>15, <1>16, SectionUpdateKeeps

-----------------------------------------------------------------------------
LEMMA ForwardKeeps ==
    ASSUME NEW place, NavHolds(place), CanGoForward(place)
    PROVE  /\ NavHolds(Forward(place))
           /\ AllRootsOnly(place) => AllRootsOnly(Forward(place))
<1> DEFINE section == SectionOf(place)
           entry == Last(section.forward)
           slot == entry[1]
           r == entry[2]
           rest == Front(section.forward)
           new == Touched(Restacked(section, slot, Append(section.stacks[slot], r), rest), slot)
<1>1. /\ section \in SectionType /\ SectionHolds(section, place.tab) /\ section.stacks[1] # <<>>
      /\ ForwardHolds(section.forward) /\ section.forward \in Seq(PaneSlots \X Routes)
      /\ AllRootsOnly(place) => RootsOnly(section)
      /\ \A s \in PaneSlots : StackOf(place, s) = section.stacks[s]
  BY NavIsTyped, SectionIsTyped DEF SectionHolds
<1>2. section.forward # <<>>
  BY DEF CanGoForward
<1> HIDE DEF section
<1>3. /\ entry \in PaneSlots \X Routes /\ Belongs(r, slot)
      /\ rest \in Seq(PaneSlots \X Routes) /\ ForwardHolds(rest)
      /\ RootsOnly(section) => slot # 1 /\ \A i \in 1..Len(rest) : rest[i][1] # 1
  BY <1>1, <1>2, ForwardEnds DEF RootsOnly
<1>4. slot \in PaneSlots /\ r \in Routes
  BY <1>3
<1> HIDE DEF entry, slot, r, rest
<1>5. /\ SectionHolds(new, place.tab) /\ new.stacks[1] # <<>>
      /\ RootsOnly(section) /\ slot # 1 /\ (\A i \in 1..Len(rest) : rest[i][1] # 1) => RootsOnly(new)
  BY <1>1, <1>3, <1>4, SectionGrows
<1>6. StackOf(place, slot) = section.stacks[slot]
  BY <1>1, <1>4
<1>7. Forward(place) = UpdateSection(place, new)
  BY <1>6 DEF Forward, Restored, new, section, slot, r, rest, entry
<1> HIDE DEF new
<1>8. QED
  BY <1>1, <1>3, <1>5, <1>7, SectionUpdateKeeps

LEMMA FrontAndLast == ASSUME NEW T, NEW s \in Seq(T), s # <<>> PROVE Append(Front(s), Last(s)) = s
<1> DEFINE t == Append(Front(s), Last(s))
           k == Len(Front(s))
<1>1. /\ Front(s) \in Seq(T) /\ k = Len(s) - 1 /\ Len(s) \in Nat /\ Len(s) > 0
      /\ \A i \in 1..k : i \in 1..Len(s) /\ Front(s)[i] = s[i]
  BY FrontIs
<1>2. Last(s) = s[Len(s)] /\ Last(s) \in T
  BY <1>1, ElementOfSeq DEF Last
<1>3. /\ t \in Seq(T) /\ Len(t) = k + 1 /\ t[k + 1] = Last(s) /\ k \in Nat
      /\ \A i \in 1..k : t[i] = Front(s)[i]
  BY <1>1, <1>2
<1> HIDE DEF t, k
<1>4. ASSUME NEW i \in 1..Len(t) PROVE t[i] = s[i]
  <2>1. i = k + 1 \/ i \in 1..k
    BY <1>3
  <2>2. k + 1 = Len(s)
    BY <1>1
  <2>3. QED
    BY <1>1, <1>2, <1>3, <2>1, <2>2
<1>5. t = s
  BY <1>1, <1>3, <1>4, SeqEqual
<1>6. QED
  BY <1>5 DEF t

(* The slot that back unwinds is the last that was touched.                 *)
LEMMA LastTouched ==
    ASSUME NEW place, NavHolds(place), AllRootsOnly(place), CanGoBack(place), NEW slot, slot = MostRecentOccupied(place)
    PROVE  /\ slot # 1 /\ SectionOf(place).touched # <<>>
           /\ SectionOf(place).touched[Len(SectionOf(place).touched)] = slot
<1> DEFINE section == SectionOf(place)
           touched == section.touched
           n == Len(touched)
<1>1. /\ slot \in PaneSlots /\ slot \in Closable(place)
      /\ \A t \in Closable(place) : Later(section, slot, t)
  BY MostRecentIs
<1>2. /\ section \in SectionType /\ touched \in Seq(PaneSlots) /\ TouchedHolds(touched, section.stacks)
      /\ RootsOnly(section)
      /\ \A s \in PaneSlots : StackOf(place, s) = section.stacks[s] /\ StackOf(place, s) \in Seq(Routes)
  BY NavIsTyped, SectionIsTyped DEF SectionHolds
<1>3. Len(section.stacks[slot]) > (IF slot = 1 THEN 1 ELSE 0)
  BY <1>1, <1>2 DEF Closable
<1>4. slot # 1
  <2>1. ASSUME slot = 1 PROVE FALSE
    <3>1. Len(section.stacks[1]) > 1 /\ Len(section.stacks[1]) <= 1 /\ section.stacks[1] \in Seq(Routes)
      BY <1>2, <1>3, <2>1, ScreensBelong DEF RootsOnly
    <3>2. QED
      BY <3>1
  <2>2. QED
    BY <2>1
<1> HIDE DEF section
<1>5. section.stacks[slot] # <<>> /\ slot \in {2, 3}
  <2>1. Len(section.stacks[slot]) > 0 /\ section.stacks[slot] \in Seq(Routes)
    BY <1>1, <1>2, <1>3, <1>4
  <2>2. QED
    BY <1>1, <1>4, <2>1, ScreensBelong
<1>6. slot \in Range(touched)
  BY <1>2, <1>5 DEF TouchedHolds
<1>7. /\ Recency(section, slot) \in 1..n /\ touched[Recency(section, slot)] = slot
  BY <1>2, <1>6, RecencyIs
<1>8. n \in Nat /\ n > 0 /\ n \in 1..n /\ touched[n] \in Range(touched) /\ touched[n] \in PaneSlots
      /\ \A a, b \in 1..n : touched[a] = touched[b] => a = b
  <2>1. n \in Nat /\ \A i \in 1..n : touched[i] \in Range(touched) /\ touched[i] \in PaneSlots
    BY <1>2, ElementsOf
  <2>2. n > 0 /\ n \in 1..n
    BY <1>7, <2>1
  <2>3. \A a, b \in 1..n : touched[a] = touched[b] => a = b
    BY <1>2 DEF TouchedHolds, AllApart
  <2>4. QED
    BY <2>1, <2>2, <2>3
<1> DEFINE x == touched[n]
<1>9. Recency(section, x) = n
  <2>1. Recency(section, x) \in 1..n /\ touched[Recency(section, x)] = x
    BY <1>2, <1>8, RecencyIs
  <2>2. QED
    BY <1>8, <2>1
<1> HIDE DEF n
<1>10. ASSUME x # slot PROVE FALSE
  <2>1. section.stacks[x] # <<>> /\ x \in PaneSlots
    BY <1>2, <1>8 DEF TouchedHolds
  <2>2. Recency(section, slot) # n
    BY <1>7, <1>10
  <2>3. CASE x = 1
    <3>1. n = 1
      BY <1>2, <1>8, <2>3 DEF RootsOnly, FirstOrNot, n
    <3>2. QED
      BY <1>7, <2>2, <3>1
  <2>4. CASE x # 1
    <3>1. section.stacks[x] \in Seq(Routes) /\ Len(section.stacks[x]) > 0
      BY <1>2, <2>1
    <3>2. x \in Closable(place)
      BY <1>2, <2>1, <2>4, <3>1 DEF Closable
    <3>3. Later(section, slot, x)
      BY <1>1, <3>2 DEF section
    <3>4. Recency(section, slot) >= n
      BY <1>7, <1>8, <1>9, <3>3 DEF Later
    <3>5. QED
      BY <1>7, <1>8, <2>2, <3>4
  <2>5. QED
    BY <2>3, <2>4
<1>11. touched # <<>>
  BY <1>2, <1>8 DEF n
<1>12. QED
  BY <1>4, <1>10, <1>11 DEF n, section

(* Going back and forward again leaves the stacks, and the order in which   *)
(* they were touched.                                                       *)
LEMMA AgainIs ==
    ASSUME NEW place, NavHolds(place), AllRootsOnly(place), CanGoBack(place), NEW again, again = Forward(Back(place))
    PROVE  /\ again.layout = place.layout /\ again.tab = place.tab
           /\ SectionOf(again).stacks = SectionOf(place).stacks
           /\ SectionOf(again).touched = SectionOf(place).touched
<1> DEFINE section == SectionOf(place)
           slot == MostRecentOccupied(place)
           was == StackOf(place, slot)
           in == BackIn(place)
           n1 == Stamped(in)
           back == UpdateSection(place, n1)
           top == TopOf(place, slot)
           gone == {s \in PaneSlots : in.stacks[s] = <<>>}
<1>1. /\ slot \in PaneSlots /\ slot \in Closable(place) /\ slot # 1 /\ section.touched # <<>>
      /\ section.touched[Len(section.touched)] = slot
  BY MostRecentIs, LastTouched
<1>2. /\ in \in SectionType /\ in.touched = section.touched /\ in.stacks[slot] = Front(was)
      /\ \A s \in PaneSlots : s # slot => in.stacks[s] = StackOf(place, s)
      /\ in.forward # <<>> /\ Last(in.forward) = <<slot, top>>
  BY BackIs
<1>3. /\ section \in SectionType /\ place \in NavType /\ TouchedHolds(section.touched, section.stacks)
      /\ \A s \in PaneSlots : StackOf(place, s) = section.stacks[s] /\ StackOf(place, s) \in Seq(Routes)
  BY NavIsTyped DEF SectionHolds
<1>4. was # <<>> /\ was \in Seq(Routes) /\ top = Last(was)
  BY <1>1, <1>3 DEF Closable, TopOf
<1>5. Append(Front(was), top) = was
  BY <1>4, FrontAndLast
<1>6. Back(place) = back
  BY DEF Back, BackIn
<1> HIDE DEF section, slot, in, was, top
<1>7. /\ n1 \in SectionType /\ n1.stacks = in.stacks /\ n1.forward = in.forward
      /\ n1.touched = Remaining(section.touched, gone)
  BY <1>2, StampedIs
<1> HIDE DEF n1, gone
<1>8. back \in NavType /\ back.layout = place.layout /\ back.tab = place.tab /\ back.sections[place.tab] = n1
  BY <1>3, <1>7, SectionUpdates
<1> HIDE DEF back
<1>9. SectionOf(back) = n1 /\ \A s \in PaneSlots : StackOf(back, s) = n1.stacks[s]
  BY <1>8 DEF SectionOf, StackOf
<1> DEFINE rest == Front(n1.forward)
           new == Restacked(n1, slot, was, rest)
<1>10. Restored(back) = new
  <2> DEFINE e == Last(n1.forward)
  <2>1. e[1] = slot /\ e[2] = top
    BY <1>2, <1>7
  <2>2. StackOf(back, slot) = Front(was)
    BY <1>1, <1>2, <1>7, <1>9
  <2>3. Restored(back) = Restacked(n1, e[1], Append(StackOf(back, e[1]), e[2]), rest)
    BY <1>9 DEF Restored
  <2> HIDE DEF e, rest
  <2>4. QED
    BY <1>5, <2>1, <2>2, <2>3
<1>11. rest \in Seq(PaneSlots \X Routes)
  BY <1>2, <1>7, SectionIsTyped, FrontIs
<1> HIDE DEF rest
<1>12. /\ new \in SectionType /\ new.stacks[slot] = was /\ new.touched = n1.touched
       /\ \A s \in PaneSlots : s # slot => new.stacks[s] = n1.stacks[s]
  BY <1>1, <1>4, <1>7, <1>11, RestackedIs
<1> HIDE DEF new
<1> DEFINE restored == Touched(new, slot)
<1>13. /\ restored \in SectionType /\ restored.stacks = new.stacks
       /\ restored.touched = Append(Remaining(n1.touched, {slot}), slot)
  <2>1. new \in SectionType /\ slot \in PaneSlots
    BY <1>1, <1>12
  <2>2. /\ Touched(new, slot) \in SectionType /\ Touched(new, slot).stacks = new.stacks
        /\ Touched(new, slot).touched = Append(Remaining(new.touched, {slot}), slot)
    BY <2>1, TouchedIs
  <2>3. QED
    BY <1>12, <2>2
<1>14. again = UpdateSection(back, restored)
  BY <1>2, <1>6, <1>7, <1>9, <1>10 DEF Forward
<1> HIDE DEF restored
<1>15. again.layout = place.layout /\ again.tab = place.tab /\ SectionOf(again) = restored
  BY <1>8, <1>13, <1>14, SectionUpdates DEF SectionOf
<1>16. restored.stacks = section.stacks
  <2>1. ASSUME NEW s \in PaneSlots PROVE restored.stacks[s] = section.stacks[s]
    <3>1. CASE s = slot
      BY <1>1, <1>3, <1>12, <1>13, <3>1 DEF was
    <3>2. CASE s # slot
      BY <1>2, <1>3, <1>7, <1>12, <1>13, <3>2
    <3>3. QED
      BY <3>1, <3>2
  <2>2. restored.stacks \in [PaneSlots -> Seq(Routes)] /\ section.stacks \in [PaneSlots -> Seq(Routes)]
    BY <1>3, <1>13, SectionIsTyped
  <2>3. QED
    BY <2>1, <2>2
<1>17. restored.touched = section.touched
  <2>1. section.touched \in Seq(PaneSlots) /\ AllApart(section.touched) /\ Range(section.touched) \subseteq PaneSlots
    BY <1>3, SectionIsTyped, ElementsAreOf DEF TouchedHolds
  <2>2. \A x \in Range(section.touched) : x \in gone => x = slot
    BY <1>2, <1>3, <2>1 DEF gone, TouchedHolds
  <2>3. Append(Remaining(Remaining(section.touched, gone), {slot}), slot) = section.touched
    BY <1>1, <2>1, <2>2, PutBackLast
  <2>4. QED
    BY <1>7, <1>13, <2>3
<1>18. QED
  BY <1>15, <1>16, <1>17 DEF section

-----------------------------------------------------------------------------
(* The shell around it.                                                     *)

LEMMA ResetSection ==
    ASSUME NEW root \in Sections, NEW section, SectionHolds(section, root),
           NEW new, new = Stamped([stacks |-> Unwound(section.stacks), touched |-> section.touched,
                                   forward |-> <<>>])
    PROVE  /\ SectionHolds(new, root) /\ RootsOnly(new) /\ new.forward = <<>>
           /\ section.stacks[1] # <<>> => new.stacks[1] # <<>>
           /\ \A s \in PaneSlots : \A i \in 1..Len(new.stacks[s]) : new.stacks[s][i] = root
<1> DEFINE stacks == Unwound(section.stacks)
           in == [stacks |-> stacks, touched |-> section.touched, forward |-> <<>>]
           first == section.stacks[1]
           gone == {s \in PaneSlots : stacks[s] = <<>>}
<1>1. /\ section \in SectionType /\ StacksHold(section.stacks, root) /\ TouchedHolds(section.touched, section.stacks)
      /\ section.stacks \in [PaneSlots -> Seq(Routes)] /\ section.touched \in Seq(PaneSlots)
      /\ \A s \in PaneSlots : section.stacks[s] \in Seq(Routes)
  BY SectionIsTyped DEF SectionHolds
<1>2. /\ first \in Seq(Routes) /\ 1 \in PaneSlots /\ root \in Routes
  BY <1>1, ScreensBelong
<1>3. first # <<>> => Head(first) = root
  <2>1. ASSUME first # <<>> PROVE Head(first) = root
    <3>1. 1 \in 1..Len(first) /\ Head(first) = first[1]
      BY <1>2, <2>1
    <3>2. QED
      BY <1>1, <1>2, <3>1 DEF StacksHold
  <2>2. QED
    BY <2>1
<1>4. /\ DOMAIN stacks = PaneSlots
      /\ \A s \in PaneSlots : stacks[s] = IF s = 1 /\ first # <<>> THEN <<root>> ELSE <<>>
  BY <1>3 DEF Unwound
<1>5. stacks \in [PaneSlots -> Seq(Routes)]
  <2>1. <<root>> \in Seq(Routes) /\ <<>> \in Seq(Routes)
    BY <1>2
  <2>2. \A s \in PaneSlots : stacks[s] \in Seq(Routes)
    BY <1>4, <2>1
  <2>3. stacks = [s \in PaneSlots |-> stacks[s]]
    BY DEF Unwound
  <2> HIDE DEF stacks
  <2>4. QED
    BY <2>2, <2>3
<1> HIDE DEF stacks, first
<1>6. in \in SectionType
  <2>1. <<>> \in Seq(PaneSlots \X Routes)
    OBVIOUS
  <2>2. QED
    BY <1>1, <1>5, <2>1 DEF SectionType
<1>7. in.stacks = stacks /\ in.touched = section.touched /\ in.forward = <<>>
  OBVIOUS
<1> HIDE DEF in
<1>8. new = Stamped(in)
  BY DEF in, stacks
<1>9. /\ new \in SectionType /\ new.stacks = stacks /\ new.forward = <<>>
      /\ new.touched = Remaining(section.touched, gone)
  BY <1>6, <1>7, <1>8, StampedIs
<1>10. \A s \in PaneSlots : \A i \in 1..Len(new.stacks[s]) : i = 1 /\ s = 1 /\ new.stacks[s][i] = root
  <2>1. Len(<<root>>) = 1 /\ <<root>>[1] = root /\ (\A i \in 1..1 : i = 1) /\ Len(<<>>) = 0 /\ ~ \E i \in 1..0 : TRUE
    OBVIOUS
  <2>2. QED
    BY <1>4, <1>9, <2>1
<1>11. StacksHold(new.stacks, root) /\ ForwardHolds(new.forward)
  BY <1>9, <1>10 DEF StacksHold, ForwardHolds
<1>12. TouchedHolds(new.touched, stacks)
  <2>1. AllApart(section.touched) /\ \A s \in {2, 3} : stacks[s] # <<>> => s \in Range(section.touched)
    BY <1>1, <1>4, ScreensBelong DEF TouchedHolds
  <2>2. QED
    BY <1>1, <1>5, <1>9, <2>1, StampKeeps
<1>13. RootsOnly(new)
  <2>1. Len(new.stacks[1]) <= 1
    <3>1. Len(<<root>>) <= 1 /\ Len(<<>>) <= 1
      OBVIOUS
    <3>2. stacks[1] = <<root>> \/ stacks[1] = <<>>
      BY <1>2, <1>4
    <3>3. new.stacks[1] = stacks[1]
      BY <1>9
    <3>4. QED
      BY <3>1, <3>2, <3>3, Zenon
  <2>2. \A i \in 1..Len(new.forward) : new.forward[i][1] # 1
    BY <1>9
  <2>3. FirstOrNot(new.touched, 1)
    <3>1. new.touched \in Seq(PaneSlots) /\ AllApart(new.touched) /\ \A s \in Range(new.touched) : s = 1
      <4>1. new.touched \in Seq(PaneSlots) /\ Range(new.touched) \subseteq PaneSlots
        BY <1>9, SectionIsTyped, ElementsAreOf
      <4>2. \A s \in PaneSlots : stacks[s] # <<>> => s = 1
        BY <1>4
      <4>3. QED
        BY <1>12, <4>1, <4>2 DEF TouchedHolds
    <3>2. \A i, j \in 1..Len(new.touched) : i = j
      <4>1. \A i \in 1..Len(new.touched) : new.touched[i] \in Range(new.touched)
        BY <3>1, ElementsOf
      <4>2. \A i \in 1..Len(new.touched) : new.touched[i] = 1
        BY <3>1, <4>1
      <4>3. QED
        BY <3>1, <4>2 DEF AllApart
    <3>3. ASSUME NEW i \in 1..Len(new.touched) PROVE i = 1
      <4>1. Len(new.touched) \in Nat
        BY <3>1
      <4>2. 1 \in 1..Len(new.touched)
        BY <3>3, <4>1
      <4>3. QED
        BY <3>2, <3>3, <4>2
    <3>4. QED
      BY <3>3 DEF FirstOrNot
  <2>4. QED
    BY <2>1, <2>2, <2>3 DEF RootsOnly
<1>14. first # <<>> => new.stacks[1] # <<>>
  <2>1. <<root>> # <<>>
    OBVIOUS
  <2>2. first # <<>> => stacks[1] = <<root>>
    BY <1>2, <1>4
  <2>3. QED
    BY <1>9, <2>1, <2>2
<1>15. QED
  BY <1>9, <1>10, <1>11, <1>12, <1>13, <1>14 DEF SectionHolds, first

LEMMA ResetHolds ==
    ASSUME NEW n, NavHolds(n)
    PROVE  /\ NavHolds(ResetToRoot(n)) /\ AllRootsOnly(ResetToRoot(n))
           /\ \A t \in Sections : ResetToRoot(n).sections[t].forward = <<>>
           /\ \A t \in Sections, s \in PaneSlots :
                 \A i \in 1..Len(ResetToRoot(n).sections[t].stacks[s]) :
                    ResetToRoot(n).sections[t].stacks[s][i] = t
<1> DEFINE reset(t) == Stamped([stacks |-> Unwound(n.sections[t].stacks),
                                touched |-> n.sections[t].touched, forward |-> <<>>])
           sections == [t \in Sections |-> reset(t)]
           new == ResetToRoot(n)
<1>1. n \in NavType /\ n.tab \in Sections /\ n.layout \in Layouts /\ SectionOf(n) = n.sections[n.tab]
      /\ SectionOf(n).stacks[1] # <<>> /\ \A t \in Sections : SectionHolds(n.sections[t], t)
  BY NavIsTyped DEF NavHolds, SectionOf
<1>2. \A t \in Sections :
         /\ SectionHolds(reset(t), t) /\ RootsOnly(reset(t)) /\ reset(t).forward = <<>>
         /\ n.sections[t].stacks[1] # <<>> => reset(t).stacks[1] # <<>>
         /\ \A s \in PaneSlots : \A i \in 1..Len(reset(t).stacks[s]) : reset(t).stacks[s][i] = t
  BY <1>1, ResetSection
<1>3. new = [n EXCEPT !.sections = sections]
  BY DEF ResetToRoot
<1> HIDE DEF reset
<1>4. sections \in [Sections -> SectionType] /\ \A t \in Sections : sections[t] = reset(t)
  BY <1>2 DEF SectionHolds
<1> HIDE DEF sections, new
<1>5. new = [layout |-> n.layout, tab |-> n.tab, sections |-> sections]
  BY <1>1, <1>3 DEF NavType
<1>6. new \in NavType /\ new.sections = sections /\ new.tab = n.tab
  BY <1>1, <1>4, <1>5 DEF NavType
<1>7. StackOf(new, 1) # <<>>
  BY <1>1, <1>2, <1>4, <1>6 DEF StackOf, SectionOf
<1>8. NavHolds(new)
  BY <1>2, <1>4, <1>6, <1>7 DEF NavHolds
<1>9. QED
  BY <1>2, <1>4, <1>6, <1>8 DEF AllRootsOnly, new

LEMMA NewHolds ==
    ASSUME NEW layout \in Layouts, NEW tab \in Sections
    PROVE  NavHolds(NewNavigation(layout, tab)) /\ AllRootsOnly(NewNavigation(layout, tab))
<1> DEFINE n == [layout |-> layout, tab |-> tab, sections |-> [t \in Sections |-> EmptySection]]
           none == [s \in PaneSlots |-> <<>>]
<1>1. /\ none \in [PaneSlots -> Seq(Routes)] /\ \A s \in PaneSlots : none[s] = <<>> /\ Len(none[s]) = 0
  OBVIOUS
<1>2. EmptySection = [stacks |-> none, touched |-> <<>>, forward |-> <<>>]
  BY DEF EmptySection
<1> HIDE DEF none
<1>3. EmptySection \in SectionType
  <2>1. <<>> \in Seq(PaneSlots) /\ <<>> \in Seq(PaneSlots \X Routes)
    OBVIOUS
  <2>2. QED
    BY <1>1, <1>2, <2>1 DEF SectionType
<1>4. EmptySection.stacks = none /\ EmptySection.touched = <<>> /\ EmptySection.forward = <<>>
  BY <1>2
<1>5. Range(<<>>) = {} /\ AllApart(<<>>)
  BY DEF Range, AllApart
<1>6. \A t \in Sections : SectionHolds(EmptySection, t) /\ RootsOnly(EmptySection)
  <2>1. \A t \in Sections : StacksHold(none, t)
    BY <1>1 DEF StacksHold
  <2>2. TouchedHolds(<<>>, none)
    BY <1>1, <1>5, ScreensBelong DEF TouchedHolds
  <2>3. RootsOnly(EmptySection)
    BY <1>1, <1>4, ScreensBelong DEF RootsOnly, FirstOrNot
  <2>4. ForwardHolds(<<>>)
    BY DEF ForwardHolds
  <2>5. QED
    BY <1>3, <1>4, <2>1, <2>2, <2>3, <2>4 DEF SectionHolds
<1>7. n \in NavType /\ \A t \in Sections : n.sections[t] = EmptySection
  <2>1. [t \in Sections |-> EmptySection] \in [Sections -> SectionType]
    BY <1>3
  <2>2. QED
    BY <2>1 DEF NavType
<1>8. NewNavigation(layout, tab) = SeedSectionRoot(n)
  BY DEF NewNavigation
<1> HIDE DEF n
<1>9. AllRootsOnly(n) /\ \A t \in Sections : SectionHolds(n.sections[t], t)
  BY <1>6, <1>7 DEF AllRootsOnly
<1>10. QED
  BY <1>7, <1>8, <1>9, SeedHolds

LEMMA ResizeHolds ==
    ASSUME NEW n, NavHolds(n), NEW layout \in Layouts
    PROVE  /\ NavHolds([n EXCEPT !.layout = layout])
           /\ AllRootsOnly(n) => AllRootsOnly([n EXCEPT !.layout = layout])
           /\ [n EXCEPT !.layout = layout].sections = n.sections
<1> DEFINE new == [n EXCEPT !.layout = layout]
<1>1. new = [layout |-> layout, tab |-> n.tab, sections |-> n.sections] /\ new \in NavType
  BY DEF NavHolds, NavType
<1>2. new.tab = n.tab /\ new.sections = n.sections
  BY <1>1
<1> HIDE DEF new
<1>3. StackOf(new, 1) = StackOf(n, 1)
  BY <1>2 DEF StackOf, SectionOf
<1>4. QED
  BY <1>1, <1>2, <1>3 DEF NavHolds, AllRootsOnly, new

LEMMA ResizeIs ==
    ASSUME NEW width, NEW current \in Layouts
    PROVE  LayoutForResize(width, current) \in Layouts
<1>1. LayoutFor(width) \in Layouts
  BY DEF LayoutFor, Layouts
<1> HIDE DEF Layouts
<1> DEFINE next == LayoutFor(width)
<1>2. \A b \in BOOLEAN : (IF b THEN current ELSE next) \in Layouts
  BY <1>1
<1>3. QED
  BY <1>1, <1>2 DEF LayoutForResize

-----------------------------------------------------------------------------
(* What is drawn of the stacks.                                             *)

LEMMA ColumnSlots ==
    ASSUME NEW layout \in Layouts
    PROVE  /\ \A c \in 1..3 : SlotsForColumn(layout, c) \in SUBSET PaneSlots
           /\ \A c, d \in 1..3 : c # d => SlotsForColumn(layout, c) \cap SlotsForColumn(layout, d) = {}
           /\ \A s \in PaneSlots : \E c \in 1..3 : s \in SlotsForColumn(layout, c)
<1>1. layout = "stacked" \/ layout = "two" \/ layout = "three"
  BY DEF Layouts
<1>2. CASE layout = "stacked"
  BY <1>2 DEF SlotsForColumn, PaneSlots
<1>3. CASE layout = "two"
  BY <1>3 DEF SlotsForColumn, PaneSlots
<1>4. CASE layout = "three"
  BY <1>4 DEF SlotsForColumn, PaneSlots
<1>5. QED
  BY <1>1, <1>2, <1>3, <1>4

(* A column draws the latest of its slots, and of those never touched the   *)
(* leftmost.                                                                *)
DrawnOver(section, s, t) ==
    \/ Recency(section, s) > Recency(section, t)
    \/ Recency(section, s) = Recency(section, t) /\ s <= t

LEMMA DrawnOverAll ==
    ASSUME NEW section \in SectionType, NEW slots \in SUBSET PaneSlots, slots # {}
    PROVE  \E s \in slots : \A t \in slots : DrawnOver(section, s, t)
<1> DEFINE r1 == Recency(section, 1)
           r2 == Recency(section, 2)
           r3 == Recency(section, 3)
<1>1. r1 \in Nat /\ r2 \in Nat /\ r3 \in Nat
  BY RecencyIs
<1> HIDE DEF r1, r2, r3
<1> DEFINE L(s, t) == DrawnOver(section, s, t)
<1>2. /\ L(1, 1) /\ L(2, 2) /\ L(3, 3)
      /\ (L(1, 2) <=> r1 >= r2) /\ (L(1, 3) <=> r1 >= r3) /\ (L(2, 3) <=> r2 >= r3)
      /\ (L(2, 1) <=> r2 > r1) /\ (L(3, 1) <=> r3 > r1) /\ (L(3, 2) <=> r3 > r2)
  BY <1>1 DEF DrawnOver, r1, r2, r3
<1> HIDE DEF L
<1>3. \A s \in slots : s = 1 \/ s = 2 \/ s = 3
  BY ScreensBelong
<1>4. \E s \in slots : \A t \in slots : L(s, t)
  <2>1. CASE 1 \in slots /\ (2 \in slots => L(1, 2)) /\ (3 \in slots => L(1, 3))
    BY <1>2, <1>3, <2>1
  <2>2. CASE 2 \in slots /\ (1 \in slots => L(2, 1)) /\ (3 \in slots => L(2, 3))
    BY <1>2, <1>3, <2>2
  <2>3. CASE 3 \in slots /\ (1 \in slots => L(3, 1)) /\ (2 \in slots => L(3, 2))
    BY <1>2, <1>3, <2>3
  <2>4. /\ \/ 1 \in slots \/ 2 \in slots \/ 3 \in slots
        /\ L(1, 2) \/ L(2, 1)
        /\ L(1, 3) \/ L(3, 1)
        /\ L(2, 3) \/ L(3, 2)
        /\ L(1, 2) /\ L(2, 3) => L(1, 3)
        /\ L(1, 3) /\ L(3, 2) => L(1, 2)
        /\ L(2, 1) /\ L(1, 3) => L(2, 3)
        /\ L(2, 3) /\ L(3, 1) => L(2, 1)
        /\ L(3, 1) /\ L(1, 2) => L(3, 2)
        /\ L(3, 2) /\ L(2, 1) => L(3, 1)
    BY <1>1, <1>2, <1>3
  <2>5. QED
    BY <2>1, <2>2, <2>3, <2>4, Zenon
<1>5. QED
  BY <1>4 DEF L

LEMMA OneIsDrawn ==
    ASSUME NEW section \in SectionType, NEW s \in PaneSlots, NEW t \in PaneSlots,
           DrawnOver(section, s, t), DrawnOver(section, t, s)
    PROVE  s = t
  BY RecencyIs DEF DrawnOver, PaneSlots

LEMMA DrawnSlotsAre ==
    ASSUME NEW n, NavHolds(n), NEW c \in 1..3
    PROVE  /\ \A s \in DrawnSlots(n, c) :
                 /\ s \in PaneSlots /\ s \in SlotsForColumn(n.layout, c) /\ StackOf(n, s) # <<>>
                 /\ \A t \in DrawnSlots(n, c) : s = t
           /\ \A s \in SlotsForColumn(n.layout, c) :
                 /\ s \in PaneSlots
                 /\ StackOf(n, s) # <<>>
                    /\ (\A t \in SlotsForColumn(n.layout, c) :
                           StackOf(n, t) # <<>> => DrawnOver(SectionOf(n), s, t)) => s \in DrawnSlots(n, c)
           /\ (\E s \in SlotsForColumn(n.layout, c) : StackOf(n, s) # <<>>) => DrawnSlots(n, c) # {}
<1> DEFINE slots == SlotsForColumn(n.layout, c)
           occupied == {s \in slots : StackOf(n, s) # <<>>}
           section == SectionOf(n)
<1>1. section \in SectionType /\ slots \in SUBSET PaneSlots
  BY NavIsTyped, ColumnSlots
<1> HIDE DEF slots, section
<1>2. DrawnSlots(n, c) = {s \in occupied : \A t \in occupied : DrawnOver(section, s, t)}
  BY DEF DrawnSlots, DrawnOver, slots, section
<1>3. \A s, t \in DrawnSlots(n, c) : s = t
  BY <1>1, <1>2, OneIsDrawn
<1>4. occupied # {} => DrawnSlots(n, c) # {}
  <2>1. occupied \in SUBSET PaneSlots
    BY <1>1
  <2> HIDE DEF occupied
  <2>2. QED
    BY <1>1, <1>2, <2>1, DrawnOverAll
<1>5. QED
  BY <1>1, <1>2, <1>3, <1>4 DEF slots, section

LEMMA PaneIs ==
    ASSUME NEW n, NavHolds(n), NEW c \in 1..3, NEW pane, pane = DrawnPane(n, c)
    PROVE  /\ pane \in Seq(PaneSlots \X Routes) /\ Len(pane) <= 1 /\ AllApart(pane)
           /\ \A x \in Range(pane) : x[1] \in DrawnSlots(n, c) /\ x = <<x[1], TopOf(n, x[1])>>
           /\ \A s \in DrawnSlots(n, c) : <<s, TopOf(n, s)>> \in Range(pane)
<1>1. CASE DrawnSlots(n, c) = {}
  <2>1. pane = <<>>
    BY <1>1 DEF DrawnPane
  <2>2. <<>> \in Seq(PaneSlots \X Routes) /\ Len(<<>>) <= 1 /\ Range(<<>>) = {} /\ AllApart(<<>>)
    BY DEF Range, AllApart
  <2>3. QED
    BY <1>1, <2>1, <2>2
<1>2. CASE DrawnSlots(n, c) # {}
  <2>1. PICK s \in DrawnSlots(n, c) : s = CHOOSE t \in DrawnSlots(n, c) : TRUE
    BY <1>2
  <2> DEFINE x == <<s, TopOf(n, s)>>
             one == <<x>>
  <2>2. pane = one
    BY <1>2, <2>1 DEF DrawnPane
  <2>3. s \in PaneSlots /\ StackOf(n, s) # <<>> /\ \A t \in DrawnSlots(n, c) : t = s
    BY DrawnSlotsAre
  <2>4. TopOf(n, s) \in Routes
    BY <2>3, TopIs
  <2>5. x \in PaneSlots \X Routes /\ x[1] = s /\ x[2] = TopOf(n, s)
    BY <2>3, <2>4
  <2> HIDE DEF x
  <2>6. /\ one \in Seq(PaneSlots \X Routes) /\ Len(one) = 1 /\ one[1] = x /\ \A i \in 1..1 : i = 1
    BY <2>5
  <2> HIDE DEF one
  <2>7. AllApart(one)
    BY <2>6 DEF AllApart
  <2>8. \A y : y \in Range(one) <=> y = x
    <3>1. (\A y \in Range(one) : \E i \in 1..1 : y = one[i]) /\ \A i \in 1..1 : one[i] \in Range(one)
      BY <2>6, ElementsOf
    <3>2. QED
      BY <2>6, <3>1
  <2>9. \A y \in Range(one) : y[1] \in DrawnSlots(n, c) /\ y = <<y[1], TopOf(n, y[1])>>
    BY <2>5, <2>8 DEF x
  <2>10. \A t \in DrawnSlots(n, c) : <<t, TopOf(n, t)>> \in Range(one)
    BY <2>3, <2>8 DEF x
  <2>11. QED
    BY <2>2, <2>6, <2>7, <2>9, <2>10
<1>3. QED
  BY <1>1, <1>2

(* The panes of a window: of every slot at most one, each with the screen   *)
(* on top of its stack.                                                     *)
PanesShow(n, panes) ==
    /\ panes \in Seq(PaneSlots \X Routes) /\ Len(panes) <= 3 /\ AllApart(panes)
    /\ \A x \in Range(panes) :
          /\ x[1] \in PaneSlots /\ StackOf(n, x[1]) # <<>> /\ x = <<x[1], TopOf(n, x[1])>>
          /\ x[2] \in Routes /\ RouteSlot(x[2]) = x[1]
    /\ \A c \in 1..3 : \A s \in DrawnSlots(n, c) : <<s, TopOf(n, s)>> \in Range(panes)

LEMMA PanesAre == ASSUME NEW n, NavHolds(n) PROVE PanesShow(n, ActivePanes(n))
<1> DEFINE p(c) == DrawnPane(n, c)
           T == PaneSlots \X Routes
           two == p(1) \o p(2)
           all == two \o p(3)
<1>1. \A c \in 1..3 : /\ p(c) \in Seq(T) /\ Len(p(c)) \in Nat /\ Len(p(c)) <= 1 /\ AllApart(p(c))
                      /\ \A x \in Range(p(c)) : x[1] \in DrawnSlots(n, c) /\ x = <<x[1], TopOf(n, x[1])>>
                      /\ \A s \in DrawnSlots(n, c) : <<s, TopOf(n, s)>> \in Range(p(c))
  BY PaneIs
<1>2. n.layout \in Layouts
  BY NavIsTyped
<1>3. \A c \in 1..3 : \A x \in Range(p(c)) : x[1] \in SlotsForColumn(n.layout, c) /\ x[1] \in PaneSlots
         /\ StackOf(n, x[1]) # <<>>
  BY <1>1, DrawnSlotsAre
<1>4. \A c, d \in 1..3 : c # d => \A x \in Range(p(c)) : x \notin Range(p(d))
  <2>1. ASSUME NEW c \in 1..3, NEW d \in 1..3, c # d, NEW x \in Range(p(c)), x \in Range(p(d)) PROVE FALSE
    <3>1. x[1] \in SlotsForColumn(n.layout, c) /\ x[1] \in SlotsForColumn(n.layout, d)
      BY <1>3, <2>1
    <3>2. SlotsForColumn(n.layout, c) \cap SlotsForColumn(n.layout, d) = {}
      BY <1>2, <2>1, ColumnSlots
    <3>3. QED
      BY <3>1, <3>2
  <2>2. QED
    BY <2>1
<1>5. 1 \in 1..3 /\ 2 \in 1..3 /\ 3 \in 1..3
  OBVIOUS
<1> HIDE DEF p, T
<1>6. two \in Seq(T) /\ Len(two) = Len(p(1)) + Len(p(2)) /\ AllApart(two) /\ Range(two) = Range(p(1)) \cup Range(p(2))
  <2>1. \A x \in Range(p(1)) : x \notin Range(p(2))
    BY <1>4, <1>5
  <2>2. p(1) \in Seq(T) /\ p(2) \in Seq(T) /\ AllApart(p(1)) /\ AllApart(p(2))
    BY <1>1, <1>5
  <2>3. QED
    BY <2>1, <2>2, ApartTogether
<1> HIDE DEF two
<1>7. all \in Seq(T) /\ Len(all) = Len(two) + Len(p(3)) /\ AllApart(all) /\ Range(all) = Range(two) \cup Range(p(3))
  <2>1. \A x \in Range(two) : x \notin Range(p(3))
    BY <1>4, <1>5, <1>6
  <2>2. p(3) \in Seq(T) /\ AllApart(p(3))
    BY <1>1, <1>5
  <2>3. QED
    BY <1>6, <2>1, <2>2, ApartTogether
<1>8. Len(all) <= 3
  BY <1>1, <1>5, <1>6, <1>7
<1>9. \A x \in Range(all) : \E c \in 1..3 : x \in Range(p(c))
  BY <1>5, <1>6, <1>7
<1>10. \A c \in 1..3 : Range(p(c)) \subseteq Range(all)
  <2>1. \A c \in 1..3 : c = 1 \/ c = 2 \/ c = 3
    OBVIOUS
  <2>2. QED
    BY <1>6, <1>7, <2>1
<1> HIDE DEF all
<1>11. ASSUME NEW x \in Range(all)
       PROVE  /\ x[1] \in PaneSlots /\ StackOf(n, x[1]) # <<>> /\ x = <<x[1], TopOf(n, x[1])>>
              /\ x[2] \in Routes /\ RouteSlot(x[2]) = x[1]
  <2>1. x[1] \in PaneSlots /\ StackOf(n, x[1]) # <<>> /\ x = <<x[1], TopOf(n, x[1])>>
    BY <1>1, <1>3, <1>9
  <2>2. PICK s \in PaneSlots : s = x[1]
    BY <2>1
  <2>3. x[2] = TopOf(n, s)
    BY <2>1, <2>2
  <2>4. TopOf(n, s) \in Routes /\ RouteSlot(TopOf(n, s)) = s
    BY <2>1, <2>2, TopIs
  <2>5. QED
    BY <2>1, <2>2, <2>3, <2>4
<1>12. \A c \in 1..3 : \A s \in DrawnSlots(n, c) : <<s, TopOf(n, s)>> \in Range(all)
  BY <1>1, <1>10
<1>13. ActivePanes(n) = all
  BY DEF ActivePanes, all, two, p
<1>14. QED
  BY <1>7, <1>8, <1>11, <1>12, <1>13 DEF PanesShow, T

(* Panes differ in the slot and in the screen.                              *)
LEMMA PanesDiffer ==
    ASSUME NEW n, NEW panes, PanesShow(n, panes), NEW i \in 1..Len(panes), NEW j \in 1..Len(panes),
           panes[i][1] = panes[j][1] \/ panes[i][2] = panes[j][2]
    PROVE  i = j
<1>1. /\ panes[i] \in Range(panes) /\ panes[j] \in Range(panes)
      /\ \A a, b \in 1..Len(panes) : panes[a] = panes[b] => a = b
  BY ElementsOf DEF PanesShow, AllApart
<1>2. /\ panes[i] = <<panes[i][1], TopOf(n, panes[i][1])>> /\ RouteSlot(panes[i][2]) = panes[i][1]
      /\ panes[j] = <<panes[j][1], TopOf(n, panes[j][1])>> /\ RouteSlot(panes[j][2]) = panes[j][1]
  BY <1>1 DEF PanesShow
<1>3. panes[i][1] = panes[j][1]
  BY <1>2
<1>4. panes[i] = panes[j]
  BY <1>2, <1>3
<1>5. QED
  BY <1>1, <1>4

-----------------------------------------------------------------------------
(* Back, and forward again.                                                 *)

LEMMA BackClosesADrawnOne ==
    ASSUME NEW n, NavHolds(n), AllRootsOnly(n), CanGoBack(n)
    PROVE  TopOf(n, MostRecentOccupied(n)) \in ActiveRoutes(n)
<1> DEFINE slot == MostRecentOccupied(n)
           section == SectionOf(n)
           touched == section.touched
           m == Len(touched)
           panes == ActivePanes(n)
<1>1. slot \in PaneSlots /\ slot \in Closable(n) /\ slot # 1 /\ touched # <<>> /\ touched[m] = slot
  BY MostRecentIs, LastTouched
<1>2. /\ section \in SectionType /\ touched \in Seq(PaneSlots) /\ AllApart(touched) /\ n.layout \in Layouts
  BY NavIsTyped, SectionIsTyped DEF SectionHolds, TouchedHolds
<1>3. StackOf(n, slot) # <<>>
  BY <1>1, NavIsTyped DEF Closable
<1> HIDE DEF slot, section
<1>4. m \in Nat /\ m > 0 /\ m \in 1..m /\ touched[m] \in Range(touched)
  <2>1. m \in Nat /\ m > 0 /\ m \in 1..m
    BY <1>1, <1>2
  <2>2. QED
    BY <1>2, <2>1, ElementsOf
<1>5. Recency(section, slot) = m
  <2>1. Recency(section, slot) \in 1..m /\ touched[Recency(section, slot)] = slot
    BY <1>1, <1>2, <1>4, RecencyIs
  <2>2. QED
    BY <1>1, <1>2, <1>4, <2>1 DEF AllApart
<1>6. ASSUME NEW t \in PaneSlots PROVE DrawnOver(section, slot, t)
  <2>1. CASE t = slot
    BY <1>1, <2>1 DEF DrawnOver, PaneSlots
  <2>2. CASE t # slot
    <3>1. CASE t \in Range(touched)
      <4>1. Recency(section, t) \in 1..m /\ touched[Recency(section, t)] = t
        BY <1>2, <3>1, RecencyIs
      <4>2. Recency(section, t) # m
        BY <1>1, <2>2, <4>1
      <4>3. QED
        BY <1>4, <1>5, <4>1, <4>2 DEF DrawnOver
    <3>2. CASE t \notin Range(touched)
      <4>1. Recency(section, t) = 0
        BY <1>2, <3>2, RecencyIs
      <4>2. QED
        BY <1>4, <1>5, <4>1 DEF DrawnOver
    <3>3. QED
      BY <3>1, <3>2
  <2>3. QED
    BY <2>1, <2>2
<1>7. PICK c \in 1..3 : slot \in SlotsForColumn(n.layout, c)
  BY <1>1, <1>2, ColumnSlots
<1>8. \A t \in SlotsForColumn(n.layout, c) : DrawnOver(section, slot, t)
  BY <1>2, <1>6, ColumnSlots
<1>9. slot \in DrawnSlots(n, c)
  BY <1>3, <1>7, <1>8, DrawnSlotsAre DEF section
<1>10. <<slot, TopOf(n, slot)>> \in Range(panes) /\ panes \in Seq(PaneSlots \X Routes)
  BY <1>9, PanesAre DEF PanesShow
<1> HIDE DEF panes
<1>11. PICK i \in 1..Len(panes) : panes[i] = <<slot, TopOf(n, slot)>>
  BY <1>10, ElementsOf
<1>12. i \in DOMAIN panes /\ panes[i][2] = TopOf(n, slot)
  BY <1>10, <1>11
<1>13. QED
  BY <1>12 DEF ActiveRoutes, slot, panes

(* What is drawn follows from the layout and the current section.           *)
LEMMA DrawnAlike ==
    ASSUME NEW n, NEW m, m.layout = n.layout,
           SectionOf(m).stacks = SectionOf(n).stacks, SectionOf(m).touched = SectionOf(n).touched
    PROVE  ActivePanes(m) = ActivePanes(n) /\ FocusedRoute(m) = FocusedRoute(n)
<1>1. \A s : StackOf(m, s) = StackOf(n, s) /\ TopOf(m, s) = TopOf(n, s)
  BY DEF StackOf, TopOf
<1>2. \A s : Recency(SectionOf(m), s) = Recency(SectionOf(n), s)
  BY DEF Recency
<1>3. \A c : DrawnSlots(m, c) = DrawnSlots(n, c)
  BY <1>1, <1>2 DEF DrawnSlots
<1>4. \A c : DrawnPane(m, c) = DrawnPane(n, c)
  <2>1. ASSUME NEW c PROVE DrawnPane(m, c) = DrawnPane(n, c)
    <3> DEFINE drawn == DrawnSlots(n, c)
               one == CHOOSE s \in drawn : TRUE
    <3>1. DrawnPane(n, c) = IF drawn = {} THEN <<>> ELSE <<<<one, TopOf(n, one)>>>>
      BY DEF DrawnPane
    <3>2. DrawnPane(m, c) = IF drawn = {} THEN <<>> ELSE <<<<one, TopOf(m, one)>>>>
      <4> DEFINE Of(slots) == IF slots = {} THEN <<>>
                              ELSE <<<<CHOOSE s \in slots : TRUE, TopOf(m, CHOOSE s \in slots : TRUE)>>>>
      <4>1. DrawnPane(m, c) = Of(DrawnSlots(m, c))
        BY DEF DrawnPane
      <4>2. Of(drawn) = IF drawn = {} THEN <<>> ELSE <<<<one, TopOf(m, one)>>>>
        OBVIOUS
      <4>3. DrawnSlots(m, c) = drawn
        BY <1>3
      <4> HIDE DEF Of, drawn
      <4>4. QED
        BY <4>1, <4>2, <4>3
    <3> HIDE DEF drawn, one
    <3>3. TopOf(m, one) = TopOf(n, one)
      BY <1>1
    <3>4. QED
      BY <3>1, <3>2, <3>3
  <2>2. QED
    BY <2>1
<1>5. ActivePanes(m) = ActivePanes(n)
  BY <1>4 DEF ActivePanes
<1>6. \A s, t : Later(SectionOf(m), s, t) <=> Later(SectionOf(n), s, t)
  BY <1>2 DEF Later
<1>7. FocusedRoute(m) = FocusedRoute(n)
  <2> DEFINE L(s, t) == Later(SectionOf(m), s, t)
             K(s, t) == Later(SectionOf(n), s, t)
             panes == Range(ActivePanes(n))
  <2>1. FocusedRoute(m) = (CHOOSE p \in panes : \A q \in panes : L(p[1], q[1]))[2]
    BY <1>5 DEF FocusedRoute
  <2>2. FocusedRoute(n) = (CHOOSE p \in panes : \A q \in panes : K(p[1], q[1]))[2]
    BY DEF FocusedRoute
  <2> HIDE DEF panes, L, K
  <2>3. \A s, t : L(s, t) <=> K(s, t)
    BY <1>6 DEF L, K
  <2>4. \A p : (\A q \in panes : L(p[1], q[1])) <=> (\A q \in panes : K(p[1], q[1]))
    BY <2>3
  <2>5. (CHOOSE p \in panes : \A q \in panes : L(p[1], q[1])) = (CHOOSE p \in panes : \A q \in panes : K(p[1], q[1]))
    BY <2>4
  <2>6. QED
    BY <2>1, <2>2, <2>5
<1>8. QED
  BY <1>5, <1>7

LEMMA ForwardDrawsTheSame ==
    ASSUME NEW n, NavHolds(n), AllRootsOnly(n), CanGoBack(n), NEW again, again = Forward(Back(n))
    PROVE  ActivePanes(again) = ActivePanes(n) /\ FocusedRoute(again) = FocusedRoute(n)
<1>1. /\ again.layout = n.layout /\ SectionOf(again).stacks = SectionOf(n).stacks
      /\ SectionOf(again).touched = SectionOf(n).touched
  BY AgainIs
<1>2. QED
  BY <1>1, DrawnAlike

LEMMA BackIsUndone ==
    ASSUME NavHolds(nav), authenticated => AllRootsOnly(nav)
    PROVE  BackThenForward
<1>1. BackClosesWhatIsDrawn
  BY BackClosesADrawnOne DEF BackClosesWhatIsDrawn
<1>2. ForwardUndoesBack
  BY ForwardDrawsTheSame DEF ForwardUndoesBack
<1>3. QED
  BY <1>1, <1>2 DEF BackThenForward

-----------------------------------------------------------------------------
(* The leases of what is drawn.                                             *)

Shown == Routes \cup {Palette}
ShellLeases == [owner : Shown, key : Shown, column : 1..4, depth : Nat]

LeasesApart(ls) == \A i, j \in 1..Len(ls) : ls[i].owner = ls[j].owner => i = j
GlassLeases(ls) == ls \in Seq(ShellLeases) /\ LeasesApart(ls)
OwnedBy(ls, o) == \E i \in 1..Len(ls) : ls[i].owner = o

LEMMA DepthIs ==
    ASSUME NEW ls \in Seq(ShellLeases), NEW column
    PROVE  Registry!NextDepth(ls, column) \in Nat
<1> DEFINE n == Len(ls)
           d == [i \in 1..n |-> ls[i].depth]
           J == {j \in 1..n : ls[j].column = column}
           S == {0} \cup {ls[i].depth : i \in J}
<1>1. n \in Nat /\ DOMAIN ls = 1..n /\ \A i \in 1..n : ls[i] \in ShellLeases
  BY ElementOfSeq
<1>2. \A i \in 1..n : d[i] = ls[i].depth /\ d[i] \in Nat
  BY <1>1 DEF ShellLeases
<1> HIDE DEF d, n
<1>3. PICK m \in Nat : /\ m = 0 \/ \E i \in 1..n : i \in J /\ d[i] = m
                       /\ \A i \in 1..n : i \in J => d[i] <= m
  BY <1>1, <1>2, GreatestAmong
<1>4. m \in S /\ \A y \in S : m >= y
  BY <1>1, <1>2, <1>3
<1>5. S \subseteq Nat
  BY <1>1, <1>2
<1>6. Registry!Max(S) \in S
  BY <1>4 DEF Registry!Max
<1>7. Registry!NextDepth(ls, column) = 1 + Registry!Max(S)
  BY <1>1 DEF Registry!NextDepth, n
<1> HIDE DEF S
<1>8. PICK x \in Nat : x = Registry!Max(S)
  BY <1>5, <1>6
<1>9. 1 + x \in Nat
  OBVIOUS
<1>10. QED
  BY <1>7, <1>8, <1>9

(* A screen that has no lease gets one, at the end.                         *)
LEMMA InsertAdds ==
    ASSUME NEW ls \in Seq(ShellLeases), NEW owner \in Shown, NEW column \in 1..4,
           ~OwnedBy(ls, owner), NEW new, new = Registry!InsertOrUpdate(ls, owner, owner, column)
    PROVE  /\ new \in Seq(ShellLeases)
           /\ Len(ls) < 64 => /\ Len(new) = Len(ls) + 1 /\ \A i \in 1..Len(ls) : new[i] = ls[i]
                              /\ new[Len(ls) + 1].owner = owner
<1> DEFINE n == Len(ls)
           room == IF n >= 64 THEN SubSeq(ls, n - 64 + 2, n) ELSE ls
           lease == [owner |-> owner, key |-> owner, column |-> column,
                     depth |-> Registry!NextDepth(room, column)]
<1>1. n \in Nat /\ DOMAIN ls = 1..n
  OBVIOUS
<1>2. ~Registry!HasLease(ls, owner)
  BY <1>1 DEF Registry!HasLease, OwnedBy
<1>3. new = Append(room, lease)
  BY <1>2 DEF Registry!InsertOrUpdate
<1>4. room \in Seq(ShellLeases)
  <2>1. CASE n >= 64
    <3>1. \A k \in Nat : k >= 64 => k - 64 + 2 \in Nat /\ k - 64 + 2 >= 1
      OBVIOUS
    <3>2. PICK a \in Nat : a = n - 64 + 2 /\ a >= 1
      BY <1>1, <2>1, <3>1, Zenon
    <3>3. room = SubSeq(ls, a, n)
      BY <2>1, <3>2, Zenon
    <3>4. SubSeq(ls, a, n) \in Seq(ShellLeases)
      BY <1>1, <3>2
    <3>5. QED
      BY <3>3, <3>4
  <2>2. CASE ~(n >= 64)
    BY <2>2
  <2>3. QED
    BY <2>1, <2>2
<1>5. n < 64 => room = ls
  BY <1>1
<1> HIDE DEF room
<1>6. lease \in ShellLeases /\ lease.owner = owner
  <2>1. Registry!NextDepth(room, column) \in Nat
    BY <1>4, DepthIs
  <2>2. QED
    BY <2>1 DEF ShellLeases
<1> HIDE DEF lease, n
<1>7. new \in Seq(ShellLeases)
  BY <1>3, <1>4, <1>6
<1>8. ASSUME n < 64
      PROVE  Len(new) = n + 1 /\ (\A i \in 1..n : new[i] = ls[i]) /\ new[n + 1].owner = owner
  <2>1. new = Append(ls, lease)
    BY <1>3, <1>5, <1>8
  <2>2. Len(Append(ls, lease)) = n + 1 /\ (\A i \in 1..n : Append(ls, lease)[i] = ls[i])
        /\ Append(ls, lease)[n + 1] = lease
    BY <1>6 DEF n
  <2>3. QED
    BY <1>6, <2>1, <2>2
<1>9. QED
  BY <1>7, <1>8 DEF n

(* added: the leases after each of the visible screens.                     *)
Adds(added, ls, glass) ==
    /\ added[0] = ls
    /\ \A n \in 1..Len(glass) :
          added[n] = IF Registry!HasLease(added[n - 1], glass[n][1]) THEN added[n - 1]
                     ELSE Registry!InsertOrUpdate(added[n - 1], glass[n][1], glass[n][1], glass[n][2])

LEMMA AddSteps ==
    ASSUME NEW ls \in Seq(ShellLeases), NEW glass \in Seq(Shown \X (1..4))
    PROVE  \E added : Adds(added, ls, glass) /\ Registry!WithScreens(ls, glass) = added[Len(glass)]
<1> DEFINE N == Len(glass)
           T == Seq(ShellLeases)
           O(n) == glass[n][1]
           Step(acc, n) == IF Registry!HasLease(acc, O(n)) THEN acc
                           ELSE Registry!InsertOrUpdate(acc, O(n), O(n), glass[n][2])
           next == [n \in 1..N |-> [acc \in T |-> Step(acc, n)]]
           Is(f) == f = [n \in 0..N |-> IF n = 0 THEN ls ELSE Step(f[n - 1], n)]
           added == CHOOSE f : Is(f)
<1>1. N \in Nat /\ \A n \in 1..N : O(n) \in Shown /\ glass[n][2] \in 1..4
  <2>1. N \in Nat /\ \A n \in 1..N : glass[n] \in Shown \X (1..4)
    BY ElementOfSeq
  <2>2. QED
    BY <2>1
<1> HIDE DEF N
<1>2. next \in [1..N -> [T -> T]]
  <2>1. ASSUME NEW n \in 1..N, NEW acc \in T PROVE Step(acc, n) \in T
    <3>1. CASE Registry!HasLease(acc, O(n))
      BY <3>1
    <3>2. CASE ~Registry!HasLease(acc, O(n))
      <4>1. ~OwnedBy(acc, O(n))
        BY <3>2 DEF OwnedBy, Registry!HasLease
      <4>2. O(n) \in Shown /\ glass[n][2] \in 1..4 /\ acc \in Seq(ShellLeases)
        BY <1>1
      <4> HIDE DEF O
      <4>3. Registry!InsertOrUpdate(acc, O(n), O(n), glass[n][2]) \in Seq(ShellLeases)
        BY <4>1, <4>2, InsertAdds
      <4>4. QED
        BY <3>2, <4>3
    <3>3. QED
      BY <3>1, <3>2
  <2> HIDE DEF T, Step
  <2>2. QED
    BY <2>1
<1>3. \A n \in 1..N : \A acc \in T : next[n][acc] = Step(acc, n)
  <2> HIDE DEF T, Step
  <2>1. QED
    OBVIOUS
<1> HIDE DEF next, T
<1>4. ls \in T
  BY DEF T
<1>5. PICK f : Takes(f, T, N, ls, next)
  BY <1>1, <1>2, <1>4, StepsCanBeTaken
<1> HIDE DEF Step
<1>6. Is(f)
  <2>1. f \in [0..N -> T] /\ f[0] = ls /\ \A n \in 1..N : f[n] = next[n][f[n - 1]]
    BY <1>5 DEF Takes
  <2>2. ASSUME NEW i \in 0..N PROVE f[i] = IF i = 0 THEN ls ELSE Step(f[i - 1], i)
    <3>1. CASE i = 0
      BY <2>1, <3>1
    <3>2. CASE i # 0
      <4>1. i \in 1..N /\ i - 1 \in 0..N
        BY <1>1, <3>2
      <4>2. f[i - 1] \in T
        BY <2>1, <4>1
      <4>3. QED
        BY <1>3, <2>1, <3>2, <4>1, <4>2
    <3>3. QED
      BY <3>1, <3>2
  <2>3. f = [i \in 0..N |-> f[i]]
    BY <2>1
  <2>4. QED
    BY <2>2, <2>3
<1> HIDE DEF Is
<1>7. Is(added)
  BY <1>6, Zenon
<1>8. added[0] = ls /\ \A n \in 1..N : added[n] = Step(added[n - 1], n)
  <2>1. added = [n \in 0..N |-> IF n = 0 THEN ls ELSE Step(added[n - 1], n)]
    BY <1>7 DEF Is
  <2> HIDE DEF added
  <2>2. \A n \in 0..N : added[n] = IF n = 0 THEN ls ELSE Step(added[n - 1], n)
    BY <2>1
  <2>3. 0 \in 0..N /\ \A n \in 1..N : n \in 0..N /\ n # 0
    BY <1>1
  <2>4. QED
    BY <2>2, <2>3
<1>9. Registry!WithScreens(ls, glass) = added[N]
  BY Zenon DEF Registry!WithScreens, added, Is, Step, N, O
<1> HIDE DEF added
<1>10. Adds(added, ls, glass)
  BY <1>8 DEF Adds, Step, O, N
<1>11. QED
  BY <1>9, <1>10 DEF N

-----------------------------------------------------------------------------
LEMMA SameTools ==
    /\ \A S : Registry!Cardinality(S) = Cardinality(S)
    /\ \A s : Registry!Range(s) = Range(s)
    /\ \A s, gone : Registry!Remaining(s, gone) = Remaining(s, gone)
<1>1. ASSUME NEW S PROVE Registry!Cardinality(S) = Cardinality(S)
  BY DEF Registry!Cardinality, Cardinality
<1>2. ASSUME NEW s PROVE Registry!Range(s) = Range(s)
  BY DEF Registry!Range, Range
<1>3. ASSUME NEW s, NEW gone PROVE Registry!Remaining(s, gone) = Remaining(s, gone)
  BY DEF Registry!Remaining, Remaining
<1>4. QED
  BY <1>1, <1>2, <1>3

ShownAt(glass, o) == \E i \in 1..Len(glass) : glass[i][1] = o

LEMMA FewOwners ==
    ASSUME NEW ls \in Seq(ShellLeases), LeasesApart(ls), NEW glass \in Seq(Shown \X (1..4)),
           \A k \in 1..Len(ls) : ShownAt(glass, ls[k].owner)
    PROVE  Len(ls) <= Len(glass)
<1> DEFINE m == Len(ls)
           n == Len(glass)
           f == [k \in 1..m |-> CHOOSE i \in 1..n : glass[i][1] = ls[k].owner]
<1>1. m \in Nat /\ n \in Nat
  OBVIOUS
<1>2. \A k \in 1..m : f[k] \in 1..n /\ glass[f[k]][1] = ls[k].owner
  BY DEF ShownAt
<1>3. f \in [1..m -> 1..n]
  BY <1>2
<1> HIDE DEF f
<1>4. \A j, k \in 1..m : f[j] = f[k] => j = k
  BY <1>2 DEF LeasesApart
<1> HIDE DEF m, n
<1>5. f \in Injection(1..m, 1..n)
  BY <1>3, <1>4 DEF Injection, IsInjective
<1>6. IsFiniteSet(1..n) /\ Cardinality(1..n) = n /\ Cardinality(1..m) = m
  BY <1>1, FS_Interval
<1>7. Cardinality(1..m) <= Cardinality(1..n)
  BY <1>5, <1>6, FS_Injection
<1>8. QED
  BY <1>6, <1>7 DEF m, n

LEMMA OneMoreLease ==
    ASSUME NEW ls, GlassLeases(ls), Len(ls) < 64, NEW owner \in Shown, NEW column \in 1..4,
           ~OwnedBy(ls, owner), NEW new, new = Registry!InsertOrUpdate(ls, owner, owner, column)
    PROVE  /\ GlassLeases(new) /\ Len(new) = Len(ls) + 1
           /\ \A o : OwnedBy(new, o) <=> OwnedBy(ls, o) \/ o = owner
<1> DEFINE n == Len(ls)
<1>1. ls \in Seq(ShellLeases) /\ LeasesApart(ls) /\ n \in Nat
  BY DEF GlassLeases
<1>2. /\ new \in Seq(ShellLeases) /\ Len(new) = n + 1 /\ new[n + 1].owner = owner
      /\ \A i \in 1..n : new[i] = ls[i]
  BY <1>1, InsertAdds
<1> HIDE DEF n
<1>3. /\ n + 1 \in 1..(n + 1) /\ (\A i \in 1..n : i \in 1..(n + 1))
      /\ \A i \in 1..(n + 1) : i = n + 1 \/ i \in 1..n
  BY <1>1
<1>4. \A o : OwnedBy(new, o) <=> OwnedBy(ls, o) \/ o = owner
  BY <1>2, <1>3 DEF OwnedBy, n
<1>5. LeasesApart(new)
  <2>1. \A i \in 1..n : ls[i].owner # owner
    BY DEF OwnedBy, n
  <2>2. QED
    BY <1>1, <1>2, <1>3, <2>1 DEF LeasesApart, n
<1>6. QED
  BY <1>2, <1>4, <1>5 DEF GlassLeases, n

LEMMA AddedAre ==
    ASSUME NEW ls, GlassLeases(ls), NEW glass \in Seq(Shown \X (1..4)), Len(glass) <= 4, Len(ls) <= 4,
           NEW new, new = Registry!WithScreens(ls, glass)
    PROVE  /\ GlassLeases(new)
           /\ \A o : OwnedBy(new, o) <=> OwnedBy(ls, o) \/ ShownAt(glass, o)
<1> DEFINE N == Len(glass)
           Upto(n, o) == \E i \in 1..n : glass[i][1] = o
<1>1. ls \in Seq(ShellLeases) /\ N \in Nat /\ \A n \in 1..N : glass[n][1] \in Shown /\ glass[n][2] \in 1..4
  <2>1. N \in Nat /\ \A n \in 1..N : glass[n] \in Shown \X (1..4)
    BY ElementOfSeq
  <2>2. QED
    BY <2>1 DEF GlassLeases
<1>2. PICK added : Adds(added, ls, glass) /\ Registry!WithScreens(ls, glass) = added[N]
  BY <1>1, AddSteps
<1> HIDE DEF N
<1> DEFINE Kept(n) == /\ GlassLeases(added[n]) /\ Len(added[n]) <= 4 + n
                      /\ \A o : OwnedBy(added[n], o) <=> OwnedBy(ls, o) \/ Upto(n, o)
           Good == {n \in 0..N : Kept(n)}
<1>3. 0 \in Good
  <2>1. added[0] = ls /\ 0 \in 0..N
    BY <1>1, <1>2 DEF Adds
  <2>2. \A o : ~Upto(0, o)
    OBVIOUS
  <2> HIDE DEF Upto
  <2>3. Kept(0)
    BY <2>1, <2>2
  <2>4. QED
    BY <2>1, <2>3
<1>4. ASSUME NEW n \in 0..N, n + 1 \in 0..N, n \in Good PROVE n + 1 \in Good
  <2> DEFINE before == added[n]
             after == added[n + 1]
             owner == glass[n + 1][1]
             column == glass[n + 1][2]
  <2>1. n \in Nat /\ n + 1 \in 1..N /\ n + 1 - 1 = n /\ n <= 3
    BY <1>1, <1>4 DEF N
  <2>2. Kept(n)
    BY <1>4
  <2>3. owner \in Shown /\ column \in 1..4
    BY <1>1, <2>1
  <2>4. after = IF Registry!HasLease(before, owner) THEN before
                ELSE Registry!InsertOrUpdate(before, owner, owner, column)
    BY <1>2, <2>1 DEF Adds, N
  <2>5. \A o : Upto(n + 1, o) <=> Upto(n, o) \/ o = owner
    <3>1. n + 1 \in 1..(n + 1) /\ (\A i \in 1..n : i \in 1..(n + 1)) /\ \A i \in 1..(n + 1) : i = n + 1 \/ i \in 1..n
      BY <2>1
    <3>2. QED
      BY <3>1
  <2> HIDE DEF after, owner, column, Upto, before
  <2>6. GlassLeases(before) /\ Len(before) <= 4 + n /\ Len(before) \in Nat
        /\ \A o : OwnedBy(before, o) <=> OwnedBy(ls, o) \/ Upto(n, o)
    BY <2>2 DEF before, GlassLeases
  <2>7. Registry!HasLease(before, owner) <=> OwnedBy(before, owner)
    BY <2>6 DEF Registry!HasLease, OwnedBy, GlassLeases
  <2>8. CASE OwnedBy(before, owner)
    <3>1. after = before
      BY <2>4, <2>7, <2>8
    <3>2. \A o : OwnedBy(after, o) <=> OwnedBy(ls, o) \/ Upto(n + 1, o)
      BY <2>5, <2>6, <2>8, <3>1
    <3>3. Len(after) <= 4 + (n + 1)
      BY <2>1, <2>6, <3>1
    <3>4. Kept(n + 1)
      BY <2>6, <3>1, <3>2, <3>3 DEF after
    <3>5. QED
      BY <1>4, <3>4
  <2>9. CASE ~OwnedBy(before, owner)
    <3>1. after = Registry!InsertOrUpdate(before, owner, owner, column)
      BY <2>4, <2>7, <2>9
    <3>2. Len(before) < 64
      BY <2>1, <2>6
    <3>3. /\ GlassLeases(after) /\ Len(after) = Len(before) + 1
          /\ \A o : OwnedBy(after, o) <=> OwnedBy(before, o) \/ o = owner
      BY <2>3, <2>6, <2>9, <3>1, <3>2, OneMoreLease
    <3>4. \A o : OwnedBy(after, o) <=> OwnedBy(ls, o) \/ Upto(n + 1, o)
      BY <2>5, <2>6, <3>3
    <3>5. Len(after) <= 4 + (n + 1)
      BY <2>1, <2>6, <3>3
    <3>6. Kept(n + 1)
      BY <3>3, <3>4, <3>5 DEF after
    <3>7. QED
      BY <1>4, <3>6
  <2>10. QED
    BY <2>8, <2>9
<1> HIDE DEF Kept
<1>5. Kept(N)
  <2> HIDE DEF Good
  <2>1. 0..N \subseteq Good
    BY <1>1, <1>3, <1>4, StepByStep
  <2>2. N \in 0..N
    BY <1>1
  <2>3. QED
    BY <2>1, <2>2 DEF Good
<1>6. QED
  BY <1>2, <1>5 DEF Kept, N, ShownAt

-----------------------------------------------------------------------------
(* Every lease is that of a visible screen, in its column.                  *)
Placed(ls, glass) ==
    \A k \in 1..Len(ls) : \E i \in 1..Len(glass) :
        ls[k].owner = glass[i][1] /\ ls[k].column = glass[i][2]

LEMMA KeptLeases ==
    ASSUME NEW ls, GlassLeases(ls), NEW glass \in Seq(Shown \X (1..4)),
           NEW hidden, hidden = {l \in Range(ls) : \A i \in DOMAIN glass : glass[i][1] # l.owner},
           NEW rest, rest = Remaining(ls, hidden)
    PROVE  GlassLeases(rest) /\ \A k \in 1..Len(rest) : ShownAt(glass, rest[k].owner)
<1>1. ls \in Seq(ShellLeases) /\ LeasesApart(ls) /\ DOMAIN glass = 1..Len(glass)
  BY DEF GlassLeases
<1>2. AllApart(ls)
  BY <1>1 DEF AllApart, LeasesApart
<1>3. rest \in Seq(ShellLeases) /\ Range(rest) = Range(ls) \ hidden /\ AllApart(rest)
  BY <1>1, <1>2, ApartFromSome
<1>4. \A k \in 1..Len(rest) : rest[k] \in Range(rest)
  BY <1>3, ElementsOf
<1>5. \A x, y \in Range(ls) : x.owner = y.owner => x = y
  <2>1. \A x \in Range(ls) : \E i \in 1..Len(ls) : x = ls[i]
    BY <1>1, ElementsOf
  <2>2. QED
    BY <1>1, <2>1 DEF LeasesApart
<1>6. LeasesApart(rest)
  <2>1. ASSUME NEW i \in 1..Len(rest), NEW j \in 1..Len(rest), rest[i].owner = rest[j].owner PROVE i = j
    <3>1. rest[i] \in Range(ls) /\ rest[j] \in Range(ls)
      BY <1>3, <1>4
    <3>2. rest[i] = rest[j]
      BY <1>5, <2>1, <3>1
    <3>3. QED
      BY <1>3, <3>2 DEF AllApart
  <2>2. QED
    BY <2>1 DEF LeasesApart
<1>7. ASSUME NEW k \in 1..Len(rest) PROVE ShownAt(glass, rest[k].owner)
  <2>1. rest[k] \in Range(ls) /\ rest[k] \notin hidden
    BY <1>3, <1>4
  <2>2. \E i \in DOMAIN glass : glass[i][1] = rest[k].owner
    BY <2>1
  <2>3. QED
    BY <1>1, <2>2 DEF ShownAt
<1>8. QED
  BY <1>3, <1>6, <1>7 DEF GlassLeases

LEMMA LeaseMoves ==
    ASSUME NEW l \in ShellLeases, NEW column \in 1..4, NEW depth \in Nat
    PROVE  /\ [l EXCEPT !.column = column, !.depth = depth] \in ShellLeases
           /\ [l EXCEPT !.column = column, !.depth = depth].owner = l.owner
           /\ [l EXCEPT !.column = column, !.depth = depth].column = column
  BY DEF ShellLeases

LEMMA Synced ==
    ASSUME NEW ls, GlassLeases(ls), NEW glass \in Seq(Shown \X (1..4)), Len(glass) <= 4,
           NEW new, new = Registry!SyncVisible(ls, glass)
    PROVE  /\ GlassLeases(new) /\ Placed(new, glass)
           /\ \A o : OwnedBy(new, o) <=> ShownAt(glass, o)
<1> DEFINE hidden == {l \in Range(ls) : \A i \in DOMAIN glass : glass[i][1] # l.owner}
           rest == Remaining(ls, hidden)
           added == Registry!WithScreens(rest, glass)
           n == Len(glass)
           m == Len(added)
           place(o) == CHOOSE i \in DOMAIN glass : glass[i][1] = o
           depth(i) == Cardinality({j \in 1..i : glass[j][2] = glass[i][2]})
           moved(k) == [added[k] EXCEPT !.column = glass[place(added[k].owner)][2],
                                        !.depth = depth(place(added[k].owner))]
<1>1. new = [k \in DOMAIN added |-> moved(k)]
  <2>1. Registry!Range(ls) = Range(ls)
    BY SameTools
  <2> DEFINE there == {l \in Registry!Range(ls) : \A i \in DOMAIN glass : glass[i][1] # l.owner}
             stay == Registry!WithScreens(Registry!Remaining(ls, there), glass)
             deep(i) == Registry!Cardinality({j \in 1..i : glass[j][2] = glass[i][2]})
             goes(k) == [stay[k] EXCEPT !.column = glass[place(stay[k].owner)][2],
                                        !.depth = deep(place(stay[k].owner))]
  <2>2. Registry!SyncVisible(ls, glass) = [k \in DOMAIN stay |-> goes(k)]
    BY DEF Registry!SyncVisible
  <2>3. there = hidden
    BY <2>1
  <2> HIDE DEF there, hidden
  <2>4. stay = added
    BY <2>3, SameTools
  <2>5. \A i : deep(i) = depth(i)
    BY SameTools
  <2> HIDE DEF stay, added, deep, depth, place
  <2>6. \A k : goes(k) = moved(k)
    BY <2>4, <2>5
  <2> HIDE DEF goes, moved
  <2>7. QED
    BY <2>2, <2>4, <2>6
<1>2. GlassLeases(rest) /\ \A k \in 1..Len(rest) : ShownAt(glass, rest[k].owner)
  BY KeptLeases
<1> HIDE DEF rest, hidden
<1>3. Len(rest) <= 4
  <2>1. rest \in Seq(ShellLeases) /\ LeasesApart(rest)
    BY <1>2 DEF GlassLeases
  <2>2. Len(rest) <= Len(glass) /\ Len(rest) \in Nat /\ Len(glass) \in Nat
    BY <1>2, <2>1, FewOwners
  <2>3. QED
    BY <2>2
<1>4. GlassLeases(added) /\ \A o : OwnedBy(added, o) <=> OwnedBy(rest, o) \/ ShownAt(glass, o)
  BY <1>2, <1>3, AddedAre
<1>5. \A o : OwnedBy(added, o) <=> ShownAt(glass, o)
  BY <1>2, <1>4 DEF OwnedBy
<1> HIDE DEF added
<1>6. added \in Seq(ShellLeases) /\ LeasesApart(added) /\ m \in Nat /\ DOMAIN added = 1..m /\ n \in Nat
      /\ DOMAIN glass = 1..n
  BY <1>4 DEF GlassLeases
<1>7. \A i \in 1..n : glass[i][2] \in 1..4
  <2>1. \A i \in 1..n : glass[i] \in Shown \X (1..4)
    BY ElementOfSeq
  <2>2. QED
    BY <2>1
<1>8. \A k \in 1..m : added[k] \in ShellLeases /\ place(added[k].owner) \in 1..n
         /\ glass[place(added[k].owner)][1] = added[k].owner
  <2>1. ASSUME NEW k \in 1..m
        PROVE place(added[k].owner) \in 1..n /\ glass[place(added[k].owner)][1] = added[k].owner
    <3>1. OwnedBy(added, added[k].owner)
      BY DEF OwnedBy
    <3>2. \E i \in DOMAIN glass : glass[i][1] = added[k].owner
      BY <1>5, <1>6, <3>1 DEF ShownAt
    <3>3. QED
      BY <1>6, <3>2
  <2>2. \A k \in 1..m : added[k] \in ShellLeases
    BY <1>6, ElementOfSeq
  <2>3. QED
    BY <2>1, <2>2
<1>9. \A i \in 1..n : depth(i) \in Nat
  <2>1. ASSUME NEW i \in 1..n PROVE depth(i) \in Nat
    <3> DEFINE S == {j \in 1..i : glass[j][2] = glass[i][2]}
    <3>1. S \in SUBSET (1..i) /\ 1 \in Int /\ i \in Int
      BY <1>6
    <3> HIDE DEF S
    <3>4. IsFiniteSet(1..i)
      BY <3>1, FS_Interval
    <3>2. IsFiniteSet(S)
      BY <3>1, <3>4, FS_Subset
    <3>3. Cardinality(S) \in Nat
      BY <3>2, FS_CardinalityType
    <3>5. QED
      BY <3>3 DEF S
  <2>2. QED
    BY <2>1
<1> HIDE DEF place, depth
<1>10. \A k \in 1..m : moved(k) \in ShellLeases /\ moved(k).owner = added[k].owner
          /\ moved(k).column = glass[place(added[k].owner)][2]
  <2>1. ASSUME NEW k \in 1..m
        PROVE  /\ moved(k) \in ShellLeases /\ moved(k).owner = added[k].owner
               /\ moved(k).column = glass[place(added[k].owner)][2]
    <3>1. PICK l \in ShellLeases : l = added[k]
      BY <1>8
    <3>2. PICK i \in 1..n : i = place(l.owner)
      BY <1>8, <3>1
    <3>3. PICK c \in 1..4 : c = glass[i][2]
      BY <1>7
    <3>4. PICK d \in Nat : d = depth(i)
      BY <1>9
    <3>5. /\ [l EXCEPT !.column = c, !.depth = d] \in ShellLeases
          /\ [l EXCEPT !.column = c, !.depth = d].owner = l.owner
          /\ [l EXCEPT !.column = c, !.depth = d].column = c
      BY DEF ShellLeases
    <3>6. moved(k) = [l EXCEPT !.column = c, !.depth = d]
      BY <3>1, <3>2, <3>3, <3>4
    <3> HIDE DEF moved
    <3>7. QED
      BY <3>1, <3>2, <3>3, <3>5, <3>6
  <2>2. QED
    BY <2>1
<1> HIDE DEF moved, m, n
<1>11. new \in Seq(ShellLeases) /\ Len(new) = m /\ \A k \in 1..m : new[k] = moved(k)
  <2>1. new = [k \in 1..m |-> moved(k)]
    BY <1>1, <1>6
  <2>2. QED
    BY <1>6, <1>10, <2>1
<1>12. LeasesApart(new)
  BY <1>6, <1>10, <1>11 DEF LeasesApart, m
<1>13. Placed(new, glass)
  BY <1>8, <1>10, <1>11 DEF Placed, n
<1>14. \A o : OwnedBy(new, o) <=> ShownAt(glass, o)
  <2>1. ASSUME NEW o PROVE OwnedBy(new, o) <=> OwnedBy(added, o)
    <3>1. \A k \in 1..m : new[k].owner = added[k].owner
      BY <1>10, <1>11
    <3>2. OwnedBy(new, o) <=> \E k \in 1..m : new[k].owner = o
      BY <1>11 DEF OwnedBy
    <3>3. OwnedBy(added, o) <=> \E k \in 1..m : added[k].owner = o
      BY DEF OwnedBy, m
    <3>4. QED
      BY <3>1, <3>2, <3>3
  <2>2. QED
    BY <1>5, <2>1
<1>15. QED
  BY <1>11, <1>12, <1>13, <1>14 DEF GlassLeases

-----------------------------------------------------------------------------
(* What a frame shows: every screen once and in a column of its own, the    *)
(* palette in the column of the overlays.                                   *)
DrawnOnGlass ==
    {<<pane[2], pane[1]>> : pane \in Range(ActivePanes(nav))}
       \cup (IF palette THEN {<<Palette, Registry!OverlayColumn>>} ELSE {})
Places(glass, o, c) == \E i \in 1..Len(glass) : glass[i][1] = o /\ glass[i][2] = c
ShowsOnGlass(glass, drawn) ==
    /\ glass \in Seq(Shown \X (1..4)) /\ Len(glass) <= 4
    /\ \A i, j \in 1..Len(glass) :
          glass[i][1] = glass[j][1] \/ glass[i][2] = glass[j][2] => i = j
    /\ \A o : ShownAt(glass, o) <=> o \in drawn \/ (palette /\ o = Palette)
    /\ \A i \in 1..Len(glass) : glass[i][2] = 4 <=> glass[i][1] = Palette
    /\ \A o, c : <<o, c>> \in DrawnOnGlass <=> Places(glass, o, c)

LEMMA VisibleIs ==
    ASSUME NavHolds(nav), palette \in BOOLEAN
    PROVE  ShowsOnGlass(VisibleScreens, ActiveRoutes(nav)) /\ ActiveRoutes(nav) \subseteq Routes
<1> DEFINE panes == ActivePanes(nav)
           m == Len(panes)
           shown == [i \in DOMAIN panes |-> <<panes[i][2], panes[i][1]>>]
           above == IF palette THEN <<<<Palette, 4>>>> ELSE <<>>
           all == shown \o above
           k == Len(above)
           drawn == ActiveRoutes(nav)
<1>1. PanesShow(nav, panes)
  BY PanesAre
<1>2. /\ panes \in Seq(PaneSlots \X Routes) /\ m \in Nat /\ m <= 3 /\ DOMAIN panes = 1..m
      /\ \A i \in 1..m : panes[i] \in Range(panes)
  BY <1>1, ElementsOf DEF PanesShow
<1>3. \A i \in 1..m : panes[i][1] \in 1..3 /\ panes[i][2] \in Routes
  BY <1>1, <1>2 DEF PanesShow, PaneSlots
<1>4. \A i, j \in 1..m : panes[i][1] = panes[j][1] \/ panes[i][2] = panes[j][2] => i = j
  BY <1>1, PanesDiffer
<1>5. drawn = {panes[i][2] : i \in 1..m}
  BY <1>2 DEF ActiveRoutes
<1> HIDE DEF panes, m, drawn
<1>6. drawn \subseteq Routes
  BY <1>3, <1>5
<1>7. Palette \notin Routes /\ Palette \in Shown /\ \A r \in Routes : r \in Shown /\ r # Palette
  BY ShellAssumption DEF Shown
<1>8. /\ shown \in Seq(Shown \X (1..4)) /\ Len(shown) = m
      /\ \A i \in 1..m : shown[i][1] = panes[i][2] /\ shown[i][2] = panes[i][1]
  <2>1. \A i \in 1..m : <<panes[i][2], panes[i][1]>> \in Shown \X (1..4)
    BY <1>3, <1>7
  <2>2. shown = [i \in 1..m |-> <<panes[i][2], panes[i][1]>>]
    BY <1>2
  <2>3. QED
    BY <1>2, <2>1, <2>2
<1>9. /\ above \in Seq(Shown \X (1..4)) /\ k \in Nat /\ k <= 1 /\ (palette <=> k = 1)
      /\ \A i \in 1..k : above[i][1] = Palette /\ above[i][2] = 4
  <2>1. CASE palette
    <3>1. above = <<<<Palette, 4>>>>
      BY <2>1
    <3>2. <<Palette, 4>> \in Shown \X (1..4)
      BY <1>7
    <3>3. \A x : <<x>>[1] = x /\ Len(<<x>>) = 1 /\ \A i \in 1..1 : i = 1
      OBVIOUS
    <3>4. /\ <<<<Palette, 4>>>> \in Seq(Shown \X (1..4)) /\ Len(<<<<Palette, 4>>>>) = 1
          /\ <<<<Palette, 4>>>>[1] = <<Palette, 4>>
      BY <3>2
    <3> HIDE DEF above
    <3>5. QED
      BY <2>1, <3>1, <3>3, <3>4
  <2>2. CASE ~palette
    <3>1. above = <<>>
      BY <2>2
    <3> HIDE DEF above
    <3>2. QED
      BY <2>2, <3>1
  <2>3. QED
    BY <2>1, <2>2
<1> HIDE DEF shown, above
<1>10. /\ all \in Seq(Shown \X (1..4)) /\ Len(all) = m + k
       /\ (\A i \in 1..m : all[i] = shown[i]) /\ \A i \in 1..k : all[m + i] = above[i]
  BY <1>8, <1>9, ConcatProperties
<1> HIDE DEF all, k
<1>11. \A i \in 1..(m + k) : i \in 1..m \/ (k = 1 /\ i = m + 1)
  BY <1>2, <1>9
<1>12. k = 1 => all[m + 1][1] = Palette /\ all[m + 1][2] = 4 /\ m + 1 \in 1..(m + k)
  <2>1. k = 1 => 1 \in 1..k /\ m + 1 \in 1..(m + k)
    BY <1>2
  <2>2. QED
    BY <1>9, <1>10, <2>1
<1>13. \A i \in 1..m : /\ i \in 1..(m + k) /\ all[i][1] = panes[i][2] /\ all[i][2] = panes[i][1]
                       /\ all[i][1] # Palette /\ all[i][2] # 4
  <2>1. \A i \in 1..m : i \in 1..(m + k)
    BY <1>2, <1>9
  <2>2. ASSUME NEW i \in 1..m PROVE all[i][1] = panes[i][2] /\ all[i][2] = panes[i][1]
    <3>1. all[i] = shown[i] /\ shown[i][1] = panes[i][2] /\ shown[i][2] = panes[i][1]
      BY <1>8, <1>10
    <3>2. QED
      BY <3>1
  <2>3. \A i \in 1..m : panes[i][2] # Palette /\ panes[i][1] # 4
    BY <1>3, <1>7
  <2>4. QED
    BY <2>1, <2>2, <2>3
<1>14. \A i, j \in 1..(m + k) : all[i][1] = all[j][1] \/ all[i][2] = all[j][2] => i = j
  BY <1>4, <1>11, <1>12, <1>13
<1>15. \A o : ShownAt(all, o) <=> o \in drawn \/ (palette /\ o = Palette)
  <2>1. ASSUME NEW o, o \in drawn PROVE ShownAt(all, o)
    <3>1. PICK i \in 1..m : o = panes[i][2]
      BY <1>5, <2>1
    <3>2. i \in 1..Len(all) /\ all[i][1] = o
      BY <1>10, <1>13, <3>1
    <3>3. QED
      BY <3>2 DEF ShownAt
  <2>2. palette => ShownAt(all, Palette)
    <3>1. palette => m + 1 \in 1..Len(all) /\ all[m + 1][1] = Palette
      BY <1>9, <1>10, <1>12
    <3>2. QED
      BY <3>1 DEF ShownAt
  <2>3. ASSUME NEW o, ShownAt(all, o) PROVE o \in drawn \/ (palette /\ o = Palette)
    <3>1. PICK i \in 1..(m + k) : all[i][1] = o
      BY <1>10, <2>3 DEF ShownAt
    <3>2. CASE i \in 1..m
      BY <1>5, <1>13, <3>1, <3>2
    <3>3. CASE k = 1 /\ i = m + 1
      BY <1>9, <1>12, <3>1, <3>3
    <3>4. QED
      BY <1>11, <3>2, <3>3
  <2>4. QED
    BY <2>1, <2>2, <2>3
<1>16. \A i \in 1..(m + k) : all[i][2] = 4 <=> all[i][1] = Palette
  BY <1>11, <1>12, <1>13
<1>17. m + k <= 4
  BY <1>2, <1>9
<1>18. VisibleScreens = all
  BY DEF VisibleScreens, all, shown, above, panes, Registry!OverlayColumn
<1>19. ASSUME NEW o, NEW c PROVE <<o, c>> \in DrawnOnGlass <=> Places(all, o, c)
  <2>1. \A x : x \in Range(panes) <=> \E i \in 1..m : x = panes[i]
    BY <1>1, <1>2, ElementsOf DEF PanesShow, m
  <2>2. <<o, c>> \in DrawnOnGlass <=> (\E x \in Range(panes) : o = x[2] /\ c = x[1])
                               \/ (palette /\ o = Palette /\ c = 4)
    BY DEF DrawnOnGlass, panes, Registry!OverlayColumn
  <2>3. (\E x \in Range(panes) : o = x[2] /\ c = x[1]) <=> \E i \in 1..m : all[i][1] = o /\ all[i][2] = c
    BY <1>13, <2>1
  <2>4. palette /\ o = Palette /\ c = 4 <=> k = 1 /\ all[m + 1][1] = o /\ all[m + 1][2] = c
    BY <1>9, <1>12
  <2>5. Places(all, o, c) <=> \E i \in 1..(m + k) : all[i][1] = o /\ all[i][2] = c
    BY <1>10 DEF Places
  <2>6. (\E i \in 1..(m + k) : all[i][1] = o /\ all[i][2] = c)
          <=> (\E i \in 1..m : all[i][1] = o /\ all[i][2] = c) \/ (k = 1 /\ all[m + 1][1] = o /\ all[m + 1][2] = c)
    BY <1>11, <1>12, <1>13
  <2>7. QED
    BY <2>2, <2>3, <2>4, <2>5, <2>6, Zenon
<1>20. QED
  BY <1>6, <1>10, <1>14, <1>15, <1>16, <1>17, <1>18, <1>19 DEF ShowsOnGlass, drawn

(* With one lease to a column every lease is topmost.                       *)
LEMMA EligibleIs ==
    ASSUME NEW ls \in Seq(ShellLeases), LeasesApart(ls),
           \A i, j \in 1..Len(ls) : ls[i].column = ls[j].column => i = j,
           NEW k \in 1..Len(ls)
    PROVE  Registry!Eligible(ls, ls[k].owner)
             <=> ((\E i \in 1..Len(ls) : ls[i].column = 4) => ls[k].column = 4)
<1> DEFINE n == Len(ls)
           o == ls[k].owner
           top(c) == Registry!TopmostIn(ls, c)
<1>1. n \in Nat /\ DOMAIN ls = 1..n
  OBVIOUS
<1>2. ASSUME NEW c PROVE top(c) = {i \in 1..n : ls[i].column = c}
  <2>1. \A i \in top(c) : i \in 1..n /\ ls[i].column = c
    BY <1>1 DEF Registry!TopmostIn
  <2>2. ASSUME NEW i \in 1..n, ls[i].column = c PROVE i \in top(c)
    <3>1. \A j \in 1..n : ls[j].column = c => j = i
      BY <2>2
    <3>2. i <= i
      BY <1>1
    <3>3. \A j \in DOMAIN ls : ls[j].column = c =>
             ls[j].depth < ls[i].depth \/ (ls[j].depth = ls[i].depth /\ j <= i)
      BY <1>1, <3>1, <3>2
    <3>4. QED
      BY <1>1, <2>2, <3>3 DEF Registry!TopmostIn
  <2> HIDE DEF top
  <2>3. QED
    BY <2>1, <2>2
<1>3. Registry!HasLease(ls, o)
  BY <1>1 DEF Registry!HasLease
<1>4. Registry!IndexOf(ls, o) = k
  <2>1. \A i \in DOMAIN ls : ls[i].owner = o => i = k
    BY <1>1 DEF LeasesApart
  <2>2. k \in DOMAIN ls /\ ls[k].owner = o
    BY <1>1
  <2>3. QED
    BY <2>1, <2>2 DEF Registry!IndexOf
<1>5. Registry!Eligible(ls, o) <=> IF top(4) # {} THEN k \in top(4) ELSE k \in top(ls[k].column)
  BY <1>3, <1>4 DEF Registry!Eligible, Registry!OverlayColumn
<1> HIDE DEF top, o
<1>6. k \in top(ls[k].column) /\ (k \in top(4) <=> ls[k].column = 4)
      /\ (top(4) # {} <=> \E i \in 1..n : ls[i].column = 4)
  BY <1>2
<1>7. QED
  BY <1>5, <1>6 DEF o

LEMMA FrameSyncs ==
    ASSUME NEW ls, GlassLeases(ls), NEW glass, NEW drawn \in SUBSET Routes, ShowsOnGlass(glass, drawn),
           palette \in BOOLEAN, NEW new, new = Registry!SyncVisible(ls, glass)
    PROVE  /\ GlassLeases(new)
           /\ {<<new[i].owner, new[i].column>> : i \in DOMAIN new} = DrawnOnGlass
           /\ \A r \in drawn : Registry!Eligible(new, r) = ~palette
           /\ palette => Registry!Eligible(new, Palette)
<1> DEFINE n == Len(new)
<1>1. /\ glass \in Seq(Shown \X (1..4)) /\ Len(glass) <= 4
      /\ \A i, j \in 1..Len(glass) :
            glass[i][1] = glass[j][1] \/ glass[i][2] = glass[j][2] => i = j
      /\ \A o : ShownAt(glass, o) <=> o \in drawn \/ (palette /\ o = Palette)
      /\ \A i \in 1..Len(glass) : glass[i][2] = 4 <=> glass[i][1] = Palette
      /\ \A o, c : <<o, c>> \in DrawnOnGlass <=> Places(glass, o, c)
  BY DEF ShowsOnGlass
<1>2. GlassLeases(new) /\ Placed(new, glass) /\ \A o : OwnedBy(new, o) <=> ShownAt(glass, o)
  BY <1>1, Synced
<1>3. new \in Seq(ShellLeases) /\ LeasesApart(new) /\ n \in Nat /\ DOMAIN new = 1..n
  BY <1>2 DEF GlassLeases
<1>4. \A o : OwnedBy(new, o) <=> o \in drawn \/ (palette /\ o = Palette)
  BY <1>1, <1>2
<1>5. {<<new[i].owner, new[i].column>> : i \in DOMAIN new} = DrawnOnGlass
  <2>1. ASSUME NEW k \in 1..n PROVE <<new[k].owner, new[k].column>> \in DrawnOnGlass
    <3>1. Places(glass, new[k].owner, new[k].column)
      BY <1>2 DEF Placed, Places, n
    <3>2. QED
      BY <1>1, <3>1
  <2>2. ASSUME NEW o, NEW c, <<o, c>> \in DrawnOnGlass
        PROVE  \E k \in 1..n : new[k].owner = o /\ new[k].column = c
    <3>1. PICK a \in 1..Len(glass) : glass[a][1] = o /\ glass[a][2] = c
      BY <1>1, <2>2 DEF Places
    <3>2. PICK k \in 1..n : new[k].owner = o
      BY <1>2, <3>1 DEF ShownAt, OwnedBy, n
    <3>3. PICK b \in 1..Len(glass) : new[k].owner = glass[b][1] /\ new[k].column = glass[b][2]
      BY <1>2 DEF Placed, n
    <3>4. a = b
      BY <1>1, <3>1, <3>2, <3>3
    <3>5. QED
      BY <3>1, <3>2, <3>3, <3>4
  <2>3. ASSUME NEW x \in DrawnOnGlass PROVE x = <<x[1], x[2]>>
    BY <2>3 DEF DrawnOnGlass
  <2> HIDE DEF n
  <2>4. {<<new[i].owner, new[i].column>> : i \in 1..n} = DrawnOnGlass
    BY <2>1, <2>2, <2>3
  <2>5. QED
    BY <1>3, <2>4
<1>6. \A k \in 1..n : new[k].column = 4 <=> new[k].owner = Palette
  BY <1>1, <1>2 DEF Placed, n
<1>7. \A j, k \in 1..n : new[j].column = new[k].column => j = k
  <2>1. ASSUME NEW j \in 1..n, NEW k \in 1..n, new[j].column = new[k].column PROVE j = k
    <3>1. PICK a \in 1..Len(glass) : new[j].owner = glass[a][1] /\ new[j].column = glass[a][2]
      BY <1>2 DEF Placed, n
    <3>2. PICK b \in 1..Len(glass) : new[k].owner = glass[b][1] /\ new[k].column = glass[b][2]
      BY <1>2 DEF Placed, n
    <3>3. a = b
      BY <1>1, <2>1, <3>1, <3>2
    <3>4. QED
      BY <1>3, <3>1, <3>2, <3>3 DEF LeasesApart, n
  <2>2. QED
    BY <2>1
<1>8. (\E i \in 1..n : new[i].column = 4) <=> palette
  <2>1. Palette \notin drawn
    BY ShellAssumption
  <2>2. (\E i \in 1..n : new[i].owner = Palette) <=> palette
    BY <1>4, <2>1 DEF OwnedBy, n
  <2>3. QED
    BY <1>6, <2>2
<1>9. \A k \in 1..n : Registry!Eligible(new, new[k].owner) <=> (palette => new[k].owner = Palette)
  <2>1. ASSUME NEW k \in 1..n PROVE Registry!Eligible(new, new[k].owner) <=> (palette => new[k].owner = Palette)
    <3>1. Registry!Eligible(new, new[k].owner)
             <=> ((\E i \in 1..n : new[i].column = 4) => new[k].column = 4)
      BY <1>3, <1>7, EligibleIs
    <3>2. QED
      BY <1>6, <1>8, <3>1
  <2>2. QED
    BY <2>1
<1>10. ASSUME NEW r \in drawn PROVE Registry!Eligible(new, r) = ~palette
  <2>1. PICK k \in 1..n : new[k].owner = r
    BY <1>4 DEF OwnedBy, n
  <2>2. r # Palette
    BY ShellAssumption
  <2>3. Registry!Eligible(new, r) <=> ~palette
    BY <1>9, <2>1, <2>2
  <2>4. Registry!Eligible(new, r) \in BOOLEAN
    BY DEF Registry!Eligible
  <2>5. QED
    BY <2>3, <2>4
<1>11. ASSUME palette PROVE Registry!Eligible(new, Palette)
  <2>1. PICK k \in 1..n : new[k].owner = Palette
    BY <1>4, <1>11 DEF OwnedBy, n
  <2>2. QED
    BY <1>9, <2>1
<1>12. QED
  BY <1>2, <1>5, <1>10, <1>11

-----------------------------------------------------------------------------
(* The window, its overlays and its leases.                                 *)

OverlaysHold ==
    /\ overlays \in Seq({Palette, RailMenu}) /\ AllApart(overlays)
    /\ palette \in BOOLEAN /\ menu \in RailTargets \cup {NoTarget}
    /\ Palette \in Range(overlays) <=> palette
    /\ RailMenu \in Range(overlays) <=> menu # NoTarget

LEMMA FewOverlays ==
    ASSUME NEW s \in Seq({Palette, RailMenu}), AllApart(s)
    PROVE  Len(s) <= 2 /\ \A id \in {Palette, RailMenu} : id \notin Range(s) => Len(s) <= 1
<1>1. Len(s) \in Nat /\ \A i \in 1..Len(s) : s[i] \in Range(s) /\ s[i] \in {Palette, RailMenu}
  BY ElementsOf
<1>2. \A i, j \in 1..Len(s) : s[i] = s[j] => i = j
  BY DEF AllApart
<1> DEFINE n == Len(s)
<1> HIDE DEF n
<1>3. n \in Nat /\ (\A i \in 1..n : s[i] \in Range(s) /\ (s[i] = Palette \/ s[i] = RailMenu))
      /\ \A i, j \in 1..n : s[i] = s[j] => i = j
  BY <1>1, <1>2 DEF n
<1>4. ASSUME n > 2 PROVE FALSE
  <2>1. 1 \in 1..n /\ 2 \in 1..n /\ 3 \in 1..n /\ 1 # 2 /\ 1 # 3 /\ 2 # 3
    BY <1>3, <1>4
  <2>2. s[1] # s[2] /\ s[1] # s[3] /\ s[2] # s[3]
    BY <1>3, <2>1
  <2>3. /\ s[1] = Palette \/ s[1] = RailMenu
        /\ s[2] = Palette \/ s[2] = RailMenu
        /\ s[3] = Palette \/ s[3] = RailMenu
    BY <1>3, <2>1
  <2>4. QED
    BY <2>2, <2>3, Zenon
<1>5. ASSUME NEW id \in {Palette, RailMenu}, id \notin Range(s), n > 1 PROVE FALSE
  <2>1. 1 \in 1..n /\ 2 \in 1..n /\ 1 # 2
    BY <1>3, <1>5
  <2>2. s[1] # s[2] /\ s[1] # id /\ s[2] # id
    BY <1>3, <1>5, <2>1
  <2>3. /\ s[1] = Palette \/ s[1] = RailMenu
        /\ s[2] = Palette \/ s[2] = RailMenu
        /\ id = Palette \/ id = RailMenu
    BY <1>3, <2>1
  <2>4. QED
    BY <2>2, <2>3, Zenon
<1>6. QED
  BY <1>3, <1>4, <1>5 DEF n

LEMMA OverlayOpens ==
    ASSUME OverlaysHold, NEW id \in {Palette, RailMenu}, NEW new, new = OverlayOpened(id)
    PROVE  /\ new \in Seq({Palette, RailMenu}) /\ AllApart(new)
           /\ Range(new) = Range(overlays) \cup {id}
<1> DEFINE others == Remaining(overlays, {id})
<1>1. overlays \in Seq({Palette, RailMenu}) /\ AllApart(overlays)
  BY DEF OverlaysHold
<1>2. /\ others \in Seq({Palette, RailMenu}) /\ Range(others) = Range(overlays) \ {id} /\ AllApart(others)
  BY <1>1, ApartFromSome
<1> HIDE DEF others
<1>3. id \notin Range(others)
  BY <1>2
<1>4. Len(others) <= 1 /\ Len(others) \in Nat
  BY <1>2, <1>3, FewOverlays
<1>5. ~(Len(others) >= OverlayCapacity)
  BY <1>4, ShellAssumption
<1>6. new = Append(others, id)
  BY <1>5 DEF OverlayOpened, others
<1>7. /\ Append(others, id) \in Seq({Palette, RailMenu}) /\ AllApart(Append(others, id))
      /\ Range(Append(others, id)) = Range(others) \cup {id}
  BY <1>2, <1>3, ApartWithLast
<1>8. QED
  BY <1>2, <1>6, <1>7

LEMMA OverlayCloses ==
    ASSUME OverlaysHold, NEW id \in {Palette, RailMenu}, CloseOverlay(id)
    PROVE  OverlaysHold'
<1>1. overlays \in Seq({Palette, RailMenu}) /\ AllApart(overlays)
  BY DEF OverlaysHold
<1>2. overlays' = Remaining(overlays, {id})
  BY DEF CloseOverlay
<1>3. /\ overlays' \in Seq({Palette, RailMenu}) /\ Range(overlays') = Range(overlays) \ {id} /\ AllApart(overlays')
  <2>1. /\ Remaining(overlays, {id}) \in Seq({Palette, RailMenu})
        /\ Range(Remaining(overlays, {id})) = Range(overlays) \ {id} /\ AllApart(Remaining(overlays, {id}))
    BY <1>1, ApartFromSome
  <2>2. QED
    BY <1>2, <2>1
<1>4. Palette # RailMenu
  BY DEF Palette, RailMenu
<1>5. (palette' <=> palette /\ id # Palette) /\ palette' \in BOOLEAN
  BY DEF CloseOverlay
<1>6. menu' = IF id = RailMenu THEN NoTarget ELSE menu
  BY DEF CloseOverlay
<1>7. Palette \in Range(overlays') <=> palette'
  BY <1>3, <1>5, Zenon DEF OverlaysHold
<1>8. menu' \in RailTargets \cup {NoTarget} /\ (RailMenu \in Range(overlays') <=> menu' # NoTarget)
  BY <1>3, <1>6 DEF OverlaysHold
<1>9. QED
  BY <1>3, <1>5, <1>7, <1>8, Zenon DEF OverlaysHold

LEMMA OverlaysStay ==
    ASSUME OverlaysHold, NotTheOverlays PROVE OverlaysHold'
<1>1. overlays' = overlays /\ menu' = menu /\ palette' = palette
  BY DEF NotTheOverlays
<1>2. QED
  BY <1>1, Zenon DEF OverlaysHold

LEMMA OverlaysStep ==
    ASSUME OverlaysHold, [ShellNext]_shellVars PROVE OverlaysHold'
<1>1. ASSUME NEW r, OpenRoute(r) PROVE OverlaysHold'
  BY <1>1, OverlaysStay DEF OpenRoute
<1>2. ASSUME NEW r, PaletteActivated(r) PROVE OverlaysHold'
  BY <1>2, OverlayCloses DEF PaletteActivated
<1>3. ASSUME NEW t \in RailTargets, OpenRailMenu(t) PROVE OverlaysHold'
  <2>1. menu' = t /\ palette' = palette /\ overlays' = OverlayOpened(RailMenu)
    BY <1>3 DEF OpenRailMenu
  <2>2. /\ OverlayOpened(RailMenu) \in Seq({Palette, RailMenu}) /\ AllApart(OverlayOpened(RailMenu))
        /\ Range(OverlayOpened(RailMenu)) = Range(overlays) \cup {RailMenu}
    BY OverlayOpens
  <2>3. t # NoTarget
    BY ShellAssumption
  <2>4. Palette # RailMenu
    BY DEF Palette, RailMenu
  <2> DEFINE new == OverlayOpened(RailMenu)
  <2> HIDE DEF new
  <2>5. overlays' = new /\ new \in Seq({Palette, RailMenu}) /\ AllApart(new) /\ Range(new) = Range(overlays) \cup {RailMenu}
    BY <2>1, <2>2 DEF new
  <2>6. Palette \in Range(overlays') <=> palette'
    BY <2>1, <2>4, <2>5, Zenon DEF OverlaysHold
  <2>7. menu' \in RailTargets \cup {NoTarget} /\ (RailMenu \in Range(overlays') <=> menu' # NoTarget)
    BY <2>1, <2>3, <2>5
  <2>8. palette' \in BOOLEAN
    BY <2>1, Zenon DEF OverlaysHold
  <2>9. QED
    BY <2>5, <2>6, <2>7, <2>8, Zenon DEF OverlaysHold
<1>4. ASSUME GoBack PROVE OverlaysHold'
  BY <1>4, OverlaysStay DEF GoBack
<1>5. ASSUME GoForward PROVE OverlaysHold'
  BY <1>5, OverlaysStay DEF GoForward
<1>6. ASSUME DismissOverlay PROVE OverlaysHold'
  <2>1. CASE overlays # <<>> /\ CloseOverlay(Last(overlays))
    <3>1. overlays \in Seq({Palette, RailMenu}) /\ overlays # <<>>
      BY <2>1 DEF OverlaysHold
    <3>2. Last(overlays) \in {Palette, RailMenu}
      <4>1. Len(overlays) \in 1..Len(overlays)
        BY <3>1
      <4>2. QED
        BY <3>1, <4>1, ElementOfSeq DEF Last
    <3>3. QED
      BY <2>1, <3>2, OverlayCloses
  <2>2. QED
    BY <1>4, <1>6, <2>1 DEF DismissOverlay
<1>7. ASSUME MenuActivated PROVE OverlaysHold'
  BY <1>7, OverlayCloses DEF MenuActivated
<1>8. ASSUME ToggleCommandPalette PROVE OverlaysHold'
  <2>1. CASE palette
    BY <1>8, <2>1, OverlayCloses DEF ToggleCommandPalette
  <2>2. CASE ~palette
    <3>1. palette' = TRUE /\ menu' = menu /\ overlays' = OverlayOpened(Palette)
      BY <1>8, <2>2 DEF ToggleCommandPalette
    <3> DEFINE new == OverlayOpened(Palette)
    <3>2. new \in Seq({Palette, RailMenu}) /\ AllApart(new) /\ Range(new) = Range(overlays) \cup {Palette}
      BY OverlayOpens
    <3> HIDE DEF new
    <3>3. overlays' = new
      BY <3>1 DEF new
    <3>4. Palette # RailMenu
      BY DEF Palette, RailMenu
    <3>5. Palette \in Range(overlays') <=> palette'
      BY <3>1, <3>2, <3>3, Zenon
    <3>6. menu' \in RailTargets \cup {NoTarget} /\ (RailMenu \in Range(overlays') <=> menu' # NoTarget)
      BY <3>1, <3>2, <3>3, <3>4 DEF OverlaysHold
    <3>7. QED
      BY <3>1, <3>2, <3>3, <3>5, <3>6, Zenon DEF OverlaysHold
  <2>3. QED
    BY <2>1, <2>2
<1>9. ASSUME NEW id \in {Palette, RailMenu}, ClickOutside(id) PROVE OverlaysHold'
  BY <1>9, OverlayCloses DEF ClickOutside
<1>10. ASSUME NEW w, WindowResized(w) PROVE OverlaysHold'
  BY <1>10, OverlaysStay DEF WindowResized
<1>11. ASSUME OnboardingFinished \/ SignInDismissed PROVE OverlaysHold'
  BY <1>1, <1>4, <1>11 DEF OnboardingFinished, SignInDismissed
<1>12. ASSUME AuthenticationChanged PROVE OverlaysHold'
  BY <1>12, OverlaysStay DEF AuthenticationChanged, ReplaceRoot
<1>13. ASSUME RenderFrame PROVE OverlaysHold'
  BY <1>13, OverlaysStay DEF RenderFrame
<1>14. ASSUME UNCHANGED shellVars PROVE OverlaysHold'
  BY <1>14, OverlaysStay DEF shellVars, NotTheOverlays
<1>15. QED
  BY <1>1, <1>2, <1>3, <1>4, <1>5, <1>6, <1>7, <1>8, <1>9, <1>10, <1>11, <1>12, <1>13, <1>14 DEF ShellNext

-----------------------------------------------------------------------------
(* Only roots, and nothing to restore.                                      *)
OnlyRoots(n) ==
    /\ \A t \in Sections : n.sections[t].forward = <<>>
    /\ \A t \in Sections, s \in PaneSlots : \A i \in 1..Len(n.sections[t].stacks[s]) :
          n.sections[t].stacks[s][i] = t

LEMMA HeldOfRoots == ASSUME NEW n, NavHolds(n), OnlyRoots(n) PROVE Held(n) = {}
<1>1. \A t \in Sections, s \in PaneSlots : n.sections[t].stacks[s] \in Seq(Routes)
  BY SectionIsTyped DEF NavHolds, NavType, SectionHolds
<1>2. \A t \in Sections, s \in PaneSlots : Range(n.sections[t].stacks[s]) \subseteq Sections
  <2>1. ASSUME NEW t \in Sections, NEW s \in PaneSlots, NEW x \in Range(n.sections[t].stacks[s]) PROVE x \in Sections
    <3>1. \E i \in 1..Len(n.sections[t].stacks[s]) : x = n.sections[t].stacks[s][i]
      BY <1>1, ElementsOf
    <3>2. QED
      BY <3>1 DEF OnlyRoots
  <2>2. QED
    BY <2>1
<1>3. AllRoutes(n) \subseteq Sections
  BY <1>2 DEF AllRoutes
<1>4. Range(<<>>) = {}
  BY DEF Range
<1>5. ForwardRoutes(n) = {}
  BY <1>4 DEF ForwardRoutes, OnlyRoots
<1>6. QED
  BY <1>3, <1>5 DEF Held

LEMMA HeldOfPushed ==
    ASSUME NEW n, NavHolds(n), OnlyRoots(n), NEW r \in Screens
    PROVE  Held(Push(n, r)) \ {r} = {}
<1> DEFINE slot == SlotOf[r]
           section == SectionOf(n)
           stack == StackOf(n, slot)
           grown == Restacked(section, slot, Append(stack, r), <<>>)
           new == Push(n, r)
           onTop == stack # <<>> /\ TopOf(n, slot) = r
           next == IF onTop THEN Touched(section, slot) ELSE Touched(grown, slot)
<1>1. /\ slot \in PaneSlots /\ r \notin Sections /\ r \in Routes /\ RouteSlot(r) = slot
  BY ScreensBelong
<1>2. /\ n \in NavType /\ section \in SectionType /\ section = n.sections[n.tab] /\ n.tab \in Sections
      /\ \A s \in PaneSlots : StackOf(n, s) = section.stacks[s] /\ StackOf(n, s) \in Seq(Routes)
  BY NavIsTyped DEF SectionOf
<1>3. new = UpdateSection(n, next)
  BY <1>1 DEF Push
<1> HIDE DEF slot, section, new
<1>4. stack \in Seq(Routes) /\ Append(stack, r) \in Seq(Routes) /\ stack = section.stacks[slot]
  BY <1>1, <1>2
<1>5. /\ grown \in SectionType /\ grown.stacks[slot] = Append(stack, r) /\ grown.forward = <<>>
      /\ \A s \in PaneSlots : s # slot => grown.stacks[s] = section.stacks[s]
  <2>1. <<>> \in Seq(PaneSlots \X Routes)
    OBVIOUS
  <2> DEFINE more == Append(stack, r)
             none == <<>>
  <2>2. more \in Seq(Routes) /\ none \in Seq(PaneSlots \X Routes)
    BY <1>4, <2>1
  <2> HIDE DEF more, none
  <2>3. /\ Restacked(section, slot, more, none) \in SectionType
        /\ Restacked(section, slot, more, none).stacks[slot] = more
        /\ Restacked(section, slot, more, none).forward = none
        /\ \A s \in PaneSlots : s # slot => Restacked(section, slot, more, none).stacks[s] = section.stacks[s]
    BY <1>1, <1>2, <2>2, RestackedIs
  <2>4. QED
    BY <2>3 DEF more, none
<1> HIDE DEF grown, stack
<1>6. /\ Touched(section, slot) \in SectionType /\ Touched(section, slot).stacks = section.stacks
      /\ Touched(section, slot).forward = section.forward
  BY <1>1, <1>2, TouchedIs
<1>7. /\ Touched(grown, slot) \in SectionType /\ Touched(grown, slot).stacks = grown.stacks
      /\ Touched(grown, slot).forward = grown.forward
  BY <1>1, <1>5, TouchedIs
<1>8. /\ next \in SectionType /\ next.forward = <<>>
      /\ \A s \in PaneSlots : \/ next.stacks[s] = section.stacks[s]
                              \/ s = slot /\ next.stacks[s] = Append(stack, r)
  <2>1. section.forward = <<>>
    BY <1>2 DEF OnlyRoots
  <2>2. CASE onTop
    BY <1>6, <2>1, <2>2
  <2>3. CASE ~onTop
    BY <1>5, <1>7, <2>3
  <2>4. QED
    BY <2>2, <2>3
<1> HIDE DEF next
<1>9. /\ new \in NavType /\ new.sections[n.tab] = next
      /\ \A t \in Sections : t # n.tab => new.sections[t] = n.sections[t]
  BY <1>2, <1>3, <1>8, SectionUpdates
<1>10. ASSUME NEW t \in Sections, NEW s \in PaneSlots, NEW x \in Range(new.sections[t].stacks[s])
       PROVE  x \in Sections \cup {r}
  <2>1. new.sections[t].stacks[s] \in Seq(Routes)
    BY <1>9, SectionIsTyped DEF NavType
  <2>2. PICK i \in 1..Len(new.sections[t].stacks[s]) : x = new.sections[t].stacks[s][i]
    BY <2>1, <1>10, ElementsOf
  <2>3. CASE new.sections[t].stacks[s] = n.sections[t].stacks[s]
    BY <2>2, <2>3 DEF OnlyRoots
  <2>4. CASE new.sections[t].stacks[s] # n.sections[t].stacks[s]
    <3>1. t = n.tab /\ s = slot /\ new.sections[t].stacks[s] = Append(stack, r)
      BY <1>2, <1>8, <1>9, <2>4
    <3>2. /\ Len(Append(stack, r)) = Len(stack) + 1 /\ Len(stack) \in Nat
          /\ Append(stack, r)[Len(stack) + 1] = r /\ \A j \in 1..Len(stack) : Append(stack, r)[j] = stack[j]
      BY <1>1, <1>4
    <3>3. i \in 1..(Len(stack) + 1)
      BY <2>2, <3>1, <3>2
    <3>4. i \in 1..Len(stack) \/ i = Len(stack) + 1
      BY <3>2, <3>3
    <3>5. \A j \in 1..Len(stack) : stack[j] = n.tab
      BY <1>1, <1>2, <1>4 DEF OnlyRoots
    <3>6. QED
      BY <1>2, <2>2, <3>1, <3>2, <3>4, <3>5
  <2>5. QED
    BY <2>3, <2>4
<1>11. AllRoutes(new) \subseteq Sections \cup {r}
  BY <1>10 DEF AllRoutes
<1>12. Range(<<>>) = {}
  BY DEF Range
<1>13. \A t \in Sections : new.sections[t].forward = <<>>
  BY <1>2, <1>8, <1>9 DEF OnlyRoots
<1>14. ForwardRoutes(new) = {}
  BY <1>12, <1>13 DEF ForwardRoutes
<1>15. QED
  BY <1>11, <1>14 DEF Held, new

(* No screen from before the sign-in is drawn above roots.                  *)
LEMMA RootsDrawNoPreAuth ==
    ASSUME NEW n, NavHolds(n), AllRootsOnly(n)
    PROVE  ActiveRoutes(n) \cap PreAuth = {}
<1> DEFINE panes == ActivePanes(n)
<1>1. PanesShow(n, panes)
  BY PanesAre
<1>2. /\ panes \in Seq(PaneSlots \X Routes) /\ DOMAIN panes = 1..Len(panes)
      /\ \A i \in 1..Len(panes) : panes[i] \in Range(panes)
  BY <1>1, ElementsOf DEF PanesShow
<1>3. ASSUME NEW i \in 1..Len(panes), panes[i][2] \in PreAuth PROVE FALSE
  <2>1. /\ panes[i] = <<panes[i][1], TopOf(n, panes[i][1])>> /\ RouteSlot(panes[i][2]) = panes[i][1]
        /\ StackOf(n, panes[i][1]) # <<>>
    BY <1>1, <1>2 DEF PanesShow
  <2>2. panes[i][2] \in Screens /\ SlotOf[panes[i][2]] = 1 /\ panes[i][2] \notin Sections
    BY <1>3, ShellAssumption, ScreensBelong
  <2>3. panes[i][1] = 1
    BY <2>1, <2>2, ScreensBelong
  <2> HIDE DEF panes
  <2>4. panes[i][2] = TopOf(n, 1) /\ StackOf(n, 1) # <<>>
    <3>1. PICK s : s = panes[i][1]
      OBVIOUS
    <3>2. panes[i] = <<s, TopOf(n, s)>>
      BY <2>1, <3>1
    <3>3. panes[i][2] = TopOf(n, s) /\ s = 1
      BY <2>3, <3>1, <3>2
    <3>4. QED
      BY <2>1, <2>3, <3>3
  <2> DEFINE stack == StackOf(n, 1)
  <2>5. /\ stack \in Seq(Routes) /\ Len(stack) <= 1 /\ stack = SectionOf(n).stacks[1]
        /\ StacksHold(SectionOf(n).stacks, n.tab) /\ n.tab \in Sections
    BY NavIsTyped, ScreensBelong DEF SectionHolds, RootsOnly
  <2> HIDE DEF stack
  <2>6. Len(stack) = 1 /\ 1 \in 1..Len(stack)
    <3>1. stack # <<>>
      BY <2>4 DEF stack
    <3>2. \A q \in Seq(Routes) : q # <<>> /\ Len(q) <= 1 => Len(q) = 1 /\ 1 \in 1..Len(q)
      <4>1. ASSUME NEW q \in Seq(Routes), q # <<>>, Len(q) <= 1 PROVE Len(q) = 1 /\ 1 \in 1..Len(q)
        <5>1. PICK k \in Nat : k = Len(q)
          OBVIOUS
        <5>2. k # 0
          BY <4>1, <5>1
        <5>3. k = 1 /\ 1 \in 1..k
          BY <4>1, <5>1, <5>2
        <5>4. QED
          BY <5>1, <5>3
      <4>2. QED
        BY <4>1
    <3>3. QED
      BY <2>5, <3>1, <3>2, Zenon
  <2>7. stack[1] = n.tab
    BY <2>5, <2>6, ScreensBelong DEF StacksHold
  <2>8. TopOf(n, 1) = stack[1]
    BY <2>6 DEF TopOf, Last, stack
  <2>9. QED
    BY <2>2, <2>4, <2>5, <2>7, <2>8
<1>4. QED
  BY <1>2, <1>3 DEF ActiveRoutes

-----------------------------------------------------------------------------
(* While somebody is signed in no stack grows above a root, and no view is  *)
(* left from before.                                                        *)
NavPart ==
    /\ NavHolds(nav)
    /\ authenticated => AllRootsOnly(nav) /\ views \cap PreAuth = {}
WindowPart ==
    /\ dirty \in BOOLEAN /\ authenticated \in BOOLEAN /\ unseen \in 0..MaxUnseen
    /\ views \subseteq Routes /\ old = {} /\ oldViews = {}
LeasePart == GlassLeases(registry) /\ LeasesFollowTheGlass
ShellInv == NavPart /\ WindowPart /\ LeasePart /\ OverlaysHold

LEMMA UnseenGrows == ASSUME WindowPart, Unseen PROVE unseen' \in 0..MaxUnseen
  BY ShellAssumption DEF WindowPart, Unseen

LEMMA NavigatesKeeps ==
    ASSUME ShellInv, NEW opened, Navigates(opened), NavHolds(nav'),
           AllRootsOnly(nav) => AllRootsOnly(nav') \/ ~authenticated
    PROVE  NavPart' /\ WindowPart' /\ LeasePart'
<1>1. /\ old' = (old \ opened) \cap Held(nav') /\ oldViews' = oldViews /\ dirty' = TRUE /\ Unseen
      /\ authenticated' = authenticated /\ views' = views /\ registry' = registry
  BY DEF Navigates
<1>2. old' = {} /\ oldViews' = {}
  BY <1>1 DEF ShellInv, WindowPart
<1>3. unseen' \in 0..MaxUnseen
  BY <1>1, UnseenGrows DEF ShellInv
<1>4. NavPart'
  BY <1>1, Zenon DEF ShellInv, NavPart
<1>5. WindowPart'
  BY <1>1, <1>2, <1>3, Zenon DEF ShellInv, WindowPart
<1>6. LeasePart'
  BY <1>1, Zenon DEF ShellInv, LeasePart, LeasesFollowTheGlass
<1>7. QED
  BY <1>4, <1>5, <1>6

LEMMA OverlaysOnlyKeeps ==
    ASSUME ShellInv, OnlyOverlays
    PROVE  NavPart' /\ WindowPart' /\ LeasePart'
<1>1. /\ dirty' = TRUE /\ Unseen /\ nav' = nav /\ old' = old /\ oldViews' = oldViews
      /\ authenticated' = authenticated /\ views' = views /\ registry' = registry
  BY DEF OnlyOverlays
<1>2. unseen' \in 0..MaxUnseen
  BY <1>1, UnseenGrows DEF ShellInv
<1>3. NavPart'
  BY <1>1, Zenon DEF ShellInv, NavPart
<1>4. WindowPart'
  BY <1>1, <1>2, Zenon DEF ShellInv, WindowPart
<1>5. LeasePart'
  BY <1>1, Zenon DEF ShellInv, LeasePart, LeasesFollowTheGlass
<1>6. QED
  BY <1>3, <1>4, <1>5

LEMMA PushedRouteKeeps ==
    ASSUME ShellInv, NEW r \in Routes, ~authenticated \/ r \notin PreAuth, nav' = Push(nav, r), Navigates({r})
    PROVE  NavPart' /\ WindowPart' /\ LeasePart'
<1>1. NavHolds(nav)
  BY DEF ShellInv, NavPart
<1>2. r \notin PreAuth => (r \in Screens => SlotOf[r] # 1)
  BY ShellAssumption
<1>3. NavHolds(Push(nav, r)) /\ (AllRootsOnly(nav) /\ r \notin PreAuth => AllRootsOnly(Push(nav, r)))
  BY <1>1, <1>2, PushHolds
<1>4. NavHolds(nav') /\ (AllRootsOnly(nav) => AllRootsOnly(nav') \/ ~authenticated)
  BY <1>3, Zenon
<1>5. QED
  BY <1>4, NavigatesKeeps

LEMMA BackKeeps == ASSUME ShellInv, GoBack PROVE NavPart' /\ WindowPart' /\ LeasePart'
<1>1. CanGoBack(nav) /\ nav' = Back(nav) /\ Navigates({})
  BY DEF GoBack
<1>2. NavHolds(Back(nav)) /\ (AllRootsOnly(nav) => AllRootsOnly(Back(nav)))
  BY <1>1, BackHolds DEF ShellInv, NavPart
<1>3. NavHolds(nav') /\ (AllRootsOnly(nav) => AllRootsOnly(nav') \/ ~authenticated)
  BY <1>1, <1>2, Zenon
<1>4. QED
  BY <1>1, <1>3, NavigatesKeeps

LEMMA ForwardStepKeeps == ASSUME ShellInv, GoForward PROVE NavPart' /\ WindowPart' /\ LeasePart'
<1>1. CanGoForward(nav) /\ nav' = Forward(nav) /\ Navigates({})
  BY DEF GoForward
<1>2. NavHolds(Forward(nav)) /\ (AllRootsOnly(nav) => AllRootsOnly(Forward(nav)))
  BY <1>1, ForwardKeeps DEF ShellInv, NavPart
<1>3. NavHolds(nav') /\ (AllRootsOnly(nav) => AllRootsOnly(nav') \/ ~authenticated)
  BY <1>1, <1>2, Zenon
<1>4. QED
  BY <1>1, <1>3, NavigatesKeeps

LEMMA ResizeKeeps == ASSUME ShellInv, NEW w, WindowResized(w) PROVE NavPart' /\ WindowPart' /\ LeasePart'
<1> DEFINE layout == LayoutForResize(w, nav.layout)
<1>1. nav' = [nav EXCEPT !.layout = layout] /\ Navigates({})
  BY DEF WindowResized
<1>2. NavHolds(nav) /\ layout \in Layouts
  BY NavIsTyped, ResizeIs DEF ShellInv, NavPart
<1>3. /\ NavHolds([nav EXCEPT !.layout = layout])
      /\ AllRootsOnly(nav) => AllRootsOnly([nav EXCEPT !.layout = layout])
  BY <1>2, ResizeHolds
<1> HIDE DEF layout
<1>4. NavHolds(nav') /\ (AllRootsOnly(nav) => AllRootsOnly(nav') \/ ~authenticated)
  BY <1>1, <1>3, Zenon
<1>5. QED
  BY <1>1, <1>4, NavigatesKeeps

LEMMA SignInKeeps == ASSUME ShellInv, AuthenticationChanged PROVE NavPart' /\ WindowPart' /\ LeasePart'
<1> DEFINE root == ResetToRoot(nav)
           begun == Push(root, Onboarding)
<1>1. /\ authenticated' = ~authenticated /\ nav' = IF authenticated' THEN root ELSE begun
      /\ views' = {} /\ old' = Held(nav') \ (IF authenticated' THEN {} ELSE {Onboarding})
      /\ oldViews' = {} /\ dirty' = TRUE /\ Unseen /\ registry' = registry
  BY DEF AuthenticationChanged, ReplaceRoot
<1>2. /\ NavHolds(root) /\ AllRootsOnly(root) /\ OnlyRoots(root)
  BY ResetHolds DEF ShellInv, NavPart, OnlyRoots
<1> HIDE DEF root
<1>3. Onboarding \in Screens /\ Onboarding \in Routes
  BY ShellAssumption, ScreensBelong DEF PreAuth
<1>4. NavHolds(begun) /\ Held(begun) \ {Onboarding} = {} /\ Held(root) = {}
  BY <1>2, <1>3, PushHolds, HeldOfPushed, HeldOfRoots
<1> HIDE DEF begun
<1>5. unseen' \in 0..MaxUnseen
  BY <1>1, UnseenGrows DEF ShellInv
<1>6. CASE authenticated'
  <2>1. nav' = root
    BY <1>1, <1>6
  <2>2. NavPart'
    BY <1>1, <1>2, <2>1 DEF NavPart
  <2>3. old' = {}
    BY <1>1, <1>4, <1>6, <2>1
  <2>4. QED
    BY <1>1, <1>5, <2>2, <2>3, Zenon DEF ShellInv, WindowPart, LeasePart, LeasesFollowTheGlass
<1>7. CASE ~authenticated'
  <2>1. nav' = begun
    BY <1>1, <1>7
  <2>2. NavPart'
    BY <1>1, <1>4, <1>7, <2>1 DEF NavPart
  <2>3. old' = {}
    BY <1>1, <1>4, <1>7, <2>1
  <2>4. QED
    BY <1>1, <1>5, <2>2, <2>3, Zenon DEF ShellInv, WindowPart, LeasePart, LeasesFollowTheGlass
<1>8. QED
  BY <1>6, <1>7

LEMMA FrameKeeps == ASSUME ShellInv, RenderFrame PROVE NavPart' /\ WindowPart' /\ LeasePart'
<1> DEFINE drawn == ActiveRoutes(nav)
           synced == Registry!SyncVisible(registry, VisibleScreens)
<1>1. /\ views' = (views \cap AllRoutes(nav)) \cup drawn /\ registry' = synced
      /\ dirty' = FALSE /\ unseen' = 0 /\ nav' = nav /\ authenticated' = authenticated
      /\ palette' = palette /\ old' = old /\ oldViews' = oldViews \cap AllRoutes(nav)
  BY DEF RenderFrame, NotTheOverlays
<1>2. NavHolds(nav) /\ palette \in BOOLEAN /\ GlassLeases(registry)
  BY Zenon DEF ShellInv, NavPart, OverlaysHold, LeasePart
<1>3. ShowsOnGlass(VisibleScreens, drawn) /\ drawn \in SUBSET Routes
  BY <1>2, VisibleIs
<1>4. /\ GlassLeases(synced)
      /\ {<<synced[i].owner, synced[i].column>> : i \in DOMAIN synced} = DrawnOnGlass
      /\ \A r \in drawn : Registry!Eligible(synced, r) = ~palette
      /\ palette => Registry!Eligible(synced, Palette)
  BY <1>2, <1>3, FrameSyncs
<1>5. authenticated => drawn \cap PreAuth = {}
  BY <1>2, RootsDrawNoPreAuth DEF ShellInv, NavPart
<1>6. NavPart'
  <2>1. authenticated => AllRootsOnly(nav) /\ views \cap PreAuth = {}
    BY Zenon DEF ShellInv, NavPart
  <2> HIDE DEF drawn
  <2>2. authenticated => views' \cap PreAuth = {}
    BY <1>1, <1>5, <2>1
  <2>3. QED
    BY <1>1, <1>2, <2>1, <2>2, Zenon DEF NavPart
<1>7. WindowPart'
  <2>1. old = {} /\ oldViews = {} /\ authenticated \in BOOLEAN /\ views \subseteq Routes
    BY Zenon DEF ShellInv, WindowPart
  <2> HIDE DEF drawn
  <2>2. views' \subseteq Routes
    BY <1>1, <1>3, <2>1
  <2>3. old' = {} /\ oldViews' = {} /\ unseen' \in 0..MaxUnseen
    BY <1>1, <2>1, ShellAssumption
  <2>4. dirty' \in BOOLEAN
    BY <1>1
  <2>5. QED
    BY <1>1, <2>1, <2>2, <2>3, <2>4, Zenon DEF WindowPart
<1>8. LeasePart'
  <2>1. ActiveRoutes(nav') = drawn
    BY <1>1
  <2> HIDE DEF drawn, synced
  <2>2. GlassLeases(registry')
    BY <1>1, <1>4
  <2>3. /\ {<<registry'[i].owner, registry'[i].column>> : i \in DOMAIN registry'} = DrawnOnGlass
        /\ \A r \in drawn : Registry!Eligible(registry', r) = ~palette'
        /\ palette' => Registry!Eligible(registry', Palette)
    BY <1>1, <1>4
  <2>4. DrawnOnGlass = {<<pane[2], pane[1]>> : pane \in Range(ActivePanes(nav'))}
                    \cup (IF palette' THEN {<<Palette, Registry!OverlayColumn>>} ELSE {})
    BY <1>1 DEF DrawnOnGlass
  <2>5. LeasesFollowTheGlass'
    BY <2>1, <2>3, <2>4, Zenon DEF LeasesFollowTheGlass
  <2>6. QED
    BY <2>2, <2>5 DEF LeasePart
<1>9. QED
  BY <1>6, <1>7, <1>8

-----------------------------------------------------------------------------
LEMMA WindowBegins == ShellInit => ShellInv
<1> SUFFICES ASSUME ShellInit PROVE ShellInv
  OBVIOUS
<1> DEFINE new == NewNavigation("two", FirstSection)
           begun == Push(new, Onboarding)
<1>1. /\ authenticated \in BOOLEAN /\ nav = IF authenticated THEN new ELSE begun
      /\ dirty = TRUE /\ unseen = 0 /\ palette = FALSE /\ menu = NoTarget /\ overlays = <<>>
      /\ views = {} /\ old = {} /\ oldViews = {} /\ registry = <<>>
  BY DEF ShellInit
<1>2. FirstSection \in Sections /\ "two" \in Layouts /\ Onboarding \in Routes
  BY ShellAssumption, ScreensBelong DEF Layouts, PreAuth
<1>3. NavHolds(new) /\ AllRootsOnly(new)
  BY <1>2, NewHolds
<1> HIDE DEF new
<1>4. NavHolds(begun)
  BY <1>2, <1>3, PushHolds
<1> HIDE DEF begun
<1>5. NavPart
  BY <1>1, <1>3, <1>4 DEF NavPart
<1>6. WindowPart
  BY <1>1, ShellAssumption DEF WindowPart
<1>7. LeasePart
  <2>1. <<>> \in Seq(ShellLeases) /\ Len(<<>>) = 0
    OBVIOUS
  <2>2. GlassLeases(registry)
    BY <1>1, <2>1 DEF GlassLeases, LeasesApart
  <2>3. QED
    BY <1>1, <2>2, Zenon DEF LeasePart, LeasesFollowTheGlass
<1>8. OverlaysHold
  <2>1. <<>> \in Seq({Palette, RailMenu}) /\ Range(<<>>) = {} /\ AllApart(<<>>)
    BY DEF Range, AllApart
  <2>2. QED
    BY <1>1, <2>1 DEF OverlaysHold
<1>9. QED
  BY <1>5, <1>6, <1>7, <1>8 DEF ShellInv

LEMMA WindowSteps == ShellInv /\ [ShellNext]_shellVars => ShellInv'
<1> SUFFICES ASSUME ShellInv, [ShellNext]_shellVars PROVE ShellInv'
  OBVIOUS
<1> DEFINE Rest == NavPart' /\ WindowPart' /\ LeasePart'
<1>1. OverlaysHold'
  BY OverlaysStep DEF ShellInv
<1>2. ASSUME NEW r \in Routes \ PreAuth, OpenRoute(r) PROVE Rest
  BY <1>2, PushedRouteKeeps DEF OpenRoute
<1>3. ASSUME NEW r \in Routes \ PreAuth, PaletteActivated(r) PROVE Rest
  BY <1>3, PushedRouteKeeps DEF PaletteActivated
<1>4. ASSUME NEW t \in RailTargets, OpenRailMenu(t) PROVE Rest
  BY <1>4, OverlaysOnlyKeeps DEF OpenRailMenu
<1>5. ASSUME GoBack PROVE Rest
  BY <1>5, BackKeeps
<1>6. ASSUME GoForward PROVE Rest
  BY <1>6, ForwardStepKeeps
<1>7. ASSUME DismissOverlay PROVE Rest
  BY <1>5, <1>7, OverlaysOnlyKeeps DEF DismissOverlay
<1>8. ASSUME MenuActivated PROVE Rest
  <2>1. menu \in RailTargets /\ menu \in Routes /\ menu \notin PreAuth
    BY <1>8, ShellAssumption DEF MenuActivated, ShellInv, OverlaysHold
  <2>2. QED
    BY <1>8, <2>1, PushedRouteKeeps DEF MenuActivated
<1>9. ASSUME ToggleCommandPalette PROVE Rest
  BY <1>9, OverlaysOnlyKeeps DEF ToggleCommandPalette
<1>10. ASSUME NEW id, ClickOutside(id) PROVE Rest
  BY <1>10, OverlaysOnlyKeeps DEF ClickOutside
<1>11. ASSUME NEW w, WindowResized(w) PROVE Rest
  BY <1>11, ResizeKeeps
<1>12. ASSUME OnboardingFinished PROVE Rest
  <2>1. Onboarding \in views /\ OpenRoute(SignIn)
    BY <1>12 DEF OnboardingFinished
  <2>2. ~authenticated
    BY <2>1 DEF ShellInv, NavPart, PreAuth
  <2>3. SignIn \in Routes
    BY ShellAssumption, ScreensBelong DEF PreAuth
  <2>4. QED
    BY <2>1, <2>2, <2>3, PushedRouteKeeps DEF OpenRoute
<1>13. ASSUME SignInDismissed PROVE Rest
  BY <1>5, <1>13 DEF SignInDismissed
<1>14. ASSUME AuthenticationChanged PROVE Rest
  BY <1>14, SignInKeeps
<1>15. ASSUME RenderFrame PROVE Rest
  BY <1>15, FrameKeeps
<1>16. ASSUME UNCHANGED shellVars PROVE Rest
  <2>1. /\ nav' = nav /\ dirty' = dirty /\ unseen' = unseen /\ palette' = palette /\ views' = views
        /\ authenticated' = authenticated /\ old' = old /\ oldViews' = oldViews /\ registry' = registry
    BY <1>16 DEF shellVars
  <2>2. NavPart' /\ WindowPart'
    BY <2>1, Zenon DEF ShellInv, NavPart, WindowPart
  <2>3. LeasePart'
    BY <2>1, Zenon DEF ShellInv, LeasePart, LeasesFollowTheGlass
  <2>4. QED
    BY <2>2, <2>3
<1> HIDE DEF Rest
<1>17. Rest
  BY <1>2, <1>3, <1>4, <1>5, <1>6, <1>7, <1>8, <1>9, <1>10, <1>11, <1>12, <1>13, <1>14, <1>15, <1>16 DEF ShellNext
<1>18. QED
  BY <1>1, <1>17 DEF ShellInv, Rest

(* Back takes away something the window draws and forward undoes it, in     *)
(* every layout, for any sections and screens and after any steps.          *)
THEOREM BackAlwaysUndone == ShellSpec => []BackThenForward
<1>1. ShellInv => BackThenForward
  BY BackIsUndone DEF ShellInv, NavPart
<1>2. QED
  BY WindowBegins, WindowSteps, <1>1, PTL DEF ShellSpec

(* Leases, overlay stack and the fields of the window agree after any       *)
(* steps, and no screen and no mounted view, of a section root either, of   *)
(* before a sign-in or a sign-out is there after it.                        *)
THEOREM WindowStaysInAgreement == ShellSpec => []TheWindowAgrees
<1>1. ShellInv => TheWindowAgrees
  <2> SUFFICES ASSUME ShellInv PROVE TheWindowAgrees
    OBVIOUS
  <2>1. NothingSurvivesSignOut
    BY DEF ShellInv, WindowPart, NothingSurvivesSignOut
  <2>2. LeasesFollowTheGlass
    BY DEF ShellInv, LeasePart
  <2>3. OverlaysAgree
    <3>1. /\ palette \in BOOLEAN /\ (Palette \in Range(overlays) <=> palette)
          /\ RailMenu \in Range(overlays) <=> menu # NoTarget
      BY Zenon DEF ShellInv, OverlaysHold
    <3>2. (Palette \in Range(overlays)) = palette
      BY <3>1
    <3>3. (RailMenu \in Range(overlays)) = (menu # NoTarget)
      BY <3>1
    <3>4. QED
      BY <3>2, <3>3, Zenon DEF OverlaysAgree
  <2>4. QED
    BY <2>1, <2>2, <2>3, Zenon DEF TheWindowAgrees
<1>2. QED
  BY WindowBegins, WindowSteps, <1>1, PTL DEF ShellSpec

LEMMA ShellInvIsTyped == ShellInv => ShellTypeOK
<1> SUFFICES ASSUME ShellInv PROVE ShellTypeOK
  OBVIOUS
<1>1. nav.layout \in Layouts /\ nav.tab \in Sections /\ StackOf(nav, 1) # <<>> /\ Head(StackOf(nav, 1)) = nav.tab
  <2> DEFINE stack == StackOf(nav, 1)
  <2>1. /\ nav.layout \in Layouts /\ nav.tab \in Sections /\ SectionOf(nav).stacks[1] # <<>>
        /\ stack = SectionOf(nav).stacks[1] /\ stack \in Seq(Routes) /\ StacksHold(SectionOf(nav).stacks, nav.tab)
    BY NavIsTyped, ScreensBelong DEF ShellInv, NavPart, SectionHolds
  <2> HIDE DEF stack
  <2>2. \A q \in Seq(Routes) : q # <<>> => 1 \in 1..Len(q) /\ Head(q) = q[1]
    OBVIOUS
  <2>3. stack # <<>> /\ 1 \in 1..Len(stack) /\ Head(stack) = stack[1]
    BY <2>1, <2>2, Zenon
  <2>4. stack[1] = nav.tab
    BY <2>1, <2>3, ScreensBelong DEF StacksHold
  <2>5. QED
    BY <2>1, <2>3, <2>4 DEF stack
<1>2. \A t \in Sections, s \in PaneSlots : Range(nav.sections[t].stacks[s]) \subseteq Routes
  BY SectionIsTyped, ElementsAreOf DEF ShellInv, NavPart, NavHolds, SectionHolds
<1>3. {dirty, palette, authenticated} \subseteq BOOLEAN
  <2>1. dirty \in BOOLEAN /\ palette \in BOOLEAN /\ authenticated \in BOOLEAN
    BY Zenon DEF ShellInv, WindowPart, OverlaysHold
  <2>2. QED
    BY <2>1, Zenon
<1>4. unseen \in 0..MaxUnseen /\ views \subseteq Routes /\ old \subseteq Routes /\ oldViews \subseteq views
  BY DEF ShellInv, WindowPart
<1>5. /\ overlays \in Seq({Palette, RailMenu}) /\ AllApart(overlays) /\ menu \in RailTargets \cup {NoTarget}
  BY Zenon DEF ShellInv, OverlaysHold
<1>6. Range(overlays) \subseteq {Palette, RailMenu} /\ Len(overlays) <= OverlayCapacity
  <2>1. Len(overlays) <= 2 /\ Len(overlays) \in Nat
    BY <1>5, FewOverlays
  <2>2. QED
    BY <1>5, <2>1, ElementsAreOf, ShellAssumption
<1>7. QED
  BY <1>1, <1>2, <1>3, <1>4, <1>5, <1>6, Zenon DEF ShellTypeOK

(* The variables of the window keep their types.                            *)
THEOREM WindowTyped == ShellSpec => []ShellTypeOK
<1>1. QED
  BY WindowBegins, WindowSteps, ShellInvIsTyped, PTL DEF ShellSpec
=============================================================================
