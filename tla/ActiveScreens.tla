---------------------------- MODULE ActiveScreens ----------------------------
(***************************************************************************)
(* The registry of the screens on the glass: a lease for each, in the      *)
(* order they appeared, and the keys that were refreshed in this cycle.    *)
(* The order of the sequence stands for appeared_at.                       *)
(***************************************************************************)
EXTENDS Naturals, Sequences, FiniteSets, SequencesExt, Removal

CONSTANTS
    MaxLeases,      \* MAX_LEASES, 64 in the code
    MaxClaims,      \* MAX_CLAIM_RECORDS, 128 in the code
    ScreenOwners,        \* the screens that register on their own
    ScreenKeys,          \* the resources they show
    MaxGrants,      \* bound: refreshes granted in a cycle
    MaxDepth        \* bound: depth of a lease

ASSUME ScreensAssumption == MaxLeases \in Nat \ {0} /\ MaxClaims \in Nat \ {0}

OverlayColumn == 4
LeaseColumns == 1..4

HasLease(ls, owner) == \E i \in DOMAIN ls : ls[i].owner = owner
IndexOf(ls, owner) == CHOOSE i \in DOMAIN ls : ls[i].owner = owner
NextDepth(ls, column) ==
    1 + Max({0} \cup {ls[i].depth : i \in {j \in DOMAIN ls : ls[j].column = column}})

(* A full registry drops its oldest leases first.                       *)
InsertOrUpdate(ls, owner, key, column) ==
    IF HasLease(ls, owner)
      THEN LET i == IndexOf(ls, owner) IN
           [ls EXCEPT ![i] = [owner |-> owner, key |-> key, column |-> column,
               depth |-> IF ls[i].column = column THEN ls[i].depth ELSE NextDepth(ls, column)]]
      ELSE LET room == IF Len(ls) >= MaxLeases
                         THEN SubSeq(ls, Len(ls) - MaxLeases + 2, Len(ls))
                         ELSE ls
           IN  Append(room, [owner |-> owner, key |-> key, column |-> column,
                             depth |-> NextDepth(room, column)])

ReleaseLease(ls, owner) == Remaining(ls, {l \in Range(ls) : l.owner = owner})

(* The leases with those of the visible screens that have none.             *)
WithScreens(ls, visible) ==
    LET added[n \in 0..Len(visible)] ==
          IF n = 0 THEN ls
          ELSE LET owner == visible[n][1] IN
               IF HasLease(added[n - 1], owner) THEN added[n - 1]
               ELSE InsertOrUpdate(added[n - 1], owner, owner, visible[n][2])
    IN  added[Len(visible)]

(* The visible screens, each with its column, bottom first: who is not      *)
(* among them loses its lease, and depths follow their order.               *)
SyncVisible(ls, visible) ==
    LET hidden == {l \in Range(ls) : \A i \in DOMAIN visible : visible[i][1] # l.owner}
        added == WithScreens(Remaining(ls, hidden), visible)
        place(owner) == CHOOSE i \in DOMAIN visible : visible[i][1] = owner
        depth(i) == Cardinality({j \in 1..i : visible[j][2] = visible[i][2]})
    IN  [k \in DOMAIN added |->
            LET i == place(added[k].owner) IN
            [added[k] EXCEPT !.column = visible[i][2], !.depth = depth(i)]]

TopmostIn(ls, column) ==
    {i \in DOMAIN ls : ls[i].column = column /\
        \A j \in DOMAIN ls : ls[j].column = column =>
            \/ ls[j].depth < ls[i].depth
            \/ ls[j].depth = ls[i].depth /\ j <= i}

(* Who may refresh: the topmost overlay alone, or the top of every column.  *)
Eligible(ls, owner) ==
    /\ HasLease(ls, owner)
    /\ LET i == IndexOf(ls, owner)
           overlay == TopmostIn(ls, OverlayColumn)
       IN  IF overlay # {} THEN i \in overlay ELSE i \in TopmostIn(ls, ls[i].column)

(* The topmost overlay, else the top of the rightmost occupied column.      *)
FocusedOwners(ls) ==
    LET columns == {c \in LeaseColumns : TopmostIn(ls, c) # {}} IN
    IF columns = {} THEN {}
    ELSE {ls[i].owner : i \in TopmostIn(ls, CHOOSE c \in columns : \A d \in columns : c >= d)}

ClaimRecord(cs, key) ==
    Append(IF Len(cs) >= MaxClaims
             THEN SubSeq(cs, Len(cs) - MaxClaims + 2, Len(cs)) ELSE cs, key)

-----------------------------------------------------------------------------
VARIABLES
    leases,
    claimed,        \* the keys refreshed in this cycle, as far as remembered
    granted         \* every key granted in this cycle, in order

screenVars == <<leases, claimed, granted>>

ScreensInit == leases = <<>> /\ claimed = <<>> /\ granted = <<>>

ScreensTypeOK ==
    /\ Len(leases) <= MaxLeases /\ Len(claimed) <= MaxClaims
    /\ \A i \in DOMAIN leases : leases[i].column \in LeaseColumns /\ leases[i].depth \in 1..MaxDepth
    /\ \A i, j \in DOMAIN leases : leases[i].owner = leases[j].owner => i = j

Bounded(ls) == \A i \in DOMAIN ls : ls[i].depth <= MaxDepth

Register(owner, key, column) ==
    /\ leases' = InsertOrUpdate(leases, owner, key, column)
    /\ Bounded(leases')
    /\ UNCHANGED <<claimed, granted>>

ReleaseForgetting(owner) ==     \* mutant: a screen that leaves takes its claim along
    /\ leases' = ReleaseLease(leases, owner)
    /\ claimed' = SelectSeq(claimed, LAMBDA k : k \in {l.key : l \in Range(leases')})
    /\ UNCHANGED granted
Release(owner) ==
    /\ leases' = ReleaseLease(leases, owner)
    /\ UNCHANGED <<claimed, granted>>

Sync(visible) ==
    /\ leases' = SyncVisible(leases, visible)
    /\ UNCHANGED <<claimed, granted>>

BeginCycle == claimed' = <<>> /\ granted' = <<>> /\ UNCHANGED leases

ClaimRefresh(owner, key) ==
    /\ Eligible(leases, owner) /\ key \notin Range(claimed)
    /\ Len(granted) < MaxGrants
    /\ claimed' = ClaimRecord(claimed, key)
    /\ granted' = Append(granted, key)
    /\ UNCHANGED leases

Visible == UNION {[1..n -> ScreenOwners \X {1, OverlayColumn}] : n \in 0..2}
ScreensNext ==
    \/ \E o \in ScreenOwners, k \in ScreenKeys :
          \/ \E c \in {1, OverlayColumn} : Register(o, k, c)
          \/ ClaimRefresh(o, k)
    \/ \E o \in ScreenOwners : Release(o)
    \/ \E v \in Visible : (\A i, j \in DOMAIN v : v[i][1] = v[j][1] => i = j) /\ Sync(v)
    \/ BeginCycle
ScreensSpec == ScreensInit /\ [][ScreensNext]_screenVars

(* "Once per cycle per key, globally": whichever screens appear, leave,     *)
(* move or share the key, a cycle grants it again only when MaxClaims other *)
(* grants pushed its record out.                                            *)
RefreshedOncePerCycle ==
    \A i, j \in DOMAIN granted : i < j /\ granted[i] = granted[j] => j - i > MaxClaims
=============================================================================
