---------------------------- MODULE PlaybackHub ----------------------------
(***************************************************************************)
(* Who may animate.  Players ask for a slot, hold or await it, and give it *)
(* back; the budget is the nominal one, or nothing while the window is     *)
(* hidden or motion is reduced.  Each call returns transitions, from which *)
(* the host knows which grant each player draws under.                     *)
(***************************************************************************)
EXTENDS Naturals, Sequences, FiniteSets, Removal

CONSTANTS
    Players,
    Kinds, CostOf,      \* cost(): 2 for an animation, 4 for a video sticker
    NominalBudget,      \* NOMINAL_BUDGET, 128 in the code
    NoGrant,
    MaxGranted          \* bound: participants made

ASSUME CostsAssumption ==
    CostOf \in [Kinds -> Nat \ {0}] /\ NominalBudget \in Nat /\ MaxGranted \in Nat

VARIABLES
    playing, waiting,   \* sequences of participants
    budget,
    nextGrant,
    drawsUnder,               \* drawsUnder[p]: the grant the host has p draw under
    repriced            \* an playing player changed its cost since the last rebalance

hubVars == <<playing, waiting, budget, nextGrant, drawsUnder, repriced>>

Participant == [player : Players, grant : 1..MaxGranted, kind : Kinds]

HubTypeOK ==
    /\ playing \in Seq(Participant) /\ waiting \in Seq(Participant)
    /\ budget \in {0, NominalBudget} /\ nextGrant \in 0..MaxGranted
    /\ drawsUnder \in [Players -> {NoGrant} \cup 1..MaxGranted]
    /\ repriced \in BOOLEAN

HubInit ==
    /\ playing = <<>> /\ waiting = <<>>
    /\ budget = NominalBudget /\ nextGrant = 0
    /\ drawsUnder = [p \in Players |-> NoGrant]
    /\ repriced = FALSE

Cost(participant) == CostOf[participant.kind]
CostSum(members) ==
    LET upTo[n \in 0..Len(members)] == IF n = 0 THEN 0 ELSE upTo[n - 1] + Cost(members[n])
    IN  upTo[Len(members)]
PlayersIn(members) == {members[i].player : i \in DOMAIN members}
Without(members, p) == Remaining(members, {m \in Participant : m.player = p})

-----------------------------------------------------------------------------
(* A hub between two steps: who plays and who waits, and the host's view.   *)
Granted(hub, m) ==
    [playing |-> Append(hub.playing, m), waiting |-> hub.waiting,
     drawsUnder |-> [hub.drawsUnder EXCEPT ![m.player] = m.grant]]

(* fill_available_slots: the first that fits, again and again.              *)
Fitting(hub, limit) ==
    {i \in DOMAIN hub.waiting : CostSum(hub.playing) + Cost(hub.waiting[i]) <= limit}
Promote(hub, i) ==
    LET others == SubSeq(hub.waiting, 1, i - 1) \o SubSeq(hub.waiting, i + 1, Len(hub.waiting))
    IN  Granted([hub EXCEPT !.waiting = others], hub.waiting[i])
Filled(hub, limit) ==
    LET after[n \in 0..Len(hub.waiting)] ==
            IF n = 0 THEN hub
            ELSE LET before == after[n - 1] IN
                 IF Fitting(before, limit) = {} THEN before
                 ELSE Promote(before, CHOOSE i \in Fitting(before, limit) :
                                          \A j \in Fitting(before, limit) : i <= j)
    IN  after[Len(hub.waiting)]

(* rebalance: the oldest grants are revoked first, each to the front.       *)
Revoke(hub) ==
    LET m == Head(hub.playing) IN
    [playing |-> Tail(hub.playing), waiting |-> <<m>> \o hub.waiting,
     drawsUnder |-> [hub.drawsUnder EXCEPT ![m.player] = NoGrant]]
Trimmed(hub, limit) ==
    LET after[n \in 0..Len(hub.playing)] ==
            IF n = 0 THEN hub
            ELSE IF CostSum(after[n - 1].playing) > limit THEN Revoke(after[n - 1])
            ELSE after[n - 1]
    IN  after[Len(hub.playing)]

Hub == [playing |-> playing, waiting |-> waiting, drawsUnder |-> drawsUnder]
Becomes(hub) == playing' = hub.playing /\ waiting' = hub.waiting /\ drawsUnder' = hub.drawsUnder

-----------------------------------------------------------------------------
(* A player that plays keeps its grant, whatever its new kind costs.        *)
RequestSlotAgain(p, kind) ==
    \E i \in DOMAIN playing :
        /\ playing[i].player = p
        /\ playing' = [playing EXCEPT ![i].kind = kind]
        /\ repriced' = (repriced \/ CostOf[kind] # Cost(playing[i]))
        /\ UNCHANGED <<waiting, budget, nextGrant, drawsUnder>>

(* A newcomer takes a slot or waits; it never takes one from another.       *)
RequestSlot(p, kind) ==
    LET newcomer == [player |-> p, grant |-> nextGrant + 1, kind |-> kind]
        hub == [Hub EXCEPT !.waiting = Without(@, p)] IN
    /\ p \notin PlayersIn(playing) /\ nextGrant < MaxGranted
    /\ nextGrant' = nextGrant + 1
    /\ Becomes(IF CostSum(playing) + CostOf[kind] <= budget THEN Granted(hub, newcomer)
               ELSE [hub EXCEPT !.waiting = Append(@, newcomer)])
    /\ UNCHANGED <<budget, repriced>>

(* The host knows of its own release; the slots go to whoever waits.        *)
ReleaseSlotQuietly(p) ==    \* mutant: nobody is promoted
    /\ Becomes([playing |-> Without(playing, p), waiting |-> Without(waiting, p),
                drawsUnder |-> [drawsUnder EXCEPT ![p] = NoGrant]])
    /\ UNCHANGED <<budget, nextGrant, repriced>>
ReleaseSlot(p) ==
    /\ Becomes(Filled([playing |-> Without(playing, p), waiting |-> Without(waiting, p),
                       drawsUnder |-> [drawsUnder EXCEPT ![p] = NoGrant]], budget))
    /\ UNCHANGED <<budget, nextGrant, repriced>>

SetConditions(limit) ==
    /\ budget' = limit
    /\ Becomes(Filled(Trimmed(Hub, limit), limit))
    /\ repriced' = FALSE
    /\ UNCHANGED nextGrant

HubNext ==
    \/ \E p \in Players, kind \in Kinds : RequestSlotAgain(p, kind) \/ RequestSlot(p, kind)
    \/ \E p \in Players : ReleaseSlot(p)
    \/ \E limit \in {0, NominalBudget} : SetConditions(limit)
HubSpec == HubInit /\ [][HubNext]_hubVars

-----------------------------------------------------------------------------
(* Every player plays or waits, once, under a grant of its own, and the host*)
(* has heard of every grant and revocation.  While nobody who plays changes *)
(* what it costs, those who play fit the budget and none waits that would   *)
(* fit too, and a change of conditions repairs what such a change did.      *)
SlotsAreSpent ==
    LET all == playing \o waiting IN
    /\ \A i, j \in DOMAIN all :
          all[i].player = all[j].player \/ all[i].grant = all[j].grant => i = j
    /\ \A i \in DOMAIN playing : drawsUnder[playing[i].player] = playing[i].grant
    /\ \A p \in Players : p \notin PlayersIn(playing) => drawsUnder[p] = NoGrant
    /\ ~repriced => CostSum(playing) <= budget /\ Fitting(Hub, budget) = {}
=============================================================================
