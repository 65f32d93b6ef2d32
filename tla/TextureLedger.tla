---------------------------- MODULE TextureLedger ----------------------------
(***************************************************************************)
(* The memory ledger that every stream texture and the atlas share.  Each  *)
(* reservation and release takes its lock by itself, so a texture that     *)
(* changes its size gives back, reserves, and on a refusal takes back what *)
(* it had, with other streams in between.                                  *)
(***************************************************************************)
EXTENDS Integers, Sequences, FiniteSets, Functions

CONSTANTS
    Textures,           \* the streams
    FrameCosts,         \* byte_len of a geometry times FRAMES_IN_FLIGHT
    TextureCeiling,
    PageCost,           \* page_bytes
    TilesPerPage,
    MaxPages            \* bound: pages of the atlas

ASSUME LedgerAssumption ==
    /\ IsFiniteSet(Textures) /\ FrameCosts \subseteq Nat \ {0} /\ PageCost \in Nat \ {0}
    /\ TextureCeiling \in Nat /\ TilesPerPage \in Nat \ {0} /\ MaxPages \in Nat

VARIABLES
    inUse,
    texture,            \* texture[s]: where StreamTexture s is in its life
    reserved,           \* reserved_bytes; 0 when there is no texture
    target,             \* next_bytes of a write under way
    atlas,              \* the free slots of each of its pages, the next one last
    tiles,              \* the tiles that views hold
    refused             \* a rollback did not get its bytes back

ledgerVars == <<inUse, texture, reserved, target, atlas, tiles, refused>>

TileSlots == 1..TilesPerPage
NewPage == [i \in TileSlots |-> TilesPerPage + 1 - i]

LedgerTypeOK ==
    /\ inUse \in Nat
    /\ texture \in [Textures -> {"closed", "open", "released", "refused"}]
    /\ reserved \in [Textures -> FrameCosts \cup {0}]
    /\ target \in [Textures -> FrameCosts \cup {0}]
    /\ atlas \in Seq(Seq(TileSlots)) /\ Len(atlas) <= MaxPages
    /\ tiles \subseteq (1..MaxPages) \X TileSlots
    /\ refused \in BOOLEAN

LedgerInit ==
    /\ inUse = 0
    /\ texture = [s \in Textures |-> "closed"]
    /\ reserved = [s \in Textures |-> 0] /\ target = [s \in Textures |-> 0]
    /\ atlas = <<>> /\ tiles = {}
    /\ refused = FALSE

Fits(bytes) == inUse + bytes <= TextureCeiling
Reserve(bytes) == Fits(bytes) /\ inUse' = inUse + bytes
GiveBack(bytes) == inUse' = IF inUse < bytes THEN 0 ELSE inUse - bytes     \* saturating

Goes(s, from, to) == texture[s] = from /\ texture' = [texture EXCEPT ![s] = to]

-----------------------------------------------------------------------------
OpenTexture(s, bytes) ==
    /\ Goes(s, "closed", "open") /\ Reserve(bytes)
    /\ reserved' = [reserved EXCEPT ![s] = bytes]
    /\ UNCHANGED <<target, atlas, tiles, refused>>

(* A frame of another geometry, which may cost the same: release, reserve.  *)
WriteReleases(s, bytes) ==
    /\ Goes(s, "open", "released")
    /\ GiveBack(reserved[s])
    /\ target' = [target EXCEPT ![s] = bytes]
    /\ UNCHANGED <<reserved, atlas, tiles, refused>>

WriteReserves(s) ==
    /\ Goes(s, "released", "open") /\ Reserve(target[s])
    /\ reserved' = [reserved EXCEPT ![s] = target[s]]
    /\ UNCHANGED <<target, atlas, tiles, refused>>

WriteRefused(s) ==
    /\ Goes(s, "released", "refused") /\ ~Fits(target[s])
    /\ UNCHANGED <<inUse, reserved, target, atlas, tiles, refused>>

(* The result of this reservation is ignored.                               *)
RollBack(s) ==
    /\ Goes(s, "refused", "open")
    /\ IF Fits(reserved[s]) THEN Reserve(reserved[s]) /\ UNCHANGED refused
       ELSE refused' = TRUE /\ UNCHANGED inUse
    /\ UNCHANGED <<reserved, target, atlas, tiles>>

DropTexture(s) ==
    /\ Goes(s, "open", "closed") /\ GiveBack(reserved[s])
    /\ reserved' = [reserved EXCEPT ![s] = 0]
    /\ UNCHANGED <<target, atlas, tiles, refused>>

-----------------------------------------------------------------------------
(* The atlas: the first page with a free slot, or a page more.              *)
WithoutTop(free) == SubSeq(free, 1, Len(free) - 1)
WithRoom == {i \in DOMAIN atlas : atlas[i] # <<>>}
AllocateTile ==
    /\ \/ \E i \in WithRoom :
             /\ \A j \in WithRoom : i <= j
             /\ atlas' = [atlas EXCEPT ![i] = WithoutTop(@)]
             /\ tiles' = tiles \cup {<<i, atlas[i][Len(atlas[i])]>>}
             /\ UNCHANGED inUse
       \/ /\ WithRoom = {} /\ Len(atlas) < MaxPages /\ Reserve(PageCost)
          /\ atlas' = Append(atlas, WithoutTop(NewPage))
          /\ tiles' = tiles \cup {<<Len(atlas) + 1, NewPage[TilesPerPage]>>}
    /\ UNCHANGED <<texture, reserved, target, refused>>

ReleaseTile(tile) ==
    /\ tile \in tiles /\ tiles' = tiles \ {tile}
    /\ atlas' = IF tile[1] \in DOMAIN atlas /\ tile[2] \notin Range(atlas[tile[1]])
                THEN [atlas EXCEPT ![tile[1]] = Append(@, tile[2])] ELSE atlas
    /\ UNCHANGED <<inUse, texture, reserved, target, refused>>

(* Empty pages go, from the end only, and one stays warm.                   *)
IsEmptyPage(i) == Len(atlas[i]) = TilesPerPage
Shrink ==
    LET keep == CHOOSE n \in 0..Len(atlas) :
            /\ n <= 1 => n = Len(atlas) \/ n = 1
            /\ n > 1 => ~IsEmptyPage(n)
            /\ \A i \in (n + 1)..Len(atlas) : IsEmptyPage(i) IN
    /\ atlas' = SubSeq(atlas, 1, keep)
    /\ GiveBack(PageCost * (Len(atlas) - keep))
    /\ UNCHANGED <<texture, reserved, target, tiles, refused>>

(* Every tile issued before is invalid, and the views forget theirs.        *)
ReleaseAll ==
    /\ atlas' = <<>> /\ tiles' = {}
    /\ GiveBack(PageCost * Len(atlas))
    /\ UNCHANGED <<texture, reserved, target, refused>>

LedgerNext ==
    \/ \E s \in Textures :
          \/ \E bytes \in FrameCosts : OpenTexture(s, bytes) \/ WriteReleases(s, bytes)
          \/ WriteReserves(s) \/ WriteRefused(s) \/ RollBack(s) \/ DropTexture(s)
    \/ AllocateTile \/ Shrink \/ ReleaseAll
    \/ \E tile \in tiles : ReleaseTile(tile)
LedgerSpec == LedgerInit /\ [][LedgerNext]_ledgerVars

-----------------------------------------------------------------------------
Charges == [s \in Textures |-> IF texture[s] = "open" THEN reserved[s] ELSE 0]

(* The ledger is what the textures and the pages cost, at every moment of a *)
(* resize and however streams and atlas take turns, as long as no rollback  *)
(* was refused; even then it stays under the ceiling.  No two views draw    *)
(* from one tile, and no tile points at a page that is gone or at a slot    *)
(* that is free.                                                            *)
MemoryIsAccounted ==
    /\ inUse <= TextureCeiling
    /\ ~refused => inUse = SumFunctionOnSet(Charges, Textures) + PageCost * Len(atlas)
    /\ \A tile \in tiles : tile[1] \in DOMAIN atlas /\ tile[2] \notin Range(atlas[tile[1]])
    /\ \A i \in DOMAIN atlas :
          Len(atlas[i]) + Cardinality({tile \in tiles : tile[1] = i}) = TilesPerPage
=============================================================================
