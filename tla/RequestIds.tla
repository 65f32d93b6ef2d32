----------------------------- MODULE RequestIds -----------------------------
(***************************************************************************)
(* The request id allocator every RPC of the process shares.  An id is     *)
(* logical milliseconds in the high bits and a sequence in the low ones.   *)
(* A caller reads the wall clock, which may jump either way, before it     *)
(* takes the lock, so readings reach the allocator stale and out of order. *)
(***************************************************************************)
EXTENDS Integers, Sequences

CONSTANTS
    Threads,
    SequenceMask,   \* the largest sequence: 2^20 - 1 in the code
    MaxMillis,      \* bound: the wall clock
    MaxIds          \* bound: ids given out

ASSUME MaskAssumption == SequenceMask \in Nat \ {0}
ASSUME BoundsAssumption == MaxMillis \in Nat /\ MaxIds \in Nat

VARIABLES
    wall,       \* the wall clock, in milliseconds
    logical,    \* AllocatorState::logical_millis
    sequence,   \* AllocatorState::sequence
    reading,    \* reading[t]: the time t read on its way in, or Outside
    issued      \* the ids, in the order they were taken

idVars == <<wall, logical, sequence, reading, issued>>

Outside == -1

IdsTypeOK ==
    /\ wall \in 0..MaxMillis
    /\ logical \in Nat
    /\ sequence \in 0..SequenceMask
    /\ reading \in [Threads -> (0..MaxMillis) \cup {Outside}]
    /\ issued \in Seq(Nat)

IdsInit ==
    /\ wall \in 0..MaxMillis
    /\ logical = 0 /\ sequence = 0
    /\ reading = [t \in Threads |-> Outside]
    /\ issued = <<>>

Raw(millis, seq) == millis * (SequenceMask + 1) + seq
AtLeastOne(n) == IF n = 0 THEN 1 ELSE n

SetClock ==
    /\ wall' \in 0..MaxMillis
    /\ UNCHANGED <<logical, sequence, reading, issued>>

ReadClock(t) ==
    /\ reading[t] = Outside /\ Len(issued) < MaxIds
    /\ reading' = [reading EXCEPT ![t] = wall]
    /\ UNCHANGED <<wall, logical, sequence, issued>>

FollowClock(millis) ==      \* mutant: the logical clock regresses with the wall
    IF millis # logical THEN logical' = millis /\ sequence' = 0
    ELSE IF sequence >= SequenceMask THEN logical' = logical + 1 /\ sequence' = 0
    ELSE logical' = logical /\ sequence' = sequence + 1
Advance(millis) ==
    IF millis > logical THEN logical' = millis /\ sequence' = 0
    ELSE IF sequence >= SequenceMask THEN logical' = logical + 1 /\ sequence' = 0
    ELSE logical' = logical /\ sequence' = sequence + 1

NextAt(t) ==
    /\ reading[t] # Outside /\ Len(issued) < MaxIds
    /\ Advance(reading[t])
    /\ issued' = Append(issued, AtLeastOne(Raw(logical', sequence')))
    /\ reading' = [reading EXCEPT ![t] = Outside]
    /\ UNCHANGED wall

IdsNext == SetClock \/ \E t \in Threads : ReadClock(t) \/ NextAt(t)
IdsSpec == IdsInit /\ [][IdsNext]_idVars

-----------------------------------------------------------------------------
(* Ids grow in the order they are taken, whatever the wall clock does and   *)
(* however stale a thread's reading of it is: none is ever given out twice, *)
(* and an answer is matched to one call (RiseWire's pending map).  0, which *)
(* is not an id, is never one (RequestIdAllocator::next_at).                *)
IdsIncrease ==
    /\ \A i, j \in 1..Len(issued) : i < j => issued[i] < issued[j]
    /\ \A i \in 1..Len(issued) : issued[i] > 0
=============================================================================
