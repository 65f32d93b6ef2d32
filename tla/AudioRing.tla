------------------------------ MODULE AudioRing ------------------------------
(***************************************************************************)
(* The handoff of decoded audio to the device.  A decode thread trims the  *)
(* stream to its real audio and pushes it into a lock-free ring; the       *)
(* real-time callback of the device pops it.  Each thread loads the index  *)
(* of the other, works on the slots one by one and then stores its own;    *)
(* indices wrap.  A sample is its serial number in what was pushed, one    *)
(* channel, at the rate of the device; no packet of the stream is corrupt. *)
(***************************************************************************)
EXTENDS Naturals, Sequences

CONSTANTS
    RingCapacity,       \* a power of two
    IndexModulus,       \* 2^64 in the code, a larger power of two
    StreamFrames,       \* what the decoder yields, padding included
    TrimStart,          \* start_frames
    TrimValid,          \* valid_frames; at least StreamFrames for a source that did not say
    SampleRate,         \* of the source
    SecondMillis,       \* 1000 in the code
    MaxBlock,           \* bound: frames of a decoded block
    MaxCallback,        \* bound: samples the device asks for at once
    MaxTape             \* bound: frames pushed

ASSUME RingAssumption ==
    /\ RingCapacity \in Nat \ {0}
    /\ IndexModulus \in Nat /\ \E k \in 2..IndexModulus : IndexModulus = k * RingCapacity
    /\ {StreamFrames, TrimStart, TrimValid, MaxBlock, MaxCallback, MaxTape} \subseteq Nat
    /\ SampleRate \in Nat /\ SecondMillis \in 1..SampleRate     \* 4 kHz at least

VARIABLES
    writeIndex, readIndex, slots,
    pump,               \* the decode thread, between loading and storing
    callback,           \* the device's callback, likewise
    position,           \* the frame the decoder yields next
    skipped, emitted,   \* the trimmer
    ended,
    tape,               \* the frames that were pushed, the n-th under serial n
    mark, aim,          \* the serial that is next, and the frame, at the last seek
    pushed,             \* the serials that fitted
    heard,              \* the serials the device got
    tooLarge            \* a block was larger than half the ring

trimVars == <<position, skipped, emitted, ended>>
ringVars == <<writeIndex, readIndex, slots, pump, callback, trimVars, tape, mark, aim, pushed, heard, tooLarge>>

Resting == [at |-> "rest"]
Min2(a, b) == IF a < b THEN a ELSE b
Minus(a, b) == IF a < b THEN 0 ELSE a - b           \* saturating_sub
Wrapping(i) == i % IndexModulus
Behind(i, j) == (i + IndexModulus - j) % IndexModulus    \* wrapping_sub
SlotOf(i) == i % RingCapacity                       \* & mask

RingTypeOK ==
    /\ writeIndex \in 0..(IndexModulus - 1) /\ readIndex \in 0..(IndexModulus - 1)
    /\ slots \in [0..(RingCapacity - 1) -> 0..MaxTape]
    /\ pump.at \in {"rest", "block", "copying"} /\ callback.at \in {"rest", "copying"}
    /\ position \in 0..StreamFrames /\ skipped \in 0..TrimStart /\ emitted \in 0..StreamFrames
    /\ ended \in BOOLEAN /\ tooLarge \in BOOLEAN
    /\ tape \in Seq(0..(StreamFrames - 1)) /\ mark \in 1..(MaxTape + 1) /\ aim \in 0..StreamFrames
    /\ pushed \in Seq(1..MaxTape) /\ heard \in Seq(1..MaxTape)

RingInit ==
    /\ \E start \in 0..(IndexModulus - 1) :         \* after any number of laps
          writeIndex = start /\ readIndex = start
    /\ slots = [i \in 0..(RingCapacity - 1) |-> 0]
    /\ pump = Resting /\ callback = Resting
    /\ position = 0 /\ skipped = 0 /\ emitted = 0 /\ ended = FALSE
    /\ tape = <<>> /\ mark = 1 /\ aim = 0 /\ pushed = <<>> /\ heard = <<>> /\ tooLarge = FALSE

-----------------------------------------------------------------------------
(* Trimmer.                                                                 *)
IsComplete == emitted >= TrimValid
SkippedOf(frames) == Min2(TrimStart - skipped, frames)
KeptOf(frames) == Min2(frames - SkippedOf(frames), Minus(TrimValid, emitted))

(* fill(): with half the ring free, one block is decoded, trimmed and kept  *)
(* for the push.  Otherwise, and once the track has ended, nothing happens. *)
MayFill ==
    /\ pump = Resting /\ ~ended
    /\ RingCapacity - Behind(writeIndex, readIndex) >= RingCapacity \div 2

Decode(frames) ==
    LET first == position + SkippedOf(frames) IN
    /\ MayFill /\ ~IsComplete
    /\ frames <= StreamFrames - position /\ Len(tape) + KeptOf(frames) <= MaxTape
    /\ position' = position + frames
    /\ skipped' = skipped + SkippedOf(frames)
    /\ emitted' = emitted + KeptOf(frames)
    /\ tape' = tape \o [i \in 1..KeptOf(frames) |-> first + i - 1]
    /\ pump' = IF KeptOf(frames) = 0 THEN Resting
               ELSE [at |-> "block", from |-> Len(tape) + 1, size |-> KeptOf(frames)]
    /\ tooLarge' = (tooLarge \/ KeptOf(frames) > RingCapacity \div 2)
    /\ UNCHANGED <<writeIndex, readIndex, slots, callback, ended, mark, aim, pushed, heard>>

EndOfTrack ==
    /\ MayFill /\ (IsComplete \/ position = StreamFrames)
    /\ ended' = TRUE
    /\ UNCHANGED <<writeIndex, readIndex, slots, pump, callback, position, skipped, emitted,
                   tape, mark, aim, pushed, heard, tooLarge>>

(* Pump::seek between two fills; the ring keeps what it has.  The decoder   *)
(* goes to a frame and reports it in milliseconds, rounded down, of which   *)
(* the pump makes frames again, to the nearest, for the trimmer.            *)
FramesToMillis(frames) == (frames * SecondMillis) \div SampleRate
MillisToFrames(millis) == (millis * SampleRate + SecondMillis \div 2) \div SecondMillis
Reported(frame) == MillisToFrames(FramesToMillis(frame))

SeekKeepingTheTrim(frame) ==    \* mutant: the trimmer is not told
    /\ pump = Resting
    /\ position' = frame
    /\ ended' = FALSE
    /\ mark' = Len(tape) + 1 /\ aim' = frame
    /\ UNCHANGED <<writeIndex, readIndex, slots, pump, callback, skipped, emitted, tape, pushed, heard, tooLarge>>
Seek(frame) ==
    /\ pump = Resting
    /\ position' = frame
    /\ skipped' = Min2(TrimStart, Reported(frame)) /\ emitted' = Minus(Reported(frame), TrimStart)
    /\ ended' = FALSE
    /\ mark' = Len(tape) + 1 /\ aim' = frame
    /\ UNCHANGED <<writeIndex, readIndex, slots, pump, callback, tape, pushed, heard, tooLarge>>

-----------------------------------------------------------------------------
(* Producer::push: load both indices, write the slots, store the index.     *)
PushLoadsUnclamped ==       \* mutant: the block is written whether it fits or not
    /\ pump.at = "block"
    /\ pump' = [at |-> "copying", from |-> pump.from, count |-> pump.size, done |-> 0]
    /\ UNCHANGED <<writeIndex, readIndex, slots, callback, trimVars, tape, mark, aim, pushed, heard, tooLarge>>
PushLoads ==
    LET free == RingCapacity - Behind(writeIndex, readIndex)
        count == Min2(pump.size, free) IN
    /\ pump.at = "block"
    /\ pump' = [at |-> "copying", from |-> pump.from, count |-> count, done |-> 0]
    /\ UNCHANGED <<writeIndex, readIndex, slots, callback, trimVars, tape, mark, aim, pushed, heard, tooLarge>>

PushWrites ==
    /\ pump.at = "copying" /\ pump.done < pump.count
    /\ slots' = [slots EXCEPT ![SlotOf(Wrapping(writeIndex + pump.done))] = pump.from + pump.done]
    /\ pump' = [pump EXCEPT !.done = @ + 1]
    /\ UNCHANGED <<writeIndex, readIndex, callback, trimVars, tape, mark, aim, pushed, heard, tooLarge>>

PushStoresEarly ==          \* mutant: the index is stored before the slots are written
    /\ pump.at = "copying" /\ pump.done = 0
    /\ writeIndex' = Wrapping(writeIndex + pump.count)
    /\ pump' = Resting
    /\ pushed' = pushed \o [i \in 1..pump.count |-> pump.from + i - 1]
    /\ UNCHANGED <<readIndex, slots, callback, trimVars, tape, mark, aim, heard, tooLarge>>
PushStores ==
    /\ pump.at = "copying" /\ pump.done = pump.count
    /\ writeIndex' = Wrapping(writeIndex + pump.count)
    /\ pump' = Resting
    /\ pushed' = pushed \o [i \in 1..pump.count |-> pump.from + i - 1]
    /\ UNCHANGED <<readIndex, slots, callback, trimVars, tape, mark, aim, heard, tooLarge>>

(* Consumer::pop_or_silence, likewise; what is missing is silence.          *)
PopLoads(asked) ==
    LET count == Min2(asked, Behind(writeIndex, readIndex)) IN
    /\ callback = Resting
    /\ callback' = [at |-> "copying", count |-> count, done |-> 0]
    /\ UNCHANGED <<writeIndex, readIndex, slots, pump, trimVars, tape, mark, aim, pushed, heard, tooLarge>>

PopReads ==
    /\ callback.at = "copying" /\ callback.done < callback.count
    /\ heard' = Append(heard, slots[SlotOf(Wrapping(readIndex + callback.done))])
    /\ callback' = [callback EXCEPT !.done = @ + 1]
    /\ UNCHANGED <<writeIndex, readIndex, slots, pump, trimVars, tape, mark, aim, pushed, tooLarge>>

PopStores ==
    /\ callback.at = "copying" /\ callback.done = callback.count
    /\ readIndex' = Wrapping(readIndex + callback.count)
    /\ callback' = Resting
    /\ UNCHANGED <<writeIndex, slots, pump, trimVars, tape, mark, aim, pushed, heard, tooLarge>>

RingNext ==
    \/ \E frames \in 1..MaxBlock : Decode(frames)
    \/ EndOfTrack \/ \E frame \in 0..StreamFrames : Seek(frame)
    \/ PushLoads \/ PushWrites \/ PushStores
    \/ \E asked \in 1..MaxCallback : PopLoads(asked)
    \/ PopReads \/ PopStores
RingSpec == RingInit /\ [][RingNext]_ringVars

-----------------------------------------------------------------------------
(* The slots that a thread has yet to write or read.                        *)
Ahead(index, thread) ==
    IF thread.at # "copying" THEN {}
    ELSE {SlotOf(Wrapping(index + n)) : n \in thread.done..(thread.count - 1)}
Published == Behind(writeIndex, readIndex)
HandedOver == IF pump.at = "rest" THEN Len(tape) ELSE pump.from - 1
Awaited == Published - (IF callback.at = "copying" THEN callback.done ELSE 0)

(* No slot is written while it is read, at any wrap of the indices; what the*)
(* device hears is what was pushed, in order, each sample once, up to what  *)
(* is still in the ring; and a sample is lost only to a block larger than   *)
(* half the ring.                                                           *)
NothingTears ==
    /\ Ahead(writeIndex, pump) \cap Ahead(readIndex, callback) = {}
    /\ Published <= RingCapacity
    /\ Len(heard) + Awaited = Len(pushed)
    /\ heard = SubSeq(pushed, 1, Len(heard))
    /\ \A n \in 2..Len(pushed) : pushed[n - 1] < pushed[n]
    /\ pushed # <<>> => pushed[1] >= 1 /\ pushed[Len(pushed)] <= HandedOver
    /\ ~tooLarge => Len(pushed) = HandedOver

(* What is pushed from the start, or from where a seek went, is the real    *)
(* audio of the stream: frame after frame from there, none of the padding   *)
(* at the front, nothing left out up to the last real frame, and a track    *)
(* that has ended has pushed all of it.  It is shifted by what the seek     *)
(* lost on its way through milliseconds, which is never more than a         *)
(* millisecond holds: so much is missing at the front after a seek into the *)
(* padding, and so much of the padding at the end is played.                *)
Slip == aim - Reported(aim)
Millisecond == SampleRate \div SecondMillis + 1     \* the frames of one, rounded up
FirstFrame == IF aim < TrimStart + Slip THEN TrimStart + Slip ELSE aim
LastFrame == Min2(StreamFrames, TrimStart + TrimValid + Slip) - 1
TrimIsExact ==
    /\ Slip \in 0..Millisecond
    /\ \A n \in mark..Len(tape) : tape[n] = FirstFrame + (n - mark) /\ tape[n] <= LastFrame
    /\ ended => FirstFrame + (Len(tape) + 1 - mark) > LastFrame

HeardInOrder == NothingTears /\ TrimIsExact

(* The ring implements a channel of its capacity: storing the write index   *)
(* sends what was copied, reading a slot receives, and all else, the slots, *)
(* the wrapping indices and the steps of both threads, is unseen.           *)
Channel == INSTANCE SampleChannel WITH
    Room <- RingCapacity, LastSerial <- MaxTape, sent <- pushed, received <- heard
IsAChannel == Channel!Spec
=============================================================================
