---------------------------- MODULE TrackScheduler ----------------------------
(***************************************************************************)
(* Which tracks of a queue have an audio decoder open: the one that plays  *)
(* and, shortly before it ends, the next.                                  *)
(***************************************************************************)
EXTENDS Naturals, Sequences, FiniteSets, SequencesExt, DecoderPlans

CONSTANTS Tracks, NoTrack
MaxLiveTracks == 2

ASSUME TracksAssumption == NoTrack \notin Tracks

VARIABLES
    tracks,         \* states: what the scheduler takes each track for
    onNow,          \* the current track of the last reconcile
    cued,           \* the tracks with a decoder before its plan
    cues,           \* the plan made for it
    kept            \* a track went from playing to preloaded at once

trackVars == <<tracks, onNow, cued, cues, kept>>

Cue == [op : {"open", "play", "close"}, id : Tracks]

TracksTypeOK ==
    /\ tracks \in [Tracks -> {"playing", "preloaded", "closed"}]
    /\ onNow \in Tracks \cup {NoTrack}
    /\ cued \subseteq Tracks /\ cues \in Seq(Cue)
    /\ kept \in BOOLEAN

TracksInit ==
    /\ tracks = [t \in Tracks |-> "closed"]
    /\ onNow = NoTrack
    /\ cued = {} /\ cues = <<>> /\ kept = FALSE

LiveTracks(states) == {t \in Tracks : states[t] # "closed"}

-----------------------------------------------------------------------------
(* The next track is opened shortly before the current one ends; either may *)
(* be missing, and with a repeated track they are the same.                 *)
Preload(next, near) == IF near THEN next ELSE NoTrack

ReconcileTracks(current, next, near) ==
    LET preload == Preload(next, near)
        gone == {t \in LiveTracks(tracks) : t # current /\ t # preload}
        say(op, t) == <<[op |-> op, id |-> t]>>
        left == [t \in Tracks |-> IF t \in gone THEN "closed" ELSE tracks[t]]
        played == [t \in Tracks |-> IF t = current THEN "playing" ELSE left[t]]
        preloads == /\ preload # NoTrack /\ played[preload] = "closed"
                    /\ Cardinality(LiveTracks(played)) < MaxLiveTracks
    IN
    /\ tracks' = IF preloads THEN [played EXCEPT ![preload] = "preloaded"] ELSE played
    /\ \E closes \in SetToSeqs(gone) :      \* whatever the order of the list
          cues' = [i \in DOMAIN closes |-> [op |-> "close", id |-> closes[i]]]
              \o (IF current = NoTrack \/ left[current] = "playing" THEN <<>>
                  ELSE IF left[current] = "closed"
                       THEN say("open", current) \o say("play", current)
                       ELSE say("play", current))
              \o (IF preloads THEN say("open", preload) ELSE <<>>)
    /\ onNow' = current
    /\ cued' = LiveTracks(tracks)
    /\ kept' = (kept \/ \E t \in Tracks : tracks[t] = "playing" /\ t = preload /\ t # current)

CloseTracks ==
    /\ tracks' = [t \in Tracks |-> "closed"]
    /\ \E closes \in SetToSeqs(LiveTracks(tracks)) :
          cues' = [i \in DOMAIN closes |-> [op |-> "close", id |-> closes[i]]]
    /\ onNow' = NoTrack
    /\ cued' = LiveTracks(tracks)
    /\ UNCHANGED kept

TracksNext ==
    \/ \E current, next \in Tracks \cup {NoTrack}, near \in BOOLEAN :
          ReconcileTracks(current, next, near)
    \/ CloseTracks
TracksSpec == TracksInit /\ [][TracksNext]_trackVars

-----------------------------------------------------------------------------
(* At most two tracks have a decoder at any moment of a plan, the current   *)
(* one plays, and nothing else does, as long as no track went from playing  *)
(* to preloaded at once, which leaves it marked as playing.                 *)
TrackPoolHolds ==
    /\ StaysWithin(cued, cues, MaxLiveTracks)
    /\ Applying(cued, cues, Len(cues)) = LiveTracks(tracks)
    /\ onNow # NoTrack => tracks[onNow] = "playing"
    /\ ~kept => \A t \in Tracks : tracks[t] = "playing" => t = onNow
=============================================================================
