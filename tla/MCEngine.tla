------------------------------ MODULE MCEngine ------------------------------
(***************************************************************************)
(* TLC instance of the parts of the engine crate, and of what decodes and  *)
(* rasterises in the media crate, which share no state.  Each is explored  *)
(* by itself, from its own initial states and with the others at rest, so  *)
(* the state spaces add up instead of multiplying.                         *)
(***************************************************************************)
EXTENDS DurableOutbox, EngineStore, StoreViews, RevisionBus, Debounce,
        RequestIds, UploadProgress, FeedScheduler, TrackScheduler,
        RasterPool, AudioRing, TLC

VARIABLE part       \* the one that moves

engineVars == <<vars, storeVars, viewsVars, busVars, debounceVars, idVars, uploadVars>>
mediaVars == <<feedVars, trackVars, rasterVars, ringVars>>

EngineParts == {"outbox", "store", "views", "bus", "debounce", "ids", "upload"}
MediaParts == {"feed", "tracks", "raster", "ring"}

EngineInit ==
    /\ part \in EngineParts \cup MediaParts
    /\ Init /\ StoreInit /\ ViewsInit /\ BusInit /\ DebounceInit /\ IdsInit /\ UploadInit
    /\ FeedInit /\ TracksInit /\ RasterInit /\ RingInit
    \* what a part at rest starts from makes no difference
    /\ part # "ids" => wall = 0
    /\ part # "outbox" => lane = [i \in DOMAIN lane |-> CHOOSE l \in Lanes : TRUE]
    /\ part # "ring" => writeIndex = 0

(* All but the part that moves stay as they are.                            *)
OthersRest ==
    /\ IF part = "outbox" THEN TRUE ELSE UNCHANGED vars
    /\ IF part = "store" THEN TRUE ELSE UNCHANGED storeVars
    /\ IF part = "views" THEN TRUE ELSE UNCHANGED viewsVars
    /\ IF part = "bus" THEN TRUE ELSE UNCHANGED busVars
    /\ IF part = "debounce" THEN TRUE ELSE UNCHANGED debounceVars
    /\ IF part = "ids" THEN TRUE ELSE UNCHANGED idVars
    /\ IF part = "upload" THEN TRUE ELSE UNCHANGED uploadVars
    /\ IF part = "feed" THEN TRUE ELSE UNCHANGED feedVars
    /\ IF part = "tracks" THEN TRUE ELSE UNCHANGED trackVars
    /\ IF part = "raster" THEN TRUE ELSE UNCHANGED rasterVars
    /\ IF part = "ring" THEN TRUE ELSE UNCHANGED ringVars

EngineNext ==
    /\ UNCHANGED part
    /\ \/ part = "outbox" /\ Next /\ OthersRest
       \/ part = "store" /\ StoreNext /\ OthersRest
       \/ part = "views" /\ ViewsNext /\ OthersRest
       \/ part = "bus" /\ BusNext /\ OthersRest
       \/ part = "debounce" /\ DebounceNext /\ OthersRest
       \/ part = "ids" /\ IdsNext /\ OthersRest
       \/ part = "upload" /\ UploadNext /\ OthersRest
       \/ part = "feed" /\ FeedNext /\ OthersRest
       \/ part = "tracks" /\ TracksNext /\ OthersRest
       \/ part = "raster" /\ RasterNext /\ OthersRest
       \/ part = "ring" /\ RingNext /\ OthersRest

EngineSpec == EngineInit /\ [][EngineNext]_<<part, engineVars, mediaVars>>

(* The part that moves keeps to its types. *)
EngineTypeOK ==
    /\ part = "outbox" => TypeOK
    /\ part = "store" => StoreTypeOK
    /\ part = "views" => ViewsTypeOK
    /\ part = "bus" => BusTypeOK
    /\ part = "debounce" => DebounceTypeOK
    /\ part = "ids" => IdsTypeOK
    /\ part = "upload" => UploadTypeOK
    /\ part = "feed" => FeedTypeOK
    /\ part = "tracks" => TracksTypeOK
    /\ part = "raster" => RasterTypeOK
    /\ part = "ring" => RingTypeOK

(* The decoders open for the feed and for the queue of tracks are the ones  *)
(* their schedulers count, and never more than there may be, at any moment  *)
(* of a plan.                                                               *)
DecodersHold == FeedPoolHolds /\ TrackPoolHolds

Symmetric == Permutations(Processes) \cup Permutations(Jobs)
WatchesOf == [r \in Readers |-> IF r = "r1" THEN "profile" ELSE "chats"]
=============================================================================
