-------------------------------- MODULE MCApp --------------------------------
(***************************************************************************)
(* TLC instance of the repositories behind the screens, of the window and  *)
(* of what it draws with, which share no state.  Each part is explored by  *)
(* itself, from its own initial states and with the others at rest, so the *)
(* state spaces add up.                                                    *)
(***************************************************************************)
EXTENDS UserFollow, Presence, PostRepository, SessionRepository, ActiveScreens, Shell,
        PlaybackHub, TextureLedger, InputField, CaretBlink, AppUpdate, TLC

\* bound: as deep as the screens that are synced at once can lie
ASSUME DepthAssumption == MaxDepth \in Nat /\ MaxDepth >= 2

VARIABLE part       \* the one that moves

appVars == <<vars, presenceVars, postVars, sessionVars, screenVars, shellVars, columnVars>>
drawingVars == <<hubVars, ledgerVars>>
typingVars == <<fieldVars, caretVars, updateVars>>

AppParts == {"follow", "presence", "posts", "sessions", "screens", "shell", "columns"}
DrawingParts == {"hub", "textures"}
TypingParts == {"field", "caret", "update"}

AppInit ==
    /\ part \in AppParts \cup DrawingParts \cup TypingParts
    /\ Init /\ PresenceInit /\ PostInit /\ SessionInit /\ ScreensInit /\ ShellInit /\ ColumnsInit
    /\ HubInit /\ LedgerInit /\ FieldInit /\ CaretInit /\ UpdateInit
    \* what a part at rest starts from makes no difference
    /\ part # "follow" => \A account \in Viewers : follows[account] = {}
    /\ part # "shell" => authenticated
    /\ part # "update" => channel = "stable" /\ policy = CHOOSE p \in Policies : TRUE

(* All but the part that moves stay as they are.                            *)
OthersRest ==
    /\ IF part = "follow" THEN TRUE ELSE UNCHANGED vars
    /\ IF part = "presence" THEN TRUE ELSE UNCHANGED presenceVars
    /\ IF part = "posts" THEN TRUE ELSE UNCHANGED postVars
    /\ IF part = "sessions" THEN TRUE ELSE UNCHANGED sessionVars
    /\ IF part = "screens" THEN TRUE ELSE UNCHANGED screenVars
    /\ IF part = "shell" THEN TRUE ELSE UNCHANGED shellVars
    /\ IF part = "columns" THEN TRUE ELSE UNCHANGED columnVars
    /\ IF part = "hub" THEN TRUE ELSE UNCHANGED hubVars
    /\ IF part = "textures" THEN TRUE ELSE UNCHANGED ledgerVars
    /\ IF part = "field" THEN TRUE ELSE UNCHANGED fieldVars
    /\ IF part = "caret" THEN TRUE ELSE UNCHANGED caretVars
    /\ IF part = "update" THEN TRUE ELSE UNCHANGED updateVars

AppNext ==
    /\ UNCHANGED part
    /\ \/ part = "follow" /\ Next /\ OthersRest
       \/ part = "presence" /\ PresenceNext /\ OthersRest
       \/ part = "posts" /\ PostNext /\ OthersRest
       \/ part = "sessions" /\ SessionNext /\ OthersRest
       \/ part = "screens" /\ ScreensNext /\ OthersRest
       \/ part = "shell" /\ ShellNext /\ OthersRest
       \/ part = "columns" /\ ColumnsNext /\ OthersRest
       \/ part = "hub" /\ HubNext /\ OthersRest
       \/ part = "textures" /\ LedgerNext /\ OthersRest
       \/ part = "field" /\ FieldNext /\ OthersRest
       \/ part = "caret" /\ CaretNext /\ OthersRest
       \/ part = "update" /\ UpdateNext /\ OthersRest

AppSpec == AppInit /\ [][AppNext]_<<part, appVars, drawingVars, typingVars>>

(* The part that moves keeps to its types. *)
AppTypeOK ==
    /\ part = "follow" => TypeOK
    /\ part = "presence" => PresenceTypeOK
    /\ part = "posts" => PostTypeOK
    /\ part = "sessions" => SessionTypeOK
    /\ part = "screens" => ScreensTypeOK
    /\ part = "shell" => ShellTypeOK
    /\ part = "hub" => HubTypeOK
    /\ part = "textures" => LedgerTypeOK
    /\ part = "field" => FieldTypeOK
    /\ part = "caret" => CaretTypeOK
    /\ part = "update" => UpdateTypeOK

(* The rows of the lists are what the server says: of the feed after        *)
(* refused toggles on overlapping pages, of the sessions after refused      *)
(* terminations.                                                            *)
ListsAreTrue == FeedIsTrue /\ RestingListIsTrue

(* What is drawn with is paid for: every slot by the budget of the hub,     *)
(* every texture and page by the ledger.                                    *)
DrawingIsPaid == SlotsAreSpent /\ MemoryIsAccounted

Symmetric == Permutations(Profiles) \cup Permutations(Viewers)
SessionOwners == [s \in SessionIds |-> IF s = "x" THEN "b" ELSE "a"]
SessionsHere == [a \in Identities |-> IF a = "a" THEN "s" ELSE "x"]
CostsOf == [k \in Kinds |-> IF k = "video" THEN 4 ELSE 2]
FieldInserted == {<<"a">>, <<"c", "a">>}
FieldComposed == {<<>>, <<"b">>}
Build(v, c, b) == [version |-> v, channel |-> c, built |-> b]
\* promoted and beta builds, one not built for this machine, one withdrawn
FeedsOffered ==
    {{Build(1, "stable", TRUE), Build(2, "stable", TRUE), Build(2, "beta", TRUE),
      Build(3, "beta", TRUE), Build(4, "nightly", TRUE)},
     {Build(2, "stable", TRUE), Build(3, "stable", FALSE)},
     {Build(1, "beta", TRUE), Build(3, "stable", TRUE)}}
PoliciesGiven ==
    {[production |-> TRUE, signed |-> FALSE, enabled |-> TRUE],
     [production |-> FALSE, signed |-> FALSE, enabled |-> TRUE]}
Slots == ("onboarding" :> 1) @@ ("sign in" :> 1) @@ ("chat" :> 2) @@ ("settings" :> 3)
=============================================================================
