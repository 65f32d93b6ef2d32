----------------------------- MODULE AppProofs ------------------------------
(***************************************************************************)
(* What holds of the application as it is put together: its parts step on  *)
(* their own, so what holds of a part holds in the whole.                  *)
(***************************************************************************)
EXTENDS MCApp, MemberProofs, DrawingProofs, WindowProofs

(* A part that moves takes a step of its own; one at rest takes none.       *)
LEMMA PartsStepOnTheirOwn ==
    ASSUME [AppNext]_<<part, appVars, drawingVars, typingVars>>
    PROVE  /\ [Next]_vars /\ [PresenceNext]_presenceVars /\ [PostNext]_postVars
           /\ [SessionNext]_sessionVars /\ [ScreensNext]_screenVars /\ [ShellNext]_shellVars
           /\ [ColumnsNext]_columnVars /\ [HubNext]_hubVars /\ [LedgerNext]_ledgerVars
           /\ [FieldNext]_fieldVars /\ [CaretNext]_caretVars /\ [UpdateNext]_updateVars
<1>1. CASE AppNext
  BY <1>1, Zenon DEF AppNext, OthersRest
<1>2. CASE UNCHANGED <<part, appVars, drawingVars, typingVars>>
  BY <1>2 DEF appVars, drawingVars, typingVars
<1>3. QED
  BY <1>1, <1>2

LEMMA PartsStart ==
    AppInit => /\ Init /\ PresenceInit /\ PostInit /\ SessionInit /\ ScreensInit /\ ShellInit
               /\ ColumnsInit /\ HubInit /\ LedgerInit /\ FieldInit /\ CaretInit /\ UpdateInit
  BY DEF AppInit

(* In the whole application the two lists stay true, whichever part moves. *)
THEOREM ListsStayTrue == AppSpec => []ListsAreTrue
<1>1. AppSpec => PostSpec /\ SessionSpec
  BY PartsStart, PartsStepOnTheirOwn, PTL DEF AppSpec, PostSpec, SessionSpec
<1>2. QED
  BY <1>1, FeedStaysTrue, SessionListIsTrue, PTL DEF ListsAreTrue

(* In the whole application every slot of the hub and every texture and     *)
(* page of the atlas is paid for, whichever part moves.                     *)
THEOREM DrawingStaysPaid == AppSpec => []DrawingIsPaid
<1>1. AppSpec => HubSpec /\ LedgerSpec
  BY PartsStart, PartsStepOnTheirOwn, PTL DEF AppSpec, HubSpec, LedgerSpec
<1>2. QED
  BY <1>1, SlotsStaySpent, MemoryStaysAccounted, PTL DEF DrawingIsPaid

(* Whatever part moves keeps to its types: buttons, presence, the feed, the *)
(* session list, the leases of the screens, the window, the hub, the ledger *)
(* of textures, the field, the caret and the updater.                       *)
THEOREM AppIsTyped == AppSpec => []AppTypeOK
<1>1. AppSpec => /\ Spec /\ PresenceSpec /\ PostSpec /\ SessionSpec /\ ScreensSpec /\ ShellSpec
                 /\ HubSpec /\ LedgerSpec /\ FieldSpec /\ CaretSpec /\ UpdateSpec
  BY PartsStart, PartsStepOnTheirOwn, PTL
     DEF AppSpec, Spec, PresenceSpec, PostSpec, SessionSpec, ScreensSpec, ShellSpec, HubSpec, LedgerSpec,
         FieldSpec, CaretSpec, UpdateSpec
<1>2. ScreensSpec => []ScreensTypeOK
  BY DepthAssumption, ScreensKeepTheirTypes
<1>3. /\ TypeOK /\ PresenceTypeOK /\ PostTypeOK /\ SessionTypeOK /\ ScreensTypeOK /\ ShellTypeOK
      /\ HubTypeOK /\ LedgerTypeOK /\ FieldTypeOK /\ CaretTypeOK /\ UpdateTypeOK
      => AppTypeOK
  BY Zenon DEF AppTypeOK
<1>4. QED
  BY <1>1, <1>2, <1>3, ButtonsKeepTheirTypes, PresenceKeepsItsTypes, PostsKeepTheirTypes, SessionsKeepTheirTypes,
     WindowTyped, SlotsStaySpent, MemoryStaysAccounted, FieldKeepsItsTypes, CaretIsTyped, UpdateIsTyped, PTL

(* All that the parts promise holds of them together, whichever moves: the  *)
(* buttons and lists show what the server has, the wire hears what the      *)
(* screens want, the window agrees with its store and its leases, what is   *)
(* drawn is paid for, edits run back, one timer blinks the caret, an update *)
(* leaves a program that starts, and the columns do not strobe.             *)
THEOREM AppKeepsItsPromises ==
    AppSpec =>
        /\ []RestingButtonIsTrue /\ []FollowsAreMeant /\ []WireFollowsTheScreens /\ []ListsAreTrue
        /\ []RefreshedOncePerCycle /\ []BackThenForward /\ []TheWindowAgrees /\ []DrawingIsPaid
        /\ []UndoRunsBack /\ []OneBlinkCycle /\ []UpdatesAreSafe /\ LayoutDoesNotStrobe
<1>1. AppSpec => Spec /\ PresenceSpec /\ ScreensSpec /\ ShellSpec
  BY PartsStart, PartsStepOnTheirOwn, PTL DEF AppSpec, Spec, PresenceSpec, ScreensSpec, ShellSpec
<1>2. AppSpec => FieldSpec /\ CaretSpec /\ UpdateSpec /\ ColumnsSpec
  BY PartsStart, PartsStepOnTheirOwn, PTL DEF AppSpec, FieldSpec, CaretSpec, UpdateSpec, ColumnsSpec
<1>3. /\ Spec => []RestingButtonIsTrue /\ []FollowsAreMeant
      /\ PresenceSpec => []WireFollowsTheScreens
      /\ ScreensSpec => []RefreshedOncePerCycle
      /\ ShellSpec => []BackThenForward /\ []TheWindowAgrees
  BY RestingButtonStaysTrue, FollowsStayMeant, WireHearsTheScreens, KeysRefreshOnce,
     BackAlwaysUndone, WindowStaysInAgreement
<1>4. /\ FieldSpec => []UndoRunsBack
      /\ CaretSpec => []OneBlinkCycle
      /\ UpdateSpec => []UpdatesAreSafe
      /\ ColumnsSpec => LayoutDoesNotStrobe
  BY UndoAlwaysRunsBack, CaretBlinksOnce, UpdatesStaySafe, ColumnsDoNotStrobe
<1>5. QED
  BY <1>1, <1>2, <1>3, <1>4, ListsStayTrue, DrawingStaysPaid
=============================================================================
