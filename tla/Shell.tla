-------------------------------- MODULE Shell --------------------------------
(***************************************************************************)
(* One window of the shell: its navigation, the overlays above it, the     *)
(* views it keeps, the leases of what it draws, and the account it shows.  *)
(* A handler changes the navigation and marks the screens dirty; the next  *)
(* frame mounts what is drawn and synchronises the leases.                 *)
(***************************************************************************)
EXTENDS PaneNavigation

CONSTANTS
    Onboarding, SignIn,     \* the two screens before the sign-in
    RailTargets,            \* the sections and the settings
    FirstSection,           \* RootTab::Feed
    Widths,                 \* the widths the window takes
    OverlayCapacity,        \* OverlayStack::CAPACITY, 8 in the code
    MaxHeld,                \* bound: screens open besides the section roots
    MaxUnseen               \* bound: handlers that run between two frames

Palette == "command palette"
RailMenu == "rail menu"
NoTarget == "no target"
PreAuth == {Onboarding, SignIn}

(* RootRoute::slot: of the screens that are no section only those before    *)
(* the sign-in are primary.                                                 *)
ASSUME ShellAssumption ==
    /\ Screens \cap Sections = {} /\ Palette \notin Routes
    /\ SlotOf \in [Screens -> PaneSlots] /\ PreAuth = {r \in Screens : SlotOf[r] = 1}
    /\ RailTargets \subseteq Routes \ PreAuth /\ NoTarget \notin RailTargets
    /\ FirstSection \in Sections
    /\ OverlayCapacity \in Nat /\ OverlayCapacity >= 2 /\ MaxUnseen \in Nat

VARIABLES
    nav,            \* the navigation store
    dirty,          \* screens_dirty
    unseen,         \* handlers that ran since the last frame
    palette,        \* the command palette exists
    menu,           \* the target of the rail's menu, NoTarget while there is none
    overlays,       \* OverlayStack, innermost last
    views,          \* the routes whose views are mounted
    authenticated,  \* is_authenticated
    old,            \* the screens held since before the last sign-in or sign-out
    oldViews,       \* the mounted views, of roots too, that were mounted before it
    registry        \* the leases of the screens on the glass

(* The registry of the window, which nothing claims a refresh from yet.     *)
Registry == INSTANCE ActiveScreens WITH
    leases <- registry, claimed <- <<>>, granted <- <<>>,
    MaxLeases <- 64, MaxClaims <- 128, MaxGrants <- 0, MaxDepth <- 1,
    ScreenOwners <- {}, ScreenKeys <- {}

shellVars == <<nav, dirty, unseen, palette, menu, overlays, views, authenticated, old, oldViews, registry>>

ForwardRoutes(n) == UNION {{e[2] : e \in Range(n.sections[t].forward)} : t \in Sections}
Held(n) == (AllRoutes(n) \cup ForwardRoutes(n)) \ Sections

ShellTypeOK ==
    /\ nav.layout \in Layouts /\ nav.tab \in Sections
    /\ StackOf(nav, 1) # <<>> /\ Head(StackOf(nav, 1)) = nav.tab
    /\ \A t \in Sections, s \in PaneSlots : Range(nav.sections[t].stacks[s]) \subseteq Routes
    /\ {dirty, palette, authenticated} \subseteq BOOLEAN /\ unseen \in 0..MaxUnseen
    /\ menu \in RailTargets \cup {NoTarget}
    /\ Range(overlays) \subseteq {Palette, RailMenu} /\ Len(overlays) <= OverlayCapacity
    /\ views \subseteq Routes /\ old \subseteq Routes /\ oldViews \subseteq views

(* The screens held in a section besides its root.                          *)
Entries(section) ==
    Len(section.forward) + Len(section.stacks[2]) + Len(section.stacks[3])
        + (IF section.stacks[1] = <<>> THEN 0 ELSE Len(section.stacks[1]) - 1)
HeldCount(n) == Cardinality(UNION {{t} \X (1..Entries(n.sections[t])) : t \in Sections})
SmallNav == HeldCount(nav') <= MaxHeld

ShellInit ==
    /\ authenticated \in BOOLEAN
    /\ nav = LET new == NewNavigation("two", FirstSection) IN
             IF authenticated THEN new ELSE Push(new, Onboarding)
    /\ dirty = TRUE /\ unseen = 0 /\ palette = FALSE /\ menu = NoTarget /\ overlays = <<>>
    /\ views = {} /\ old = {} /\ oldViews = {}
    /\ registry = <<>>

Unseen == unseen < MaxUnseen /\ unseen' = unseen + 1
NotTheOverlays == UNCHANGED <<palette, menu, overlays>>
NavigatesSilently(opened) ==    \* mutant: the screens are not marked dirty
    /\ old' = (old \ opened) \cap Held(nav')
    /\ Unseen
    /\ UNCHANGED <<dirty, authenticated, views, oldViews, registry>>
(* opened: what a step opened, which is this account's from then on.        *)
Navigates(opened) ==
    /\ old' = (old \ opened) \cap Held(nav')
    /\ dirty' = TRUE /\ Unseen
    /\ UNCHANGED <<authenticated, views, oldViews, registry>>

-----------------------------------------------------------------------------
(* open_route and activate: a link that was handed over, a page, the rail   *)
(* or a shortcut.                                                           *)
OpenRoute(route) ==
    /\ nav' = Push(nav, route) /\ SmallNav
    /\ Navigates({route})
    /\ NotTheOverlays

GoBack ==
    /\ CanGoBack(nav)
    /\ nav' = Back(nav)
    /\ Navigates({})
    /\ NotTheOverlays

GoForward ==
    /\ CanGoForward(nav)
    /\ nav' = Forward(nav)
    /\ Navigates({})
    /\ NotTheOverlays

-----------------------------------------------------------------------------
OverlayOpened(id) ==
    LET others == Remaining(overlays, {id})
    IN  Append(IF Len(others) >= OverlayCapacity THEN Tail(others) ELSE others, id)

CloseOverlay(id) ==
    /\ overlays' = Remaining(overlays, {id})
    /\ palette' = (palette /\ id # Palette)
    /\ menu' = IF id = RailMenu THEN NoTarget ELSE menu
OnlyOverlays == dirty' = TRUE /\ Unseen /\ UNCHANGED <<nav, authenticated, views, old, oldViews, registry>>

(* Escape closes the topmost overlay, and with none the topmost screen.     *)
DismissOverlay ==
    \/ /\ overlays # <<>>
       /\ CloseOverlay(Last(overlays))
       /\ OnlyOverlays
    \/ overlays = <<>> /\ GoBack

OpenRailMenu(target) ==
    /\ menu' = target
    /\ overlays' = OverlayOpened(RailMenu)
    /\ UNCHANGED palette /\ OnlyOverlays

MenuActivated ==
    /\ menu # NoTarget
    /\ CloseOverlay(RailMenu)
    /\ nav' = Push(nav, menu) /\ SmallNav
    /\ Navigates({menu})

ClickOutside(id) ==
    /\ IF id = Palette THEN palette ELSE menu # NoTarget
    /\ CloseOverlay(id)
    /\ OnlyOverlays

ToggleCommandPalette ==
    /\ IF palette THEN CloseOverlay(Palette)
       ELSE /\ palette' = TRUE
            /\ overlays' = OverlayOpened(Palette)
            /\ UNCHANGED menu
    /\ OnlyOverlays

PaletteActivated(route) ==
    /\ palette
    /\ CloseOverlay(Palette)
    /\ nav' = Push(nav, route) /\ SmallNav
    /\ Navigates({route})

-----------------------------------------------------------------------------
WindowResized(width) ==
    /\ LayoutForResize(width, nav.layout) # nav.layout
    /\ nav' = [nav EXCEPT !.layout = LayoutForResize(width, @)]
    /\ Navigates({})
    /\ NotTheOverlays

OnboardingFinished == Onboarding \in views /\ OpenRoute(SignIn)
SignInDismissed == SignIn \in views /\ GoBack

(* replace_root, when somebody signs in or the last account is gone.        *)
ReplaceRoot ==
    LET root == ResetToRoot(nav) IN
    /\ nav' = IF authenticated' THEN root ELSE Push(root, Onboarding)
    /\ old' = Held(nav') \ (IF authenticated' THEN {} ELSE {Onboarding})
    /\ oldViews' = views \cap views'
    /\ dirty' = TRUE /\ Unseen
    /\ NotTheOverlays /\ UNCHANGED registry
AuthenticationChangedKeepingViews ==    \* mutant: the views are not cleared
    /\ authenticated' = ~authenticated
    /\ views' = views
    /\ ReplaceRoot
AuthenticationChanged ==
    /\ authenticated' = ~authenticated
    /\ views' = {}
    /\ ReplaceRoot

(* The visible screens, bottom first, with the palette above them.          *)
VisibleScreens ==
    LET panes == ActivePanes(nav) IN
    [i \in DOMAIN panes |-> <<panes[i][2], panes[i][1]>>]
        \o (IF palette THEN <<<<Palette, Registry!OverlayColumn>>>> ELSE <<>>)

RenderFrame ==
    /\ dirty
    /\ views' = (views \cap AllRoutes(nav)) \cup ActiveRoutes(nav)
    /\ registry' = Registry!SyncVisible(registry, VisibleScreens)
    /\ dirty' = FALSE /\ unseen' = 0
    /\ oldViews' = oldViews \cap AllRoutes(nav)
    /\ NotTheOverlays /\ UNCHANGED <<nav, authenticated, old>>

ShellNext ==
    \/ \E r \in Routes \ PreAuth : OpenRoute(r) \/ PaletteActivated(r)
    \/ \E t \in RailTargets : OpenRailMenu(t)
    \/ GoBack \/ GoForward \/ DismissOverlay
    \/ MenuActivated \/ ToggleCommandPalette
    \/ \E id \in {Palette, RailMenu} : ClickOutside(id)
    \/ \E w \in Widths : WindowResized(w)
    \/ OnboardingFinished \/ SignInDismissed
    \/ AuthenticationChanged
    \/ RenderFrame
ShellSpec == ShellInit /\ [][ShellNext]_shellVars

-----------------------------------------------------------------------------
(* Back closes a screen the window was drawing, in every layout and after   *)
(* any sequence of opened, closed and restored screens, while somebody is   *)
(* signed in.                                                               *)
BackClosesWhatIsDrawn ==
    authenticated /\ CanGoBack(nav) => TopOf(nav, MostRecentOccupied(nav)) \in ActiveRoutes(nav)

(* Forward puts back what back closed: the same screens are drawn, and the  *)
(* same one has the focus.                                                  *)
ForwardUndoesBack ==
    authenticated /\ CanGoBack(nav) =>
        LET again == Forward(Back(nav)) IN
        /\ ActivePanes(again) = ActivePanes(nav)
        /\ FocusedRoute(again) = FocusedRoute(nav)

(* Back takes away what the user sees, and forward undoes it.               *)
BackThenForward == BackClosesWhatIsDrawn /\ ForwardUndoesBack

(* The overlay stack and what the window keeps for its overlays agree, so   *)
(* Escape never closes an overlay that is not shown and never closes a      *)
(* screen under one that is.                                                *)
OverlaysAgree ==
    /\ (Palette \in Range(overlays)) = palette
    /\ (RailMenu \in Range(overlays)) = (menu # NoTarget)

(* After a frame every drawn screen has a lease in its own column, and the  *)
(* palette one in that of the overlays, nothing else has one, and all of    *)
(* them may refresh, or the palette alone when it is open: no handler moves *)
(* a screen without the frame noticing.                                     *)
LeasesFollowTheGlass ==
    ~dirty => LET drawn == ActiveRoutes(nav) IN
        /\ {<<registry[i].owner, registry[i].column>> : i \in DOMAIN registry} =
              {<<pane[2], pane[1]>> : pane \in Range(ActivePanes(nav))}
                \cup (IF palette THEN {<<Palette, Registry!OverlayColumn>>} ELSE {})
        /\ \A r \in drawn : Registry!Eligible(registry, r) = ~palette
        /\ palette => Registry!Eligible(registry, Palette)

(* No screen opened before a sign-in or a sign-out is still held in a       *)
(* section or restored by forward, and no screen, the root of a section no  *)
(* more than another, is drawn from a view that was mounted before it.      *)
NothingSurvivesSignOut == old = {} /\ oldViews = {}

(* Leases, overlay stack and the fields of the window tell one story, of    *)
(* one account.                                                             *)
TheWindowAgrees == OverlaysAgree /\ LeasesFollowTheGlass /\ NothingSurvivesSignOut
=============================================================================
