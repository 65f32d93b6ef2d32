--------------------------- MODULE PaneNavigation ---------------------------
(***************************************************************************)
(* The navigation of one window: a stack of screens per section and pane   *)
(* slot, and the columns that draw them.  A store is a record, and every   *)
(* operation maps a store to a store.  The store's clock is kept as the    *)
(* order in which a section's stacks were last touched.                    *)
(***************************************************************************)
EXTENDS Naturals, Sequences, FiniteSets, SequencesExt, Removal

CONSTANTS
    Sections,       \* the tabs of the rail; each is a route as well
    Screens,        \* the other routes
    SlotOf,         \* SlotOf[r] \in {1, 2, 3}: primary, secondary, tertiary
    ForwardLimit,   \* FORWARD_LIMIT, 16 in the code
    Sidebar, DetailMin, Aside, Hysteresis   \* the widths of PanePolicy

(* ShellMetrics scales 320, 460, 300 and 24 by one density.                 *)
ASSUME PaneAssumption ==
    /\ {Sidebar, DetailMin, Aside, Hysteresis} \subseteq Nat /\ Hysteresis <= Aside
    /\ ForwardLimit \in Nat \ {0}

PaneSlots == 1..3
Layouts == {"stacked", "two", "three"}
Routes == Sections \cup Screens
RouteSlot(r) == IF r \in Sections THEN 1 ELSE SlotOf[r]

SlotsForColumn(layout, column) ==
    CASE layout = "three" /\ column <= 3 -> {column}
      [] layout = "two" /\ column = 1 -> {1}
      [] layout = "two" /\ column = 2 -> {2, 3}
      [] layout = "stacked" /\ column = 1 -> PaneSlots
      [] OTHER -> {}
ColumnCount(layout) == CASE layout = "stacked" -> 1 [] layout = "two" -> 2 [] OTHER -> 3

-----------------------------------------------------------------------------
TwoColumns == Sidebar + DetailMin
ThreeColumns == TwoColumns + Aside
LayoutFor(width) == IF width >= ThreeColumns THEN "three"
                    ELSE IF width >= TwoColumns THEN "two" ELSE "stacked"

LayoutAtOnce(width, current) == LayoutFor(width)    \* mutant: no hysteresis
LayoutForResize(width, current) ==
    LET next == LayoutFor(width)
        kept(boundary) == IF width + Hysteresis >= boundary THEN current ELSE next
    IN  CASE current = "two" /\ next = "stacked" -> kept(TwoColumns)
          [] current = "three" /\ next = "two" -> kept(ThreeColumns)
          [] OTHER -> next

-----------------------------------------------------------------------------
SectionOf(nav) == nav.sections[nav.tab]
StackOf(nav, slot) == SectionOf(nav).stacks[slot]
TopOf(nav, slot) == Last(StackOf(nav, slot))

(* How lately a stack was touched; 0 is never.                              *)
Recency(section, slot) ==
    IF \E i \in DOMAIN section.touched : section.touched[i] = slot
      THEN CHOOSE i \in DOMAIN section.touched : section.touched[i] = slot ELSE 0
Touched(section, slot) ==
    [section EXCEPT !.touched = Append(Remaining(@, {slot}), slot)]
(* The stamp of an empty stack is never read, so it is not kept.            *)
Stamped(section) ==
    [section EXCEPT !.touched = Remaining(@, {s \in PaneSlots : section.stacks[s] = <<>>})]
UpdateSection(nav, section) == [nav EXCEPT !.sections[nav.tab] = section]

(* A section with another stack in a slot, and other screens to restore.    *)
Restacked(section, slot, stack, forward) ==
    [stacks |-> [section.stacks EXCEPT ![slot] = stack], touched |-> section.touched, forward |-> forward]

SeedSectionRoot(nav) ==
    LET section == SectionOf(nav) IN
    IF StackOf(nav, 1) = <<>>
      THEN UpdateSection(nav, Restacked(section, 1, <<nav.tab>>, section.forward)) ELSE nav

EmptySection == [stacks |-> [s \in PaneSlots |-> <<>>], touched |-> <<>>, forward |-> <<>>]
NewNavigation(layout, tab) ==
    SeedSectionRoot([layout |-> layout, tab |-> tab,
                     sections |-> [t \in Sections |-> EmptySection]])

SelectTab(nav, tab) ==
    IF nav.tab = tab
      THEN UpdateSection(nav, Restacked(SectionOf(nav), 1, <<Head(StackOf(nav, 1))>>, <<>>))
      ELSE SeedSectionRoot([nav EXCEPT !.tab = tab])

Push(nav, route) ==
    LET slot == RouteSlot(route)
        onTop == StackOf(nav, slot) # <<>> /\ TopOf(nav, slot) = route IN
    IF route \in Sections THEN SelectTab(nav, route)
    ELSE IF onTop THEN UpdateSection(nav, Touched(SectionOf(nav), slot))
    ELSE UpdateSection(nav, Touched(
            Restacked(SectionOf(nav), slot, Append(StackOf(nav, slot), route), <<>>), slot))

(* The slot back unwinds: the last touched of those with something to       *)
(* close, and of those never touched the rightmost.                         *)
Closable(nav) == {s \in PaneSlots : Len(StackOf(nav, s)) > (IF s = 1 THEN 1 ELSE 0)}
CanGoBack(nav) == Closable(nav) # {}
Later(section, s, t) == \/ Recency(section, s) > Recency(section, t)
                        \/ Recency(section, s) = Recency(section, t) /\ s >= t
MostRecentOccupied(nav) ==
    CHOOSE s \in Closable(nav) : \A t \in Closable(nav) : Later(SectionOf(nav), s, t)

Back(nav) ==
    LET slot == MostRecentOccupied(nav)
        section == SectionOf(nav)
        kept == IF Len(section.forward) = ForwardLimit THEN Tail(section.forward)
                ELSE section.forward
    IN  UpdateSection(nav, Stamped(Restacked(
            section, slot, Front(StackOf(nav, slot)), Append(kept, <<slot, TopOf(nav, slot)>>))))

CanGoForward(nav) == SectionOf(nav).forward # <<>>
Restored(nav) ==
    LET section == SectionOf(nav)
        entry == Last(section.forward)
    IN  Restacked(section, entry[1], Append(StackOf(nav, entry[1]), entry[2]), Front(section.forward))
ForwardUntouched(nav) ==        \* mutant: the restored stack is not touched
    UpdateSection(nav, Restored(nav))
Forward(nav) ==
    UpdateSection(nav, Touched(Restored(nav), Last(SectionOf(nav).forward)[1]))

Unwound(stacks) == [s \in PaneSlots |-> IF s = 1 /\ stacks[s] # <<>> THEN <<Head(stacks[s])>>
                                        ELSE <<>>]
ResetToRoot(nav) ==
    [nav EXCEPT !.sections = [t \in Sections |->
        Stamped([stacks |-> Unwound(nav.sections[t].stacks), touched |-> nav.sections[t].touched,
                 forward |-> <<>>])]]

-----------------------------------------------------------------------------
(* The slot a column draws: of the stacks it merges, the one touched last.  *)
DrawnSlots(nav, column) ==
    LET occupied == {s \in SlotsForColumn(nav.layout, column) : StackOf(nav, s) # <<>>}
    IN  {s \in occupied : \A t \in occupied :
            \/ Recency(SectionOf(nav), s) > Recency(SectionOf(nav), t)
            \/ Recency(SectionOf(nav), s) = Recency(SectionOf(nav), t) /\ s <= t}
(* The drawn panes, leftmost first, each with its slot.                     *)
DrawnPane(nav, column) ==
    LET s == CHOOSE s \in DrawnSlots(nav, column) : TRUE
    IN  IF DrawnSlots(nav, column) = {} THEN <<>> ELSE <<<<s, TopOf(nav, s)>>>>
ActivePanes(nav) == DrawnPane(nav, 1) \o DrawnPane(nav, 2) \o DrawnPane(nav, 3)
ActiveRoutes(nav) == LET panes == ActivePanes(nav) IN {panes[i][2] : i \in DOMAIN panes}
FocusedRoute(nav) ==
    LET panes == Range(ActivePanes(nav))
        p == CHOOSE p \in panes : \A q \in panes : Later(SectionOf(nav), p[1], q[1])
    IN  p[2]
AllRoutes(nav) ==
    UNION {Range(nav.sections[t].stacks[s]) : t \in Sections, s \in PaneSlots}

-----------------------------------------------------------------------------
(* The columns alone, while the window is dragged.                          *)
VARIABLES
    columns,        \* the layout
    turned          \* where it last changed: from what, at which width
columnVars == <<columns, turned>>

ColumnsInit == columns = "two" /\ turned = [from |-> "two", at |-> TwoColumns]
Drag(width) ==
    /\ columns' = LayoutForResize(width, columns)
    /\ turned' = IF columns' = columns THEN turned ELSE [from |-> columns, at |-> width]
ColumnsNext == \E width \in 1..ThreeColumns + Hysteresis + 1 : Drag(width)
ColumnsSpec == ColumnsInit /\ [][ColumnsNext]_columnVars

(* A few pixels of drag cannot strobe the columns: the layout returns to    *)
(* what it was only after the window moved by more than the hysteresis.     *)
LayoutDoesNotStrobe ==
    [][columns' # columns /\ columns' = turned.from =>
          \/ turned'.at > turned.at + Hysteresis
          \/ turned.at > turned'.at + Hysteresis]_columnVars
=============================================================================
