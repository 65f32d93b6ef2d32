--------------------------- MODULE PostRepository ---------------------------
(***************************************************************************)
(* The feed's actor.  One post may be on several pages; a toggle is shown  *)
(* on every copy at once, sent, and then reconciled or taken back.  The    *)
(* actor awaits the server inside a command, so commands wait in a bounded *)
(* channel, which drops what does not fit.                                 *)
(***************************************************************************)
EXTENDS Naturals, Sequences, FiniteSets

CONSTANTS
    Scopes, Posts, Members,
    Numeric,        \* the posts whose id parses as a number
    NoMember,
    InboxRoom,      \* capacity of the command channel, 64 in the code
    PageRows,       \* bound: rows in an answer
    MaxPostCommands \* bound: commands dispatched

ASSUME PostAssumption ==
    /\ Numeric \subseteq Posts /\ IsFiniteSet(Members) /\ NoMember \notin Members
    /\ {InboxRoom, MaxPostCommands} \subseteq Nat

VARIABLES
    inbox,          \* the command channel
    reader,         \* user_id
    pages,          \* pages[s]: the FeedPage and the cursor of scope s
    awaiting,       \* the command being served, with what it needs later
    liked,          \* liked[v]: the posts v has on, at the server
    uncertain,      \* an answer to an applied toggle was lost
    dispatched

postVars == <<inbox, reader, pages, awaiting, liked, uncertain, dispatched>>

Row == [id : Posts, on : BOOLEAN, count : 0..Cardinality(Members) + 1]
Page == [rows : Seq(Row), loaded : BOOLEAN, more : BOOLEAN, cursor : BOOLEAN]
EmptyPage == [rows |-> <<>>, loaded |-> FALSE, more |-> FALSE, cursor |-> FALSE]

PostCommands ==
    [op : {"activate", "refresh", "more"}, scope : Scopes]
      \cup [op : {"toggle"}, post : Posts, enabled : BOOLEAN]
      \cup [op : {"identity"}, reader : Members \cup {NoMember}]
      \cup [op : {"reset"}]

Resting == [op |-> "none"]

PostTypeOK ==
    /\ inbox \in Seq(PostCommands) /\ Len(inbox) <= InboxRoom
    /\ reader \in Members \cup {NoMember}
    /\ pages \in [Scopes -> Page]
    /\ awaiting.op \in {"none", "refresh", "more", "toggle"}
    /\ liked \in [Members -> SUBSET Posts]
    /\ uncertain \in BOOLEAN /\ dispatched \in 0..MaxPostCommands

PostInit ==
    /\ inbox = <<>> /\ reader = NoMember
    /\ pages = [s \in Scopes |-> EmptyPage]
    /\ awaiting = Resting
    /\ liked = [v \in Members |-> {}]
    /\ uncertain = FALSE /\ dispatched = 0

(* What the server would say of a post now. *)
On(p) == reader # NoMember /\ p \in liked[reader]
Count(p) == Cardinality({v \in Members : p \in liked[v]})
RowOfPost(p) == [id |-> p, on |-> On(p), count |-> Count(p)]

-----------------------------------------------------------------------------
DispatchPost(c) ==
    /\ dispatched < MaxPostCommands /\ dispatched' = dispatched + 1
    /\ inbox' = IF Len(inbox) < InboxRoom THEN Append(inbox, c) ELSE inbox
    /\ UNCHANGED <<reader, pages, awaiting, liked, uncertain>>

TakePost(op) ==
    /\ awaiting = Resting /\ inbox # <<>> /\ Head(inbox).op = op
    /\ inbox' = Tail(inbox)

Skip == UNCHANGED <<reader, pages, awaiting, liked, uncertain, dispatched>>

LoadFirst ==
    /\ \E op \in {"activate", "refresh"} :
          /\ TakePost(op)
          /\ op = "activate" => ~pages[Head(inbox).scope].loaded
    /\ awaiting' = [op |-> "refresh", scope |-> Head(inbox).scope]
    /\ UNCHANGED <<reader, pages, liked, uncertain, dispatched>>

ActivateLoaded ==
    /\ TakePost("activate") /\ pages[Head(inbox).scope].loaded
    /\ Skip

LoadMorePosts ==
    /\ TakePost("more")
    /\ LET page == pages[Head(inbox).scope] IN
       IF page.cursor /\ page.more
       THEN awaiting' = [op |-> "more", scope |-> Head(inbox).scope]
       ELSE UNCHANGED awaiting
    /\ UNCHANGED <<reader, pages, liked, uncertain, dispatched>>

SetIdentity ==
    /\ TakePost("identity") /\ reader' = Head(inbox).reader
    /\ pages' = IF reader' = reader THEN pages ELSE [s \in Scopes |-> EmptyPage]
    /\ UNCHANGED <<awaiting, liked, uncertain, dispatched>>

ResetPosts ==
    /\ TakePost("reset")
    /\ pages' = [s \in Scopes |-> EmptyPage]
    /\ UNCHANGED <<reader, awaiting, liked, uncertain, dispatched>>

-----------------------------------------------------------------------------
(* An answer holds some posts, each once; pages may overlap.                *)
Answers == {rows \in UNION {[1..n -> Posts] : n \in 0..PageRows} :
                \A i, j \in DOMAIN rows : rows[i] = rows[j] => i = j}

Known(rows) == {rows[i].id : i \in DOMAIN rows}
AppendNew(rows, new) ==
    LET upTo[n \in 0..Len(new)] ==
            IF n = 0 THEN rows
            ELSE IF new[n].id \in Known(rows) THEN upTo[n - 1]
                 ELSE Append(upTo[n - 1], new[n])
    IN upTo[Len(new)]

PageAnswered(ids, more, cursor) ==
    LET s == awaiting.scope
        new == [i \in DOMAIN ids |-> RowOfPost(ids[i])]
    IN
    /\ awaiting.op \in {"refresh", "more"}
    /\ pages' = [pages EXCEPT
           ![s].rows = IF awaiting.op = "refresh" THEN new ELSE AppendNew(@, new),
           ![s].loaded = @ \/ awaiting.op = "refresh",
           ![s].more = more,
           ![s].cursor = cursor]
    /\ awaiting' = Resting
    /\ UNCHANGED <<inbox, reader, liked, uncertain, dispatched>>

(* An error, or a page that does not decode, leaves the rows on screen.     *)
PageFails ==
    /\ awaiting.op \in {"refresh", "more"}
    /\ awaiting' = Resting
    /\ UNCHANGED <<inbox, reader, pages, liked, uncertain, dispatched>>

-----------------------------------------------------------------------------
Step(count, enabled) == IF enabled THEN count + 1 ELSE IF count = 0 THEN 0 ELSE count - 1
ApplyToggle(r, enabled) ==
    IF r.on = enabled THEN r ELSE [r EXCEPT !.on = enabled, !.count = Step(@, enabled)]

OnEveryCopy(all, p, change) ==     \* change maps a row to its new one
    [s \in Scopes |-> [all[s] EXCEPT !.rows =
        [i \in DOMAIN @ |-> IF @[i].id = p THEN change[@[i]] ELSE @[i]]]]

CopiesOn(s, p) == {i \in DOMAIN pages[s].rows : pages[s].rows[i].id = p}
Copies(p) == UNION {{s} \X CopiesOn(s, p) : s \in Scopes}

(* Nobody signed in, or the post is on no page; and an id that is no number *)
(* is shown, found out and taken back before anything else is served.       *)
ToggleIgnored ==
    /\ TakePost("toggle")
    /\ LET p == Head(inbox).post IN
       reader = NoMember \/ Copies(p) = {} \/ p \notin Numeric
    /\ Skip

Toggle ==
    LET c == Head(inbox) IN
    /\ TakePost("toggle")
    /\ reader # NoMember /\ Copies(c.post) # {} /\ c.post \in Numeric
    /\ pages' = OnEveryCopy(pages, c.post, [r \in Row |-> ApplyToggle(r, c.enabled)])
    /\ awaiting' = [op |-> "toggle", post |-> c.post, enabled |-> c.enabled,
                    previous |-> [x \in Copies(c.post) |-> pages[x[1]].rows[x[2]]]]
    /\ UNCHANGED <<reader, liked, uncertain, dispatched>>

Served == [liked EXCEPT ![reader] =
              IF awaiting.enabled THEN @ \cup {awaiting.post} ELSE @ \ {awaiting.post}]

(* The answer may carry the server's flag and counter, or neither.          *)
ToggleAnswered(carries) ==
    /\ awaiting.op = "toggle"
    /\ liked' = Served
    /\ pages' = IF carries
                THEN OnEveryCopy(pages, awaiting.post, [r \in Row |->
                         [r EXCEPT !.on = (awaiting.post \in Served[reader]),
                                   !.count = Cardinality({v \in Members :
                                                 awaiting.post \in Served[v]})]])
                ELSE pages
    /\ awaiting' = Resting
    /\ UNCHANGED <<inbox, reader, uncertain, dispatched>>

RestoreOnePage ==           \* mutant: only one copy is taken back
    LET x == CHOOSE y \in DOMAIN awaiting.previous : TRUE IN
    [pages EXCEPT ![x[1]].rows[x[2]] = awaiting.previous[x]]
Restore ==
    [s \in Scopes |-> [pages[s] EXCEPT !.rows =
        [i \in DOMAIN @ |-> IF <<s, i>> \in DOMAIN awaiting.previous /\ @[i].id = awaiting.post
                            THEN awaiting.previous[<<s, i>>] ELSE @[i]]]]

(* Refused; or no answer came, and the server may have served it.           *)
ToggleFails(applied) ==
    /\ awaiting.op = "toggle"
    /\ pages' = Restore
    /\ liked' = IF applied THEN Served ELSE liked
    /\ uncertain' = (uncertain \/ (applied /\ liked' # liked))
    /\ awaiting' = Resting
    /\ UNCHANGED <<inbox, reader, dispatched>>

PostNext ==
    \/ \E c \in PostCommands : DispatchPost(c)
    \/ LoadFirst \/ ActivateLoaded \/ LoadMorePosts \/ SetIdentity \/ ResetPosts
    \/ \E ids \in Answers, more, cursor \in BOOLEAN : PageAnswered(ids, more, cursor)
    \/ PageFails
    \/ ToggleIgnored \/ Toggle
    \/ \E b \in BOOLEAN : ToggleAnswered(b) \/ ToggleFails(b)
PostSpec == PostInit /\ [][PostNext]_postVars

-----------------------------------------------------------------------------
(* Between commands every copy of a post, on whatever page and however it   *)
(* got there, shows what the server has for the reader, after any mixture   *)
(* of presses, repeated presses, refusals, pages and account switches, as   *)
(* long as no answer to an applied toggle was lost (PostState::toggle).     *)
RestingPostsAreTrue ==
    awaiting = Resting /\ ~uncertain =>
        \A s \in Scopes : \A i \in DOMAIN pages[s].rows :
            pages[s].rows[i] = RowOfPost(pages[s].rows[i].id)

(* No page holds a post twice, however its answers overlap: two rows of one *)
(* id are one element to the list, which drops the second silently.         *)
RowsAreDistinct ==
    \A s \in Scopes : \A i, j \in DOMAIN pages[s].rows :
        pages[s].rows[i].id = pages[s].rows[j].id => i = j
(* What the feed shows between commands is true, and shown once.            *)
FeedIsTrue == RestingPostsAreTrue /\ RowsAreDistinct
=============================================================================
