----------------------------- MODULE InputField -----------------------------
(***************************************************************************)
(* A text field: the document, its selection, the IME's composition and    *)
(* the undo history with its runs.  Keys, mouse, clipboard, the program    *)
(* and the input method change one document in any order; the first ones   *)
(* through replace(), the input method also behind the history's back,     *)
(* which hears of a composition only when it ends.                         *)
(*                                                                         *)
(* Offsets count characters.  `marked` and `composition` are set and       *)
(* cleared together in the code and are one variable here.                 *)
(***************************************************************************)
EXTENDS Naturals, Sequences

CONSTANTS
    Characters,
    Inserted,       \* what is typed, pasted or set
    Composed,       \* what the input method marks or commits
    LineBreak,      \* the character Enter inserts in a composer
    MaxLength,      \* max_length
    MaxFieldEdits   \* bound: edits, changes of a composition, resets and switches

ASSUME FieldAssumption ==
    /\ Inserted \cup Composed \subseteq Seq(Characters) /\ LineBreak \in Characters
    /\ MaxLength \in Nat /\ MaxFieldEdits \in Nat /\ <<>> \in Composed

VARIABLES
    text,
    selection,      \* anchor and head
    composition,    \* what the input method is composing, with the marked range
    undoStack, redoStack, lastKind, coalescing,     \* EditHistory
    disabled,
    drag,           \* a selection drag is in flight
    crashed,        \* replace_range was given a range outside the text
    base,           \* history: the text of the last reset
    interrupted,    \* history: a composition was changed but not ended, and forgotten
    edits           \* bound: how many of them there were

historyOfEdits == <<undoStack, redoStack, lastKind, coalescing>>
ghosts == <<base, interrupted>>
fieldVars == <<text, selection, composition, historyOfEdits, disabled, drag, crashed, ghosts, edits>>

NoComposition == [open |-> FALSE]
Cursor(at) == [anchor |-> at, head |-> at]
FirstOf(sel) == IF sel.anchor <= sel.head THEN sel.anchor ELSE sel.head
LastOf(sel) == IF sel.anchor <= sel.head THEN sel.head ELSE sel.anchor
Span(sel) == [anchor |-> FirstOf(sel), head |-> LastOf(sel)]
Top(stack) == stack[Len(stack)]
Popped(stack) == SubSeq(stack, 1, Len(stack) - 1)

Slice(doc, from, to) == SubSeq(doc, from + 1, to)
Clamp(at) == IF at <= Len(text) THEN at ELSE Len(text)
Splice(doc, from, to, new) == Slice(doc, 0, from) \o new \o Slice(doc, to, Len(doc))

FieldTypeOK ==
    /\ {text, base} \subseteq Seq(Characters) /\ DOMAIN selection = {"anchor", "head"}
    /\ composition.open \in BOOLEAN
    /\ Len(undoStack) + Len(redoStack) <= edits /\ edits <= MaxFieldEdits
    /\ lastKind \in {"none", "typing", "deleting", "atomic"}
    /\ {coalescing, disabled, drag, crashed, interrupted} \subseteq BOOLEAN

FieldInit ==
    /\ text = <<>> /\ base = <<>> /\ selection = Cursor(0)
    /\ composition = NoComposition
    /\ undoStack = <<>> /\ redoStack = <<>> /\ lastKind = "none" /\ coalescing = FALSE
    /\ disabled = FALSE /\ drag = FALSE
    /\ crashed = FALSE /\ interrupted = FALSE /\ edits = 0

-----------------------------------------------------------------------------
(* The history.                                                            *)
CanMergeAnywhere(previous, edit, kind) ==   \* mutant: the run need not be contiguous
    kind = "typing" /\ edit.removed = <<>> /\ previous.removed = <<>>
CanMerge(previous, edit, kind) ==
    \/ /\ kind = "typing"
       /\ edit.at = previous.at + Len(previous.inserted)
       /\ edit.removed = <<>> /\ previous.removed = <<>>
       /\ \A i \in DOMAIN edit.inserted : edit.inserted[i] # LineBreak
       /\ previous.inserted # <<>> => Top(previous.inserted) # LineBreak
    \/ /\ kind = "deleting"
       /\ edit.inserted = <<>> /\ previous.inserted = <<>>
       /\ edit.at + Len(edit.removed) = previous.at \/ edit.at = previous.at

Merged(previous, edit, kind) ==
    IF kind = "typing"
    THEN [previous EXCEPT !.inserted = @ \o edit.inserted, !.after = edit.after]
    ELSE IF edit.at + Len(edit.removed) = previous.at
    THEN [previous EXCEPT !.at = edit.at, !.removed = edit.removed \o @, !.after = edit.after]
    ELSE [previous EXCEPT !.removed = @ \o edit.removed, !.after = edit.after]

PushEdit(edit, kind) ==
    /\ redoStack' = <<>>
    /\ lastKind' = kind
    /\ IF /\ coalescing /\ lastKind = kind
          /\ undoStack # <<>> /\ CanMerge(Top(undoStack), edit, kind)
       THEN /\ undoStack' = [undoStack EXCEPT ![Len(undoStack)] = Merged(@, edit, kind)]
            /\ UNCHANGED coalescing
       ELSE /\ undoStack' = Append(undoStack, edit)
            /\ coalescing' = TRUE

Edit(at, removed, inserted, before, after) ==
    [at |-> at, removed |-> removed, inserted |-> inserted, before |-> before, after |-> after]

(* The limit counts what survives the replacement.                         *)
Fit(new, from, to) ==
    LET kept == Len(text) - (to - from)
    IN IF kept >= MaxLength THEN <<>>
       ELSE SubSeq(new, 1, IF Len(new) <= MaxLength - kept THEN Len(new) ELSE MaxLength - kept)

-----------------------------------------------------------------------------
(* What edits the document and says so to the history at once.             *)
Replace(start, end, new, kind) ==
    /\ ~disabled
    /\ LET from == Clamp(start)
           to == IF end < from THEN from ELSE Clamp(end)
           insertion == Fit(new, from, to)
           caret == from + Len(insertion)
       IN /\ insertion # <<>> \/ from # to
          /\ text' = Splice(text, from, to, insertion)
          /\ selection' = Cursor(caret)
          /\ PushEdit(Edit(from, Slice(text, from, to), insertion, Span(selection), Cursor(caret)),
                  kind)
    /\ composition' = NoComposition
    /\ interrupted' = (interrupted \/ composition.open)
    /\ UNCHANGED <<disabled, drag, crashed, base>>

ReplaceSelection(new, kind) == Replace(FirstOf(selection), LastOf(selection), new, kind)
HasSelection == selection.anchor # selection.head

Paste(new) == ReplaceSelection(new, "atomic")           \* and insert()
SetText(new) == Replace(0, Len(text), new, "atomic")    \* and clear()
Confirm == ReplaceSelection(<<LineBreak>>, "typing")
Cut ==      \* reads what it copies first
    /\ HasSelection
    /\ IF LastOf(selection) <= Len(text) THEN ReplaceSelection(<<>>, "atomic")
       ELSE /\ crashed' = TRUE
            /\ UNCHANGED <<text, selection, composition, historyOfEdits, disabled, drag, ghosts>>

(* To the next grapheme, or the next word.                                 *)
Backspace ==
    IF HasSelection THEN ReplaceSelection(<<>>, "deleting")
    ELSE \E start \in 0..Clamp(selection.head) :
            start < selection.head /\ Replace(start, selection.head, <<>>, "deleting")
Delete ==
    IF HasSelection THEN ReplaceSelection(<<>>, "deleting")
    ELSE \E end \in selection.head..Len(text) :
            end > selection.head /\ Replace(selection.head, end, <<>>, "deleting")

ResetText(new) ==
    /\ text' = Fit(new, 0, Len(text)) /\ base' = text'
    /\ selection' = Cursor(Len(text'))
    /\ composition' = NoComposition
    /\ undoStack' = <<>> /\ redoStack' = <<>> /\ lastKind' = "none" /\ coalescing' = FALSE
    /\ interrupted' = FALSE
    /\ UNCHANGED <<disabled, drag, crashed>>

-----------------------------------------------------------------------------
(* The history runs backwards and forwards.                                *)
RunHistory(edit, gone, come, sel) ==
    /\ lastKind' = "none" /\ coalescing' = FALSE
    /\ interrupted' = (interrupted \/ composition.open)
    /\ IF edit.at + Len(gone) <= Len(text)
       THEN /\ text' = Splice(text, edit.at, edit.at + Len(gone), come)
            /\ selection' = sel
            /\ composition' = NoComposition
            /\ UNCHANGED crashed
       ELSE /\ crashed' = TRUE
            /\ UNCHANGED <<text, selection, composition>>
    /\ UNCHANGED <<disabled, drag, base>>

Undo ==
    /\ ~disabled /\ undoStack # <<>>
    /\ LET edit == Top(undoStack) IN
       /\ undoStack' = Popped(undoStack) /\ redoStack' = Append(redoStack, edit)
       /\ RunHistory(edit, edit.inserted, edit.removed, edit.before)

Redo ==
    /\ ~disabled /\ redoStack # <<>>
    /\ LET edit == Top(redoStack) IN
       /\ redoStack' = Popped(redoStack) /\ undoStack' = Append(undoStack, edit)
       /\ RunHistory(edit, edit.removed, edit.inserted, edit.after)

-----------------------------------------------------------------------------
(* The input method.  It names a range of the document, or none: then it   *)
(* means what it has marked, or the selection.                             *)
Ranges == {r \in [from : 0..Len(text), to : 0..Len(text)] : r.from <= r.to}
ImeRange ==
    IF composition.open THEN [from |-> composition.from, to |-> composition.to]
    ELSE [from |-> Clamp(FirstOf(selection)), to |-> Clamp(LastOf(selection))]
Strays(range) == composition.open /\ range # ImeRange

(* replace_text_in_range: a composition commits as one step, spanning from *)
(* where it began.                                                         *)
Commit(range, new) ==
    /\ ~disabled /\ composition.open
    /\ LET insertion == Fit(new, range.from, range.to)
           at == IF composition.at <= range.from THEN composition.at ELSE range.from
           end == range.from + Len(insertion)
       IN /\ text' = Splice(text, range.from, range.to, insertion)
          /\ selection' = Cursor(end)
          /\ PushEdit(Edit(at, composition.removed, Slice(text', at, end),
                       composition.before, Cursor(end)), "atomic")
    /\ composition' = NoComposition
    /\ interrupted' = (interrupted \/ Strays(range))
    /\ UNCHANGED <<disabled, drag, crashed, base>>

Type(range, new) ==
    \/ ~composition.open /\ Replace(range.from, range.to, new, "typing")
    \/ Commit(range, new)

(* replace_and_mark_text_in_range; what is left empty ends the composition. *)
Begun(range) ==
    IF composition.open THEN composition
    ELSE [open |-> TRUE, at |-> range.from, removed |-> Slice(text, range.from, range.to),
          before |-> Span(selection), from |-> range.from, to |-> range.to]

EndEmpty(ended, sel) ==
    /\ composition' = NoComposition
    /\ IF ended.removed # <<>>
       THEN PushEdit(Edit(ended.at, ended.removed, <<>>, ended.before, sel), "atomic")
       ELSE UNCHANGED historyOfEdits

Mark(range, new) ==
    /\ ~disabled
    /\ LET insertion == Fit(new, range.from, range.to)
           end == range.from + Len(insertion)
       IN /\ text' = Splice(text, range.from, range.to, insertion)
          /\ \E a \in range.from..end, h \in range.from..end :
                a <= h /\ selection' = [anchor |-> a, head |-> h]
          /\ IF insertion = <<>>
             THEN EndEmpty(Begun(range), selection')
             ELSE /\ composition' = [Begun(range) EXCEPT !.from = range.from, !.to = end]
                  /\ UNCHANGED historyOfEdits
    /\ interrupted' = (interrupted \/ Strays(range))
    /\ UNCHANGED <<disabled, drag, crashed, base>>

Unmark ==
    /\ composition.open
    /\ composition' = NoComposition
    /\ LET at == IF composition.at <= composition.to THEN composition.at ELSE composition.to
           inserted == Slice(text, at, composition.to)
       IN IF inserted # composition.removed
          THEN PushEdit(Edit(at, composition.removed, inserted, composition.before, Span(selection)),
                    "atomic")
          ELSE UNCHANGED historyOfEdits
    /\ UNCHANGED <<text, selection, disabled, drag, crashed, ghosts>>

(* Escape.                                                                 *)
CancelComposition ==
    /\ composition.open
    /\ text' = Splice(text, composition.from, composition.to, <<>>)
    /\ selection' = Cursor(composition.from)
    /\ EndEmpty(composition, Cursor(composition.from))
    /\ UNCHANGED <<disabled, drag, crashed, ghosts>>

-----------------------------------------------------------------------------
(* What moves the selection: keys and the program, a press of the mouse, a *)
(* drag, which does not end the run of typing, and its end.                *)
Select(sel) ==
    /\ selection' = sel
    /\ UNCHANGED <<text, composition, undoStack, redoStack, lastKind, disabled, crashed, ghosts>>

MoveCaret(sel) == Select(sel) /\ coalescing' = FALSE /\ UNCHANGED drag
MouseDown(sel) == ~disabled /\ Select(sel) /\ coalescing' = FALSE /\ drag' = TRUE
MouseDrag(sel) == drag /\ Select(sel) /\ UNCHANGED <<coalescing, drag>>
MouseUp == drag /\ drag' = FALSE /\ Select(selection) /\ UNCHANGED coalescing

SetDisabled ==
    /\ disabled' = ~disabled
    /\ UNCHANGED <<text, selection, composition, historyOfEdits, drag, crashed, ghosts>>

Selections == [anchor : {selection.anchor} \cup 0..Len(text), head : 0..Len(text)]

EditOrCompose ==
    \/ \E new \in Inserted : Paste(new) \/ SetText(new)
    \/ Confirm \/ Cut \/ Backspace \/ Delete
    \/ \E range \in Ranges \cup {ImeRange} :
          \/ \E new \in Inserted : ~composition.open /\ Type(range, new)
          \/ \E new \in Composed : (composition.open /\ Type(range, new)) \/ Mark(range, new)
    \/ Unmark \/ CancelComposition

FieldNext ==
    /\ ~crashed
    /\ \/ /\ edits < MaxFieldEdits /\ edits' = edits + 1
          /\ EditOrCompose \/ SetDisabled \/ \E new \in Inserted : ResetText(new)
       \/ UNCHANGED edits /\ (Undo \/ Redo)
       \/ /\ edits < MaxFieldEdits /\ UNCHANGED edits   \* while an edit may follow
          /\ (\E sel \in Selections : MoveCaret(sel) \/ MouseDown(sel) \/ MouseDrag(sel)) \/ MouseUp
FieldSpec == FieldInit /\ [][FieldNext]_fieldVars

-----------------------------------------------------------------------------
(* The documents undo and redo lead to, from the text without what is only *)
(* being composed.                                                         *)
Committed ==
    IF composition.open THEN Splice(text, composition.at, composition.to, composition.removed)
    ELSE text
Holds(doc, at, piece) ==
    at + Len(piece) <= Len(doc) /\ Slice(doc, at, at + Len(piece)) = piece
Within(sel, doc) == LastOf(sel) <= Len(doc)
Earlier[n \in 0..Len(undoStack)] ==       \* n steps back
    IF n = 0 THEN Committed
    ELSE LET edit == undoStack[Len(undoStack) + 1 - n]
         IN Splice(Earlier[n - 1], edit.at, edit.at + Len(edit.inserted), edit.removed)
Ahead[n \in 0..Len(redoStack)] ==         \* n steps forward
    IF n = 0 THEN Committed
    ELSE LET edit == redoStack[Len(redoStack) + 1 - n]
         IN Splice(Ahead[n - 1], edit.at, edit.at + Len(edit.removed), edit.inserted)

(* Every step of undo finds in the document exactly what it put there, all *)
(* of them together lead back to the text of the last reset, and what is   *)
(* redone finds what undo brought back, with the selection in the text:    *)
(* through runs of typing, compositions over a selection, cancelled or     *)
(* committed or left, drags, the limit.  Only where an edit or an undo     *)
(* forgets a composition that has not ended is there no such promise.      *)
UndoRunsBack ==
    ~interrupted =>
        /\ ~crashed /\ LastOf(selection) <= Len(text)
        /\ \A n \in 1..Len(undoStack) :
              LET edit == undoStack[Len(undoStack) + 1 - n] IN
              /\ Holds(Earlier[n - 1], edit.at, edit.inserted)
              /\ Within(edit.before, Earlier[n])
        /\ Earlier[Len(undoStack)] = base
        /\ \A n \in 1..Len(redoStack) :
              LET edit == redoStack[Len(redoStack) + 1 - n] IN
              /\ Holds(Ahead[n - 1], edit.at, edit.removed)
              /\ Within(edit.after, Ahead[n])

(* An edit is one replacement, stored so it can be run in either direction *)
(* (the comment on Edit, edit_history.rs:3): undo and redo find the range  *)
(* they replace.                                                           *)
EditsRunEitherWay == ~crashed
=============================================================================
