----------------------------- MODULE CaretBlink -----------------------------
(***************************************************************************)
(* The caret of a text field: the blink cycle and the timers that drive    *)
(* it.  A timer cannot be taken back, it carries the epoch it was started  *)
(* under; edits, moves, presses and changes of the focus come in any order *)
(* with timers of earlier epochs still running.                            *)
(***************************************************************************)
EXTENDS Naturals, Bags

CONSTANT MaxEpoch       \* bound: disturbances of the cycle

ASSUME CaretAssumption == MaxEpoch \in Nat

VARIABLES
    focused, visible, paused, epoch,    \* CaretBlink
    timers                              \* a bag: what each will do, and its epoch

caretVars == <<focused, visible, paused, epoch, timers>>

Timer(does, e) == [does |-> does, epoch |-> e]

CaretTypeOK ==
    /\ {focused, visible, paused} \subseteq BOOLEAN
    /\ epoch \in 0..MaxEpoch
    /\ IsABag(timers) /\ BagToSet(timers) \subseteq [does : {"resume", "tick"}, epoch : 1..epoch]

CaretInit ==
    /\ visible = TRUE /\ paused = TRUE /\ focused = FALSE
    /\ epoch = 0 /\ timers = EmptyBag

InterruptKeepingEpoch ==    \* mutant
    /\ visible' = TRUE /\ paused' = TRUE
    /\ epoch' = IF epoch = 0 THEN 1 ELSE epoch
Interrupt ==
    /\ epoch < MaxEpoch
    /\ visible' = TRUE /\ paused' = TRUE
    /\ epoch' = epoch + 1

(* after_edit, a move of the caret, a press of the mouse: in focus or not.  *)
Disturb ==
    /\ Interrupt
    /\ timers' = timers (+) SetToBag({Timer("resume", epoch')})
    /\ UNCHANGED focused

FocusCaret ==
    /\ ~focused /\ focused' = TRUE
    /\ Interrupt
    /\ timers' = timers (+) SetToBag({Timer("resume", epoch')})

BlurCaret ==
    /\ focused /\ focused' = FALSE
    /\ Interrupt
    /\ UNCHANGED timers

Fired(t) == BagIn(t, timers)
Spent(t) == timers (-) SetToBag({t})

Resume(t) ==
    /\ Fired(t) /\ t.does = "resume"
    /\ IF t.epoch = epoch /\ focused
       THEN /\ paused' = FALSE
            /\ timers' = Spent(t) (+) SetToBag({Timer("tick", t.epoch)})
       ELSE timers' = Spent(t) /\ UNCHANGED paused
    /\ UNCHANGED <<focused, visible, epoch>>

Tick(t) ==
    /\ Fired(t) /\ t.does = "tick"
    /\ IF t.epoch = epoch /\ ~paused /\ focused
       THEN /\ visible' = ~visible
            /\ timers' = Spent(t) (+) SetToBag({Timer("tick", t.epoch)})
       ELSE timers' = Spent(t) /\ UNCHANGED visible
    /\ UNCHANGED <<focused, paused, epoch>>

CaretNext ==
    \/ Disturb \/ FocusCaret \/ BlurCaret
    \/ \E t \in BagToSet(timers) : Resume(t) \/ Tick(t)
CaretSpec == CaretInit /\ [][CaretNext]_caretVars

-----------------------------------------------------------------------------
(* The timers that would do something if they fired now.                   *)
Driving ==
    {t \in BagToSet(timers) : t.epoch = epoch /\ focused /\ (t.does = "tick" => ~paused)}

(* However edits, focus and timers of earlier epochs interleave: a focused *)
(* caret is driven by exactly one timer, so it neither freezes nor blinks  *)
(* at twice the pace, it is solid while that timer is to resume the cycle, *)
(* and one without focus by none.                                          *)
OneBlinkCycle ==
    /\ IF focused THEN \E t \in Driving : Driving = {t} /\ timers[t] = 1
                  ELSE Driving = {}
    /\ paused => visible
=============================================================================
