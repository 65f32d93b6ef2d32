------------------------------ MODULE Debounce ------------------------------
(***************************************************************************)
(* A trailing debouncer, over a clock.  Every edit replaces the task that  *)
(* is waiting with one that will deliver the newest message once `window`  *)
(* has passed, or once the burst has lasted `max_wait`.  A task that is    *)
(* delivering into a full channel can still be aborted.                    *)
(***************************************************************************)
EXTENDS Naturals, Sequences, FiniteSets

CONSTANTS
    Window,
    MaxWait,        \* the ceiling; NoMaxWait when there is none
    NoMaxWait,
    MaxEdits,       \* bound: edits
    MaxTime,        \* bound: the clock
    Capacity        \* of the channel delivered into

(* with_max_wait ignores a ceiling shorter than the window. *)
ASSUME MaxWaitAssumption ==
    /\ {Window, MaxEdits, MaxTime, Capacity} \subseteq Nat
    /\ MaxWait = NoMaxWait \/ (MaxWait \in Nat /\ MaxWait >= Window)

VARIABLES
    time,
    edits,          \* edits so far; an edit is its number
    editedAt,       \* editedAt[i]: when
    task,           \* task[i]: where the task edit i spawned is
    deadline,       \* deadline[i]: when it fires by itself
    pending,        \* the edit whose task the debouncer holds, or 0
    burstStarted,   \* when the burst began, or NoTime
    channel,        \* messages not yet taken
    ran,            \* ran[i]: when edit i was delivered
    asked,          \* the edits whose run was asked for (flush)
    woken,          \* the edits whose task got past its timer
    dropped         \* the debouncer is gone

debounceVars == <<time, edits, editedAt, task, deadline, pending, burstStarted,
                  channel, ran, asked, woken, dropped>>

Edits == 1..MaxEdits
NoTime == MaxTime + 1
Times == 0..NoTime

DebounceTypeOK ==
    /\ time \in 0..MaxTime /\ edits \in 0..MaxEdits
    /\ editedAt \in [Edits -> Times] /\ ran \in [Edits -> Times]
    /\ task \in [Edits -> {"none", "asleep", "signalled", "sending", "done", "aborted"}]
    /\ deadline \in [Edits -> 0..(MaxTime + Window)]
    /\ pending \in 0..MaxEdits /\ burstStarted \in Times
    /\ channel \in Seq(Edits) /\ Len(channel) <= Capacity
    /\ asked \subseteq Edits /\ woken \subseteq Edits /\ dropped \in BOOLEAN

DebounceInit ==
    /\ time = 0 /\ edits = 0
    /\ editedAt = [i \in Edits |-> NoTime] /\ ran = [i \in Edits |-> NoTime]
    /\ task = [i \in Edits |-> "none"]
    /\ deadline = [i \in Edits |-> 0]
    /\ pending = 0 /\ burstStarted = NoTime
    /\ channel = <<>> /\ asked = {} /\ woken = {} /\ dropped = FALSE

(* abort(): a task that finished is left alone. *)
Aborting(t, i) == IF i # 0 /\ t[i] \in {"asleep", "signalled", "sending"}
                  THEN [t EXCEPT ![i] = "aborted"] ELSE t

EarlierOf(a, b) == IF a < b THEN a ELSE b

RunUncapped ==              \* mutant: max_wait is forgotten
    LET i == edits + 1
        began == IF burstStarted = NoTime THEN time ELSE burstStarted IN
    /\ ~dropped /\ edits < MaxEdits
    /\ edits' = i /\ editedAt' = [editedAt EXCEPT ![i] = time]
    /\ burstStarted' = began
    /\ task' = [Aborting(task, pending) EXCEPT ![i] = "asleep"]
    /\ deadline' = [deadline EXCEPT ![i] = time + Window]
    /\ pending' = i
    /\ UNCHANGED <<time, channel, ran, asked, woken, dropped>>
Run ==
    LET i == edits + 1
        began == IF burstStarted = NoTime THEN time ELSE burstStarted IN
    /\ ~dropped /\ edits < MaxEdits
    /\ edits' = i /\ editedAt' = [editedAt EXCEPT ![i] = time]
    /\ burstStarted' = began
    /\ task' = [Aborting(task, pending) EXCEPT ![i] = "asleep"]
    /\ deadline' = [deadline EXCEPT ![i] =
                       IF MaxWait = NoMaxWait THEN time + Window
                       ELSE EarlierOf(time + Window, began + MaxWait)]
    /\ pending' = i
    /\ UNCHANGED <<time, channel, ran, asked, woken, dropped>>

Flush ==
    /\ ~dropped
    /\ burstStarted' = NoTime /\ pending' = 0
    /\ task' = IF pending # 0 /\ task[pending] = "asleep"
               THEN [task EXCEPT ![pending] = "signalled"] ELSE task
    /\ asked' = IF pending = 0 THEN asked ELSE asked \cup {pending}
    /\ UNCHANGED <<time, edits, editedAt, deadline, channel, ran, woken, dropped>>

Cancel ==
    /\ ~dropped
    /\ burstStarted' = NoTime /\ pending' = 0
    /\ task' = Aborting(task, pending)
    /\ UNCHANGED <<time, edits, editedAt, deadline, channel, ran, asked, woken, dropped>>

DropDebouncer ==
    /\ ~dropped /\ dropped' = TRUE
    /\ pending' = 0 /\ task' = Aborting(task, pending)
    /\ UNCHANGED <<time, edits, editedAt, deadline, burstStarted, channel, ran, asked, woken>>

(* The task: select! over the deadline and the signal, then send().await. *)
Wake(i) ==
    /\ task[i] = "signalled" \/ (task[i] = "asleep" /\ time >= deadline[i])
    /\ task' = [task EXCEPT ![i] = "sending"]
    /\ woken' = woken \cup {i}
    /\ UNCHANGED <<time, edits, editedAt, deadline, pending, burstStarted, channel, ran, asked, dropped>>

Deliver(i) ==
    /\ task[i] = "sending" /\ Len(channel) < Capacity
    /\ task' = [task EXCEPT ![i] = "done"]
    /\ channel' = Append(channel, i)
    /\ ran' = [ran EXCEPT ![i] = time]
    /\ UNCHANGED <<time, edits, editedAt, deadline, pending, burstStarted, asked, woken, dropped>>

Take ==
    /\ channel # <<>> /\ channel' = Tail(channel)
    /\ UNCHANGED <<time, edits, editedAt, task, deadline, pending, burstStarted, ran, asked, woken, dropped>>

(* A timer fires on its tick: time does not run past a task that is due.    *)
TimePasses ==
    /\ time < MaxTime
    /\ \A i \in Edits : ~(task[i] = "asleep" /\ time >= deadline[i])
    /\ time' = time + 1
    /\ UNCHANGED <<edits, editedAt, task, deadline, pending, burstStarted, channel, ran, asked, woken, dropped>>

DebounceNext ==
    \/ Run \/ Flush \/ Cancel \/ DropDebouncer \/ Take \/ TimePasses
    \/ \E i \in Edits : Wake(i) \/ Deliver(i)
DebounceSpec == DebounceInit /\ [][DebounceNext]_debounceVars

-----------------------------------------------------------------------------
Alive(i) == task[i] \in {"asleep", "signalled", "sending"}

(* Only the newest edit waits: every other task that has not ended was      *)
(* flushed, which let it go, and an edit a later one replaced is never      *)
(* delivered after it.  A dropped debouncer leaves nothing waiting.         *)
OnlyTheNewest ==
    \A i \in Edits \ asked :
        /\ Alive(i) => i = pending /\ ~dropped
        /\ ran[i] # NoTime /\ i < edits => ran[i] <= editedAt[i + 1]

(* A user who types without a pause still gets an answer: max_wait after an *)
(* edit of a burst that was not cancelled, its task or a later one has run. *)
CeilingHolds ==
    MaxWait # NoMaxWait =>
        \A i \in 1..edits :
            burstStarted <= editedAt[i] /\ editedAt[i] + MaxWait < time /\ ~dropped
                => \E j \in i..edits : j \in woken

(* Of a burst the newest edit runs, alone, and no later than the ceiling.   *)
NewestRunsInTime == OnlyTheNewest /\ CeilingHolds

(* Work runs after `window` of quiet, and never once per edit (the doc      *)
(* comment of Debouncer): a run nobody asked for comes a window or more     *)
(* after the first edit that followed the run before it.                    *)
NeverOncePerEdit ==
    \A i, j \in Edits \ asked :
        i < j /\ ran[i] # NoTime /\ ran[j] # NoTime => ran[j] >= editedAt[i + 1] + Window
=============================================================================
