--------------------------- MODULE MemberProofs -----------------------------
(***************************************************************************)
(* What holds of what members see and press: the follow button, presence,  *)
(* the session list and the feed, for any number of profiles, accounts,    *)
(* screens, sessions, posts, presses, requests and dropped connections, and*)
(* every size of a page and of the channel.  The recursion of AppendNew is *)
(* followed step by step.                                                  *)
(***************************************************************************)
EXTENDS UserFollow, Presence, SessionRepository, PostRepository, Stepwise,
        SequenceTheorems, FiniteSetTheorems, TLAPS

(* The follow button.                                                       *)

Followed(profile) == profile \in follows[viewer]

EntriesOK ==
    /\ viewer \in Viewers \cup {NoViewer}
    /\ loaded \in [Profiles -> BOOLEAN] /\ shown \in [Profiles -> BOOLEAN]
    /\ inFlight \in [Profiles -> BOOLEAN] /\ committed \in [Profiles -> BOOLEAN]
    /\ generation \in [Profiles -> Nat] /\ debounced \in [Profiles -> Nat]
    /\ call \in Calls \cup {NoCall}
    /\ follows \in [Viewers -> SUBSET Profiles] /\ lost \in Nat
    /\ toggledBy \in [Profiles -> Viewers \cup {NoViewer}]

Messages == Commands \cup [op : {"commit"}, profile : Profiles, generation : Nat]

(* A commit on its way is of an older generation, or of the last press of  *)
(* a profile that is still loaded for the account that pressed.            *)
Sound(profile, made) ==
    /\ made <= generation[profile]
    /\ made = generation[profile] => loaded[profile] /\ toggledBy[profile] = viewer

SoundAfter(profile, made) ==
    /\ made <= generation'[profile]
    /\ made = generation'[profile] => loaded'[profile] /\ toggledBy'[profile] = viewer'

CommitsAreSound ==
    /\ queue \in Seq(Messages)
    /\ \A i \in 1..Len(queue) :
          queue[i].op = "commit" => Sound(queue[i].profile, queue[i].generation)
    /\ \A profile \in Profiles :
          debounced[profile] # 0 => Sound(profile, debounced[profile])

(* Profiles are loaded for an account, and only they are followed.         *)
LoadedForViewer ==
    /\ \A profile \in Profiles :
          (loaded[profile] => viewer # NoViewer) /\ (inFlight[profile] => loaded[profile])
    /\ call # NoCall => viewer # NoViewer

(* What a rollback returns to is what the server has.                      *)
BaselineIsTrue ==
    \A profile \in Profiles :
        lost = 0 /\ loaded[profile] => (committed[profile] <=> Followed(profile))

(* A follow being sent is of the active account, which pressed the button, *)
(* and differs from what a rollback returns to.                            *)
CallIsFresh ==
    call # NoCall /\ call.op = "follow" =>
        /\ loaded[call.profile]
        /\ call.viewer = viewer /\ toggledBy[call.profile] = viewer
        /\ call.desired <=> ~committed[call.profile]

FollowInv ==
    /\ EntriesOK /\ CommitsAreSound /\ LoadedForViewer
    /\ BaselineIsTrue /\ CallIsFresh /\ RestingButtonIsTrue

LEMMA FollowInit == Init => FollowInv
<1> SUFFICES ASSUME Init PROVE FollowInv
  OBVIOUS
<1> USE FollowAssumption DEF Init, Nowhere
<1>1. EntriesOK
  BY DEF EntriesOK
<1>2. CommitsAreSound
  BY DEF CommitsAreSound
<1>3. LoadedForViewer /\ BaselineIsTrue /\ CallIsFresh /\ RestingButtonIsTrue
  BY DEF LoadedForViewer, BaselineIsTrue, CallIsFresh, RestingButtonIsTrue
<1>4. QED
  BY <1>1, <1>2, <1>3 DEF FollowInv

-----------------------------------------------------------------------------
(* Commits on their way.                                                   *)
LEMMA ShiftedTail ==
    ASSUME NEW S, NEW seq \in Seq(S), seq # <<>>, NEW i \in 1..Len(Tail(seq))
    PROVE  i + 1 \in 1..Len(seq) /\ Tail(seq)[i] = seq[i + 1]
  BY HeadTailProperties, LenProperties

LEMMA CommitsKept ==
    ASSUME CommitsAreSound,
           \/ queue' = queue
           \/ queue # <<>> /\ queue' = Tail(queue)
           \/ \E message \in Messages :
                 /\ queue' = Append(queue, message)
                 /\ message.op = "commit" => SoundAfter(message.profile, message.generation),
           \A profile \in Profiles, made \in Nat :
              Sound(profile, made) => SoundAfter(profile, made),
           \A profile \in Profiles :
              debounced'[profile] # 0 => SoundAfter(profile, debounced'[profile])
    PROVE  CommitsAreSound'
<1> DEFINE Fit(message) == message.op = "commit" => SoundAfter(message.profile, message.generation)
<1>1. queue \in Seq(Messages)
  BY DEF CommitsAreSound
<1>2. ASSUME NEW message \in Messages, message.op = "commit"
      PROVE  message.profile \in Profiles /\ message.generation \in Nat
  BY <1>2 DEF Messages, Commands
<1>3. \A i \in 1..Len(queue) : Fit(queue[i])
  <2>1. SUFFICES ASSUME NEW i \in 1..Len(queue), queue[i].op = "commit"
                 PROVE  SoundAfter(queue[i].profile, queue[i].generation)
    OBVIOUS
  <2>2. queue[i] \in Messages
    BY <1>1
  <2>3. Sound(queue[i].profile, queue[i].generation)
    BY <2>1 DEF CommitsAreSound
  <2>4. QED
    BY <1>2, <2>1, <2>2, <2>3
<1>4. SUFFICES queue' \in Seq(Messages) /\ \A i \in 1..Len(queue') : Fit(queue'[i])
  BY DEF CommitsAreSound, Sound, SoundAfter
<1> HIDE DEF Fit
<1>5. CASE queue' = queue
  BY <1>1, <1>3, <1>5
<1>6. CASE queue # <<>> /\ queue' = Tail(queue)
  <2>1. queue' \in Seq(Messages) /\ Len(queue') = Len(queue) - 1 /\ Len(queue) \in Nat
    BY <1>1, <1>6
  <2>2. ASSUME NEW i \in 1..Len(queue')
        PROVE  i + 1 \in 1..Len(queue) /\ queue'[i] = queue[i + 1]
    BY <1>1, <1>6, <2>1, ShiftedTail
  <2>3. QED
    BY <1>3, <2>1, <2>2
<1>7. ASSUME NEW message \in Messages, queue' = Append(queue, message), Fit(message)
      PROVE  queue' \in Seq(Messages) /\ \A i \in 1..Len(queue') : Fit(queue'[i])
  <2>1. queue' \in Seq(Messages) /\ Len(queue') = Len(queue) + 1
    BY <1>1, <1>7
  <2>2. \A i \in 1..Len(queue') :
           \/ i \in 1..Len(queue) /\ queue'[i] = queue[i]
           \/ queue'[i] = message
    BY <1>1, <1>7, <2>1
  <2>3. QED
    BY <1>3, <1>7, <2>1, <2>2
<1>8. QED
  BY <1>5, <1>6, <1>7 DEF Fit

(* The command a handler takes is typed.                                   *)
LEMMA TakenTyped ==
    ASSUME CommitsAreSound, NEW op, Take(op)
    PROVE  /\ Taken \in Messages /\ Taken.op = op
           /\ op \in {"activate", "refresh", "toggle", "commit"} => Taken.profile \in Profiles
           /\ op = "setViewer" => Taken.viewer \in Viewers \cup {NoViewer}
           /\ op = "commit" => Sound(Taken.profile, Taken.generation)
<1>1. queue \in Seq(Messages) /\ queue # <<>>
  BY DEF CommitsAreSound, Take
<1>2. Taken \in Messages /\ Taken = queue[1] /\ 1 \in 1..Len(queue)
  BY <1>1 DEF Taken
<1>3. Taken.op = op
  BY DEF Take, Taken
<1>4. QED
  BY <1>2, <1>3 DEF Messages, Commands, CommitsAreSound

USE DEF entryVars, serverVars

LEMMA DispatchStep ==
    ASSUME FollowInv, NEW command \in Commands, Dispatch(command)
    PROVE  FollowInv'
<1> USE DEF FollowInv
<1>1. /\ UNCHANGED <<viewer, entryVars, generation, debounced, call, serverVars, toggledBy>>
      /\ queue' = Append(queue, command) /\ command \in Messages /\ command.op # "commit"
  BY DEF Dispatch, Commands, Messages
<1>2. CommitsAreSound'
  BY <1>1, CommitsKept DEF Sound, SoundAfter, CommitsAreSound
<1>3. QED
  BY <1>1, <1>2 DEF EntriesOK, LoadedForViewer, BaselineIsTrue, CallIsFresh,
                    RestingButtonIsTrue, Followed

LEMMA FireStep ==
    ASSUME FollowInv, NEW profile \in Profiles, Fire(profile)
    PROVE  FollowInv'
<1> USE DEF FollowInv
<1>1. debounced[profile] \in Nat /\ Sound(profile, debounced[profile])
  BY DEF Fire, EntriesOK, CommitsAreSound
<1>2. PICK message \in Messages :
         /\ message = [op |-> "commit", profile |-> profile, generation |-> debounced[profile]]
         /\ queue' = Append(queue, message)
  BY <1>1 DEF Fire, Messages
<1>3. UNCHANGED <<viewer, entryVars, generation, call, serverVars, toggledBy>>
  BY DEF Fire
<1>4. debounced' \in [Profiles -> Nat] /\ \A other \in Profiles : debounced'[other] \in {0, debounced[other]}
  BY DEF Fire, EntriesOK
<1>5. SoundAfter(message.profile, message.generation)
  BY <1>1, <1>2, <1>3 DEF Sound, SoundAfter
<1>6. CommitsAreSound'
  BY <1>2, <1>3, <1>4, <1>5, CommitsKept DEF Sound, SoundAfter, CommitsAreSound
<1>7. QED
  BY <1>3, <1>4, <1>6 DEF EntriesOK, LoadedForViewer, BaselineIsTrue, CallIsFresh,
                          RestingButtonIsTrue, Followed

LEMMA ResetStep ==
    ASSUME FollowInv, Reset, call = NoCall, queue # <<>>, queue' = Tail(queue),
           viewer' \in Viewers \cup {NoViewer}, UNCHANGED <<call, serverVars, toggledBy>>
    PROVE  FollowInv'
<1> USE DEF FollowInv, Nowhere
<1>1. EntriesOK'
  BY DEF Reset, EntriesOK
<1>2. \A profile \in Profiles, made \in Nat : Sound(profile, made) => SoundAfter(profile, made)
  BY DEF Reset, Sound, SoundAfter, EntriesOK
<1>3. \A profile \in Profiles : debounced'[profile] = 0
  BY DEF Reset
<1>4. CommitsAreSound'
  BY <1>2, <1>3, CommitsKept
<1>5. \A profile \in Profiles : ~loaded'[profile] /\ ~inFlight'[profile]
  BY DEF Reset
<1>6. QED
  BY <1>1, <1>4, <1>5 DEF LoadedForViewer, BaselineIsTrue, CallIsFresh, RestingButtonIsTrue

LEMMA ViewerStep ==
    ASSUME FollowInv, SetViewer \/ ResetAll
    PROVE  FollowInv'
<1> USE DEF FollowInv
<1>1. call = NoCall /\ queue # <<>> /\ queue' = Tail(queue) /\ UNCHANGED <<call, serverVars, toggledBy>>
  BY DEF SetViewer, ResetAll, Take
<1>2. viewer' \in Viewers \cup {NoViewer}
  BY TakenTyped DEF SetViewer, ResetAll, EntriesOK
<1>3. CASE Reset
  BY <1>1, <1>2, <1>3, ResetStep
<1>4. CASE viewer' = viewer /\ UNCHANGED <<entryVars, generation, debounced>>
  <2>1. CommitsAreSound'
    BY <1>1, <1>4, CommitsKept DEF Sound, SoundAfter, CommitsAreSound
  <2>2. QED
    BY <1>1, <1>4, <2>1 DEF EntriesOK, LoadedForViewer, BaselineIsTrue, CallIsFresh,
                            RestingButtonIsTrue, Followed
<1>5. QED
  BY <1>3, <1>4 DEF SetViewer, ResetAll

LEMMA LoadStep ==
    ASSUME FollowInv, Activate \/ Refresh
    PROVE  FollowInv'
<1> USE FollowAssumption DEF FollowInv
<1>1. /\ call = NoCall /\ queue # <<>> /\ queue' = Tail(queue) /\ Taken.profile \in Profiles
      /\ UNCHANGED <<viewer, entryVars, debounced, serverVars, toggledBy>>
  BY TakenTyped DEF Activate, Refresh, Take
<1>2. PICK profile \in Profiles :
         \/ UNCHANGED <<generation, call>>
         \/ /\ viewer # NoViewer
            /\ generation' = [generation EXCEPT ![profile] = @ + 1]
            /\ call' = [op |-> "load", profile |-> profile]
  BY <1>1 DEF Activate, Refresh, Load, BumpGeneration
<1>3. EntriesOK'
  <2>1. call' \in Calls \cup {NoCall} /\ generation' \in [Profiles -> Nat]
    BY <1>1, <1>2 DEF EntriesOK, Calls
  <2>2. QED
    BY <1>1, <2>1 DEF EntriesOK
<1>4. \A other \in Profiles, made \in Nat : Sound(other, made) => SoundAfter(other, made)
  <2>1. \A other \in Profiles :
           generation[other] \in Nat /\ generation'[other] \in {generation[other], generation[other] + 1}
    <3>1. generation \in [Profiles -> Nat]
      BY DEF EntriesOK
    <3>2. CASE generation' = generation
      BY <3>1, <3>2
    <3>3. CASE generation' = [generation EXCEPT ![profile] = @ + 1]
      BY <3>1, <3>3
    <3>4. QED
      BY <1>2, <3>2, <3>3
  <2>2. QED
    BY <1>1, <2>1 DEF Sound, SoundAfter
<1>5. CommitsAreSound'
  BY <1>1, <1>4, CommitsKept DEF CommitsAreSound, EntriesOK
<1>6. LoadedForViewer' /\ CallIsFresh'
  BY <1>1, <1>2 DEF LoadedForViewer, CallIsFresh
<1>7. BaselineIsTrue' /\ RestingButtonIsTrue'
  BY <1>1 DEF BaselineIsTrue, RestingButtonIsTrue, Followed
<1>8. QED
  BY <1>3, <1>5, <1>6, <1>7

LEMMA LoadEndsStep ==
    ASSUME FollowInv, NEW profile \in Profiles, LoadAnswered(profile) \/ LoadFails(profile)
    PROVE  FollowInv'
<1> USE FollowAssumption DEF FollowInv
<1>1. /\ call # NoCall /\ viewer # NoViewer /\ call' = NoCall
      /\ UNCHANGED <<viewer, inFlight, generation, debounced, queue, serverVars, toggledBy>>
  BY DEF LoadAnswered, LoadFails, Loading, LoadedForViewer
<1>2. CASE LoadFails(profile)
  <2>1. UNCHANGED entryVars
    BY <1>2 DEF LoadFails
  <2>2. CommitsAreSound'
    BY <1>1, <2>1, CommitsKept DEF Sound, SoundAfter, CommitsAreSound
  <2>3. QED
    BY <1>1, <2>1, <2>2 DEF EntriesOK, LoadedForViewer, BaselineIsTrue, CallIsFresh,
                            RestingButtonIsTrue, Followed
<1>3. CASE LoadAnswered(profile)
  <2>1. loaded' = [loaded EXCEPT ![profile] = TRUE]
    BY <1>3 DEF LoadAnswered
  <2>2. EntriesOK'
    <3>1. shown' \in [Profiles -> BOOLEAN] /\ committed' \in [Profiles -> BOOLEAN]
      <4> DEFINE answer == profile \in follows[viewer]
      <4>1. \/ UNCHANGED <<shown, committed>>
            \/ /\ shown' = [shown EXCEPT ![profile] = answer]
               /\ committed' = [committed EXCEPT ![profile] = answer]
        BY <1>3 DEF LoadAnswered
      <4>2. answer \in BOOLEAN
        OBVIOUS
      <4> HIDE DEF answer
      <4>3. QED
        BY <4>1, <4>2 DEF EntriesOK
    <3>2. QED
      BY <1>1, <2>1, <3>1 DEF EntriesOK
  <2>3. CommitsAreSound'
    BY <1>1, <2>1, CommitsKept DEF Sound, SoundAfter, CommitsAreSound, EntriesOK
  <2>4. LoadedForViewer' /\ CallIsFresh'
    BY <1>1, <2>1 DEF LoadedForViewer, CallIsFresh, EntriesOK
  <2>5. ASSUME NEW other \in Profiles, lost' = 0, loaded'[other]
        PROVE  /\ committed'[other] <=> Followed(other)'
               /\ ~inFlight'[other] => (shown'[other] <=> Followed(other)')
    <3>1. CASE UNCHANGED <<shown, committed>> /\ loaded[other]
      BY <1>1, <2>5, <3>1 DEF BaselineIsTrue, RestingButtonIsTrue, Followed
    <3>2. CASE other = profile /\ ~inFlight[profile]
      BY <1>3, <1>1, <3>2 DEF LoadAnswered, EntriesOK, Followed
    <3>3. CASE other # profile
      <4>1. /\ loaded[other] /\ shown'[other] = shown[other]
            /\ committed'[other] = committed[other]
        BY <1>3, <2>5, <3>3 DEF LoadAnswered, EntriesOK
      <4>2. QED
        BY <1>1, <2>5, <4>1 DEF BaselineIsTrue, RestingButtonIsTrue, Followed
    <3>4. QED
      BY <1>3, <3>1, <3>2, <3>3 DEF LoadAnswered, LoadedForViewer
  <2>6. QED
    BY <2>2, <2>3, <2>4, <2>5 DEF BaselineIsTrue, RestingButtonIsTrue, Followed
<1>4. QED
  BY <1>2, <1>3

LEMMA ToggleStep ==
    ASSUME FollowInv, ToggleFollow
    PROVE  FollowInv'
<1> USE FollowAssumption DEF FollowInv
<1> DEFINE profile == Taken.profile
<1>1. /\ call = NoCall /\ queue # <<>> /\ queue' = Tail(queue) /\ profile \in Profiles
      /\ UNCHANGED <<viewer, loaded, call, serverVars>>
  BY TakenTyped DEF ToggleFollow, Take
<1> HIDE DEF profile
<1>2. CASE UNCHANGED <<shown, inFlight, committed, generation, debounced, toggledBy>>
  <2>1. CommitsAreSound'
    BY <1>1, <1>2, CommitsKept DEF Sound, SoundAfter, CommitsAreSound
  <2>2. QED
    BY <1>1, <1>2, <2>1 DEF EntriesOK, LoadedForViewer, BaselineIsTrue, CallIsFresh,
                            RestingButtonIsTrue, Followed
<1>3. CASE viewer # NoViewer /\ loaded[profile]
  <2>1. /\ committed' = IF inFlight[profile] THEN committed
                        ELSE [committed EXCEPT ![profile] = shown[profile]]
        /\ shown' = [shown EXCEPT ![profile] = ~shown[profile]]
        /\ inFlight' = [inFlight EXCEPT ![profile] = TRUE]
        /\ generation' = [generation EXCEPT ![profile] = @ + 1]
        /\ debounced' = [debounced EXCEPT ![profile] = generation[profile] + 1]
        /\ toggledBy' = [toggledBy EXCEPT ![profile] = viewer]
    BY <1>3 DEF ToggleFollow, BumpGeneration, profile
  <2>2. EntriesOK'
    BY <1>1, <1>3, <2>1 DEF EntriesOK
  <2>3. \A other \in Profiles, made \in Nat : Sound(other, made) => SoundAfter(other, made)
    BY <1>1, <1>3, <2>1 DEF Sound, SoundAfter, EntriesOK
  <2>4. \A other \in Profiles :
           debounced'[other] # 0 => SoundAfter(other, debounced'[other])
    <3>1. SUFFICES ASSUME NEW other \in Profiles, debounced'[other] # 0
                   PROVE  SoundAfter(other, debounced'[other])
      OBVIOUS
    <3>2. CASE other = profile
      BY <1>1, <1>3, <2>1, <3>2 DEF Sound, SoundAfter, EntriesOK
    <3>3. CASE other # profile
      BY <1>1, <2>1, <2>3, <3>1, <3>3 DEF Sound, SoundAfter, EntriesOK, CommitsAreSound
    <3>4. QED
      BY <3>2, <3>3
  <2>5. CommitsAreSound'
    BY <1>1, <2>3, <2>4, CommitsKept
  <2>6. LoadedForViewer' /\ CallIsFresh'
    BY <1>1, <1>3, <2>1 DEF LoadedForViewer, CallIsFresh, EntriesOK
  <2>7. ASSUME NEW other \in Profiles, lost' = 0, loaded'[other]
        PROVE  /\ committed'[other] <=> Followed(other)'
               /\ ~inFlight'[other] => (shown'[other] <=> Followed(other)')
    <3>1. lost = 0 /\ loaded[other] /\ (Followed(other)' <=> Followed(other))
      BY <1>1, <2>7 DEF Followed
    <3>2. CASE other = profile
      <4>1. inFlight'[other]
        BY <1>1, <2>1, <3>2 DEF EntriesOK
      <4>2. CASE inFlight[profile]
        BY <2>1, <3>1, <4>1, <4>2 DEF BaselineIsTrue
      <4>3. CASE ~inFlight[profile]
        <5>1. committed'[other] = shown[other]
          BY <1>1, <2>1, <3>2, <4>3 DEF EntriesOK
        <5>2. QED
          BY <3>1, <3>2, <4>1, <4>3, <5>1 DEF RestingButtonIsTrue, Followed
      <4>4. QED
        BY <4>2, <4>3
    <3>3. CASE other # profile
      <4>1. /\ committed'[other] = committed[other] /\ shown'[other] = shown[other]
            /\ inFlight'[other] = inFlight[other]
        BY <1>1, <2>1, <3>3 DEF EntriesOK
      <4>2. QED
        BY <3>1, <4>1 DEF BaselineIsTrue, RestingButtonIsTrue, Followed
    <3>4. QED
      BY <3>2, <3>3
  <2>8. QED
    BY <2>2, <2>5, <2>6, <2>7 DEF BaselineIsTrue, RestingButtonIsTrue, Followed
<1>4. QED
  BY <1>2, <1>3 DEF ToggleFollow, profile

LEMMA CommitStep ==
    ASSUME FollowInv, CommitFollow
    PROVE  FollowInv'
<1> USE FollowAssumption DEF FollowInv
<1> DEFINE profile == Taken.profile
<1>1. /\ call = NoCall /\ queue # <<>> /\ queue' = Tail(queue) /\ profile \in Profiles
      /\ Sound(profile, Taken.generation)
      /\ debounced' = [debounced EXCEPT ![profile] = 0]
      /\ UNCHANGED <<viewer, loaded, shown, committed, generation, serverVars, toggledBy>>
  BY TakenTyped DEF CommitFollow, Take
<1>2. \/ UNCHANGED <<inFlight, call>>
      \/ /\ loaded[profile] /\ committed[profile] = shown[profile]
         /\ inFlight' = [inFlight EXCEPT ![profile] = FALSE] /\ UNCHANGED call
      \/ /\ Taken.generation = generation[profile] /\ viewer # NoViewer /\ loaded[profile]
         /\ committed[profile] # shown[profile]
         /\ call' = [op |-> "follow", profile |-> profile, viewer |-> viewer,
                     desired |-> shown[profile]]
         /\ UNCHANGED inFlight
  BY DEF CommitFollow
<1> HIDE DEF profile
<1>3. debounced' \in [Profiles -> Nat] /\ \A other \in Profiles : debounced'[other] \in {0, debounced[other]}
  BY <1>1 DEF EntriesOK
<1>4. CommitsAreSound'
  BY <1>1, <1>3, CommitsKept DEF Sound, SoundAfter, CommitsAreSound
<1>5. BaselineIsTrue'
  BY <1>1 DEF BaselineIsTrue, Followed
<1>6. CASE UNCHANGED <<inFlight, call>>
  BY <1>1, <1>3, <1>4, <1>5, <1>6 DEF EntriesOK, LoadedForViewer, CallIsFresh, RestingButtonIsTrue
<1>7. CASE /\ loaded[profile] /\ committed[profile] = shown[profile]
           /\ inFlight' = [inFlight EXCEPT ![profile] = FALSE] /\ UNCHANGED call
  <2>1. EntriesOK' /\ LoadedForViewer' /\ CallIsFresh'
    BY <1>1, <1>3, <1>7 DEF EntriesOK, LoadedForViewer, CallIsFresh
  <2>2. \A other \in Profiles : other # profile => inFlight'[other] = inFlight[other]
    BY <1>7 DEF EntriesOK
  <2>3. RestingButtonIsTrue'
    BY <1>1, <1>7, <2>2 DEF RestingButtonIsTrue, BaselineIsTrue, Followed
  <2>4. QED
    BY <1>4, <1>5, <2>1, <2>3
<1>8. CASE /\ Taken.generation = generation[profile] /\ viewer # NoViewer /\ loaded[profile]
           /\ committed[profile] # shown[profile]
           /\ call' = [op |-> "follow", profile |-> profile, viewer |-> viewer,
                       desired |-> shown[profile]]
           /\ UNCHANGED inFlight
  <2>1. toggledBy[profile] = viewer
    BY <1>1, <1>8 DEF Sound, SoundAfter
  <2>2. shown[profile] \in BOOLEAN /\ committed[profile] \in BOOLEAN /\ viewer \in Viewers
    BY <1>1, <1>8 DEF EntriesOK
  <2>3. call' \in Calls
    BY <1>1, <1>8, <2>2 DEF Calls
  <2>4. EntriesOK' /\ LoadedForViewer' /\ RestingButtonIsTrue'
    BY <1>1, <1>3, <1>8, <2>3 DEF EntriesOK, LoadedForViewer, RestingButtonIsTrue
  <2>5. CallIsFresh'
    BY <1>1, <1>8, <2>1, <2>2 DEF CallIsFresh
  <2>6. QED
    BY <1>4, <1>5, <2>4, <2>5
<1>9. QED
  BY <1>2, <1>6, <1>7, <1>8

LEMMA FollowEndsStep ==
    ASSUME FollowInv, NEW profile \in Profiles, FollowAnswered(profile) \/ FollowFails(profile)
    PROVE  FollowInv'
<1> USE FollowAssumption DEF FollowInv
<1>1. /\ call # NoCall /\ call.op = "follow" /\ call.profile = profile
      /\ viewer # NoViewer /\ viewer \in Viewers /\ call.viewer = viewer
      /\ loaded[profile] /\ (call.desired <=> ~committed[profile])
      /\ call.desired \in BOOLEAN
  BY DEF FollowAnswered, FollowFails, Following, LoadedForViewer, EntriesOK, CallIsFresh, Calls
<1>2. /\ call' = NoCall /\ inFlight' = [inFlight EXCEPT ![profile] = FALSE]
      /\ UNCHANGED <<viewer, loaded, generation, debounced, queue, toggledBy>>
  BY DEF FollowAnswered, FollowFails
<1>3. CommitsAreSound'
  BY <1>2, CommitsKept DEF Sound, SoundAfter, CommitsAreSound
<1>4. Applied \in [Viewers -> SUBSET Profiles]
  BY <1>1 DEF Applied, EntriesOK
<1>5. EntriesOK'
  BY <1>1, <1>2, <1>4 DEF FollowAnswered, FollowFails, EntriesOK
<1>6. LoadedForViewer' /\ CallIsFresh'
  BY <1>1, <1>2 DEF LoadedForViewer, CallIsFresh, EntriesOK
<1>7. ASSUME NEW other \in Profiles, lost' = 0, loaded'[other]
      PROVE  /\ committed'[other] <=> Followed(other)'
             /\ ~inFlight'[other] => (shown'[other] <=> Followed(other)')
  <2>1. CASE FollowAnswered(profile)
    <3>1. /\ follows' = Applied /\ lost = 0
          /\ shown' = [shown EXCEPT ![profile] = call.desired]
          /\ committed' = [committed EXCEPT ![profile] = call.desired]
      BY <1>7, <2>1 DEF FollowAnswered
    <3>2. follows'[viewer] = IF call.desired THEN follows[viewer] \cup {profile}
                             ELSE follows[viewer] \ {profile}
      BY <1>1, <3>1 DEF Applied, EntriesOK
    <3>3. CASE other = profile
      BY <1>1, <1>2, <3>1, <3>2, <3>3 DEF Followed, EntriesOK
    <3>4. CASE other # profile
      <4>1. /\ shown'[other] = shown[other] /\ committed'[other] = committed[other]
            /\ inFlight'[other] = inFlight[other]
        BY <1>2, <3>1, <3>4 DEF EntriesOK
      <4>2. Followed(other)' <=> Followed(other)
        BY <1>2, <3>2, <3>4 DEF Followed
      <4>3. QED
        BY <1>2, <1>7, <3>1, <4>1, <4>2 DEF BaselineIsTrue, RestingButtonIsTrue, Followed
    <3>5. QED
      BY <3>3, <3>4
  <2>2. CASE FollowFails(profile)
    <3>1. UNCHANGED serverVars
      BY <1>7, <2>2 DEF FollowFails, EntriesOK
    <3>2. /\ shown' = [shown EXCEPT ![profile] = committed[profile]]
          /\ committed' = committed /\ (Followed(other)' <=> Followed(other))
      BY <1>2, <2>2, <3>1 DEF FollowFails, Followed
    <3>3. committed[other] <=> Followed(other)
      BY <1>2, <1>7, <3>1 DEF BaselineIsTrue
    <3>4. CASE other = profile
      BY <3>2, <3>3, <3>4 DEF EntriesOK
    <3>5. CASE other # profile
      <4>1. shown'[other] = shown[other] /\ inFlight'[other] = inFlight[other]
        BY <1>2, <3>2, <3>5 DEF EntriesOK
      <4>2. QED
        BY <1>2, <1>7, <3>1, <3>2, <3>3, <4>1 DEF RestingButtonIsTrue, Followed
    <3>6. QED
      BY <3>4, <3>5
  <2>3. QED
    BY <2>1, <2>2
<1>8. QED
  BY <1>3, <1>5, <1>6, <1>7 DEF BaselineIsTrue, RestingButtonIsTrue, Followed

LEMMA FollowNext == FollowInv /\ [Next]_vars => FollowInv'
<1> SUFFICES ASSUME FollowInv, [Next]_vars PROVE FollowInv'
  OBVIOUS
<1>1. CASE UNCHANGED vars
  <2>1. CommitsAreSound'
    BY <1>1, CommitsKept DEF FollowInv, vars, Sound, SoundAfter, CommitsAreSound
  <2>2. QED
    BY <1>1, <2>1 DEF vars, FollowInv, EntriesOK, LoadedForViewer, BaselineIsTrue,
                      CallIsFresh, RestingButtonIsTrue, Followed
<1>2. CASE Next
  BY <1>2, DispatchStep, FireStep, ViewerStep, LoadStep, LoadEndsStep, ToggleStep, CommitStep,
     FollowEndsStep DEF Next
<1>3. QED
  BY <1>1, <1>2

-----------------------------------------------------------------------------
(* The inductive invariant behind the theorems below: what the repository  *)
(* keeps of a profile, of the commits on their way and of the follow it    *)
(* awaits stays consistent with the server through every command.          *)
THEOREM FollowInvHolds == Spec => []FollowInv
  BY FollowInit, FollowNext, PTL DEF Spec

(* With no follow in flight the button shows what the server has for the   *)
(* active account, as long as no answer to an applied follow is lost.      *)
THEOREM RestingButtonStaysTrue == Spec => []RestingButtonIsTrue
<1>1. FollowInv => RestingButtonIsTrue
  BY DEF FollowInv
<1>2. QED
  BY <1>1, FollowInvHolds, PTL

(* The server is never sent the relationship it already has.               *)
THEOREM MutationsAreNeverEmpty == Spec => []NoEmptyMutation
<1>1. FollowInv => NoEmptyMutation
  <2>1. SUFFICES ASSUME FollowInv, lost = 0, call # NoCall, call.op = "follow"
                 PROVE  call.desired <=> call.profile \notin follows[call.viewer]
    BY DEF NoEmptyMutation
  <2>2. call.profile \in Profiles
    BY <2>1 DEF FollowInv, EntriesOK, Calls
  <2>3. QED
    BY <2>1, <2>2 DEF FollowInv, CallIsFresh, BaselineIsTrue, Followed
<1>2. QED
  BY <1>1, FollowInvHolds, PTL

(* A follow is sent only as the account that pressed the button.           *)
THEOREM FollowsStayTheTogglers == Spec => []FollowsAreTheTogglers
<1>1. FollowInv => FollowsAreTheTogglers
  BY DEF FollowInv, CallIsFresh, FollowsAreTheTogglers
<1>2. QED
  BY <1>1, FollowInvHolds, PTL

(* Every follow on its way has an effect and is sent as the account that    *)
(* pressed.                                                                 *)
THEOREM FollowsStayMeant == Spec => []FollowsAreMeant
<1>1. NoEmptyMutation /\ FollowsAreTheTogglers => FollowsAreMeant
  BY DEF FollowsAreMeant
<1>2. QED
  BY <1>1, MutationsAreNeverEmpty, FollowsStayTheTogglers, PTL

HIDE DEF entryVars, serverVars

-----------------------------------------------------------------------------
(* The types of the button.                                                 *)

(* The places of the commands in the channel that are no commits.           *)
Given(s) == {i \in 1..Len(s) : s[i].op # "commit"}

LEMMA GivenCounted ==
    ASSUME NEW s \in Seq(Messages)
    PROVE  IsFiniteSet(Given(s)) /\ Cardinality(Given(s)) \in Nat
<1>1. Len(s) \in Nat /\ 1 \in Int /\ Len(s) \in Int
  OBVIOUS
<1>2. IsFiniteSet(1..Len(s))
  BY <1>1, FS_Interval
<1>3. QED
  BY <1>2, FS_Subset, FS_CardinalityType DEF Given

LEMMA GivenAppended ==
    ASSUME NEW s \in Seq(Messages), NEW message \in Messages
    PROVE  Cardinality(Given(Append(s, message)))
              = Cardinality(Given(s)) + IF message.op = "commit" THEN 0 ELSE 1
<1> DEFINE n == Len(s)
           t == Append(s, message)
<1>1. n \in Nat /\ Len(t) = n + 1 /\ t[n + 1] = message /\ \A i \in 1..n : t[i] = s[i]
  OBVIOUS
<1> HIDE DEF t
<1>2. IsFiniteSet(Given(s)) /\ Cardinality(Given(s)) \in Nat
  BY GivenCounted
<1>3. CASE message.op = "commit"
  <2>1. Given(t) = Given(s)
    BY <1>1, <1>3 DEF Given
  <2>2. QED
    BY <1>2, <1>3, <2>1 DEF t
<1>4. CASE message.op # "commit"
  <2>1. Given(t) = Given(s) \cup {n + 1} /\ n + 1 \notin Given(s)
    BY <1>1, <1>4 DEF Given
  <2>2. Cardinality(Given(s) \cup {n + 1}) = Cardinality(Given(s)) + 1
    BY <1>2, <2>1, FS_AddElement
  <2>3. QED
    BY <1>4, <2>1, <2>2 DEF t
<1>5. QED
  BY <1>3, <1>4

LEMMA GivenTaken ==
    ASSUME NEW s \in Seq(Messages), s # <<>>
    PROVE  Cardinality(Given(s))
              = Cardinality(Given(Tail(s))) + IF Head(s).op = "commit" THEN 0 ELSE 1
<1> DEFINE n == Len(s)
           t == Tail(s)
           G == Given(t)
           up == [i \in G |-> i + 1]
           U == {i + 1 : i \in G}
<1>1. /\ n \in Nat /\ n >= 1 /\ t \in Seq(Messages) /\ Len(t) = n - 1 /\ Head(s) = s[1]
      /\ \A i \in 1..(n - 1) : t[i] = s[i + 1]
  OBVIOUS
<1>2. IsFiniteSet(G) /\ Cardinality(G) \in Nat
  BY <1>1, GivenCounted
<1>3. \A i \in G : i \in 1..(n - 1) /\ i \in Nat /\ s[i + 1].op # "commit"
  BY <1>1 DEF Given
<1>4. \A k \in Given(s) : k = 1 \/ k - 1 \in G
  BY <1>1 DEF Given
<1>5. U = Given(s) \ {1}
  <2>1. \A i \in G : i + 1 \in Given(s) \ {1}
    BY <1>1, <1>3 DEF Given
  <2>2. ASSUME NEW k \in Given(s) \ {1} PROVE k \in U
    <3>1. k - 1 \in G /\ (k - 1) + 1 = k
      BY <1>4 DEF Given
    <3>2. QED
      BY <3>1
  <2>3. QED
    BY <2>1, <2>2
<1>6. up \in Bijection(G, U)
  BY <1>3 DEF Bijection, Injection, IsInjective, Surjection
<1> HIDE DEF t, G, up, U
<1>7. ExistsBijection(G, U)
  BY <1>6 DEF ExistsBijection
<1>8. IsFiniteSet(U) /\ Cardinality(U) = Cardinality(G)
  BY <1>2, <1>7, FS_Bijection
<1>9. 1 \in Given(s) <=> Head(s).op # "commit"
  BY <1>1 DEF Given
<1>10. IsFiniteSet(Given(s)) /\ Cardinality(Given(s)) \in Nat
  BY GivenCounted
<1>11. CASE Head(s).op = "commit"
  <2>1. Given(s) = U
    BY <1>5, <1>9, <1>11
  <2>2. QED
    BY <1>2, <1>8, <1>11, <2>1 DEF G, t
<1>12. CASE Head(s).op # "commit"
  <2>1. Cardinality(Given(s) \ {1}) = Cardinality(Given(s)) - 1
    BY <1>9, <1>10, <1>12, FS_RemoveElement
  <2>2. Cardinality(Given(s)) = Cardinality(G) + 1
    BY <1>2, <1>5, <1>8, <1>10, <2>1
  <2>3. QED
    BY <1>12, <2>2 DEF G, t
<1>13. QED
  BY <1>11, <1>12

(* Every generation came of a command that was given and is taken.          *)
CommandsCounted ==
    /\ given \in 0..MaxCommands /\ lost \in 0..MaxLost /\ Len(queue) <= QueueCapacity
    /\ \A i \in 1..Len(queue) : queue[i].op = "commit" => queue[i].generation # 0
    /\ \A profile \in Profiles : generation[profile] + Cardinality(Given(queue)) <= given

LEMMA CountedWhenTaken ==
    ASSUME FollowInv, CommandsCounted, queue # <<>>, queue' = Tail(queue), given' = given, lost' = lost,
           \A profile \in Profiles :
              \/ generation'[profile] = generation[profile]
              \/ Head(queue).op # "commit" /\ generation'[profile] = generation[profile] + 1
    PROVE  CommandsCounted'
<1>1. queue \in Seq(Messages) /\ (\A profile \in Profiles : generation[profile] \in Nat) /\ given \in Nat
  BY FollowAssumption DEF FollowInv, EntriesOK, CommitsAreSound, CommandsCounted
<1>2. /\ queue' \in Seq(Messages) /\ Len(queue') = Len(queue) - 1 /\ Len(queue) \in Nat
      /\ \A i \in 1..Len(queue') : i + 1 \in 1..Len(queue) /\ queue'[i] = queue[i + 1]
  BY <1>1, ShiftedTail
<1>3. Cardinality(Given(queue)) = Cardinality(Given(queue')) + IF Head(queue).op = "commit" THEN 0 ELSE 1
  BY <1>1, GivenTaken
<1>4. Cardinality(Given(queue')) \in Nat
  BY <1>2, GivenCounted
<1>5. ASSUME NEW profile \in Profiles
      PROVE  generation'[profile] + Cardinality(Given(queue')) <= given
  <2>1. generation[profile] + Cardinality(Given(queue)) <= given /\ generation[profile] \in Nat
    BY <1>1 DEF CommandsCounted
  <2>2. CASE generation'[profile] = generation[profile]
    BY <1>1, <1>3, <1>4, <2>1, <2>2
  <2>3. CASE Head(queue).op # "commit" /\ generation'[profile] = generation[profile] + 1
    BY <1>1, <1>3, <1>4, <2>1, <2>3
  <2>4. QED
    BY <2>2, <2>3
<1>6. Len(queue') <= QueueCapacity
  BY <1>2, FollowAssumption DEF CommandsCounted
<1>7. \A i \in 1..Len(queue') : queue'[i].op = "commit" => queue'[i].generation # 0
  BY <1>2 DEF CommandsCounted
<1>8. QED
  BY <1>5, <1>6, <1>7 DEF CommandsCounted, Given

LEMMA CountedWhenSent ==
    ASSUME FollowInv, CommandsCounted, NEW message \in Messages, queue' = Append(queue, message),
           Len(queue) < QueueCapacity, generation' = generation, lost' = lost,
           \/ message.op # "commit" /\ given < MaxCommands /\ given' = given + 1
           \/ message.op = "commit" /\ message.generation # 0 /\ given' = given
    PROVE  CommandsCounted'
<1>1. queue \in Seq(Messages) /\ (\A profile \in Profiles : generation[profile] \in Nat)
      /\ given \in Nat /\ MaxCommands \in Nat
  BY FollowAssumption DEF FollowInv, EntriesOK, CommitsAreSound, CommandsCounted
<1>2. /\ Len(queue') = Len(queue) + 1 /\ Len(queue) \in Nat /\ queue'[Len(queue) + 1] = message
      /\ \A i \in 1..Len(queue) : queue'[i] = queue[i]
  BY <1>1
<1>3. Cardinality(Given(queue')) = Cardinality(Given(queue)) + IF message.op = "commit" THEN 0 ELSE 1
  BY <1>1, GivenAppended
<1>4. Cardinality(Given(queue)) \in Nat
  BY <1>1, GivenCounted
<1>5. ASSUME NEW profile \in Profiles
      PROVE  generation'[profile] + Cardinality(Given(queue')) <= given'
  <2>1. generation[profile] + Cardinality(Given(queue)) <= given /\ generation[profile] \in Nat
    BY <1>1 DEF CommandsCounted
  <2>2. QED
    BY <1>1, <1>3, <1>4, <2>1
<1>6. Len(queue') <= QueueCapacity
  BY <1>2, FollowAssumption
<1>7. \A i \in 1..Len(queue') : queue'[i].op = "commit" => queue'[i].generation # 0
  <2>1. \A i \in 1..Len(queue') : i \in 1..Len(queue) \/ i = Len(queue) + 1
    BY <1>2
  <2>2. QED
    BY <1>2, <2>1 DEF CommandsCounted
<1>8. given' \in 0..MaxCommands
  BY <1>1 DEF CommandsCounted
<1>9. QED
  BY <1>5, <1>6, <1>7, <1>8 DEF CommandsCounted, Given

LEMMA CommandsStayCounted == FollowInv /\ CommandsCounted /\ [Next]_vars => CommandsCounted'
<1> SUFFICES ASSUME FollowInv, CommandsCounted, [Next]_vars PROVE CommandsCounted'
  OBVIOUS
<1> USE DEF entryVars, serverVars
<1>0. queue \in Seq(Messages) /\ generation \in [Profiles -> Nat] /\ debounced \in [Profiles -> Nat]
      /\ lost \in Nat /\ MaxLost \in Nat /\ CommitsAreSound
  BY FollowAssumption DEF FollowInv, EntriesOK, CommitsAreSound
<1>1. ASSUME NEW command \in Commands, Dispatch(command) PROVE CommandsCounted'
  <2>1. command \in Messages /\ command.op # "commit"
    BY DEF Commands, Messages
  <2>2. QED
    BY <1>1, <2>1, CountedWhenSent DEF Dispatch
<1>2. ASSUME NEW profile \in Profiles, Fire(profile) PROVE CommandsCounted'
  <2> DEFINE message == [op |-> "commit", profile |-> profile, generation |-> debounced[profile]]
  <2>1. message \in Messages /\ message.op = "commit" /\ message.generation # 0
    BY <1>0, <1>2 DEF Fire, Messages
  <2>2. /\ queue' = Append(queue, message) /\ Len(queue) < QueueCapacity
        /\ generation' = generation /\ given' = given /\ lost' = lost
    BY <1>2 DEF Fire
  <2> HIDE DEF message
  <2>3. QED
    BY <2>1, <2>2, CountedWhenSent
<1>3. ASSUME NEW op, Take(op), given' = given, lost' = lost,
             \/ op # "commit"
             \/ generation' = generation,
             \A profile \in Profiles : \/ generation'[profile] = generation[profile]
                                       \/ generation'[profile] = generation[profile] + 1
      PROVE  CommandsCounted'
  <2>1. queue # <<>> /\ queue' = Tail(queue) /\ Head(queue).op = op
    BY <1>3 DEF Take
  <2>2. QED
    BY <1>3, <2>1, CountedWhenTaken
<1>4. ASSUME Reset
      PROVE  \A profile \in Profiles : \/ generation'[profile] = generation[profile]
                                       \/ generation'[profile] = generation[profile] + 1
  BY <1>0, <1>4 DEF Reset
<1>5. ASSUME NEW profile \in Profiles, BumpGeneration(profile)
      PROVE  \A other \in Profiles : \/ generation'[other] = generation[other]
                                     \/ generation'[other] = generation[other] + 1
  BY <1>0, <1>5 DEF BumpGeneration
<1>6. CASE SetViewer
  BY <1>3, <1>4, <1>6 DEF SetViewer
<1>7. CASE ResetAll
  BY <1>3, <1>4, <1>7 DEF ResetAll
<1>8. CASE Activate \/ Refresh \/ ToggleFollow
  <2>1. PICK op \in {"activate", "refresh", "toggle"} : Take(op)
    BY <1>8 DEF Activate, Refresh, ToggleFollow
  <2>2. Taken.profile \in Profiles
    BY <1>0, <2>1, TakenTyped
  <2>3. given' = given /\ lost' = lost /\ (generation' = generation \/ BumpGeneration(Taken.profile))
    BY <1>8 DEF Activate, Refresh, ToggleFollow, Load
  <2>4. QED
    BY <1>3, <1>5, <2>1, <2>2, <2>3
<1>9. CASE CommitFollow
  BY <1>3, <1>9 DEF CommitFollow
<1>10. ASSUME NEW profile \in Profiles,
              LoadAnswered(profile) \/ LoadFails(profile) \/ FollowAnswered(profile) \/ FollowFails(profile)
       PROVE  CommandsCounted'
  <2>1. UNCHANGED <<generation, queue, given>>
    BY <1>10 DEF LoadAnswered, LoadFails, FollowAnswered, FollowFails
  <2>2. lost' \in 0..MaxLost
    BY <1>0, <1>10 DEF LoadAnswered, LoadFails, FollowAnswered, FollowFails, CommandsCounted
  <2>3. QED
    BY <2>1, <2>2 DEF CommandsCounted, Given
<1>11. CASE UNCHANGED vars
  BY <1>11 DEF vars, CommandsCounted, Given
<1>12. QED
  BY <1>1, <1>2, <1>6, <1>7, <1>8, <1>9, <1>10, <1>11 DEF Next

(* Generations, debouncers and commits stay within the commands given, and  *)
(* the channel within its capacity (dispatch is a try_send).                *)
THEOREM ButtonsKeepTheirTypes == Spec => []TypeOK
<1>1. Init => CommandsCounted
  <2> SUFFICES ASSUME Init PROVE CommandsCounted
    OBVIOUS
  <2>1. queue = <<>> /\ given = 0 /\ lost = 0 /\ \A profile \in Profiles : generation[profile] = 0
    BY DEF Init, Nowhere
  <2>2. Given(queue) = {}
    BY <2>1 DEF Given
  <2>3. Cardinality(Given(queue)) = 0
    BY <2>2, FS_EmptySet
  <2>4. Len(queue) = 0 /\ \A i \in 1..Len(queue) : FALSE
    BY <2>1
  <2>5. QED
    BY <2>1, <2>3, <2>4, FollowAssumption DEF CommandsCounted
<1>2. ASSUME FollowInv, CommandsCounted PROVE TypeOK
  <2>1. EntriesOK /\ CommitsAreSound /\ queue \in Seq(Messages) /\ MaxCommands \in Nat /\ given \in 0..MaxCommands
    BY <1>2, FollowAssumption DEF FollowInv, CommitsAreSound, CommandsCounted
  <2>2. ASSUME NEW profile \in Profiles PROVE generation[profile] \in 0..MaxCommands
    <3>1. Cardinality(Given(queue)) \in Nat
      BY <2>1, GivenCounted
    <3>2. generation[profile] \in Nat /\ generation[profile] + Cardinality(Given(queue)) <= given
      BY <1>2, <2>1 DEF EntriesOK, CommandsCounted
    <3>3. QED
      BY <2>1, <3>1, <3>2
  <2>3. ASSUME NEW profile \in Profiles PROVE debounced[profile] \in 0..MaxCommands
    BY <2>1, <2>2 DEF EntriesOK, CommitsAreSound, Sound
  <2>4. ASSUME NEW i \in 1..Len(queue) PROVE queue[i] \in Commands \cup Commits
    <3>1. queue[i] \in Messages
      BY <2>1
    <3>2. CASE queue[i].op = "commit"
      <4>1. queue[i] \in [op : {"commit"}, profile : Profiles, generation : Nat]
        BY <3>1, <3>2 DEF Messages, Commands
      <4>2. queue[i].generation # 0 /\ queue[i].generation <= generation[queue[i].profile]
        BY <1>2, <2>1, <3>2 DEF CommandsCounted, CommitsAreSound, Sound
      <4>3. queue[i].generation \in 1..MaxCommands
        BY <2>1, <2>2, <4>1, <4>2
      <4>4. QED
        BY <4>1, <4>3 DEF Commits
    <3>3. CASE queue[i].op # "commit"
      BY <3>1, <3>3 DEF Messages
    <3>4. QED
      BY <3>2, <3>3
  <2>5. queue \in Seq(Commands \cup Commits)
    BY <2>1, <2>4
  <2>6. QED
    BY <1>2, <2>1, <2>2, <2>3, <2>5 DEF EntriesOK, CommandsCounted, TypeOK
<1>3. QED
  BY <1>1, <1>2, FollowInvHolds, CommandsStayCounted, PTL DEF Spec

-----------------------------------------------------------------------------
(* Presence.                                                                *)

(* What a request leaves of a set of users.                                *)
WithRequest(base, r) == IF r.subscribe THEN base \cup r.users ELSE base \ r.users

LEMMA NothingApplied == ASSUME NEW base PROVE AfterAll(base, <<>>) = base
<1> DEFINE goes(f) == f = [n \in 0..Len(<<>>) |->
                 IF n = 0 THEN base
                 ELSE IF <<>>[n].subscribe THEN f[n - 1] \cup <<>>[n].users
                      ELSE f[n - 1] \ <<>>[n].users]
           up == CHOOSE f : goes(f)
<1>1. AfterAll(base, <<>>) = up[0]
  BY DEF AfterAll
<1>2. goes([n \in {0} |-> base])
  OBVIOUS
<1>3. goes(up)
  BY <1>2
<1>4. QED
  BY <1>1, <1>3

LEMMA OneApplied ==
    ASSUME NEW base, NEW r \in Request PROVE AfterAll(base, <<r>>) = WithRequest(base, r)
<1> DEFINE out == <<r>>
           step(f, n) == IF n = 0 THEN base
                         ELSE IF out[n].subscribe THEN f[n - 1] \cup out[n].users
                              ELSE f[n - 1] \ out[n].users
           goes(f) == f = [n \in 0..Len(out) |-> step(f, n)]
           up == CHOOSE f : goes(f)
           here == [n \in 0..1 |-> IF n = 0 THEN base ELSE WithRequest(base, r)]
<1>1. AfterAll(base, <<r>>) = up[1]
  BY DEF AfterAll
<1>2. goes(here)
  BY DEF WithRequest
<1>3. goes(up)
  BY <1>2
<1> HIDE DEF up
<1>4. Len(out) = 1 /\ \A n \in 0..1 : up[n] = step(up, n)
  BY <1>3
<1>5. up[0] = base /\ up[1] = WithRequest(base, r)
  BY <1>4 DEF WithRequest
<1>6. QED
  BY <1>1, <1>5

LEMMA TwoApplied ==
    ASSUME NEW base, NEW r \in Request, NEW q \in Request
    PROVE  AfterAll(base, <<r, q>>) = WithRequest(WithRequest(base, r), q)
<1> DEFINE out == <<r, q>>
           step(f, n) == IF n = 0 THEN base
                         ELSE IF out[n].subscribe THEN f[n - 1] \cup out[n].users
                              ELSE f[n - 1] \ out[n].users
           goes(f) == f = [n \in 0..Len(out) |-> step(f, n)]
           up == CHOOSE f : goes(f)
           here == [n \in 0..2 |-> IF n = 0 THEN base
                                   ELSE IF n = 1 THEN WithRequest(base, r)
                                   ELSE WithRequest(WithRequest(base, r), q)]
<1>1. AfterAll(base, <<r, q>>) = up[2]
  BY DEF AfterAll
<1>2. goes(here)
  <2>1. Len(out) = 2 /\ out[1] = r /\ out[2] = q
    OBVIOUS
  <2>2. here[0] = base /\ here[1] = WithRequest(base, r) /\ here[2] = WithRequest(WithRequest(base, r), q)
    OBVIOUS
  <2>3. step(here, 0) = here[0] /\ step(here, 1) = here[1] /\ step(here, 2) = here[2]
    BY <2>1, <2>2 DEF WithRequest
  <2> HIDE DEF step
  <2>4. \A n \in 0..2 : here[n] = step(here, n)
    BY <2>3
  <2>5. QED
    BY <2>1, <2>4
<1>3. goes(up)
  BY <1>2
<1> HIDE DEF up
<1>4. Len(out) = 2 /\ \A n \in 0..2 : up[n] = step(up, n)
  BY <1>3
<1>5. up[0] = base /\ up[1] = WithRequest(base, r) /\ up[2] = WithRequest(up[1], q)
  BY <1>4 DEF WithRequest
<1>6. QED
  BY <1>1, <1>5

(* The requests of a change: who is new is asked for, who is gone is given *)
(* up, and applied in order they make the one set of the other.            *)
Says(out, before, after) ==
    /\ out \in Seq(Request)
    /\ \A i \in 1..Len(out) : \A u \in out[i].users : out[i].subscribe <=> u \in after
    /\ \A u \in Users : (\A i \in 1..Len(out) : u \notin out[i].users) =>
           (u \in after <=> u \in before)

More(r, before, after) == r.subscribe = TRUE /\ r.users = after \ before
Less(r, before, after) == r.subscribe = FALSE /\ r.users = before \ after

LEMMA NoneSays ==
    ASSUME NEW both \in SUBSET Users PROVE Says(<<>>, both, both) /\ AfterAll(both, <<>>) = both
  BY NothingApplied DEF Says

LEMMA OneSays ==
    ASSUME NEW before \in SUBSET Users, NEW after \in SUBSET Users, NEW r \in Request,
           \/ More(r, before, after) /\ before \ after = {}
           \/ Less(r, before, after) /\ after \ before = {}
    PROVE  Says(<<r>>, before, after) /\ AfterAll(before, <<r>>) = after
<1>1. <<r>> \in Seq(Request) /\ Len(<<r>>) = 1 /\ <<r>>[1] = r
  OBVIOUS
<1>2. WithRequest(before, r) = after
  <2>1. CASE More(r, before, after) /\ before \ after = {}
    BY <2>1 DEF WithRequest, More
  <2>2. CASE Less(r, before, after) /\ after \ before = {}
    BY <2>2 DEF WithRequest, Less
  <2>3. QED
    BY <2>1, <2>2
<1>3. Says(<<r>>, before, after)
  <2>1. \A u \in r.users : r.subscribe <=> u \in after
    BY DEF More, Less
  <2>2. \A u \in Users : u \notin r.users => (u \in after <=> u \in before)
    BY DEF More, Less
  <2>3. QED
    BY <1>1, <2>1, <2>2 DEF Says
<1>4. QED
  BY <1>2, <1>3, OneApplied

LEMMA TwoSay ==
    ASSUME NEW before \in SUBSET Users, NEW after \in SUBSET Users,
           NEW r \in Request, More(r, before, after), NEW q \in Request, Less(q, before, after)
    PROVE  Says(<<r, q>>, before, after) /\ AfterAll(before, <<r, q>>) = after
<1>1. /\ <<r, q>> \in Seq(Request) /\ Len(<<r, q>>) = 2
      /\ <<r, q>>[1] = r /\ <<r, q>>[2] = q
  OBVIOUS
<1>2. WithRequest(WithRequest(before, r), q) = after
  <2>1. WithRequest(before, r) = before \cup (after \ before)
    BY DEF WithRequest, More
  <2>2. \A base : WithRequest(base, q) = base \ (before \ after)
    BY DEF WithRequest, Less
  <2>3. QED
    BY <2>1, <2>2
<1>3. Says(<<r, q>>, before, after)
  <2>1. /\ \A u \in r.users : r.subscribe <=> u \in after
        /\ \A u \in q.users : q.subscribe <=> u \in after
    BY DEF More, Less
  <2>2. \A u \in Users : u \notin r.users /\ u \notin q.users => (u \in after <=> u \in before)
    BY DEF More, Less
  <2>3. QED
    BY <1>1, <2>1, <2>2 DEF Says
<1>4. QED
  BY <1>2, <1>3, TwoApplied

LEMMA ChangesAreAsked ==
    ASSUME NEW before \in SUBSET Users, NEW after \in SUBSET Users
    PROVE  LET out == AskFor(TRUE, after \ before) \o AskFor(FALSE, before \ after) IN
           Says(out, before, after) /\ AfterAll(before, out) = after
<1> DEFINE out == AskFor(TRUE, after \ before) \o AskFor(FALSE, before \ after)
<1>1. PICK more \in Request : more = [subscribe |-> TRUE, users |-> after \ before]
  BY DEF Request
<1>2. PICK less \in Request : less = [subscribe |-> FALSE, users |-> before \ after]
  BY DEF Request
<1>3. More(more, before, after) /\ Less(less, before, after)
  BY <1>1, <1>2 DEF More, Less
<1>4. /\ AskFor(TRUE, after \ before) = IF after \ before = {} THEN <<>> ELSE <<more>>
      /\ AskFor(FALSE, before \ after) = IF before \ after = {} THEN <<>> ELSE <<less>>
  BY <1>1, <1>2, Zenon DEF AskFor
<1>5. \A s \in Seq(Request) : <<>> \o s = s /\ s \o <<>> = s
  OBVIOUS
<1>6. /\ <<more>> \o <<less>> = <<more, less>>
      /\ <<more>> \in Seq(Request) /\ <<less>> \in Seq(Request)
  <2>1. ASSUME NEW r \in Request, NEW q \in Request PROVE <<r>> \o <<q>> = <<r, q>>
    <3>1. <<r>> \o <<q>> \in Seq(Request) /\ <<r, q>> \in Seq(Request)
      OBVIOUS
    <3>2. Len(<<r>> \o <<q>>) = 2 /\ (<<r>> \o <<q>>)[1] = r /\ (<<r>> \o <<q>>)[2] = q
      OBVIOUS
    <3>3. Len(<<r, q>>) = 2 /\ <<r, q>>[1] = r /\ <<r, q>>[2] = q
      OBVIOUS
    <3>4. \A i \in 1..2 : (<<r>> \o <<q>>)[i] = <<r, q>>[i]
      BY <3>2, <3>3
    <3>5. QED
      BY <3>1, <3>2, <3>3, <3>4, SeqEqual
  <2>2. \A r \in Request : <<r>> \in Seq(Request)
    OBVIOUS
  <2>3. QED
    BY <2>1, <2>2
<1>7. <<>> \in Seq(Request) /\ <<>> \o <<>> = <<>>
  OBVIOUS
<1>8. CASE after \ before = {} /\ before \ after = {}
  <2>1. after = before
    BY <1>8
  <2>2. out = <<>>
    BY <1>4, <1>7, <1>8, Zenon
  <2>3. QED
    BY <2>1, <2>2, NoneSays, Zenon
<1>9. CASE after \ before = {} /\ before \ after # {}
  <2>1. out = <<less>>
    BY <1>4, <1>5, <1>6, <1>9, Zenon
  <2>2. Says(<<less>>, before, after) /\ AfterAll(before, <<less>>) = after
    BY <1>3, <1>9, OneSays
  <2>3. QED
    BY <2>1, <2>2, Zenon
<1>10. CASE after \ before # {} /\ before \ after = {}
  <2>1. out = <<more>>
    BY <1>4, <1>5, <1>6, <1>10, Zenon
  <2>2. Says(<<more>>, before, after) /\ AfterAll(before, <<more>>) = after
    BY <1>3, <1>10, OneSays
  <2>3. QED
    BY <2>1, <2>2, Zenon
<1>11. CASE after \ before # {} /\ before \ after # {}
  <2>1. out = <<more, less>>
    BY <1>4, <1>6, <1>11, Zenon
  <2>2. Says(<<more, less>>, before, after) /\ AfterAll(before, <<more, less>>) = after
    BY <1>3, TwoSay
  <2>3. QED
    BY <2>1, <2>2, Zenon
<1>12. QED
  BY <1>8, <1>9, <1>10, <1>11, Zenon

(* Of the requests on their way the last that names a user says the truth, *)
(* and whom none names is held as wanted, at most as long as a reconnect   *)
(* has yet to be seen.                                                     *)
Named(u) == \E i \in 1..Len(requests) : u \in requests[i].users
LastWordIsRight ==
    \A u \in Users, i \in 1..Len(requests) :
        u \in requests[i].users /\ (\A j \in 1..Len(requests) : j > i => u \notin requests[j].users)
            => (requests[i].subscribe <=> u \in subscribed)
HeldIsRight ==
    connected => \A u \in Users : ~Named(u) =>
        /\ u \in held => u \in subscribed
        /\ wasConnected /\ u \in subscribed => u \in held
WatchIsRight ==
    /\ ~watched => wasConnected = connected
    /\ connected /\ wasConnected => ~watched
WantedIsTold ==
    /\ subscribed = Union(desired) /\ replayed = subscribed
    /\ \A o \in Owners : selfId \notin desired[o]
    /\ ~connected => held = {}

PresenceInv ==
    /\ PresenceTypeOK /\ WantedIsTold
    /\ spoiled = {} => LastWordIsRight /\ HeldIsRight /\ WatchIsRight

LEMMA PresenceStarts == PresenceInit => PresenceInv
<1> SUFFICES ASSUME PresenceInit PROVE PresenceInv
  OBVIOUS
<1>1. PresenceTypeOK
  <2>1. {selfId, active} \subseteq Accounts \cup {Nobody}
    BY DEF PresenceInit
  <2>2. connected \in BOOLEAN /\ watched \in BOOLEAN /\ wasConnected \in BOOLEAN
    BY DEF PresenceInit
  <2>3. requests \in Seq(Request) /\ sentCount \in 0..MaxSent /\ dropCount \in 0..MaxDrops
    BY AccountsAssumption DEF PresenceInit
  <2>4. QED
    BY <2>1, <2>2, <2>3 DEF PresenceInit, PresenceTypeOK
<1>2. WantedIsTold
  BY DEF PresenceInit, WantedIsTold, Union
<1>3. LastWordIsRight
  BY DEF PresenceInit, LastWordIsRight
<1>4. HeldIsRight /\ WatchIsRight
  BY Zenon DEF PresenceInit, HeldIsRight, WatchIsRight
<1>5. QED
  BY <1>1, <1>2, <1>3, <1>4 DEF PresenceInv

LEMMA RequestsGrow ==
    ASSUME PresenceTypeOK, NEW out \in Seq(Request), Send(out)
    PROVE  /\ requests' \in Seq(Request) /\ sentCount' \in 0..MaxSent
           /\ Len(requests') = Len(requests) + Len(out)
           /\ \A i \in 1..Len(requests) : requests'[i] = requests[i]
           /\ \A i \in 1..Len(out) : requests'[Len(requests) + i] = out[i]
           /\ Len(requests) \in Nat /\ Len(out) \in Nat
  BY AccountsAssumption DEF PresenceTypeOK, Send

(* What is asked for behind the others is the last word on whom it names.  *)
LEMMA WordsGrow ==
    ASSUME PresenceTypeOK, LastWordIsRight, NEW out \in Seq(Request), Send(out),
           \A i \in 1..Len(out) : \A u \in out[i].users : out[i].subscribe <=> u \in subscribed',
           \A u \in Users : (\A i \in 1..Len(out) : u \notin out[i].users) =>
               (u \in subscribed' <=> u \in subscribed)
    PROVE  /\ LastWordIsRight'
           /\ \A u \in Users : Named(u)' <=> Named(u) \/ \E i \in 1..Len(out) : u \in out[i].users
<1> DEFINE n == Len(requests)
<1>1. /\ Len(requests') = n + Len(out) /\ n \in Nat /\ Len(out) \in Nat
      /\ \A i \in 1..n : requests'[i] = requests[i]
      /\ \A i \in 1..Len(out) : requests'[n + i] = out[i]
  BY RequestsGrow
<1> HIDE DEF n
<1>2. \A i \in 1..(n + Len(out)) : i \in 1..n \/ (i - n \in 1..Len(out) /\ n + (i - n) = i)
  BY <1>1
<1>3. \A i \in 1..Len(out) : n + i \in 1..(n + Len(out)) /\ \A k \in 1..n : n + i > k
  BY <1>1
<1>4. 1..n \subseteq 1..(n + Len(out))
  BY <1>1
<1>5. ASSUME NEW u \in Users, NEW i \in 1..Len(requests'), u \in requests'[i].users,
             \A j \in 1..Len(requests') : j > i => u \notin requests'[j].users
      PROVE  requests'[i].subscribe <=> u \in subscribed'
  <2>1. CASE i \in 1..n
    <3>1. \A k \in 1..Len(out) : u \notin out[k].users
      BY <1>1, <1>3, <1>5, <2>1
    <3>2. u \in requests[i].users /\ \A j \in 1..n : j > i => u \notin requests[j].users
      BY <1>1, <1>4, <1>5, <2>1
    <3>3. requests[i].subscribe <=> u \in subscribed
      BY <2>1, <3>2 DEF LastWordIsRight, n
    <3>4. QED
      BY <1>1, <2>1, <3>1, <3>3
  <2>2. CASE i - n \in 1..Len(out) /\ n + (i - n) = i
    <3>1. PICK k \in 1..Len(out) : n + k = i
      BY <2>2
    <3>2. requests'[i] = out[k]
      BY <1>1, <3>1
    <3>3. QED
      BY <1>5, <3>2, Zenon
  <2>3. QED
    BY <1>1, <1>2, <2>1, <2>2
<1>6. ASSUME NEW u \in Users
      PROVE  Named(u)' <=> Named(u) \/ \E i \in 1..Len(out) : u \in out[i].users
  <2>1. Named(u)' => Named(u) \/ \E i \in 1..Len(out) : u \in out[i].users
    <3>1. ASSUME NEW i \in 1..Len(requests'), u \in requests'[i].users
          PROVE  Named(u) \/ \E k \in 1..Len(out) : u \in out[k].users
      <4>1. CASE i \in 1..n
        <5>1. u \in requests[i].users
          BY <1>1, <3>1, <4>1
        <5>2. QED
          BY <4>1, <5>1 DEF Named, n
      <4>2. CASE i - n \in 1..Len(out) /\ n + (i - n) = i
        <5>1. PICK k \in 1..Len(out) : n + k = i
          BY <4>2
        <5>2. requests'[i] = out[k]
          BY <1>1, <5>1
        <5>3. QED
          BY <3>1, <5>2
      <4>3. QED
        BY <1>1, <1>2, <4>1, <4>2
    <3>2. QED
      BY <3>1 DEF Named
  <2>2. Named(u) => Named(u)'
    BY <1>1, <1>4 DEF Named, n
  <2>3. (\E i \in 1..Len(out) : u \in out[i].users) => Named(u)'
    BY <1>1, <1>3 DEF Named
  <2>4. QED
    BY <2>1, <2>2, <2>3
<1>7. QED
  BY <1>5, <1>6 DEF LastWordIsRight

LEMMA ReconcileKeeps ==
    ASSUME PresenceInv, NEW wanted \in [Owners -> SUBSET Users], NEW o \in Owners,
           \A p \in Owners : selfId \notin wanted[p], Reconcile(wanted, o),
           UNCHANGED <<selfId, active, connected, held, watched, wasConnected, dropCount, spoiled>>
    PROVE  PresenceInv'
<1> DEFINE out == AskFor(TRUE, Union(wanted) \ subscribed) \o AskFor(FALSE, subscribed \ Union(wanted))
<1>1. Union(wanted) \in SUBSET Users /\ subscribed \in SUBSET Users
  BY DEF Union, PresenceInv, PresenceTypeOK
<1>2. /\ desired' = wanted /\ subscribed' = Union(wanted) /\ replayed' = AfterAll(replayed, out)
      /\ Send(out)
  BY DEF Reconcile
<1>3. /\ out \in Seq(Request)
      /\ \A i \in 1..Len(out) : \A u \in out[i].users : out[i].subscribe <=> u \in subscribed'
      /\ \A u \in Users : (\A i \in 1..Len(out) : u \notin out[i].users) =>
               (u \in subscribed' <=> u \in subscribed)
      /\ AfterAll(subscribed, out) = subscribed'
  <2>1. /\ out \in Seq(Request)
        /\ \A i \in 1..Len(out) : \A u \in out[i].users : out[i].subscribe <=> u \in Union(wanted)
        /\ \A u \in Users : (\A i \in 1..Len(out) : u \notin out[i].users) =>
               (u \in Union(wanted) <=> u \in subscribed)
        /\ AfterAll(subscribed, out) = Union(wanted)
    <3>1. Says(out, subscribed, Union(wanted)) /\ AfterAll(subscribed, out) = Union(wanted)
      BY <1>1, ChangesAreAsked, Zenon
    <3>2. QED
      BY <3>1, Zenon DEF Says
  <2>2. subscribed' = Union(wanted)
    BY <1>2
  <2> HIDE DEF out
  <2>3. QED
    BY <2>1, <2>2, Zenon
<1> HIDE DEF out
<1>4. PresenceTypeOK'
  BY <1>1, <1>2, <1>3, RequestsGrow DEF PresenceInv, PresenceTypeOK, WantedIsTold
<1>5. WantedIsTold'
  <2>1. replayed' = subscribed'
    BY <1>2, <1>3 DEF PresenceInv, WantedIsTold
  <2>2. QED
    BY <1>2, <2>1 DEF PresenceInv, WantedIsTold
<1>6. ASSUME spoiled = {} PROVE LastWordIsRight' /\ HeldIsRight' /\ WatchIsRight'
  <2>1. PresenceTypeOK /\ LastWordIsRight /\ HeldIsRight /\ WatchIsRight
    BY <1>6 DEF PresenceInv
  <2>2. /\ LastWordIsRight'
        /\ \A u \in Users : Named(u)' <=> Named(u) \/ \E i \in 1..Len(out) : u \in out[i].users
    BY <1>2, <1>3, <2>1, WordsGrow
  <2>3. HeldIsRight'
    BY <1>3, <2>1, <2>2 DEF HeldIsRight
  <2>4. QED
    BY <2>1, <2>2, <2>3 DEF WatchIsRight
<1>7. QED
  BY <1>4, <1>5, <1>6 DEF PresenceInv

LEMMA ObserveKeeps ==
    ASSUME PresenceInv, NEW o \in Owners, NEW observed \in SUBSET Users,
           StopObserving(o) \/ Observe(o, observed)
    PROVE  PresenceInv'
<1>1. desired \in [Owners -> SUBSET Users] /\ \A p \in Owners : selfId \notin desired[p]
  BY DEF PresenceInv, PresenceTypeOK, WantedIsTold
<1>2. CASE StopObserving(o)
  <2> DEFINE wanted == [desired EXCEPT ![o] = {}]
  <2>1. wanted \in [Owners -> SUBSET Users] /\ \A p \in Owners : selfId \notin wanted[p]
    BY <1>1
  <2>2. /\ Reconcile(wanted, o)
        /\ UNCHANGED <<selfId, active, connected, held, watched, wasConnected, dropCount, spoiled>>
    BY <1>2, Zenon DEF StopObserving
  <2> HIDE DEF wanted
  <2>3. QED
    BY <2>1, <2>2, ReconcileKeeps, Zenon
<1>3. CASE Observe(o, observed)
  <2> DEFINE wanted == [desired EXCEPT ![o] = observed \ {selfId}]
  <2>1. wanted \in [Owners -> SUBSET Users] /\ \A p \in Owners : selfId \notin wanted[p]
    BY <1>1
  <2>2. /\ Reconcile(wanted, o)
        /\ UNCHANGED <<selfId, active, connected, held, watched, wasConnected, dropCount, spoiled>>
    BY <1>3, Zenon DEF Observe
  <2> HIDE DEF wanted
  <2>3. QED
    BY <2>1, <2>2, ReconcileKeeps, Zenon
<1>4. QED
  BY <1>2, <1>3

LEMMA FollowAccountKeeps ==
    ASSUME PresenceInv, NEW a \in Accounts \cup {Nobody}, FollowAccount(a)
    PROVE  PresenceInv'
<1>1. PresenceTypeOK'
  BY DEF PresenceInv, PresenceTypeOK, FollowAccount
<1>2. WantedIsTold'
  BY DEF PresenceInv, WantedIsTold, FollowAccount, Union
<1>3. ASSUME spoiled' = {} PROVE LastWordIsRight' /\ HeldIsRight' /\ WatchIsRight'
  <2>1. spoiled = {} /\ held = {} /\ requests = <<>>
    BY <1>3 DEF FollowAccount
  <2>2. LastWordIsRight'
    BY <2>1 DEF LastWordIsRight, FollowAccount
  <2>3. HeldIsRight'
    BY <2>1 DEF HeldIsRight, FollowAccount
  <2>4. WatchIsRight'
    <3>1. UNCHANGED <<watched, wasConnected, connected>>
      BY DEF FollowAccount
    <3>2. WatchIsRight
      BY <2>1 DEF PresenceInv
    <3>3. QED
      BY <3>1, <3>2, Zenon DEF WatchIsRight
  <2>5. QED
    BY <2>2, <2>3, <2>4
<1>4. QED
  BY <1>1, <1>2, <1>3 DEF PresenceInv

LEMMA ConnectKeeps ==
    ASSUME PresenceInv, Connect \/ DropConnection PROVE PresenceInv'
<1>1. PresenceTypeOK'
  <2>1. connected' \in BOOLEAN /\ watched' \in BOOLEAN /\ wasConnected' \in BOOLEAN
    BY DEF PresenceInv, PresenceTypeOK, Connect, DropConnection
  <2>2. dropCount' \in 0..MaxDrops
    BY AccountsAssumption DEF PresenceInv, PresenceTypeOK, Connect, DropConnection
  <2>3. spoiled' \subseteq {"account", "unseen", "overtaken", "lost"}
    BY DEF PresenceInv, PresenceTypeOK, Connect, DropConnection
  <2>4. QED
    BY <2>1, <2>2, <2>3 DEF PresenceInv, PresenceTypeOK, Connect, DropConnection
<1>2. WantedIsTold'
  BY DEF PresenceInv, WantedIsTold, Connect, DropConnection, Union
<1>3. ASSUME spoiled' = {} PROVE LastWordIsRight' /\ HeldIsRight' /\ WatchIsRight'
  <2>1. spoiled = {} /\ (Connect => ~(watched /\ wasConnected))
    <3>1. CASE Connect
      BY <1>3, <3>1 DEF Connect
    <3>2. CASE ~Connect
      BY <1>3, <3>2 DEF DropConnection
    <3>3. QED
      BY <3>1, <3>2
  <2>2. LastWordIsRight /\ HeldIsRight /\ WatchIsRight
    BY <2>1 DEF PresenceInv
  <2>3. LastWordIsRight'
    BY <2>2 DEF LastWordIsRight, Connect, DropConnection
  <2>4. watched' /\ UNCHANGED wasConnected /\ held' = {}
    BY Zenon DEF Connect, DropConnection
  <2>5. ~(connected' /\ wasConnected')
    <3>1. CASE Connect
      <4>1. ~connected
        BY <3>1 DEF Connect
      <4>2. ~wasConnected
        BY <2>1, <2>2, <3>1, <4>1 DEF WatchIsRight
      <4>3. QED
        BY <2>4, <4>2, Zenon
    <3>2. CASE DropConnection
      BY <3>2, Zenon DEF DropConnection
    <3>3. QED
      BY <3>1, <3>2
  <2>6. HeldIsRight'
    BY <2>4, <2>5, Zenon DEF HeldIsRight
  <2>7. WatchIsRight'
    BY <2>4, <2>5, Zenon DEF WatchIsRight
  <2>8. QED
    BY <2>3, <2>6, <2>7
<1>4. QED
  BY <1>1, <1>2, <1>3 DEF PresenceInv

LEMMA OneIsRemoved ==
    ASSUME PresenceTypeOK, NEW i \in 1..Len(requests)
    PROVE  /\ Removed(requests, i) \in Seq(Request)
           /\ i = 1 => /\ Len(Removed(requests, 1)) = Len(requests) - 1
                       /\ \A k \in 1..(Len(requests) - 1) :
                              Removed(requests, 1)[k] = requests[k + 1]
<1>1. requests \in Seq(Request) /\ Len(requests) \in Nat
  BY DEF PresenceTypeOK
<1>2. /\ SubSeq(requests, 1, i - 1) \in Seq(Request)
      /\ SubSeq(requests, i + 1, Len(requests)) \in Seq(Request)
  <2>1. \A k \in 1..(i - 1) : requests[k] \in Request
    BY <1>1
  <2>2. \A k \in (i + 1)..Len(requests) : requests[k] \in Request
    BY <1>1
  <2>3. SubSeq(requests, 1, i - 1) \in Seq(Request)
    BY <1>1, <2>1
  <2>4. SubSeq(requests, i + 1, Len(requests)) \in Seq(Request)
    BY <1>1, <2>2
  <2>5. QED
    BY <2>3, <2>4
<1>3. Removed(requests, i) \in Seq(Request)
  BY <1>2 DEF Removed
<1>4. ASSUME i = 1
      PROVE  /\ Len(Removed(requests, 1)) = Len(requests) - 1
             /\ \A k \in 1..(Len(requests) - 1) : Removed(requests, 1)[k] = requests[k + 1]
  <2> DEFINE rest == SubSeq(requests, 2, Len(requests))
  <2>1. Removed(requests, 1) = <<>> \o rest
    BY <1>1 DEF Removed
  <2>2. /\ rest \in Seq(Request) /\ Len(rest) = Len(requests) - 1
        /\ \A k \in 1..(Len(requests) - 1) : rest[k] = requests[k + 1]
    <3>1. rest \in Seq(Request)
      BY <1>2, <1>4
    <3>2. Len(requests) \in Nat \ {0} /\ Len(rest) = Len(requests) - 1
      <4>1. Len(requests) \in Nat \ {0}
        BY <1>1, <1>4
      <4> DEFINE N == Len(requests)
                 L == Len(rest)
      <4>2. L = IF 2 <= N THEN N - 2 + 1 ELSE 0
        BY <1>1
      <4> HIDE DEF N, L
      <4>3. N \in Nat \ {0} => L = N - 1
        BY <4>2
      <4>4. QED
        BY <4>1, <4>3, Zenon DEF N, L
    <3>3. \A k \in 1..(Len(requests) - 1) : rest[k] = requests[k + 1]
      <4>1. ASSUME NEW k \in 1..(Len(requests) - 1) PROVE rest[k] = requests[2 + k - 1] /\ 2 + k - 1 = k + 1
        BY <1>1, <3>2
      <4>2. QED
        BY <4>1
    <3>4. QED
      BY <3>1, <3>2, <3>3
  <2>3. <<>> \o rest = rest
    BY <2>2
  <2>4. QED
    BY <2>1, <2>2, <2>3
<1>5. QED
  BY <1>3, <1>4

(* The first request is applied: it may have been the last word on someone. *)
LEMMA FirstIsReached ==
    ASSUME PresenceInv, Reach(1), spoiled = {}
    PROVE  LastWordIsRight' /\ HeldIsRight'
<1> DEFINE n == Len(requests)
           first == requests[1]
<1>1. PresenceTypeOK /\ LastWordIsRight /\ HeldIsRight
  BY DEF PresenceInv
<1>2. 1 \in 1..n /\ n \in Nat /\ first \in Request /\ connected
  BY <1>1 DEF Reach, PresenceTypeOK
<1>3. Len(requests') = n - 1 /\ \A k \in 1..(n - 1) : requests'[k] = requests[k + 1]
  BY <1>1, <1>2, OneIsRemoved DEF Reach
<1>4. held' = WithRequest(held, first)
  BY <1>2, OneApplied DEF Reach
<1>5. UNCHANGED <<subscribed, connected, wasConnected>>
  BY DEF Reach
<1>6. \A k \in 1..n : k = 1 \/ (k - 1 \in 1..(n - 1) /\ k = (k - 1) + 1)
  BY <1>2
<1>7. \A k \in 1..(n - 1) : k + 1 \in 1..n /\ k + 1 > 1
  BY <1>2
<1>8. \A u \in Users : Named(u) <=> u \in first.users \/ Named(u)'
  BY <1>2, <1>3, <1>6, <1>7 DEF Named
<1>9. LastWordIsRight'
  <2>1. SUFFICES ASSUME NEW u \in Users, NEW k \in 1..(n - 1), u \in requests'[k].users,
                        \A j \in 1..(n - 1) : j > k => u \notin requests'[j].users
                 PROVE  requests'[k].subscribe <=> u \in subscribed'
    BY <1>3 DEF LastWordIsRight
  <2>2. ASSUME NEW j \in 1..n, j > k + 1 PROVE u \notin requests[j].users
    <3>1. j - 1 \in 1..(n - 1) /\ j - 1 > k
      BY <1>2, <2>2
    <3>2. requests'[j - 1] = requests[j]
      BY <1>3, <2>2, <3>1
    <3>3. QED
      BY <2>1, <3>1, <3>2
  <2>3. k + 1 \in 1..n /\ u \in requests[k + 1].users /\ requests'[k] = requests[k + 1]
    BY <1>3, <1>7, <2>1
  <2>4. requests[k + 1].subscribe <=> u \in subscribed
    BY <1>1, <2>2, <2>3 DEF LastWordIsRight
  <2>5. QED
    BY <1>5, <2>3, <2>4
<1>10. HeldIsRight'
  <2>1. SUFFICES ASSUME NEW u \in Users, ~Named(u)'
                 PROVE  /\ u \in held' => u \in subscribed
                        /\ wasConnected /\ u \in subscribed => u \in held'
    BY <1>5 DEF HeldIsRight
  <2>2. CASE u \in first.users
    <3>1. ASSUME NEW j \in 1..n, j > 1 PROVE u \notin requests[j].users
      <4>1. j - 1 \in 1..Len(requests') /\ requests'[j - 1] = requests[j]
        BY <1>2, <1>3, <3>1
      <4>2. QED
        BY <2>1, <4>1 DEF Named
    <3>2. first.subscribe <=> u \in subscribed
      BY <1>1, <1>2, <2>2, <3>1 DEF LastWordIsRight
    <3>3. u \in held' <=> u \in subscribed
      BY <1>4, <2>2, <3>2 DEF WithRequest
    <3>4. QED
      BY <3>3
  <2>3. CASE u \notin first.users
    <3>1. ~Named(u)
      BY <1>8, <2>1, <2>3
    <3>2. u \in held' <=> u \in held
      BY <1>4, <2>3 DEF WithRequest
    <3>3. QED
      BY <1>1, <1>2, <3>1, <3>2 DEF HeldIsRight
  <2>4. QED
    BY <2>2, <2>3
<1>11. QED
  BY <1>9, <1>10

LEMMA ReachKeeps ==
    ASSUME PresenceInv, NEW i \in 1..MaxSent, Reach(i) \/ Fail(i) PROVE PresenceInv'
<1>1. PresenceTypeOK /\ WantedIsTold /\ i \in 1..Len(requests)
  BY DEF PresenceInv, Reach, Fail
<1>2. requests' \in Seq(Request)
  BY <1>1, OneIsRemoved DEF Reach, Fail
<1>3. held' \subseteq Users
  <2>1. CASE Reach(i)
    <3>1. requests[i] \in Request /\ held \subseteq Users
      BY <1>1 DEF PresenceTypeOK
    <3>2. held' = WithRequest(held, requests[i])
      BY <2>1, <3>1, OneApplied DEF Reach
    <3>3. QED
      BY <3>1, <3>2 DEF WithRequest, Request
  <2>2. CASE Fail(i)
    BY <1>1, <2>2 DEF Fail, PresenceTypeOK
  <2>3. QED
    BY <2>1, <2>2
<1>4. spoiled' \subseteq {"account", "unseen", "overtaken", "lost"}
  BY <1>1 DEF PresenceTypeOK, Reach, Fail
<1>5. UNCHANGED <<desired, subscribed, selfId, active, sentCount, connected, watched,
                  wasConnected, dropCount, replayed>>
  BY DEF Reach, Fail
<1>6. PresenceTypeOK'
  BY <1>1, <1>2, <1>3, <1>4, <1>5 DEF PresenceTypeOK
<1>7. WantedIsTold'
  <2>1. ~connected => held' = held
    BY DEF Reach, Fail
  <2>2. QED
    BY <1>1, <1>5, <2>1 DEF WantedIsTold
<1>8. ASSUME spoiled' = {} PROVE LastWordIsRight' /\ HeldIsRight' /\ WatchIsRight'
  <2>1. spoiled = {} /\ i = 1 /\ Reach(1)
    BY <1>1, <1>8 DEF Reach, Fail
  <2>2. LastWordIsRight' /\ HeldIsRight'
    BY <2>1, FirstIsReached
  <2>3. WatchIsRight
    BY <2>1 DEF PresenceInv
  <2>4. WatchIsRight'
    BY <1>5, <2>3, Zenon DEF WatchIsRight
  <2>5. QED
    BY <2>2, <2>4
<1>9. QED
  BY <1>6, <1>7, <1>8 DEF PresenceInv

LEMMA FollowConnectionKeeps ==
    ASSUME PresenceInv, FollowConnection PROVE PresenceInv'
<1> DEFINE out == IF connected /\ ~wasConnected THEN AskFor(TRUE, subscribed) ELSE <<>>
<1>1. PresenceTypeOK /\ WantedIsTold /\ subscribed \in SUBSET Users
  BY DEF PresenceInv, PresenceTypeOK
<1>2. PICK r \in Request : r = [subscribe |-> TRUE, users |-> subscribed]
  BY <1>1 DEF Request
<1>3. AskFor(TRUE, subscribed) = IF subscribed = {} THEN <<>> ELSE <<r>>
  BY <1>2, Zenon DEF AskFor
<1>4. r.subscribe = TRUE /\ r.users = subscribed
  BY <1>2
<1>5. <<r>> \in Seq(Request) /\ Len(<<r>>) = 1 /\ <<r>>[1] = r /\ <<>> \in Seq(Request)
  OBVIOUS
<1>6. out = <<>> \/ out = <<r>>
  BY <1>3, Zenon
<1>7. connected /\ ~wasConnected /\ subscribed # {} => out = <<r>>
  BY <1>3, Zenon
<1>8. Send(out) /\ ~watched' /\ wasConnected' = connected
  BY Zenon DEF FollowConnection
<1>9. UNCHANGED <<desired, subscribed, selfId, active, connected, held, dropCount, replayed, spoiled>>
  BY DEF FollowConnection
<1> HIDE DEF out
<1>10. /\ out \in Seq(Request)
       /\ \A i \in 1..Len(out) : \A u \in out[i].users : out[i].subscribe <=> u \in subscribed'
       /\ connected /\ ~wasConnected =>
              \A u \in subscribed : \E i \in 1..Len(out) : u \in out[i].users
  <2>1. CASE out = <<r>>
    BY <1>4, <1>5, <1>9, <2>1
  <2>2. CASE out = <<>>
    <3>1. connected /\ ~wasConnected => subscribed = {}
      BY <1>5, <1>7, <2>2
    <3>2. QED
      BY <1>5, <2>2, <3>1
  <2>3. QED
    BY <1>6, <2>1, <2>2
<1>11. PresenceTypeOK'
  <2>1. requests' \in Seq(Request) /\ sentCount' \in 0..MaxSent
    BY <1>1, <1>8, <1>10, RequestsGrow
  <2>2. watched' \in BOOLEAN /\ wasConnected' \in BOOLEAN
    BY <1>1 DEF PresenceTypeOK, FollowConnection
  <2>3. QED
    BY <1>1, <1>9, <2>1, <2>2 DEF PresenceTypeOK
<1>12. WantedIsTold'
  BY <1>1, <1>9 DEF WantedIsTold
<1>13. ASSUME spoiled = {} PROVE LastWordIsRight' /\ HeldIsRight' /\ WatchIsRight'
  <2>1. LastWordIsRight /\ HeldIsRight /\ WatchIsRight
    BY <1>13 DEF PresenceInv
  <2>2. /\ LastWordIsRight'
        /\ \A u \in Users : Named(u)' <=> Named(u) \/ \E i \in 1..Len(out) : u \in out[i].users
    BY <1>1, <1>8, <1>9, <1>10, <2>1, WordsGrow
  <2>3. ASSUME connected', NEW u \in Users, ~Named(u)'
        PROVE  /\ u \in held' => u \in subscribed'
               /\ u \in subscribed' => u \in held'
    <3>1. ~Named(u) /\ connected /\ (u \in subscribed => wasConnected)
      BY <1>9, <1>10, <2>2, <2>3
    <3>2. QED
      BY <1>9, <2>1, <3>1 DEF HeldIsRight
  <2>4. HeldIsRight'
    BY <2>3, Zenon DEF HeldIsRight
  <2>5. WatchIsRight'
    BY <1>8, <1>9, Zenon DEF WatchIsRight
  <2>6. QED
    BY <2>2, <2>4, <2>5
<1>14. QED
  BY <1>9, <1>11, <1>12, <1>13 DEF PresenceInv

LEMMA PresenceStutters == ASSUME PresenceInv, UNCHANGED presenceVars PROVE PresenceInv'
<1>1. UNCHANGED <<desired, subscribed, selfId, active, requests, sentCount, connected, held,
                  watched, wasConnected, dropCount, replayed, spoiled>>
  BY DEF presenceVars
<1>2. PresenceTypeOK' /\ WantedIsTold'
  BY <1>1 DEF PresenceInv, PresenceTypeOK, WantedIsTold
<1>3. ASSUME spoiled = {} PROVE LastWordIsRight' /\ HeldIsRight' /\ WatchIsRight'
  <2>1. LastWordIsRight /\ HeldIsRight /\ WatchIsRight
    BY <1>3 DEF PresenceInv
  <2>2. LastWordIsRight'
    BY <1>1, <2>1 DEF LastWordIsRight
  <2>3. HeldIsRight'
    BY <1>1, <2>1 DEF HeldIsRight, Named
  <2>4. WatchIsRight'
    BY <1>1, <2>1, Zenon DEF WatchIsRight
  <2>5. QED
    BY <2>2, <2>3, <2>4
<1>4. QED
  BY <1>1, <1>2, <1>3 DEF PresenceInv

(* What the presence module keeps in memory, and the requests on their     *)
(* way, stay of the types the module declares.                             *)
THEOREM PresenceKeepsItsTypes == PresenceSpec => []PresenceTypeOK
<1>1. ASSUME PresenceInv, [PresenceNext]_presenceVars PROVE PresenceInv'
  BY <1>1, ObserveKeeps, FollowAccountKeeps, ConnectKeeps, ReachKeeps, FollowConnectionKeeps,
     PresenceStutters, Zenon DEF PresenceNext
<1>2. PresenceInv => PresenceTypeOK
  BY DEF PresenceInv
<1>3. QED
  BY <1>1, <1>2, PresenceStarts, PTL DEF PresenceSpec

(* The owner-scoped sets add up to what is told to the wire (set_desired,  *)
(* stop_observing), and while no request overtakes another or fails, no    *)
(* reconnect is missed by follow_connection and no account change leaves   *)
(* something behind, a settled connection holds just that: for any screens,*)
(* users, accounts, number of requests and of dropped connections.         *)
THEOREM WireHearsTheScreens == PresenceSpec => []WireFollowsTheScreens
<1>1. ASSUME PresenceInv, [PresenceNext]_presenceVars PROVE PresenceInv'
  BY <1>1, ObserveKeeps, FollowAccountKeeps, ConnectKeeps, ReachKeeps, FollowConnectionKeeps,
     PresenceStutters, Zenon DEF PresenceNext
<1>2. ASSUME PresenceInv PROVE WireFollowsTheScreens
  <2>1. ChangesAddUp
    BY <1>2 DEF PresenceInv, WantedIsTold, ChangesAddUp, Union
  <2>2. ASSUME Settled, spoiled = {} PROVE held = subscribed
    <3>1. connected /\ wasConnected /\ requests = <<>>
      <4>1. WatchIsRight
        BY <1>2, <2>2 DEF PresenceInv
      <4>2. QED
        BY <2>2, <4>1 DEF Settled, WatchIsRight
    <3>2. \A u \in Users : ~Named(u)
      BY <3>1 DEF Named
    <3>3. HeldIsRight /\ held \subseteq Users /\ subscribed \subseteq Users
      BY <1>2, <2>2 DEF PresenceInv, PresenceTypeOK
    <3>4. QED
      BY <3>1, <3>2, <3>3 DEF HeldIsRight
  <2>3. QED
    BY <2>1, <2>2, Zenon DEF WireFollowsTheScreens, SettledIsSubscribed
<1>3. QED
  BY <1>1, <1>2, PresenceStarts, PTL DEF PresenceSpec

-----------------------------------------------------------------------------
(* The session list.                                                        *)

(* The list belongs to the accounts that used it; while that is one, the    *)
(* rows are the ones the server gave and still has, and while a termination *)
(* is served, what is on screen and what it would put back are both right.  *)
OneUser == \A a, b \in users : a = b
ServedAreUsers ==
    /\ serving.op # "none" => serving.who \in users
    /\ \A s \in told : OwnerOf[s] \in users
ListIsRight ==
    ~unsure /\ OneUser =>
        IF serving.op \in {"end", "endOthers"}
        THEN listed = told \cap (alive \ Ended) /\ previous = told \cap alive
        ELSE listed = told \cap alive
SessionsInv == SessionTypeOK /\ IsFiniteSet(users) /\ ServedAreUsers /\ ListIsRight

LEMMA SessionsStart == SessionInit => SessionsInv
<1> SUFFICES ASSUME SessionInit PROVE SessionsInv
  OBVIOUS
<1>1. SessionTypeOK
  <2>1. {hasMore, didLoad, signOut, unsure} \subseteq BOOLEAN
    BY Zenon DEF SessionInit
  <2>2. QED
    BY <2>1, SessionsAssumption DEF SessionInit, SessionTypeOK, Unserved
<1>2. IsFiniteSet(users)
  BY FS_EmptySet DEF SessionInit
<1>3. ServedAreUsers /\ ListIsRight
  BY DEF SessionInit, ServedAreUsers, ListIsRight, Unserved
<1>4. QED
  BY <1>1, <1>2, <1>3 DEF SessionsInv

(* Who asks for something is one of the users from then on. *)
LEMMA AskedByAUser ==
    ASSUME SessionsInv, NEW a \in Identities, NEW command, ServeSessions(a, command)
    PROVE  /\ serving.op = "none" /\ serving' = command /\ users' = users \cup {a}
           /\ users' \subseteq Identities /\ IsFiniteSet(users')
           /\ served' \in 0..MaxSessionCommands
           /\ (OneUser' => OneUser /\ \A b \in users : b = a)
  BY FS_AddElement, SessionsAssumption
     DEF SessionsInv, SessionTypeOK, ServeSessions, Unserved, OneUser

LEMMA LoadKeeps ==
    ASSUME SessionsInv, NEW a \in Identities, NEW force \in BOOLEAN,
           LoadSessions(a, force) \/ LoadMoreSessions(a)
    PROVE  SessionsInv'
<1>1. PICK command : /\ ServeSessions(a, command)
                     /\ command.op \in {"none", "load", "more"}
                     /\ command.op # "none" => command.who = a
  <2>1. /\ Unserved.op = "none"
        /\ [op |-> "load", who |-> a].op = "load" /\ [op |-> "load", who |-> a].who = a
        /\ [op |-> "more", who |-> a].op = "more" /\ [op |-> "more", who |-> a].who = a
    BY DEF Unserved
  <2>2. \/ ServeSessions(a, Unserved) \/ ServeSessions(a, [op |-> "load", who |-> a])
        \/ ServeSessions(a, [op |-> "more", who |-> a])
    BY Zenon DEF LoadSessions, LoadMoreSessions
  <2>3. QED
    BY <2>1, <2>2, Zenon
<1>2. UNCHANGED <<listed, previous, hasMore, nextAfter, didLoad, signOut, alive, told, unsure>>
  BY Zenon DEF LoadSessions, LoadMoreSessions
<1>3. /\ serving.op = "none" /\ serving' = command /\ users' = users \cup {a}
      /\ users' \subseteq Identities /\ IsFiniteSet(users') /\ served' \in 0..MaxSessionCommands
      /\ (OneUser' => OneUser /\ \A b \in users : b = a)
  BY <1>1, AskedByAUser
<1>4. SessionTypeOK'
  BY <1>1, <1>2, <1>3 DEF SessionsInv, SessionTypeOK
<1>5. ServedAreUsers' /\ ListIsRight'
  BY <1>1, <1>2, <1>3 DEF SessionsInv, ServedAreUsers, ListIsRight
<1>6. QED
  BY <1>3, <1>4, <1>5 DEF SessionsInv

LEMMA AnswerKeeps ==
    ASSUME SessionsInv, SessionsAnswered \/ SessionsFail PROVE SessionsInv'
<1>1. serving.op \in {"load", "more"} /\ serving' = Unserved /\ Unserved.op = "none"
  BY DEF SessionsAnswered, SessionsFail, Unserved
<1>2. UNCHANGED <<previous, signOut, alive, users, served>>
  BY DEF SessionsAnswered, SessionsFail
<1>3. CASE SessionsFail
  <2>1. UNCHANGED <<listed, previous, hasMore, nextAfter, didLoad, signOut, alive, told, users,
                    unsure, served>>
    BY <1>3 DEF SessionsFail
  <2>2. QED
    BY <1>1, <2>1 DEF SessionsInv, SessionTypeOK, ServedAreUsers, ListIsRight, OneUser
<1>4. CASE SessionsAnswered
  <2> DEFINE fresh == serving.op = "load"
             seen == IF fresh THEN {} ELSE nextAfter
  <2>1. PICK page \in Pages(serving.who, seen) :
          /\ listed' = IF fresh THEN page ELSE listed \cup page
          /\ told' = IF fresh THEN page ELSE told \cup page
          /\ nextAfter' = IF page = {} THEN {} ELSE seen \cup page
          /\ hasMore' = (AliveOf(serving.who) \ (seen \cup page) # {})
          /\ didLoad' = (didLoad \/ fresh)
          /\ unsure' = (unsure /\ ~fresh)
    BY <1>4, Zenon DEF SessionsAnswered
  <2>2. page \subseteq alive /\ \A s \in page : OwnerOf[s] = serving.who
    BY DEF Pages, AliveOf
  <2>3. SessionTypeOK'
    <3>1. \A set \in {listed', previous', nextAfter', alive', told'} : set \subseteq SessionIds
      BY <1>2, <2>1, <2>2 DEF SessionsInv, SessionTypeOK
    <3>2. {hasMore', didLoad', signOut', unsure'} \subseteq BOOLEAN
      <4>1. {didLoad, signOut, unsure} \subseteq BOOLEAN
        BY Zenon DEF SessionsInv, SessionTypeOK
      <4>2. hasMore' \in BOOLEAN
        BY <2>1, Zenon
      <4>3. didLoad' \in BOOLEAN
        BY <2>1, Zenon
      <4>4. unsure' \in BOOLEAN
        BY <2>1, Zenon
      <4>5. QED
        BY <1>2, <4>1, <4>2, <4>3, <4>4, Zenon
    <3>3. QED
      BY <1>1, <1>2, <3>1, <3>2 DEF SessionsInv, SessionTypeOK
  <2>4. ServedAreUsers'
    BY <1>1, <1>2, <2>1, <2>2 DEF SessionsInv, ServedAreUsers
  <2>5. ASSUME ~unsure', OneUser' PROVE listed' = told' \cap alive
    <3>1. CASE fresh
      BY <2>1, <2>2, <3>1
    <3>2. CASE ~fresh
      <4>1. ~unsure
        BY <2>1, <2>5, <3>2
      <4>2. listed = told \cap alive
        BY <1>1, <1>2, <2>5, <4>1 DEF SessionsInv, ListIsRight, OneUser
      <4>3. QED
        BY <2>1, <2>2, <3>2, <4>2
    <3>3. QED
      BY <3>1, <3>2
  <2>6. ListIsRight'
    BY <1>1, <1>2, <2>5 DEF ListIsRight
  <2>7. QED
    BY <1>2, <2>3, <2>4, <2>6 DEF SessionsInv
<1>5. QED
  BY <1>3, <1>4

LEMMA TerminateKeeps ==
    ASSUME SessionsInv, NEW a \in Identities, NEW s \in SessionIds, NEW op \in {"end", "endOthers"},
           Terminate(a, op, s)
    PROVE  SessionsInv'
<1> DEFINE aims == IF op = "end" THEN {s} ELSE SessionIds \ {CurrentOf[a]}
           command == [op |-> op, who |-> a, targets |-> aims]
<1>1. ServeSessions(a, command)
  BY Zenon DEF Terminate
<1>2. command.op = op /\ command.who = a /\ command.targets = aims
  OBVIOUS
<1>3. /\ serving.op = "none" /\ serving' = command /\ users' = users \cup {a}
      /\ users' \subseteq Identities /\ IsFiniteSet(users') /\ served' \in 0..MaxSessionCommands
      /\ (OneUser' => OneUser /\ \A b \in users : b = a)
  <2> HIDE DEF command
  <2>1. QED
    BY <1>1, AskedByAUser
<1> HIDE DEF command
<1>4. /\ previous' = listed /\ listed' = IF op = "end" THEN listed \ {s} ELSE {r \in listed : IsCurrent(r)}
      /\ UNCHANGED <<hasMore, nextAfter, didLoad, signOut, alive, told, unsure>>
  BY DEF Terminate
<1>5. SessionTypeOK'
  BY <1>2, <1>3, <1>4 DEF SessionsInv, SessionTypeOK
<1>6. ServedAreUsers'
  BY <1>2, <1>3, <1>4 DEF SessionsInv, ServedAreUsers
<1>7. ASSUME ~unsure, OneUser'
      PROVE  listed' = told \cap (alive \ Ended') /\ previous' = told \cap alive
  <2>1. listed = told \cap alive /\ \A x \in told : OwnerOf[x] = a /\ x \in SessionIds
    BY <1>3, <1>7 DEF SessionsInv, ListIsRight, ServedAreUsers, SessionTypeOK
  <2>2. Ended' = {x \in aims : OwnerOf[x] = a}
    BY <1>2, <1>3 DEF Ended
  <2>3. \A x \in told : IsCurrent(x) <=> x = CurrentOf[a]
    BY <2>1 DEF IsCurrent
  <2>4. QED
    BY <1>4, <2>1, <2>2, <2>3
<1>8. ListIsRight'
  BY <1>2, <1>3, <1>4, <1>7 DEF ListIsRight
<1>9. QED
  BY <1>3, <1>5, <1>6, <1>8 DEF SessionsInv

LEMMA TerminatedKeeps ==
    ASSUME SessionsInv, NEW b \in BOOLEAN, Terminated(b) \/ TerminationFails(b)
    PROVE  SessionsInv'
<1>1. /\ serving.op \in {"end", "endOthers"} /\ serving' = Unserved /\ Unserved.op = "none"
      /\ previous' = {} /\ UNCHANGED <<hasMore, nextAfter, didLoad, users, served>>
  BY Zenon DEF Terminated, TerminationFails, Unserved
<1>2. alive' \subseteq alive
  BY DEF Terminated, TerminationFails
<1>3. signOut' \in BOOLEAN /\ unsure' \in BOOLEAN
  <2>1. signOut \in BOOLEAN /\ unsure \in BOOLEAN
    BY Zenon DEF SessionsInv, SessionTypeOK
  <2>2. CASE Terminated(b)
    <3>1. signOut' = (signOut \/ CurrentOf[serving.who] \in Ended) /\ unsure' = unsure
      BY <2>2, Zenon DEF Terminated
    <3>2. QED
      BY <2>1, <3>1, Zenon
  <2>3. CASE TerminationFails(b)
    <3>1. unsure' = (unsure \/ b) /\ signOut' = signOut
      BY <2>3, Zenon DEF TerminationFails
    <3>2. QED
      BY <2>1, <3>1, Zenon
  <2>4. QED
    BY <2>2, <2>3
<1>4. /\ listed' \subseteq SessionIds /\ told' \subseteq SessionIds
      /\ \A x \in told' : OwnerOf[x] \in users
  <2>1. serving.who \in users
    BY <1>1 DEF SessionsInv, ServedAreUsers
  <2>2. QED
    BY <1>2, <2>1 DEF Terminated, TerminationFails, RolledBack, SessionsInv, SessionTypeOK, ServedAreUsers
<1>5. SessionTypeOK'
  <2>1. {hasMore', didLoad', signOut', unsure'} \subseteq BOOLEAN
    <3>1. hasMore \in BOOLEAN /\ didLoad \in BOOLEAN
      BY Zenon DEF SessionsInv, SessionTypeOK
    <3>2. QED
      BY <1>1, <1>3, <3>1, Zenon
  <2>2. QED
    BY <1>1, <1>2, <1>4, <2>1 DEF SessionsInv, SessionTypeOK
<1>6. ServedAreUsers'
  BY <1>1, <1>4 DEF ServedAreUsers
<1>7. ASSUME ~unsure', OneUser' PROVE listed' = told' \cap alive'
  <2>1. ~unsure
    <3>1. CASE Terminated(b)
      BY <1>7, <3>1, Zenon DEF Terminated
    <3>2. CASE TerminationFails(b)
      BY <1>7, <3>2, Zenon DEF TerminationFails
    <3>3. QED
      BY <3>1, <3>2
  <2>2. listed = told \cap (alive \ Ended) /\ previous = told \cap alive
    BY <1>1, <1>7, <2>1 DEF SessionsInv, ListIsRight, OneUser
  <2>3. CASE Terminated(b)
    BY <2>2, <2>3 DEF Terminated
  <2>4. CASE TerminationFails(b)
    <3>1. ~b
      BY <1>7, <2>4, Zenon DEF TerminationFails
    <3>2. alive' = alive /\ told' = told /\ listed' = previous
      BY <2>4, <3>1 DEF TerminationFails, RolledBack
    <3>3. QED
      BY <2>2, <3>2
  <2>5. QED
    BY <2>3, <2>4
<1>8. ListIsRight'
  BY <1>1, <1>7 DEF ListIsRight
<1>9. QED
  BY <1>1, <1>5, <1>6, <1>8 DEF SessionsInv

LEMMA ResetKeeps ==
    ASSUME SessionsInv, ResetSessions \/ UNCHANGED sessionVars PROVE SessionsInv'
<1>1. CASE ResetSessions
  <2>1. {hasMore', didLoad', signOut', unsure'} \subseteq BOOLEAN
    BY <1>1, Zenon DEF ResetSessions
  <2>2. SessionTypeOK'
    BY <1>1, <2>1, SessionsAssumption DEF SessionsInv, SessionTypeOK, ResetSessions
  <2>3. IsFiniteSet(users')
    BY <1>1, FS_EmptySet DEF ResetSessions
  <2>4. ServedAreUsers' /\ ListIsRight'
    BY <1>1 DEF ResetSessions, ServedAreUsers, ListIsRight, Unserved
  <2>5. QED
    BY <2>2, <2>3, <2>4 DEF SessionsInv
<1>2. CASE UNCHANGED sessionVars
  BY <1>2 DEF SessionsInv, SessionTypeOK, ServedAreUsers, ListIsRight, OneUser, Ended, sessionVars
<1>3. QED
  BY <1>1, <1>2

LEMMA SessionsStep == ASSUME SessionsInv, [SessionNext]_sessionVars PROVE SessionsInv'
  BY LoadKeeps, AnswerKeeps, TerminateKeeps, TerminatedKeeps, ResetKeeps, Zenon DEF SessionNext

(* The rows, the cursor and the command being served keep their types. *)
THEOREM SessionsKeepTheirTypes == SessionSpec => []SessionTypeOK
<1>1. SessionsInv => SessionTypeOK
  BY DEF SessionsInv
<1>2. QED
  BY <1>1, SessionsStart, SessionsStep, PTL DEF SessionSpec

(* Between commands the list of sessions shows what the server gave and     *)
(* still has, whatever was loaded, ended, refused and put back before       *)
(* (terminate_session, terminate_other_sessions), for any accounts and      *)
(* sessions, a page of any size and any number of commands.                 *)
THEOREM SessionListIsTrue == SessionSpec => []RestingListIsTrue
<1>1. ASSUME SessionsInv PROVE RestingListIsTrue
  <2>1. SUFFICES ASSUME serving.op = "none", ~unsure, Cardinality(users) <= 1
                 PROVE  listed = told \cap alive
    BY DEF RestingListIsTrue
  <2>2. OneUser
    <3>1. SUFFICES ASSUME NEW a \in users, NEW b \in users \ {a} PROVE FALSE
      BY DEF OneUser
    <3>2. /\ IsFiniteSet(users \ {a}) /\ Cardinality(users) \in Nat
          /\ Cardinality(users \ {a}) = Cardinality(users) - 1
      BY <1>1, FS_RemoveElement, FS_CardinalityType DEF SessionsInv
    <3>3. Cardinality(users \ {a}) # 0 /\ Cardinality(users \ {a}) \in Nat
      BY <3>1, <3>2, FS_EmptySet, FS_CardinalityType
    <3>4. QED
      BY <2>1, <3>2, <3>3
  <2>3. QED
    BY <1>1, <2>1, <2>2 DEF SessionsInv, ListIsRight
<1>2. QED
  BY <1>1, SessionsStart, SessionsStep, PTL DEF SessionSpec

-----------------------------------------------------------------------------
(* The feed.                                                                *)

(* What load_more keeps of an answer: the rows it had, and behind them the  *)
(* new ones it did not know.                                                *)
NoneTwice(rows) == \A i, j \in 1..Len(rows) : rows[i].id = rows[j].id => i = j
Extends(all, rows, new, n) ==
    /\ all \in Seq(Row)
    /\ \A i \in 1..Len(all) :
          \/ \E j \in 1..Len(rows) : all[i] = rows[j]
          \/ \E j \in 1..n : all[i] = new[j] /\ new[j].id \notin Known(rows)
    /\ NoneTwice(rows) => NoneTwice(all)

LEMMA NewRowsAreAppended ==
    ASSUME NEW rows \in Seq(Row), NEW new \in Seq(Row), NoneTwice(new)
    PROVE  Extends(AppendNew(rows, new), rows, new, Len(new))
<1> DEFINE N == Len(new)
           took(n, all) == IF new[n].id \in Known(rows) THEN all ELSE Append(all, new[n])
           goes(f) == f = [n \in 0..N |-> IF n = 0 THEN rows ELSE took(n, f[n - 1])]
           up == CHOOSE f : goes(f)
           next == [n \in 1..N |-> [all \in Seq(Row) |-> took(n, all)]]
<1>1. AppendNew(rows, new) = up[N]
  BY DEF AppendNew
<1>2. N \in Nat /\ \A n \in 1..N : new[n] \in Row
  OBVIOUS
<1>3. \A n \in 1..N : \A all \in Seq(Row) : took(n, all) \in Seq(Row)
  BY <1>2
<1>4. \A n \in 0..N : n = 0 \/ (n \in 1..N /\ n # 0)
  BY <1>2
<1>5. \A n \in 1..N : n - 1 \in 0..N /\ n \in 0..N /\ n # 0
  BY <1>2
<1>6. \E f : goes(f)
  <2> HIDE DEF took, N
  <2>1. next \in [1..N -> [Seq(Row) -> Seq(Row)]]
    BY <1>3
  <2>2. PICK f \in [0..N -> Seq(Row)] : f[0] = rows /\ \A n \in 1..N : f[n] = next[n][f[n - 1]]
    <3> DEFINE S == Seq(Row)
    <3>1. rows \in S /\ next \in [1..N -> [S -> S]] /\ N \in Nat
      BY <1>2, <2>1
    <3> HIDE DEF next, S
    <3>2. \E f : Takes(f, S, N, rows, next)
      BY <3>1, StepsCanBeTaken
    <3>3. QED
      BY <3>2 DEF S, Takes
  <2>3. \A n \in 1..N : f[n] = took(n, f[n - 1])
    BY <1>5, <2>2
  <2> HIDE DEF next
  <2>4. \A n \in 0..N : f[n] = IF n = 0 THEN rows ELSE took(n, f[n - 1])
    BY <1>4, <1>5, <2>2, <2>3
  <2>5. goes(f)
    BY <2>4
  <2>6. QED
    BY <2>5
<1>7. goes(up)
  <2> HIDE DEF goes
  <2>1. QED
    BY <1>6
<1> HIDE DEF up, next
<1>8. up[0] = rows /\ \A n \in 1..N : up[n] = took(n, up[n - 1])
  <2> HIDE DEF took, N
  <2>1. \A n \in 0..N : up[n] = IF n = 0 THEN rows ELSE took(n, up[n - 1])
    BY <1>7
  <2>2. 0 \in 0..N
    BY <1>2
  <2>3. QED
    BY <1>5, <2>1, <2>2
<1> HIDE DEF goes
<1> DEFINE Good == {n \in 0..N : Extends(up[n], rows, new, n)}
<1>9. 0 \in Good
  BY <1>2, <1>8 DEF Extends
<1>10. ASSUME NEW n \in 0..N, n + 1 \in 0..N, n \in Good PROVE n + 1 \in Good
  <2> DEFINE all == up[n]
             row == new[n + 1]
  <2>1. /\ n \in Nat /\ n + 1 \in 1..N /\ row \in Row /\ all \in Seq(Row) /\ Len(all) \in Nat
        /\ 1..n \subseteq 1..(n + 1) /\ (n + 1) - 1 = n /\ n + 1 \in 1..(n + 1)
    BY <1>2, <1>10 DEF Extends
  <2>2. up[n + 1] = IF row.id \in Known(rows) THEN all ELSE Append(all, row)
    BY <1>8, <2>1
  <2>3. /\ \A i \in 1..Len(all) :
              \/ \E j \in 1..Len(rows) : all[i] = rows[j]
              \/ \E j \in 1..n : all[i] = new[j] /\ new[j].id \notin Known(rows)
        /\ NoneTwice(rows) => NoneTwice(all)
    BY <1>10 DEF Extends
  <2> HIDE DEF all, row
  <2>4. CASE row.id \in Known(rows)
    <3>1. \A i \in 1..Len(all) :
              \/ \E j \in 1..Len(rows) : all[i] = rows[j]
              \/ \E j \in 1..(n + 1) : all[i] = new[j] /\ new[j].id \notin Known(rows)
      BY <2>1, <2>3
    <3>2. Extends(all, rows, new, n + 1)
      BY <2>1, <2>3, <3>1 DEF Extends
    <3>3. QED
      BY <1>10, <2>2, <2>4, <3>2
  <2>5. CASE row.id \notin Known(rows)
    <3> DEFINE longer == Append(all, row)
    <3>1. /\ longer \in Seq(Row) /\ Len(longer) = Len(all) + 1
          /\ \A i \in 1..Len(all) : longer[i] = all[i]
          /\ longer[Len(all) + 1] = row
          /\ \A i \in 1..(Len(all) + 1) : i \in 1..Len(all) \/ i = Len(all) + 1
      BY <2>1
    <3> HIDE DEF longer
    <3>2. \A i \in 1..Len(all) : longer[i].id # row.id
      <4>1. SUFFICES ASSUME NEW i \in 1..Len(all), all[i].id = row.id PROVE FALSE
        BY <3>1
      <4>2. CASE \E j \in 1..Len(rows) : all[i] = rows[j]
        BY <2>5, <4>1, <4>2 DEF Known
      <4>3. CASE \E j \in 1..n : all[i] = new[j]
        <5>1. PICK j \in 1..n : all[i] = new[j]
          BY <4>3
        <5>2. j \in 1..Len(new) /\ n + 1 \in 1..Len(new) /\ j # n + 1
          BY <2>1
        <5>3. QED
          BY <4>1, <5>1, <5>2 DEF NoneTwice, row
      <4>4. QED
        BY <2>3, <4>2, <4>3
    <3>3. NoneTwice(rows) => NoneTwice(longer)
      BY <2>1, <2>3, <3>1, <3>2 DEF NoneTwice
    <3>4. \A i \in 1..Len(longer) :
              \/ \E j \in 1..Len(rows) : longer[i] = rows[j]
              \/ \E j \in 1..(n + 1) : longer[i] = new[j] /\ new[j].id \notin Known(rows)
      <4>1. SUFFICES ASSUME NEW i \in 1..(Len(all) + 1)
                     PROVE  \/ \E j \in 1..Len(rows) : longer[i] = rows[j]
                            \/ \E j \in 1..(n + 1) : longer[i] = new[j] /\ new[j].id \notin Known(rows)
        BY <3>1
      <4>2. CASE i \in 1..Len(all)
        <5>1. longer[i] = all[i]
          BY <3>1, <4>2
        <5>2. \/ \E j \in 1..Len(rows) : all[i] = rows[j]
              \/ \E j \in 1..n : all[i] = new[j] /\ new[j].id \notin Known(rows)
          BY <2>3, <4>2
        <5>3. QED
          BY <2>1, <5>1, <5>2
      <4>3. CASE i = Len(all) + 1
        BY <2>1, <2>5, <3>1, <4>3 DEF row
      <4>4. QED
        BY <3>1, <4>2, <4>3
    <3>5. Extends(longer, rows, new, n + 1)
      BY <3>1, <3>3, <3>4 DEF Extends
    <3>6. QED
      BY <1>10, <2>2, <2>5, <3>5 DEF longer
  <2>6. QED
    BY <2>4, <2>5
<1> HIDE DEF Good
<1>11. 0..N \subseteq Good
  BY <1>2, <1>9, <1>10, StepByStep
<1>12. N \in Good
  BY <1>2, <1>11
<1>13. QED
  BY <1>1, <1>12 DEF Good

-----------------------------------------------------------------------------
(* What the actor remembers of the command it serves, the bound on counters *)
(* that the types need, and what the rows show: the server's word, or, of   *)
(* the post being toggled, that word with the press applied.                *)
RowAt(s, i) == pages[s].rows[i]
Pressed(s, i) == awaiting.op = "toggle" /\ RowAt(s, i).id = awaiting.post
Shy(r) == r.on = FALSE => r.count <= Cardinality(Members)
ServedIsKnown ==
    /\ awaiting.op \in {"refresh", "more"} => awaiting.scope \in Scopes
    /\ awaiting.op = "toggle" =>
          reader \in Members /\ awaiting.post \in Posts /\ awaiting.enabled \in BOOLEAN
CountsFit == \A s \in Scopes : \A i \in 1..Len(pages[s].rows) : Shy(RowAt(s, i))
PressesAreKept ==
    \A s \in Scopes : \A i \in 1..Len(pages[s].rows) : Pressed(s, i) =>
        /\ <<s, i>> \in DOMAIN awaiting.previous
        /\ awaiting.previous[<<s, i>>] \in Row
        /\ Shy(awaiting.previous[<<s, i>>])
        /\ awaiting.previous[<<s, i>>].id = awaiting.post
Shows(s, i, p) ==
    IF Pressed(s, i)
    THEN /\ RowAt(s, i) = ApplyToggle(RowOfPost(p), awaiting.enabled)
         /\ awaiting.previous[<<s, i>>] = RowOfPost(p)
    ELSE RowAt(s, i) = RowOfPost(p)
RowsAreTrue ==
    ~uncertain =>
        \A s \in Scopes : \A i \in 1..Len(pages[s].rows) : \A p \in Posts :
            p = RowAt(s, i).id => Shows(s, i, p)
AreDistinct == \A s \in Scopes : NoneTwice(pages[s].rows)
PostInv ==
    /\ PostTypeOK /\ ServedIsKnown /\ CountsFit /\ PressesAreKept /\ RowsAreTrue
    /\ AreDistinct

(* A row says what the server would, within the counter's bounds. *)
LEMMA RowIsARow ==
    ASSUME PostTypeOK, NEW p \in Posts
    PROVE  /\ RowOfPost(p) \in Row /\ RowOfPost(p).id = p /\ Shy(RowOfPost(p))
           /\ Count(p) \in Nat /\ Count(p) <= Cardinality(Members)
           /\ RowOfPost(p).on = On(p) /\ RowOfPost(p).count = Count(p)
<1> DEFINE likers == {v \in Members : p \in liked[v]}
<1>1. IsFiniteSet(Members) /\ likers \subseteq Members
  BY PostAssumption
<1>2. /\ Cardinality(likers) \in Nat /\ Cardinality(Members) \in Nat
      /\ Cardinality(likers) <= Cardinality(Members)
  BY <1>1, FS_Subset, FS_CardinalityType
<1>3. Count(p) = Cardinality(likers)
  BY DEF Count
<1> HIDE DEF likers
<1>4. On(p) \in BOOLEAN
  BY Zenon DEF On
<1>5. RowOfPost(p).id = p /\ RowOfPost(p).on = On(p) /\ RowOfPost(p).count = Count(p)
  BY Zenon DEF RowOfPost
<1>6. Count(p) \in 0..(Cardinality(Members) + 1)
  BY <1>2, <1>3
<1>7. RowOfPost(p) \in Row
  BY <1>4, <1>6, Zenon DEF RowOfPost, Row
<1>8. QED
  BY <1>2, <1>3, <1>5, <1>7 DEF Shy

LEMMA PressIsARow ==
    ASSUME NEW r \in Row, Shy(r), NEW enabled \in BOOLEAN
    PROVE  /\ ApplyToggle(r, enabled) \in Row /\ ApplyToggle(r, enabled).id = r.id
           /\ Shy(ApplyToggle(r, enabled))
<1>1. Cardinality(Members) \in Nat
  BY PostAssumption, FS_CardinalityType
<1>2. r.count \in 0..(Cardinality(Members) + 1) /\ r.on \in BOOLEAN
  BY DEF Row
<1>3. CASE r.on = enabled
  BY <1>3, Zenon DEF ApplyToggle
<1>4. CASE r.on # enabled
  <2> DEFINE c == Step(r.count, enabled)
             pressed == [r EXCEPT !.on = enabled, !.count = c]
  <2>1. ApplyToggle(r, enabled) = pressed
    BY <1>4, Zenon DEF ApplyToggle
  <2>2. c \in 0..(Cardinality(Members) + 1)
    <3>1. CASE enabled
      <4>1. r.on = FALSE
        BY <1>2, <1>4, <3>1, Zenon
      <4>2. c = r.count + 1
        BY <3>1, Zenon DEF Step
      <4>3. r.count <= Cardinality(Members)
        BY <4>1 DEF Shy
      <4>4. QED
        BY <1>1, <1>2, <4>2, <4>3
    <3>2. CASE ~enabled
      <4>1. c = IF r.count = 0 THEN 0 ELSE r.count - 1
        BY <3>2, Zenon DEF Step
      <4>2. QED
        BY <1>1, <1>2, <4>1
    <3>3. QED
      BY <3>1, <3>2
  <2>3. enabled = FALSE => c <= Cardinality(Members)
    <3>1. enabled = FALSE => c = IF r.count = 0 THEN 0 ELSE r.count - 1
      BY Zenon DEF Step
    <3>2. QED
      BY <1>1, <1>2, <3>1
  <2> HIDE DEF c
  <2>4. pressed.on = enabled /\ pressed.count = c /\ pressed.id = r.id /\ pressed \in Row
    BY <2>2 DEF Row
  <2>5. QED
    BY <2>1, <2>3, <2>4, Zenon DEF Shy
<1>5. QED
  BY <1>3, <1>4

(* What the server holds after it served the press is what was rowNow.       *)
LEMMA PressComesTrue ==
    ASSUME PostTypeOK, NEW v \in Members, reader = v, NEW p \in Posts, NEW enabled \in BOOLEAN,
           liked' = [liked EXCEPT ![v] = IF enabled THEN @ \cup {p} ELSE @ \ {p}],
           reader' = reader
    PROVE  /\ RowOfPost(p)' = ApplyToggle(RowOfPost(p), enabled)
           /\ \A q \in Posts : q # p => RowOfPost(q)' = RowOfPost(q)
           /\ On(p)' = enabled
           /\ liked' \in [Members -> SUBSET Posts]
<1>1. liked \in [Members -> SUBSET Posts] /\ v # NoMember /\ IsFiniteSet(Members)
  BY PostAssumption DEF PostTypeOK
<1>2. /\ \A q \in Posts : (q \in liked'[v]) <=> IF q = p THEN enabled ELSE q \in liked[v]
      /\ \A w \in Members : w # v => liked'[w] = liked[w]
      /\ liked' \in [Members -> SUBSET Posts]
  <2>1. CASE enabled
    BY <1>1, <2>1
  <2>2. CASE ~enabled
    BY <1>1, <2>2
  <2>3. QED
    BY <2>1, <2>2
<1>3. ASSUME NEW q \in Posts, q # p PROVE RowOfPost(q)' = RowOfPost(q)
  <2>1. {w \in Members : q \in liked'[w]} = {w \in Members : q \in liked[w]}
    BY <1>2, <1>3
  <2>2. On(q)' = On(q)
    BY <1>2, <1>3 DEF On
  <2>3. QED
    BY <2>1, <2>2, Zenon DEF RowOfPost, Count
<1>4. On(p) \in BOOLEAN /\ (On(p) <=> p \in liked[v]) /\ On(p)' = enabled
  <2>1. On(p) \in BOOLEAN /\ (On(p) <=> p \in liked[v])
    BY <1>1 DEF On
  <2>2. (reader' # NoMember /\ p \in liked'[reader']) = enabled
    BY <1>1, <1>2
  <2>3. QED
    BY <2>1, <2>2 DEF On
<1>5. RowOfPost(p)' = ApplyToggle(RowOfPost(p), enabled)
  <2> DEFINE before == {w \in Members : p \in liked[w]}
             after == {w \in Members : p \in liked'[w]}
  <2>1. /\ RowOfPost(p) = [id |-> p, on |-> On(p), count |-> Cardinality(before)]
        /\ RowOfPost(p)' = [id |-> p, on |-> enabled, count |-> Cardinality(after)]
    BY <1>4, Zenon DEF RowOfPost, Count
  <2>2. before \subseteq Members /\ IsFiniteSet(before) /\ Cardinality(before) \in Nat
    BY <1>1, FS_Subset, FS_CardinalityType
  <2>3. On(p) <=> v \in before
    BY <1>4
  <2>4. enabled => after = before \cup {v}
    BY <1>2
  <2>5. ~enabled => after = before \ {v}
    BY <1>2
  <2> HIDE DEF before, after
  <2>6. CASE On(p) = enabled
    <3>1. after = before
      BY <2>3, <2>4, <2>5, <2>6
    <3>2. RowOfPost(p)' = RowOfPost(p)
      BY <2>1, <2>6, <3>1, Zenon
    <3>3. RowOfPost(p).on = enabled
      BY <2>6, RowIsARow, Zenon
    <3>4. QED
      BY <3>2, <3>3, Zenon DEF ApplyToggle
  <2>7. CASE On(p) # enabled
    <3>1. Cardinality(after) = Step(Cardinality(before), enabled)
      <4>1. CASE enabled
        <5>1. v \notin before
          BY <1>4, <2>3, <2>7, <4>1
        <5>2. Cardinality(after) = Cardinality(before) + 1
          BY <2>2, <2>4, <4>1, <5>1, FS_AddElement
        <5>3. QED
          BY <4>1, <5>2, Zenon DEF Step
      <4>2. CASE ~enabled
        <5>1. v \in before
          BY <1>4, <2>3, <2>7, <4>2
        <5>2. Cardinality(after) = Cardinality(before) - 1
          BY <2>2, <2>5, <4>2, <5>1, FS_RemoveElement
        <5>3. Cardinality(before) # 0
          BY <2>2, <5>1, FS_EmptySet
        <5>4. QED
          BY <4>2, <5>2, <5>3, Zenon DEF Step
      <4>3. QED
        BY <4>1, <4>2
    <3> DEFINE r == RowOfPost(p)
    <3>2. r.on = On(p) /\ r.count = Cardinality(before)
      BY RowIsARow, Zenon DEF before, Count
    <3>3. [r EXCEPT !.on = enabled, !.count = Step(@, enabled)]
             = [id |-> p, on |-> enabled, count |-> Step(Cardinality(before), enabled)]
      <4>1. r = [id |-> p, on |-> On(p), count |-> Cardinality(before)]
        BY <2>1, Zenon
      <4> HIDE DEF r
      <4>2. [r EXCEPT !.on = enabled, !.count = Step(r.count, enabled)]
              = [id |-> p, on |-> enabled, count |-> Step(r.count, enabled)]
        <5>1. PICK x : x = r
          OBVIOUS
        <5>2. PICK m : m = Step(r.count, enabled)
          OBVIOUS
        <5>3. PICK b : b = enabled
          OBVIOUS
        <5>4. PICK a : a = On(p)
          OBVIOUS
        <5>5. PICK n : n = Cardinality(before)
          OBVIOUS
        <5>6. x = [id |-> p, on |-> a, count |-> n]
          BY <4>1, <5>1, <5>4, <5>5, Zenon
        <5>7. [x EXCEPT !.on = b, !.count = m] = [id |-> p, on |-> b, count |-> m]
          <6>1. DOMAIN x = {"id", "on", "count"}
            BY <5>6
          <6>2. [x EXCEPT !.on = b, !.count = m]
                  = [f \in {"id", "on", "count"} |-> IF f = "count" THEN m
                                                     ELSE IF f = "on" THEN b ELSE x[f]]
            BY <6>1
          <6>3. QED
            BY ONLY <5>6, <6>2
        <5>8. QED
          BY <5>1, <5>2, <5>3, <5>7, Zenon
      <4>3. QED
        BY <3>2, <4>2, Zenon
    <3>4. QED
      BY <2>1, <2>7, <3>1, <3>2, <3>3, Zenon DEF ApplyToggle
  <2>8. QED
    BY <2>6, <2>7
<1>6. QED
  BY <1>2, <1>3, <1>4, <1>5

-----------------------------------------------------------------------------
LEMMA PostsStart == PostInit => PostInv
<1> SUFFICES ASSUME PostInit PROVE PostInv
  OBVIOUS
<1>1. /\ EmptyPage \in Page /\ EmptyPage.rows = <<>> /\ Len(<<>>) = 0 /\ Resting.op = "none"
      /\ uncertain \in BOOLEAN
  <2>1. EmptyPage \in Page /\ EmptyPage.rows = <<>> /\ Len(<<>>) = 0
    BY DEF EmptyPage, Page
  <2>2. Resting.op = "none" /\ uncertain \in BOOLEAN
    BY DEF Resting, PostInit
  <2>3. QED
    BY <2>1, <2>2
<1>2. {InboxRoom, MaxPostCommands} \subseteq Nat
  BY PostAssumption
<1>3. inbox \in Seq(PostCommands) /\ Len(inbox) <= InboxRoom
  BY <1>2 DEF PostInit
<1>4. PostTypeOK
  BY <1>1, <1>2, <1>3 DEF PostInit, PostTypeOK
<1>5. \A s \in Scopes : Len(pages[s].rows) = 0 /\ pages[s].rows = <<>>
  BY <1>1 DEF PostInit
<1>6. ServedIsKnown
  BY <1>1 DEF PostInit, ServedIsKnown
<1>7. CountsFit /\ PressesAreKept /\ RowsAreTrue
  BY <1>5 DEF CountsFit, PressesAreKept, RowsAreTrue
<1>8. AreDistinct
  BY <1>5 DEF NoneTwice, AreDistinct
<1>9. QED
  BY <1>4, <1>6, <1>7, <1>8 DEF PostInv

(* Taking a command makes room; a full channel drops what comes.            *)
LEMMA CommandIsTaken ==
    ASSUME PostTypeOK, NEW op, TakePost(op)
    PROVE  /\ inbox' \in Seq(PostCommands) /\ Len(inbox') <= InboxRoom
           /\ Head(inbox) \in PostCommands /\ Head(inbox).op = op /\ awaiting.op = "none"
<1>1. inbox \in Seq(PostCommands) /\ Len(inbox) <= InboxRoom /\ inbox # <<>> /\ inbox' = Tail(inbox)
      /\ Head(inbox).op = op /\ awaiting = Resting /\ InboxRoom \in Nat
  BY PostAssumption DEF PostTypeOK, TakePost
<1>2. Head(inbox) \in PostCommands /\ Tail(inbox) \in Seq(PostCommands)
      /\ Len(Tail(inbox)) = Len(inbox) - 1 /\ Len(inbox) \in Nat
  BY <1>1
<1>3. QED
  BY <1>1, <1>2 DEF Resting

LEMMA CommandFields ==
    ASSUME NEW c \in PostCommands
    PROVE  /\ c.op \in {"activate", "refresh", "more"} => c.scope \in Scopes
           /\ c.op = "toggle" => c.post \in Posts /\ c.enabled \in BOOLEAN
           /\ c.op = "identity" => c.reader \in Members \cup {NoMember}
  BY DEF PostCommands

LEMMA CommandArrives ==
    ASSUME PostTypeOK, NEW c \in PostCommands, DispatchPost(c)
    PROVE  /\ inbox' \in Seq(PostCommands) /\ Len(inbox') <= InboxRoom
           /\ dispatched' \in 0..MaxPostCommands
<1>1. /\ inbox \in Seq(PostCommands) /\ Len(inbox) <= InboxRoom /\ dispatched \in 0..MaxPostCommands
      /\ {InboxRoom, MaxPostCommands} \subseteq Nat
  BY PostAssumption DEF PostTypeOK
<1>2. dispatched < MaxPostCommands /\ dispatched' = dispatched + 1
  BY DEF DispatchPost
<1>3. inbox' = IF Len(inbox) < InboxRoom THEN Append(inbox, c) ELSE inbox
  BY DEF DispatchPost
<1>4. Append(inbox, c) \in Seq(PostCommands) /\ Len(Append(inbox, c)) = Len(inbox) + 1
      /\ Len(inbox) \in Nat
  BY <1>1
<1>5. QED
  BY <1>1, <1>2, <1>3, <1>4

(* What changes no row and serves no press keeps the rows as they are.      *)
LEMMA ServingKeeps ==
    ASSUME PostInv, UNCHANGED <<reader, pages, liked, uncertain>>,
           inbox' \in Seq(PostCommands), Len(inbox') <= InboxRoom,
           dispatched' \in 0..MaxPostCommands,
           \/ UNCHANGED awaiting
           \/ /\ awaiting.op # "toggle" /\ awaiting'.op \in {"none", "refresh", "more"}
              /\ awaiting'.op # "none" => awaiting'.scope \in Scopes
    PROVE  PostInv'
<1>1. PostTypeOK'
  BY DEF PostInv, PostTypeOK
<1>2. ServedIsKnown'
  BY DEF PostInv, ServedIsKnown
<1>3. CountsFit'
  BY DEF PostInv, CountsFit, RowAt, Shy
<1>4. (\A p : RowOfPost(p)' = RowOfPost(p)) /\ \A s, i : RowAt(s, i)' = RowAt(s, i)
  BY DEF RowOfPost, On, Count, RowAt
<1>5. \A s, i : Pressed(s, i)' => Pressed(s, i) /\ awaiting' = awaiting
  BY <1>4 DEF Pressed
<1>6. PressesAreKept'
  BY <1>4, <1>5 DEF PostInv, PressesAreKept, Shy
<1>7. RowsAreTrue'
  <2>1. ASSUME NEW s, NEW i, NEW p PROVE Shows(s, i, p)' <=> Shows(s, i, p)
    <3>1. CASE awaiting' = awaiting
      <4>1. Pressed(s, i)' <=> Pressed(s, i)
        BY <1>4, <3>1, Zenon DEF Pressed
      <4>2. QED
        BY <1>4, <3>1, <4>1, Zenon DEF Shows
    <3>2. CASE awaiting' # awaiting
      <4>1. ~Pressed(s, i)' /\ ~Pressed(s, i)
        BY <1>5, <3>2 DEF Pressed
      <4>2. QED
        BY <1>4, <4>1, Zenon DEF Shows
    <3>3. QED
      BY <3>1, <3>2
  <2>2. QED
    BY <1>4, <2>1, Zenon DEF PostInv, RowsAreTrue
<1>8. AreDistinct'
  BY DEF PostInv, AreDistinct
<1>9. QED
  BY <1>1, <1>2, <1>3, <1>6, <1>7, <1>8 DEF PostInv

LEMMA QuietKeeps ==
    ASSUME PostInv,
           \/ \E c \in PostCommands : DispatchPost(c)
           \/ LoadFirst \/ ActivateLoaded \/ LoadMorePosts \/ PageFails \/ ToggleIgnored
    PROVE  PostInv'
<1>1. PostTypeOK /\ dispatched \in 0..MaxPostCommands /\ inbox \in Seq(PostCommands)
      /\ Len(inbox) <= InboxRoom
  BY DEF PostInv, PostTypeOK
<1>2. ASSUME NEW c \in PostCommands, DispatchPost(c) PROVE PostInv'
  <2>1. UNCHANGED <<reader, pages, awaiting, liked, uncertain>>
    BY <1>2 DEF DispatchPost
  <2>2. QED
    BY <1>1, <1>2, <2>1, CommandArrives, ServingKeeps
<1>3. CASE LoadFirst
  <2>1. PICK op \in {"activate", "refresh"} : TakePost(op)
    BY <1>3, Zenon DEF LoadFirst
  <2>2. Head(inbox).scope \in Scopes /\ awaiting.op = "none"
        /\ inbox' \in Seq(PostCommands) /\ Len(inbox') <= InboxRoom
    BY <1>1, <2>1, CommandIsTaken, CommandFields
  <2>3. /\ awaiting' = [op |-> "refresh", scope |-> Head(inbox).scope]
        /\ UNCHANGED <<reader, pages, liked, uncertain, dispatched>>
    BY <1>3, Zenon DEF LoadFirst
  <2>4. awaiting'.op = "refresh" /\ awaiting'.scope \in Scopes
    BY <2>2, <2>3
  <2>5. QED
    BY <1>1, <2>2, <2>3, <2>4, ServingKeeps
<1>4. CASE LoadMorePosts
  <2>1. Head(inbox).scope \in Scopes /\ awaiting.op = "none"
        /\ inbox' \in Seq(PostCommands) /\ Len(inbox') <= InboxRoom
    BY <1>1, <1>4, CommandIsTaken, CommandFields DEF LoadMorePosts
  <2>2. /\ awaiting' = awaiting \/ awaiting' = [op |-> "more", scope |-> Head(inbox).scope]
        /\ UNCHANGED <<reader, pages, liked, uncertain, dispatched>>
    BY <1>4, Zenon DEF LoadMorePosts
  <2>3. awaiting' = awaiting \/ (awaiting'.op = "more" /\ awaiting'.scope \in Scopes)
    BY <2>1, <2>2
  <2>4. QED
    BY <1>1, <2>1, <2>2, <2>3, ServingKeeps
<1>5. CASE ActivateLoaded \/ ToggleIgnored
  <2>1. /\ TakePost("activate") \/ TakePost("toggle")
        /\ UNCHANGED <<reader, pages, awaiting, liked, uncertain, dispatched>>
    BY <1>5 DEF ActivateLoaded, ToggleIgnored, Skip
  <2>2. inbox' \in Seq(PostCommands) /\ Len(inbox') <= InboxRoom
    BY <1>1, <2>1, CommandIsTaken
  <2>3. QED
    BY <1>1, <2>1, <2>2, ServingKeeps
<1>6. CASE PageFails
  <2>1. /\ awaiting.op \in {"refresh", "more"} /\ awaiting' = Resting /\ Resting.op = "none"
        /\ UNCHANGED <<inbox, reader, pages, liked, uncertain, dispatched>>
    BY <1>6 DEF PageFails, Resting
  <2>2. QED
    BY <1>1, <2>1, ServingKeeps
<1>7. QED
  BY <1>2, <1>3, <1>4, <1>5, <1>6

(* A new reader, or a reset, starts from empty pages. *)
LEMMA EmptyingKeeps ==
    ASSUME PostInv, SetIdentity \/ ResetPosts PROVE PostInv'
<1>1. PostTypeOK /\ dispatched \in 0..MaxPostCommands
  BY DEF PostInv, PostTypeOK
<1>2. /\ inbox' \in Seq(PostCommands) /\ Len(inbox') <= InboxRoom
      /\ reader' \in Members \cup {NoMember} /\ awaiting.op = "none"
  <2>1. CASE SetIdentity
    <3>1. TakePost("identity") /\ reader' = Head(inbox).reader
      BY <2>1 DEF SetIdentity
    <3>2. QED
      BY <1>1, <3>1, CommandIsTaken, CommandFields
  <2>2. CASE ResetPosts
    <3>1. TakePost("reset") /\ reader' = reader
      BY <2>2 DEF ResetPosts
    <3>2. reader \in Members \cup {NoMember}
      BY <1>1 DEF PostTypeOK
    <3>3. QED
      BY <1>1, <3>1, <3>2, CommandIsTaken
  <2>3. QED
    BY <2>1, <2>2
<1>3. UNCHANGED <<awaiting, liked, uncertain, dispatched>>
  BY DEF SetIdentity, ResetPosts
<1>4. CASE pages' = pages /\ reader' = reader
  BY <1>1, <1>2, <1>3, <1>4, ServingKeeps
<1>5. CASE pages' = [s \in Scopes |-> EmptyPage]
  <2>1. EmptyPage \in Page /\ EmptyPage.rows = <<>> /\ Len(<<>>) = 0
    BY DEF EmptyPage, Page
  <2>2. \A s \in Scopes : Len(pages'[s].rows) = 0 /\ pages'[s].rows = <<>>
    BY <1>5, <2>1
  <2>3. PostTypeOK'
    BY <1>1, <1>2, <1>3, <1>5, <2>1 DEF PostTypeOK
  <2>4. ServedIsKnown'
    BY <1>2, <1>3 DEF ServedIsKnown
  <2>5. CountsFit' /\ PressesAreKept' /\ RowsAreTrue'
    BY <2>2 DEF CountsFit, PressesAreKept, RowsAreTrue
  <2>6. AreDistinct'
    BY <2>2 DEF NoneTwice, AreDistinct
  <2>7. QED
    BY <2>3, <2>4, <2>5, <2>6 DEF PostInv
<1>6. (pages' = pages /\ reader' = reader) \/ pages' = [s \in Scopes |-> EmptyPage]
  BY Zenon DEF SetIdentity, ResetPosts
<1>7. QED
  BY <1>4, <1>5, <1>6

(* The pages once more: well formed, and each row for what it was.          *)
LEMMA RowsAreRows ==
    ASSUME PostInv
    PROVE  /\ PostTypeOK /\ AreDistinct
           /\ \A s \in Scopes : DOMAIN pages[s].rows = 1..Len(pages[s].rows)
           /\ \A s \in Scopes : \A i \in 1..Len(pages[s].rows) :
                  RowAt(s, i) \in Row /\ RowAt(s, i).id \in Posts /\ Shy(RowAt(s, i))
<1>1. \A s \in Scopes : pages[s].rows \in Seq(Row)
  BY DEF PostInv, PostTypeOK, Page
<1>2. \A s \in Scopes : \A i \in 1..Len(pages[s].rows) : RowAt(s, i) \in Row
  BY <1>1 DEF RowAt
<1>3. \A r \in Row : r.id \in Posts
  BY DEF Row
<1>4. QED
  BY <1>1, <1>2, <1>3 DEF PostInv, CountsFit

(* While no press is served the rows say what the server would.             *)
LEMMA IdleRowsAreTrue ==
    ASSUME PostInv, ~uncertain, awaiting.op # "toggle"
    PROVE  \A s \in Scopes : \A i \in 1..Len(pages[s].rows) :
               RowAt(s, i) = RowOfPost(RowAt(s, i).id)
<1>1. SUFFICES ASSUME NEW s \in Scopes, NEW i \in 1..Len(pages[s].rows),
                      NEW p \in Posts, p = RowAt(s, i).id
               PROVE  RowAt(s, i) = RowOfPost(p)
  BY RowsAreRows
<1>2. ~Pressed(s, i)
  BY DEF Pressed
<1>3. Shows(s, i, p)
  BY <1>1, Zenon DEF PostInv, RowsAreTrue
<1>4. QED
  BY <1>2, <1>3 DEF Shows

(* The rows of an answer, as the server gives them. *)
LEMMA AnswerIsRows ==
    ASSUME PostTypeOK, NEW ids \in Answers
    PROVE  LET new == [i \in DOMAIN ids |-> RowOfPost(ids[i])] IN
           /\ new \in Seq(Row) /\ NoneTwice(new)
           /\ \A i \in 1..Len(new) : new[i] = RowOfPost(new[i].id) /\ Shy(new[i])
<1> DEFINE new == [i \in DOMAIN ids |-> RowOfPost(ids[i])]
<1>1. PICK n \in 0..PageRows : ids \in [1..n -> Posts]
  BY DEF Answers
<1>2. \A i, j \in 1..n : ids[i] = ids[j] => i = j
  BY <1>1 DEF Answers
<1>3. \A i \in 1..n : /\ RowOfPost(ids[i]) \in Row /\ RowOfPost(ids[i]).id = ids[i]
                      /\ Shy(RowOfPost(ids[i]))
  BY <1>1, RowIsARow
<1>4. new = [i \in 1..n |-> RowOfPost(ids[i])] /\ n \in Nat
  BY <1>1
<1>5. new \in [1..n -> Row]
  BY <1>3, <1>4
<1>6. new \in Seq(Row) /\ Len(new) = n
  BY <1>4, <1>5
<1>7. \A i \in 1..n : new[i] = RowOfPost(ids[i])
  BY <1>4
<1> HIDE DEF new
<1>8. NoneTwice(new)
  BY <1>2, <1>3, <1>6, <1>7 DEF NoneTwice
<1>9. \A i \in 1..Len(new) : new[i] = RowOfPost(new[i].id) /\ Shy(new[i])
  BY <1>3, <1>6, <1>7
<1>10. QED
  BY <1>6, <1>8, <1>9 DEF new

LEMMA PageKeeps ==
    ASSUME PostInv, NEW ids \in Answers, NEW more \in BOOLEAN, NEW cursor \in BOOLEAN,
           PageAnswered(ids, more, cursor)
    PROVE  PostInv'
<1> DEFINE new == [i \in DOMAIN ids |-> RowOfPost(ids[i])]
           s == awaiting.scope
           page == pages[s]
           rows == IF awaiting.op = "refresh" THEN new ELSE AppendNew(page.rows, new)
<1>1. /\ PostTypeOK /\ awaiting.op \in {"refresh", "more"} /\ s \in Scopes /\ Resting.op = "none"
      /\ awaiting' = Resting /\ UNCHANGED <<inbox, reader, liked, uncertain, dispatched>>
      /\ pages \in [Scopes -> Page] /\ page \in Page
  BY DEF PostInv, PostTypeOK, ServedIsKnown, PageAnswered, Resting
<1>2. /\ new \in Seq(Row) /\ NoneTwice(new)
      /\ \A i \in 1..Len(new) : new[i] = RowOfPost(new[i].id) /\ Shy(new[i])
  BY <1>1, AnswerIsRows, Zenon
<1>3. pages' = [pages EXCEPT ![s].rows = rows,
                             ![s].loaded = @ \/ awaiting.op = "refresh",
                             ![s].more = more, ![s].cursor = cursor]
  BY Zenon DEF PageAnswered
<1> HIDE DEF new
<1>4. page.rows \in Seq(Row) /\ page.loaded \in BOOLEAN
  BY <1>1 DEF Page
<1>5. ~Pressed(s, 1) /\ \A t, i : ~Pressed(t, i)
  BY <1>1 DEF Pressed
<1>6. /\ rows \in Seq(Row) /\ NoneTwice(rows)
      /\ \A i \in 1..Len(rows) : Shy(rows[i])
      /\ ~uncertain => \A i \in 1..Len(rows) : rows[i] = RowOfPost(rows[i].id)
  <2>1. CASE awaiting.op = "refresh"
    BY <1>2, <2>1
  <2>2. CASE awaiting.op # "refresh"
    <3> DEFINE all == AppendNew(page.rows, new)
    <3>1. /\ NoneTwice(page.rows)
          /\ \A i \in 1..Len(page.rows) : Shy(page.rows[i])
          /\ ~uncertain => \A i \in 1..Len(page.rows) : page.rows[i] = RowOfPost(page.rows[i].id)
      <4>1. NoneTwice(page.rows) /\ \A i \in 1..Len(page.rows) : Shy(page.rows[i])
        BY <1>1, RowsAreRows DEF RowAt, AreDistinct
      <4>2. ~uncertain => \A i \in 1..Len(page.rows) : RowAt(s, i) = RowOfPost(RowAt(s, i).id)
        BY <1>1, IdleRowsAreTrue
      <4>3. QED
        BY <4>1, <4>2 DEF RowAt
    <3>2. Extends(all, page.rows, new, Len(new))
      BY <1>2, <1>4, NewRowsAreAppended
    <3>3. /\ all \in Seq(Row) /\ NoneTwice(all)
          /\ \A i \in 1..Len(all) : \/ \E j \in 1..Len(page.rows) : all[i] = page.rows[j]
                                    \/ \E j \in 1..Len(new) : all[i] = new[j]
      BY <3>1, <3>2 DEF Extends
    <3> HIDE DEF all
    <3>4. \A i \in 1..Len(all) : Shy(all[i])
      BY <1>2, <3>1, <3>3
    <3>5. ~uncertain => \A i \in 1..Len(all) : all[i] = RowOfPost(all[i].id)
      BY <1>2, <3>1, <3>3
    <3>6. QED
      BY <2>2, <3>3, <3>4, <3>5 DEF all
  <2>3. QED
    BY <2>1, <2>2
<1> HIDE DEF rows
<1>7. /\ pages' \in [Scopes -> Page]
      /\ \A t \in Scopes : pages'[t].rows = IF t = s THEN rows ELSE pages[t].rows
  <2>1. PICK arrived \in BOOLEAN : arrived = (page.loaded \/ awaiting.op = "refresh")
    BY Zenon
  <2> DEFINE next == [rows |-> rows, loaded |-> arrived, more |-> more, cursor |-> cursor]
  <2>2. pages' = [pages EXCEPT ![s] =
                     [page EXCEPT !.rows = rows, !.loaded = arrived, !.more = more, !.cursor = cursor]]
    BY <1>1, <1>3, <2>1
  <2>3. [page EXCEPT !.rows = rows, !.loaded = arrived, !.more = more, !.cursor = cursor] = next
    <3> DEFINE fields == {"rows", "loaded", "more", "cursor"}
    <3>1. DOMAIN page = fields
      BY <1>1 DEF Page
    <3>2. [page EXCEPT !.rows = rows, !.loaded = arrived, !.more = more, !.cursor = cursor]
            = [f \in fields |-> IF f = "cursor" THEN cursor ELSE IF f = "more" THEN more
                                ELSE IF f = "loaded" THEN arrived ELSE rows]
      BY <3>1
    <3>3. QED
      BY ONLY <3>2
  <2>4. next \in Page /\ next.rows = rows
    BY <1>6 DEF Page
  <2>5. pages' = [pages EXCEPT ![s] = next]
    BY <2>2, <2>3
  <2> HIDE DEF next
  <2>6. QED
    BY <1>1, <2>4, <2>5
<1>8. PostTypeOK'
  BY <1>1, <1>7 DEF PostTypeOK
<1>9. (\A p : RowOfPost(p)' = RowOfPost(p)) /\ \A t, i : ~Pressed(t, i)'
  BY <1>1 DEF RowOfPost, On, Count, Pressed
<1>10. ServedIsKnown' /\ PressesAreKept'
  BY <1>1, <1>9 DEF ServedIsKnown, PressesAreKept
<1>11. CountsFit'
  BY <1>6, <1>7 DEF PostInv, CountsFit, RowAt, Shy
<1>12. RowsAreTrue'
  <2>1. SUFFICES ASSUME ~uncertain, NEW t \in Scopes, NEW i \in 1..Len(pages'[t].rows),
                        NEW q \in Posts, q = pages'[t].rows[i].id
                 PROVE  pages'[t].rows[i] = RowOfPost(q)
    BY <1>1, <1>9, Zenon DEF RowsAreTrue, Shows, RowAt
  <2>2. CASE t = s
    BY <1>6, <1>7, <2>1, <2>2
  <2>3. CASE t # s
    <3>1. i \in 1..Len(pages[t].rows) /\ q = RowAt(t, i).id /\ pages'[t].rows[i] = RowAt(t, i)
      BY <1>7, <2>1, <2>3 DEF RowAt
    <3>2. RowAt(t, i) = RowOfPost(RowAt(t, i).id)
      BY <1>1, <2>1, <3>1, IdleRowsAreTrue
    <3>3. QED
      BY <3>1, <3>2
  <2>4. QED
    BY <2>2, <2>3
<1>13. AreDistinct'
  BY <1>6, <1>7 DEF PostInv, AreDistinct
<1>14. QED
  BY <1>8, <1>10, <1>11, <1>12, <1>13 DEF PostInv

(* Rows that are exchanged one for one, each for one of its post, keep the  *)
(* pages in shape.                                                          *)
PagesWith(new) == [s \in Scopes |-> [pages[s] EXCEPT !.rows = new[s]]]
Exchanged(new) ==
    \A s \in Scopes :
        /\ new[s] = [i \in 1..Len(pages[s].rows) |-> new[s][i]]
        /\ \A i \in 1..Len(pages[s].rows) : new[s][i] \in Row /\ new[s][i].id = RowAt(s, i).id

LEMMA RowsAreExchanged ==
    ASSUME PostTypeOK, AreDistinct, NEW new, pages' = PagesWith(new), Exchanged(new)
    PROVE  /\ pages' \in [Scopes -> Page] /\ AreDistinct'
           /\ \A s \in Scopes : /\ Len(pages'[s].rows) = Len(pages[s].rows)
                                /\ pages'[s].rows = new[s]
<1> USE DEF Exchanged, PagesWith, AreDistinct
<1>1. ASSUME NEW s \in Scopes
      PROVE  /\ pages'[s] \in Page /\ pages'[s].rows = new[s]
             /\ Len(new[s]) = Len(pages[s].rows) /\ NoneTwice(new[s])
  <2> DEFINE n == Len(pages[s].rows)
             page == pages[s]
  <2>1. page \in Page /\ n \in Nat
    BY DEF PostTypeOK, Page
  <2>2. new[s] \in [1..n -> Row]
    <3> DEFINE rows == new[s]
    <3>1. rows = [i \in 1..n |-> rows[i]] /\ \A i \in 1..n : rows[i] \in Row
      OBVIOUS
    <3> HIDE DEF rows, n
    <3>2. rows \in [1..n -> Row]
      BY <3>1
    <3>3. QED
      BY <3>2 DEF rows
  <2>3. new[s] \in Seq(Row) /\ Len(new[s]) = n
    <3>1. \A m \in Nat : \A f \in [1..m -> Row] : f \in Seq(Row) /\ Len(f) = m
      OBVIOUS
    <3> HIDE DEF n
    <3>2. QED
      BY <2>1, <2>2, <3>1, Zenon
  <2>4. NoneTwice(new[s])
    BY <2>3 DEF NoneTwice, RowAt
  <2>5. pages'[s] = [page EXCEPT !.rows = new[s]]
    OBVIOUS
  <2>6. pages'[s] \in Page /\ pages'[s].rows = new[s]
    <3> HIDE DEF page
    <3>1. QED
      BY ONLY <2>1, <2>3, <2>5 DEF Page
  <2>7. QED
    BY <2>3, <2>4, <2>6
<1>2. pages' = [s \in Scopes |-> pages'[s]]
  OBVIOUS
<1>3. pages' \in [Scopes -> Page]
  BY ONLY <1>1, <1>2
<1>4. QED
  BY <1>1, <1>3

LEMMA ToggleKeeps == ASSUME PostInv, Toggle PROVE PostInv'
<1>1. /\ TakePost("toggle") /\ reader # NoMember
      /\ UNCHANGED <<reader, liked, uncertain, dispatched>>
  BY DEF Toggle
<1>2. /\ inbox' \in Seq(PostCommands) /\ Len(inbox') <= InboxRoom
      /\ Head(inbox).post \in Posts /\ Head(inbox).enabled \in BOOLEAN /\ awaiting.op = "none"
  BY <1>1, CommandIsTaken, CommandFields DEF PostInv
<1>3. PICK p \in Posts, e \in BOOLEAN : p = Head(inbox).post /\ e = Head(inbox).enabled
  BY <1>2
<1>4. reader \in Members
  BY <1>1 DEF PostInv, PostTypeOK
<1> DEFINE was == [x \in Copies(p) |-> pages[x[1]].rows[x[2]]]
           press == [r \in Row |-> ApplyToggle(r, e)]
           new == [s \in Scopes |-> [i \in 1..Len(pages[s].rows) |->
                      IF RowAt(s, i).id = p THEN press[RowAt(s, i)] ELSE RowAt(s, i)]]
<1>5. /\ pages' = OnEveryCopy(pages, p, press)
      /\ awaiting' = [op |-> "toggle", post |-> p, enabled |-> e, previous |-> was]
  BY <1>3, Zenon DEF Toggle
<1>6. /\ awaiting'.op = "toggle" /\ awaiting'.post = p /\ awaiting'.enabled = e
      /\ awaiting'.previous = was
  BY <1>5
<1>7. /\ \A s \in Scopes : DOMAIN pages[s].rows = 1..Len(pages[s].rows)
      /\ \A s \in Scopes : \A i \in 1..Len(pages[s].rows) :
             RowAt(s, i) \in Row /\ RowAt(s, i).id \in Posts /\ Shy(RowAt(s, i))
      /\ PostTypeOK /\ AreDistinct
  BY RowsAreRows
<1>8. pages' = PagesWith(new)
  BY <1>5, <1>7 DEF OnEveryCopy, RowAt, PagesWith
<1>9. ASSUME NEW s \in Scopes, NEW i \in 1..Len(pages[s].rows)
      PROVE  /\ new[s][i] = IF RowAt(s, i).id = p THEN ApplyToggle(RowAt(s, i), e)
                            ELSE RowAt(s, i)
             /\ new[s][i] \in Row /\ new[s][i].id = RowAt(s, i).id /\ Shy(new[s][i])
  <2> DEFINE r == RowAt(s, i)
  <2>1. r \in Row /\ Shy(r)
    BY <1>7
  <2>2. new[s][i] = IF r.id = p THEN press[r] ELSE r
    OBVIOUS
  <2>3. press[r] = ApplyToggle(r, e)
    BY <2>1
  <2> HIDE DEF r, new, press
  <2>4. ApplyToggle(r, e) \in Row /\ ApplyToggle(r, e).id = r.id /\ Shy(ApplyToggle(r, e))
    BY <1>3, <2>1, PressIsARow
  <2>5. QED
    BY <2>1, <2>2, <2>3, <2>4, Zenon DEF r
<1>10. \A s \in Scopes : new[s] = [i \in 1..Len(pages[s].rows) |-> new[s][i]]
  OBVIOUS
<1> HIDE DEF new, press
<1>11. Exchanged(new)
  BY <1>9, <1>10 DEF Exchanged
<1>12. /\ pages' \in [Scopes -> Page] /\ AreDistinct'
       /\ \A s \in Scopes : Len(pages'[s].rows) = Len(pages[s].rows) /\ pages'[s].rows = new[s]
  BY <1>7, <1>8, <1>11, RowsAreExchanged
<1>13. PostTypeOK'
  BY <1>1, <1>2, <1>6, <1>7, <1>12 DEF PostTypeOK
<1>14. ServedIsKnown'
  BY <1>1, <1>3, <1>4, <1>6 DEF ServedIsKnown
<1>15. CountsFit'
  <2>1. ASSUME NEW s \in Scopes, NEW i \in 1..Len(pages'[s].rows)
        PROVE  Shy(pages'[s].rows[i])
    <3>1. i \in 1..Len(pages[s].rows) /\ pages'[s].rows[i] = new[s][i]
      BY <1>12, <2>1
    <3>2. QED
      BY <1>9, <3>1, Zenon
  <2>2. QED
    BY <2>1, Zenon DEF CountsFit, RowAt, Shy
<1>16. \A s \in Scopes : \A i \in 1..Len(pages[s].rows) :
           RowAt(s, i).id = p => <<s, i>> \in DOMAIN was /\ was[<<s, i>>] = RowAt(s, i)
  <2>1. ASSUME NEW s \in Scopes, NEW i \in 1..Len(pages[s].rows), RowAt(s, i).id = p
        PROVE  <<s, i>> \in Copies(p)
    BY <1>7, <2>1 DEF Copies, CopiesOn, RowAt
  <2>2. QED
    BY <2>1 DEF RowAt
<1> HIDE DEF was
<1>17. \A s \in Scopes : \A i \in 1..Len(pages'[s].rows) :
           /\ i \in 1..Len(pages[s].rows) /\ RowAt(s, i)' = new[s][i]
           /\ Pressed(s, i)' <=> RowAt(s, i).id = p
  BY <1>6, <1>9, <1>12 DEF Pressed, RowAt
<1>18. PressesAreKept'
  BY <1>6, <1>7, <1>16, <1>17 DEF PressesAreKept, Shy
<1>19. \A q : RowOfPost(q)' = RowOfPost(q)
  BY <1>1 DEF RowOfPost, On, Count
<1>20. RowsAreTrue'
  <2>1. SUFFICES ASSUME ~uncertain, NEW s \in Scopes, NEW i \in 1..Len(pages'[s].rows),
                        NEW q \in Posts, q = RowAt(s, i)'.id
                 PROVE  Shows(s, i, q)'
    BY <1>1, Zenon DEF RowsAreTrue
  <2>2. i \in 1..Len(pages[s].rows) /\ RowAt(s, i)' = new[s][i] /\ RowAt(s, i).id = q
        /\ (Pressed(s, i)' <=> q = p)
    BY <1>9, <1>17, <2>1
  <2>3. RowAt(s, i) = RowOfPost(q)
    <3>1. ~Pressed(s, i)
      BY <1>2 DEF Pressed
    <3>2. Shows(s, i, q)
      BY <1>1, <2>1, <2>2, Zenon DEF PostInv, RowsAreTrue
    <3>3. QED
      BY <3>1, <3>2 DEF Shows
  <2>4. new[s][i] = IF q = p THEN ApplyToggle(RowAt(s, i), e) ELSE RowAt(s, i)
    BY <1>9, <2>2
  <2>5. q = p => was[<<s, i>>] = RowAt(s, i)
    BY <1>16, <2>2
  <2>6. QED
    BY <1>6, <1>19, <2>2, <2>3, <2>4, <2>5, Zenon DEF Shows
<1>21. QED
  BY <1>12, <1>13, <1>14, <1>15, <1>18, <1>20 DEF PostInv

LEMMA ToggleFailsKeeps ==
    ASSUME PostInv, NEW applied \in BOOLEAN, ToggleFails(applied) PROVE PostInv'
<1>1. /\ awaiting.op = "toggle" /\ reader \in Members /\ awaiting.post \in Posts
      /\ awaiting.enabled \in BOOLEAN /\ PressesAreKept /\ RowsAreTrue
  BY DEF PostInv, ServedIsKnown, ToggleFails
<1>2. PICK p \in Posts : p = awaiting.post
  BY <1>1
<1> DEFINE was == awaiting.previous
           new == [s \in Scopes |-> [i \in 1..Len(pages[s].rows) |->
                      IF <<s, i>> \in DOMAIN was /\ RowAt(s, i).id = p
                      THEN was[<<s, i>>] ELSE RowAt(s, i)]]
<1>3. /\ pages' = Restore /\ awaiting' = Resting /\ Resting.op = "none"
      /\ UNCHANGED <<inbox, reader, dispatched>>
  BY DEF ToggleFails, Resting
<1>4. uncertain' \in BOOLEAN /\ (~uncertain' => ~uncertain /\ liked' = liked)
      /\ (liked' = Served \/ liked' = liked)
  <2>1. liked' = IF applied THEN Served ELSE liked
    BY Zenon DEF ToggleFails
  <2>2. uncertain' = (uncertain \/ (applied /\ liked' # liked))
    BY Zenon DEF ToggleFails
  <2>3. (~applied => liked' = liked) /\ (liked' = Served \/ liked' = liked)
    BY <2>1
  <2>4. QED
    BY <2>2, <2>3, Zenon
<1>5. /\ \A s \in Scopes : DOMAIN pages[s].rows = 1..Len(pages[s].rows)
      /\ \A s \in Scopes : \A i \in 1..Len(pages[s].rows) :
             RowAt(s, i) \in Row /\ RowAt(s, i).id \in Posts /\ Shy(RowAt(s, i))
      /\ PostTypeOK /\ AreDistinct
  BY RowsAreRows
<1>6. pages' = PagesWith(new)
  BY <1>2, <1>3, <1>5 DEF Restore, RowAt, PagesWith
<1>7. ASSUME NEW s \in Scopes, NEW i \in 1..Len(pages[s].rows)
      PROVE  /\ new[s][i] = IF RowAt(s, i).id = p THEN was[<<s, i>>] ELSE RowAt(s, i)
             /\ new[s][i] \in Row /\ new[s][i].id = RowAt(s, i).id /\ Shy(new[s][i])
  <2>1. RowAt(s, i).id = p => /\ <<s, i>> \in DOMAIN was /\ was[<<s, i>>] \in Row
                              /\ Shy(was[<<s, i>>]) /\ was[<<s, i>>].id = p
    BY <1>1, <1>2 DEF PressesAreKept, Pressed
  <2>2. new[s][i] = IF <<s, i>> \in DOMAIN was /\ RowAt(s, i).id = p
                    THEN was[<<s, i>>] ELSE RowAt(s, i)
    OBVIOUS
  <2> HIDE DEF was, new
  <2>3. QED
    BY <1>5, <2>1, <2>2, Zenon
<1>8. \A s \in Scopes : new[s] = [i \in 1..Len(pages[s].rows) |-> new[s][i]]
  OBVIOUS
<1> HIDE DEF new
<1>9. Exchanged(new)
  BY <1>7, <1>8 DEF Exchanged
<1>10. /\ pages' \in [Scopes -> Page] /\ AreDistinct'
       /\ \A s \in Scopes : Len(pages'[s].rows) = Len(pages[s].rows) /\ pages'[s].rows = new[s]
  BY <1>5, <1>6, <1>9, RowsAreExchanged
<1>11. liked' \in [Members -> SUBSET Posts]
  BY <1>1, <1>4, <1>5 DEF PostTypeOK, Served
<1>12. PostTypeOK'
  BY <1>3, <1>4, <1>5, <1>10, <1>11 DEF PostTypeOK
<1>13. ServedIsKnown' /\ PressesAreKept' /\ \A s, i : ~Pressed(s, i)'
  BY <1>3 DEF ServedIsKnown, PressesAreKept, Pressed
<1>14. CountsFit'
  <2>1. ASSUME NEW s \in Scopes, NEW i \in 1..Len(pages'[s].rows)
        PROVE  Shy(pages'[s].rows[i])
    <3>1. i \in 1..Len(pages[s].rows) /\ pages'[s].rows[i] = new[s][i]
      BY <1>10, <2>1
    <3>2. QED
      BY <1>7, <3>1, Zenon
  <2>2. QED
    BY <2>1, Zenon DEF CountsFit, RowAt, Shy
<1>15. RowsAreTrue'
  <2>1. SUFFICES ASSUME ~uncertain', NEW s \in Scopes, NEW i \in 1..Len(pages'[s].rows),
                        NEW q \in Posts, q = RowAt(s, i)'.id
                 PROVE  RowAt(s, i)' = RowOfPost(q)'
    BY <1>13, Zenon DEF RowsAreTrue, Shows
  <2>2. ~uncertain /\ RowOfPost(q)' = RowOfPost(q)
    BY <1>3, <1>4, <2>1 DEF RowOfPost, On, Count
  <2>3. i \in 1..Len(pages[s].rows) /\ RowAt(s, i)' = new[s][i]
    BY <1>10, <2>1 DEF RowAt
  <2>4. /\ new[s][i] = IF RowAt(s, i).id = p THEN was[<<s, i>>] ELSE RowAt(s, i)
        /\ RowAt(s, i).id = q
    BY <1>7, <2>1, <2>3
  <2>5. (Pressed(s, i) <=> RowAt(s, i).id = p) /\ Shows(s, i, q)
    BY <1>1, <1>2, <2>2, <2>3, <2>4 DEF Pressed, RowsAreTrue
  <2>6. QED
    BY <2>2, <2>3, <2>4, <2>5, Zenon DEF Shows
<1>16. QED
  BY <1>10, <1>12, <1>13, <1>14, <1>15 DEF PostInv

(* An answer that carries the server's word puts it on every copy.          *)
LEMMA WordIsShown ==
    ASSUME NEW p \in Posts, reader' = reader, liked' = Served, reader # NoMember,
           NEW r \in Row, r.id = p
    PROVE  [r EXCEPT !.on = (p \in Served[reader]),
                     !.count = Cardinality({v \in Members : p \in Served[v]})] = RowOfPost(p)'
<1>1. PICK on : on = (p \in Served[reader])
  OBVIOUS
<1>2. PICK n : n = Cardinality({v \in Members : p \in Served[v]})
  OBVIOUS
<1>3. [r EXCEPT !.on = on, !.count = n] = [id |-> p, on |-> on, count |-> n]
  <2>1. DOMAIN r = {"id", "on", "count"} /\ r["id"] = p
    BY DEF Row
  <2>2. [r EXCEPT !.on = on, !.count = n]
          = [f \in {"id", "on", "count"} |-> IF f = "count" THEN n ELSE IF f = "on" THEN on ELSE p]
    BY <2>1
  <2>3. QED
    BY ONLY <2>2
<1>4. on = On(p)'
  <2>1. on = (p \in liked'[reader'])
    BY <1>1, Zenon
  <2>2. reader' # NoMember
    OBVIOUS
  <2>3. (p \in liked'[reader']) = (reader' # NoMember /\ p \in liked'[reader'])
    BY <2>2
  <2>4. QED
    BY <2>1, <2>3, Zenon DEF On
<1>5. n = Count(p)'
  BY <1>2, Zenon DEF Count
<1>6. RowOfPost(p)' = [id |-> p, on |-> on, count |-> n]
  BY <1>4, <1>5, Zenon DEF RowOfPost
<1>7. QED
  BY <1>1, <1>2, <1>3, <1>6, Zenon

LEMMA ToggleAnsweredKeeps ==
    ASSUME PostInv, NEW carries \in BOOLEAN, ToggleAnswered(carries) PROVE PostInv'
<1>1. /\ awaiting.op = "toggle" /\ reader \in Members /\ awaiting.post \in Posts
      /\ awaiting.enabled \in BOOLEAN /\ RowsAreTrue
  BY DEF PostInv, ServedIsKnown, ToggleAnswered
<1>2. PICK p \in Posts, e \in BOOLEAN, v \in Members :
          p = awaiting.post /\ e = awaiting.enabled /\ v = reader
  BY <1>1
<1> DEFINE rowNow == [r \in Row |->
                       [r EXCEPT !.on = (p \in Served[reader]),
                                 !.count = Cardinality({w \in Members : p \in Served[w]})]]
           new == [s \in Scopes |-> [i \in 1..Len(pages[s].rows) |->
                      IF RowAt(s, i).id = p THEN rowNow[RowAt(s, i)] ELSE RowAt(s, i)]]
<1>3. /\ liked' = Served /\ awaiting' = Resting /\ Resting.op = "none"
      /\ UNCHANGED <<inbox, reader, uncertain, dispatched>>
  BY DEF ToggleAnswered, Resting
<1>4. /\ \A s \in Scopes : DOMAIN pages[s].rows = 1..Len(pages[s].rows)
      /\ \A s \in Scopes : \A i \in 1..Len(pages[s].rows) :
             RowAt(s, i) \in Row /\ RowAt(s, i).id \in Posts /\ Shy(RowAt(s, i))
      /\ PostTypeOK /\ AreDistinct
  BY RowsAreRows
<1>5. /\ RowOfPost(p)' = ApplyToggle(RowOfPost(p), e)
      /\ \A q \in Posts : q # p => RowOfPost(q)' = RowOfPost(q)
      /\ liked' \in [Members -> SUBSET Posts]
  <2>1. liked' = [liked EXCEPT ![v] = IF e THEN @ \cup {p} ELSE @ \ {p}]
    BY <1>2, <1>3, Zenon DEF Served
  <2>2. QED
    BY <1>2, <1>3, <1>4, <2>1, PressComesTrue
<1>6. RowOfPost(p)' \in Row /\ RowOfPost(p)'.id = p /\ Shy(RowOfPost(p)')
  <2>1. RowOfPost(p) \in Row /\ RowOfPost(p).id = p /\ Shy(RowOfPost(p))
    BY <1>4, RowIsARow
  <2>2. QED
    BY <1>5, <2>1, PressIsARow
<1>7. /\ PostTypeOK' /\ AreDistinct'
      /\ \A s \in Scopes : \A i \in 1..Len(pages'[s].rows) :
            /\ i \in 1..Len(pages[s].rows) /\ Shy(RowAt(s, i)')
            /\ RowAt(s, i).id # p => RowAt(s, i)' = RowAt(s, i)
            /\ RowAt(s, i).id = p => RowAt(s, i)' \in {RowAt(s, i), RowOfPost(p)'}
  <2>1. CASE ~carries
    <3>1. pages' = pages
      BY <2>1 DEF ToggleAnswered
    <3>2. \A s, i : RowAt(s, i)' = RowAt(s, i)
      BY <3>1 DEF RowAt
    <3>3. PostTypeOK' /\ AreDistinct'
      BY <1>3, <1>4, <1>5, <3>1 DEF PostTypeOK, AreDistinct
    <3>4. QED
      BY <1>4, <2>1, <3>1, <3>2, <3>3
  <2>2. CASE carries
    <3>1. pages' = OnEveryCopy(pages, p, rowNow)
      BY <1>2, <2>2, Zenon DEF ToggleAnswered
    <3>2. pages' = PagesWith(new)
      <4> HIDE DEF rowNow
      <4>1. QED
        BY <1>4, <3>1 DEF OnEveryCopy, RowAt, PagesWith
    <3>3. ASSUME NEW s \in Scopes, NEW i \in 1..Len(pages[s].rows)
          PROVE  /\ new[s][i] = IF RowAt(s, i).id = p THEN RowOfPost(p)' ELSE RowAt(s, i)
                 /\ new[s][i] \in Row /\ new[s][i].id = RowAt(s, i).id /\ Shy(new[s][i])
      <4>1. PICK r \in Row : r = RowAt(s, i) /\ Shy(r)
        BY <1>4
      <4>2. new[s][i] = IF r.id = p THEN rowNow[r] ELSE r
        <5> HIDE DEF rowNow
        <5>1. QED
          BY <4>1
      <4>3. r.id = p => rowNow[r] = RowOfPost(p)'
        <5>1. rowNow[r] = [r EXCEPT !.on = (p \in Served[reader]),
                                  !.count = Cardinality({w \in Members : p \in Served[w]})]
          OBVIOUS
        <5>2. reader # NoMember
          BY <1>1, PostAssumption
        <5> HIDE DEF rowNow
        <5>3. QED
          BY <1>3, <5>1, <5>2, WordIsShown, Zenon
      <4> HIDE DEF new, rowNow
      <4>4. QED
        BY <1>6, <4>1, <4>2, <4>3, Zenon
    <3>4. \A s \in Scopes : new[s] = [i \in 1..Len(pages[s].rows) |-> new[s][i]]
      <4> HIDE DEF rowNow
      <4>1. QED
        OBVIOUS
    <3> HIDE DEF new, rowNow
    <3>5. Exchanged(new)
      BY <3>3, <3>4 DEF Exchanged
    <3>6. /\ pages' \in [Scopes -> Page] /\ AreDistinct'
          /\ \A s \in Scopes : /\ Len(pages'[s].rows) = Len(pages[s].rows)
                               /\ pages'[s].rows = new[s]
      BY <1>4, <3>2, <3>5, RowsAreExchanged
    <3>7. PostTypeOK'
      BY <1>3, <1>4, <1>5, <3>6 DEF PostTypeOK
    <3>8. \A s, i : RowAt(s, i)' = pages'[s].rows[i]
      BY DEF RowAt
    <3>9. QED
      BY <3>3, <3>6, <3>7, <3>8
  <2>3. QED
    BY <2>1, <2>2
<1>8. ServedIsKnown' /\ PressesAreKept' /\ \A s, i : ~Pressed(s, i)'
  BY <1>3 DEF ServedIsKnown, PressesAreKept, Pressed
<1>9. CountsFit'
  BY <1>7 DEF CountsFit, Shy
<1>10. RowsAreTrue'
  <2>1. SUFFICES ASSUME ~uncertain, NEW s \in Scopes, NEW i \in 1..Len(pages'[s].rows),
                        NEW q \in Posts, q = RowAt(s, i)'.id
                 PROVE  RowAt(s, i)' = RowOfPost(q)'
    BY <1>3, <1>8, Zenon DEF RowsAreTrue, Shows
  <2>2. /\ i \in 1..Len(pages[s].rows) /\ RowAt(s, i).id \in Posts
        /\ RowAt(s, i).id # p => RowAt(s, i)' = RowAt(s, i)
        /\ RowAt(s, i).id = p => RowAt(s, i)' \in {RowAt(s, i), RowOfPost(p)'}
    BY <1>4, <1>7, <2>1
  <2>3. RowAt(s, i).id = q
    BY <1>6, <2>1, <2>2
  <2>4. Shows(s, i, q) /\ (Pressed(s, i) <=> q = p)
    BY <1>1, <1>2, <2>1, <2>2, <2>3 DEF RowsAreTrue, Pressed
  <2>5. RowAt(s, i) = IF q = p THEN ApplyToggle(RowOfPost(q), e) ELSE RowOfPost(q)
    BY <1>2, <2>4, Zenon DEF Shows
  <2>6. QED
    BY <1>5, <2>1, <2>2, <2>3, <2>5
<1>11. QED
  BY <1>7, <1>8, <1>9, <1>10 DEF PostInv

LEMMA PostsStep == ASSUME PostInv, [PostNext]_postVars PROVE PostInv'
<1>1. CASE UNCHANGED postVars
  <2>1. UNCHANGED <<inbox, reader, pages, awaiting, liked, uncertain, dispatched>>
    BY <1>1 DEF postVars
  <2>2. /\ inbox \in Seq(PostCommands) /\ Len(inbox) <= InboxRoom
        /\ dispatched \in 0..MaxPostCommands
    BY DEF PostInv, PostTypeOK
  <2>3. QED
    BY <2>1, <2>2, ServingKeeps
<1>2. CASE PostNext
  BY <1>2, QuietKeeps, EmptyingKeeps, PageKeeps, ToggleKeeps, ToggleAnsweredKeeps,
     ToggleFailsKeeps, Zenon DEF PostNext
<1>3. QED
  BY <1>1, <1>2

(* The feed's channel, pages and rows keep their types: no counter leaves   *)
(* its range however often a press and its answer cross.                    *)
THEOREM PostsKeepTheirTypes == PostSpec => []PostTypeOK
<1>1. PostInv => PostTypeOK
  BY DEF PostInv
<1>2. QED
  BY <1>1, PostsStart, PostsStep, PTL DEF PostSpec

(* Between commands every copy of a post shows what the server has for the  *)
(* reader, after any presses, refusals, overlapping pages and account       *)
(* switches, and no page has a post twice (PostState::toggle, load_more):   *)
(* for any pages, posts and members, and channels of any capacity.          *)
THEOREM FeedStaysTrue == PostSpec => []FeedIsTrue
<1>1. ASSUME PostInv PROVE FeedIsTrue
  <2>1. \A s \in Scopes : DOMAIN pages[s].rows = 1..Len(pages[s].rows)
    BY <1>1 DEF PostInv, PostTypeOK, Page
  <2>2. RowsAreDistinct
    BY <1>1, <2>1 DEF PostInv, AreDistinct, NoneTwice, RowsAreDistinct
  <2>3. RestingPostsAreTrue
    BY <1>1, <2>1, RowsAreRows
       DEF PostInv, RowsAreTrue, Shows, Pressed, RowAt, Resting, RestingPostsAreTrue
  <2>4. QED
    BY <2>2, <2>3 DEF FeedIsTrue
<1>2. QED
  BY <1>1, PostsStart, PostsStep, PTL DEF PostSpec
=============================================================================
