------------------------ MODULE AuthRepositoryProofs ------------------------
(***************************************************************************)
(* What holds of the auth actor for every set of accounts, every limit and *)
(* every number of store faults and crashes.                               *)
(***************************************************************************)
EXTENDS AuthRepository, FiniteSetTheorems, TLAPS

StoreOps == {"readSecret", "writeSecret", "deleteSecret", "writeRegistry", "markActive"}
               \cup RegistryReads

LEMMA StoreOpsAreFinite == IsFiniteSet(StoreOps)
<1> DEFINE S1 == {"readSecret"}
           S2 == S1 \cup {"writeSecret"}
           S3 == S2 \cup {"deleteSecret"}
           S4 == S3 \cup {"writeRegistry"}
           S5 == S4 \cup {"markActive"}
           S6 == S5 \cup {"listAccounts"}
           S7 == S6 \cup {"readActive"}
           S8 == S7 \cup {"readRegistry"}
           S9 == S8 \cup {"readForMark"}
<1>1. IsFiniteSet(S1) BY FS_Singleton
<1>2. IsFiniteSet(S2) BY <1>1, FS_AddElement
<1>3. IsFiniteSet(S3) BY <1>2, FS_AddElement
<1>4. IsFiniteSet(S4) BY <1>3, FS_AddElement
<1>5. IsFiniteSet(S5) BY <1>4, FS_AddElement
<1>6. IsFiniteSet(S6) BY <1>5, FS_AddElement
<1>7. IsFiniteSet(S7) BY <1>6, FS_AddElement
<1>8. IsFiniteSet(S8) BY <1>7, FS_AddElement
<1>9. IsFiniteSet(S9) BY <1>8, FS_AddElement
<1>10. StoreOps = S9 BY DEF StoreOps, RegistryReads
<1>11. QED BY <1>9, <1>10

(* The counts of faults, misreads and crashes stay in their bounds.        *)
FaultsOK ==
    faults \in 0..MaxFaults /\ misreads \in 0..faults /\ crashes \in 0..MaxCrashes

(* The count of faults is zero only when no operation of the step failed   *)
(* and none failed before; a step that misread accounts.json is counted.   *)
LEMMA FaultsCount ==
    ASSUME NEW ops \in SUBSET StoreOps, NEW failing, Faults(failing, ops), FaultsOK
    PROVE  /\ faults' \in 0..MaxFaults
           /\ misreads' \in 0..faults' /\ misreads <= misreads'
           /\ faults' = 0 => faults = 0 /\ failing = {}
           /\ failing \cap RegistryReads # {} => misreads < misreads'
<1>1. IsFiniteSet(failing)
  BY StoreOpsAreFinite, FS_Subset DEF Faults
<1> DEFINE misread == failing \cap RegistryReads
<1>2. Cardinality(failing) \in Nat
  BY <1>1, FS_CardinalityType
<1>3. Cardinality(failing) = 0 => failing = {}
  BY <1>1, FS_EmptySet
<1>4. IsFiniteSet(misread) /\ Cardinality(misread) <= Cardinality(failing)
  <2>1. misread \subseteq failing
    OBVIOUS
  <2>2. QED
    BY <2>1, <1>1, FS_Subset
<1>5. Cardinality(misread) \in Nat
  BY <1>4, FS_CardinalityType
<1>6. Cardinality(misread) = 0 => misread = {}
  BY <1>4, FS_EmptySet
<1>7. faults' = faults + Cardinality(failing) /\ faults' <= MaxFaults
  BY DEF Faults
<1>8. misreads' = misreads + Cardinality(misread)
  BY DEF Faults
<1> HIDE DEF misread
<1>9. /\ faults' \in 0..MaxFaults
      /\ misreads' \in 0..faults' /\ misreads <= misreads'
      /\ faults' = 0 => faults = 0 /\ Cardinality(failing) = 0
      /\ Cardinality(misread) # 0 => misreads < misreads'
  BY <1>2, <1>4, <1>5, <1>7, <1>8, AuthAssumption DEF FaultsOK
<1>10. QED
  BY <1>3, <1>6, <1>9 DEF misread

-----------------------------------------------------------------------------
(* A stored pair is its own account's.                                     *)
PairsAreOwn == \A user \in Users : secrets[user] # None => secrets[user].user = user

(* Only a session is refreshed or logged out.                              *)
StagesHaveSessions == at \in {"refresh", "logout"} => active # None

(* A session about to be cleared has ended for a reason.                   *)
ClearedForAReason == at \in {"logout", "clearing"} /\ active # None => why[active] # "none"

(* Until Restore has run the actor knows no account, and does nothing else. *)
Restoring == at = "idle" /\ queue # <<>> /\ Head(queue).op = "restore"

(* Afterwards its list covers accounts.json, unless a read of that failed; *)
(* it is then empty, and one more account fits in what the limit leaves.   *)
KnowsItsAccounts ==
    /\ Cardinality(accounts) <= AccountLimit + misreads
    /\ \/ registry \subseteq accounts
       \/ accounts = {} /\ (Restoring \/ Cardinality(registry) < AccountLimit + misreads)

SessionInv ==
    TypeOK /\ SessionIsWhole /\ PairsAreOwn /\ StagesHaveSessions /\ ClearedForAReason

AuthInv == SessionInv /\ StoresAgree /\ KnowsItsAccounts /\ WithinLimit

LEMMA InitSession == Init => AuthInv
<1> SUFFICES ASSUME Init PROVE AuthInv
  OBVIOUS
<1> USE AuthAssumption DEF Init
<1>1. TypeOK
  BY DEF TypeOK, Commands, Places, Reasons
<1>2. Cardinality(registry) = 0 /\ Cardinality(accounts) = 0
  BY FS_EmptySet
<1>3. WithinLimit /\ KnowsItsAccounts
  BY <1>2 DEF WithinLimit, KnowsItsAccounts
<1>4. QED
  BY <1>1, <1>3
  DEF AuthInv, SessionInv, SessionIsWhole, PairsAreOwn, StagesHaveSessions,
      ClearedForAReason, StoresAgree

(* A pair the server issues is typed and its account's own.                *)
LEMMA IssuedPair ==
    ASSUME TypeOK, NEW user \in Users, issued[user] < MaxGrant
    PROVE  /\ issued[user] + 1 \in 1..MaxGrant
           /\ [user |-> user, grant |-> issued[user] + 1] \in Tokens
           /\ [user |-> user, grant |-> issued[user] + 1] # None
  BY AuthAssumption DEF TypeOK, Tokens

(* The command channel holds commands, and no more than it has room for.   *)
QueueOK == queue \in Seq(Commands) /\ Len(queue) <= QueueCapacity

LEMMA QueueStep ==
    ASSUME QueueOK, [Next]_vars
    PROVE  QueueOK'
<1> USE AuthAssumption DEF QueueOK
<1>1. ASSUME NEW op, Take(op) PROVE QueueOK'
  BY <1>1 DEF Take
<1>2. ASSUME NEW command \in Commands, Dispatch(command) PROVE QueueOK'
  BY <1>2 DEF Dispatch
<1>3. CASE Crash
  <2>1. [op |-> "restore"] \in Commands
    BY DEF Commands
  <2>2. queue' = <<[op |-> "restore"]>>
    BY <1>3 DEF Crash
  <2>3. QED
    BY <2>1, <2>2
<1>4. CASE UNCHANGED queue
  BY <1>4
<1>5. QED
  BY <1>1, <1>2, <1>3, <1>4
  DEF Next, Actor, vars, Restore, SwitchAccount, Check, NoteRemoteFailure, RefreshGranted,
      RefreshEnds, RefreshLost, SignIn, LoginFails, LoginGranted, SignOut, LogoutEnds, Clear

LEMMA FaultsStep ==
    ASSUME FaultsOK, [Next]_vars
    PROVE  FaultsOK' /\ misreads <= misreads'
<1> USE AuthAssumption DEF FaultsOK, worldVars, NoFaults
<1>1. ASSUME NEW ops \in SUBSET StoreOps, NEW failing, Faults(failing, ops), UNCHANGED crashes
      PROVE  FaultsOK' /\ misreads <= misreads'
  BY <1>1, FaultsCount
<1>2. CASE UNCHANGED <<faults, misreads, crashes>>
  BY <1>2
<1>3. CASE Crash
  <2>1. crashes' \in 0..MaxCrashes
    BY <1>3 DEF Crash
  <2>2. CASE CutOff
    <3>1. Faults({"writeRegistry"}, {"writeRegistry"})
      BY <2>2 DEF CutOff
    <3>2. {"writeRegistry"} \in SUBSET StoreOps
      BY DEF StoreOps
    <3>3. QED
      BY <2>1, <3>1, <3>2, FaultsCount
  <2>3. QED
    BY <1>3, <2>1, <2>2 DEF Crash
<1>4. CASE Restore
  <2>1. RestoreOps \in SUBSET StoreOps
    BY DEF RestoreOps, StoreOps, RegistryReads
  <2>2. QED
    BY <1>1, <1>4, <2>1 DEF Restore
<1>5. ASSUME NEW user \in Users, SwitchAccount(user)
      PROVE  FaultsOK' /\ misreads <= misreads'
  <2>1. SwitchOps \in SUBSET StoreOps /\ {"readSecret"} \in SUBSET StoreOps
    BY DEF SwitchOps, StoreOps, RegistryReads
  <2>2. QED
    BY <1>1, <1>2, <1>5, <2>1 DEF SwitchAccount
<1>6. CASE RefreshGranted
  BY <1>1, <1>6 DEF RefreshGranted, StoreOps
<1>7. ASSUME NEW user \in Users, LoginGranted(user)
      PROVE  FaultsOK' /\ misreads <= misreads'
  <2>1. /\ {"writeSecret"} \in SUBSET StoreOps
        /\ {"readRegistry", "writeRegistry"} \in SUBSET StoreOps
        /\ {"readRegistry", "listAccounts"} \in SUBSET StoreOps
    BY DEF StoreOps, RegistryReads
  <2>2. QED
    BY <1>1, <1>2, <1>7, <2>1 DEF LoginGranted
<1>8. CASE Clear
  <2>1. ClearOps \in SUBSET StoreOps
    BY DEF ClearOps, ActivateOps, StoreOps, RegistryReads
  <2>2. QED
    BY <1>1, <1>2, <1>8, <2>1 DEF Clear, ClearActive, ClearNothing
<1>9. QED
  BY <1>2, <1>3, <1>4, <1>5, <1>6, <1>7, <1>8
  DEF Next, Actor, vars, Dispatch, Check, NoteRemoteFailure, RefreshEnds, RefreshLost,
      SignIn, LoginFails, SignOut, LogoutEnds

-----------------------------------------------------------------------------
(* The session in memory and in the stores, apart from channel and counts. *)
DataOK ==
    /\ registry \subseteq Users /\ lastActive \in Users \cup {None}
    /\ secrets \in [Users -> Tokens \cup {None}]
    /\ accounts \subseteq Users /\ active \in Users \cup {None}
    /\ tokens \in Tokens \cup {None} /\ socket \in Tokens \cup {None}
    /\ at \in Places /\ issued \in [Users -> 0..MaxGrant] /\ why \in [Users -> Reasons]

DataInv ==
    DataOK /\ SessionIsWhole /\ PairsAreOwn /\ StagesHaveSessions /\ ClearedForAReason

(* A readable pair is typed, its account's own and not None.               *)
LEMMA ReadablePair ==
    ASSUME DataInv, NEW user \in Users, NEW failing, CanActivate(user, secrets, failing)
    PROVE  secrets[user] \in Tokens /\ secrets[user] # None /\ secrets[user].user = user
  BY DEF DataInv, DataOK, PairsAreOwn, CanActivate

LEMMA ActivateStep ==
    ASSUME NEW user \in Users, NEW pair \in Tokens, pair.user = user, Activate(user, pair)
    PROVE  /\ active' \in Users \cup {None} /\ active' # None
           /\ tokens' \in Tokens /\ socket' \in Tokens
           /\ SessionIsWhole'
  BY AuthAssumption DEF Activate, SessionIsWhole

-----------------------------------------------------------------------------
(* What accounts.json can hold.                                            *)
Files == [accounts : SUBSET Users, active : Users \cup {None}]

LEMMA OnDiskIsAFile == DataOK => OnDisk \in Files
  BY DEF DataOK, OnDisk, Files

(* registry() returns what the file holds, or nothing.                     *)
LEMMA WhatIsRead ==
    ASSUME NEW file \in Files, NEW read, NEW failing
    PROVE  /\ Registry(file, read, failing) \in Files
           /\ \/ Registry(file, read, failing) = file
              \/ read \in failing /\ Registry(file, read, failing).accounts = {}
           /\ read \notin failing => Registry(file, read, failing) = file
  BY DEF Registry, Files

(* set_active() leaves the accounts of the file it found, or, having       *)
(* failed to read it, none.                                                *)
LEMMA MarkActiveWrites ==
    ASSUME NEW file \in Files, NEW user \in Users, NEW failing, MarkActive(file, user, failing)
    PROVE  /\ registry' \subseteq Users /\ lastActive' \in Users \cup {None}
           /\ registry' = file.accounts \/ (registry' = {} /\ "readForMark" \in failing)
<1>1. CASE "markActive" \in failing
  BY <1>1 DEF MarkActive, Write, Files
<1>2. CASE "markActive" \notin failing
  <2>1. PICK read \in Files :
           /\ read = file \/ ("readForMark" \in failing /\ read.accounts = {})
           /\ registry' = read.accounts /\ lastActive' = user
    <3>1. Registry(file, "readForMark", failing) \in Files
      BY WhatIsRead
    <3>2. /\ registry' = Registry(file, "readForMark", failing).accounts
          /\ lastActive' = user
      BY <1>2, <3>1 DEF MarkActive, Write, Files
    <3>3. QED
      BY <3>1, <3>2, WhatIsRead
  <2>2. QED
    BY <2>1 DEF Files
<1>3. QED
  BY <1>1, <1>2

LEMMA SavedWrites ==
    ASSUME DataOK, NEW user \in Users, NEW pair, NEW failing, Saved(user, pair, failing)
    PROVE  /\ registry' \subseteq Users /\ lastActive' = user /\ user \in registry'
           /\ registry' = registry \cup {user} \/ (registry' = {user} /\ "readRegistry" \in failing)
           /\ accounts' = registry' \/ (accounts' = {} /\ "listAccounts" \in failing)
           /\ Activate(user, pair)
           /\ why' = [why EXCEPT ![user] = "none"]
<1> DEFINE read == Registry(OnDisk, "readRegistry", failing)
           file == [accounts |-> read.accounts \cup {user}, active |-> user]
<1>1. read \in Files /\ (read = OnDisk \/ ("readRegistry" \in failing /\ read.accounts = {}))
  BY OnDiskIsAFile, WhatIsRead
<1>2. OnDisk.accounts = registry
  BY DEF OnDisk
<1>3. /\ registry' = read.accounts \cup {user} /\ lastActive' = user
      /\ accounts' = Registry(file, "listAccounts", failing).accounts
      /\ Activate(user, pair) /\ why' = [why EXCEPT ![user] = "none"]
  BY DEF Saved, Write
<1> HIDE DEF read
<1>4. file \in Files /\ file.accounts = read.accounts \cup {user}
  BY <1>1 DEF Files
<1> HIDE DEF file
<1>5. accounts' = file.accounts \/ (accounts' = {} /\ "listAccounts" \in failing)
  BY <1>3, <1>4, WhatIsRead
<1>6. QED
  BY <1>1, <1>2, <1>3, <1>4, <1>5 DEF Files

(* What remove() leaves: the accounts but the active one, all of them, or, *)
(* having failed to read the file, none.                                   *)
LEMMA LeftByRemove ==
    ASSUME DataOK, NEW failing, NEW first \in Users \cup {None}
    PROVE  /\ Left(failing, first) \in Files
           /\ Left(failing, first).accounts \subseteq registry
           /\ \/ registry \ {active} \subseteq Left(failing, first).accounts
              \/ "readRegistry" \in failing
           /\ failing = {} => Left(failing, first).accounts = registry \ {active}
<1> DEFINE read == Registry(OnDisk, "readRegistry", failing)
<1>1. /\ read \in Files /\ (read = OnDisk \/ (read.accounts = {} /\ "readRegistry" \in failing))
  BY OnDiskIsAFile, WhatIsRead
<1>2. OnDisk \in Files /\ OnDisk.accounts = registry
  BY OnDiskIsAFile DEF OnDisk
<1>3. CASE failing \cap {"deleteSecret", "writeRegistry"} # {}
  BY <1>2, <1>3 DEF Left
<1>4. CASE failing \cap {"deleteSecret", "writeRegistry"} = {}
  <2>1. Left(failing, first) = Without(read, active, first)
    BY <1>4 DEF Left
  <2> HIDE DEF read
  <2>2. /\ Without(read, active, first) \in Files
        /\ Without(read, active, first).accounts = read.accounts \ {active}
    BY <1>1 DEF Without, Files
  <2>3. QED
    BY <1>1, <1>2, <2>1, <2>2
<1>5. QED
  BY <1>3, <1>4

-----------------------------------------------------------------------------
LEMMA RestoreStep ==
    ASSUME DataInv, Restore
    PROVE  DataInv'
<1> USE DEF DataInv, diskVars
<1>1. PICK failing, listed :
        /\ listed \subseteq registry /\ accounts' = listed
        /\ \/ at' = "idle" /\ UNCHANGED <<active, tokens, socket>>
           \/ /\ at' = "checking"
              /\ \E user \in listed :
                    IF CanActivate(user, secrets, failing)
                    THEN Activate(user, secrets[user])
                    ELSE UNCHANGED <<active, tokens, socket>>
  <2>1. \A failing : Registry(OnDisk, "listAccounts", failing).accounts \subseteq registry
    BY DEF Registry, OnDisk
  <2>2. QED
    BY <2>1 DEF Restore
<1>2. accounts' \subseteq Users /\ UNCHANGED <<registry, lastActive, secrets, issued, why>>
  BY <1>1 DEF Restore, DataOK
<1>3. CASE UNCHANGED <<active, tokens, socket>>
  BY <1>1, <1>2, <1>3
  DEF DataOK, SessionIsWhole, PairsAreOwn, StagesHaveSessions, ClearedForAReason, Places
<1>4. ASSUME NEW user \in listed, CanActivate(user, secrets, failing),
             Activate(user, secrets[user]), at' = "checking"
      PROVE  DataInv'
  <2>1. user \in Users
    BY <1>1 DEF DataOK
  <2>2. SessionIsWhole' /\ active' \in Users \cup {None} /\ tokens' \in Tokens /\ socket' \in Tokens
    BY <1>4, <2>1, ReadablePair, ActivateStep
  <2>3. QED
    BY <1>2, <1>4, <2>2
    DEF DataOK, PairsAreOwn, StagesHaveSessions, ClearedForAReason, Places
<1>5. QED
  BY <1>1, <1>3, <1>4

LEMMA SwitchStep ==
    ASSUME DataInv, NEW user \in Users, SwitchAccount(user)
    PROVE  DataInv'
<1> USE DEF DataInv
<1>1. PICK failing : \/ UNCHANGED <<registry, lastActive, active, tokens, socket>>
                     \/ /\ CanActivate(user, secrets, failing)
                        /\ Activate(user, secrets[user])
                        /\ MarkActive(OnDisk, user, failing)
  BY DEF SwitchAccount
<1>2. at' \in {"idle", "checking"} /\ UNCHANGED <<secrets, accounts, issued, why>>
  BY DEF SwitchAccount
<1>3. lastActive' \in Users \cup {None} /\ registry' \subseteq Users
  BY <1>1, OnDiskIsAFile, MarkActiveWrites DEF DataOK
<1>4. CASE UNCHANGED <<active, tokens, socket>>
  BY <1>2, <1>3, <1>4
  DEF DataOK, SessionIsWhole, PairsAreOwn, StagesHaveSessions, ClearedForAReason, Places
<1>5. CASE CanActivate(user, secrets, failing) /\ Activate(user, secrets[user])
  <2>1. SessionIsWhole' /\ active' \in Users \cup {None} /\ tokens' \in Tokens /\ socket' \in Tokens
    BY <1>5, ReadablePair, ActivateStep
  <2>2. QED
    BY <1>2, <1>3, <2>1
    DEF DataOK, PairsAreOwn, StagesHaveSessions, ClearedForAReason, Places
<1>6. QED
  BY <1>1, <1>4, <1>5

(* The steps that only move the actor, and say why a session ends.         *)
LEMMA StageStep ==
    ASSUME DataInv,
           \/ Check \/ NoteRemoteFailure \/ RefreshEnds \/ RefreshLost
           \/ SignIn \/ LoginFails \/ SignOut \/ LogoutEnds
    PROVE  DataInv'
<1> USE DEF DataInv, diskVars, memoryVars, worldVars, Take, EndSession
<1>1. CASE Check
  BY <1>1 DEF Check, DataOK, SessionIsWhole, PairsAreOwn, StagesHaveSessions,
              ClearedForAReason, Places, Reasons
<1>2. CASE NoteRemoteFailure
  BY <1>2 DEF NoteRemoteFailure, DataOK, SessionIsWhole, PairsAreOwn, StagesHaveSessions,
              ClearedForAReason, Places, Reasons
<1>3. CASE RefreshEnds
  BY <1>3 DEF RefreshEnds, DataOK, SessionIsWhole, PairsAreOwn, StagesHaveSessions,
              ClearedForAReason, Places, Reasons
<1>4. CASE RefreshLost
  <2>1. issued' \in [Users -> 0..MaxGrant]
    <3>1. CASE UNCHANGED issued
      BY <3>1 DEF DataOK
    <3>2. CASE issued[active] < MaxGrant /\ issued' = [issued EXCEPT ![active] = @ + 1]
      <4>1. active \in Users
        BY <1>4 DEF RefreshLost, StagesHaveSessions, DataOK
      <4>2. issued[active] + 1 \in 0..MaxGrant
        BY <3>2, <4>1, AuthAssumption DEF DataOK
      <4>3. QED
        BY <3>2, <4>1, <4>2 DEF DataOK
    <3>3. QED
      BY <1>4, <3>1, <3>2 DEF RefreshLost
  <2>2. at' = "idle" /\ UNCHANGED <<diskVars, memoryVars, why>>
    BY <1>4 DEF RefreshLost
  <2>3. QED
    BY <2>1, <2>2 DEF DataOK, SessionIsWhole, PairsAreOwn, StagesHaveSessions,
                      ClearedForAReason, Places
<1>5. CASE SignIn \/ LoginFails
  BY <1>5 DEF SignIn, LoginFails, DataOK, SessionIsWhole, PairsAreOwn, StagesHaveSessions,
              ClearedForAReason, Places
<1>6. CASE SignOut
  BY <1>6 DEF SignOut, DataOK, SessionIsWhole, PairsAreOwn, StagesHaveSessions,
              ClearedForAReason, Places, Reasons
<1>7. CASE LogoutEnds
  BY <1>7 DEF LogoutEnds, DataOK, SessionIsWhole, PairsAreOwn, StagesHaveSessions,
              ClearedForAReason, Places
<1>8. QED
  BY <1>1, <1>2, <1>3, <1>4, <1>5, <1>6, <1>7

LEMMA RefreshGrantedStep ==
    ASSUME DataInv, RefreshGranted
    PROVE  DataInv'
<1> USE DEF DataInv
<1> DEFINE next == [user |-> active, grant |-> issued[active] + 1]
<1>1. active \in Users /\ issued[active] < MaxGrant
  BY DEF RefreshGranted, StagesHaveSessions, DataOK
<1>2. next \in Tokens /\ next # None /\ next.user = active
  BY <1>1, AuthAssumption DEF DataOK, Tokens
<1>3. issued' \in [Users -> 0..MaxGrant]
  BY <1>1, AuthAssumption DEF RefreshGranted, DataOK
<1>4. /\ at' = "idle" /\ UNCHANGED <<registry, lastActive, accounts, why>>
      /\ \/ UNCHANGED <<secrets, active, tokens, socket>>
         \/ secrets' = [secrets EXCEPT ![active] = next] /\ Activate(active, next)
  BY DEF RefreshGranted
<1>5. CASE UNCHANGED <<secrets, active, tokens, socket>>
  BY <1>3, <1>4, <1>5
  DEF DataOK, SessionIsWhole, PairsAreOwn, StagesHaveSessions, ClearedForAReason, Places
<1>6. CASE secrets' = [secrets EXCEPT ![active] = next] /\ Activate(active, next)
  <2> HIDE DEF next
  <2>1. SessionIsWhole' /\ active' \in Users \cup {None} /\ tokens' \in Tokens /\ socket' \in Tokens
    BY <1>1, <1>2, <1>6, ActivateStep
  <2>2. secrets' \in [Users -> Tokens \cup {None}] /\ PairsAreOwn'
    BY <1>1, <1>2, <1>6 DEF DataOK, PairsAreOwn
  <2>3. QED
    BY <1>3, <1>4, <2>1, <2>2 DEF DataOK, StagesHaveSessions, ClearedForAReason, Places
<1>7. QED
  BY <1>4, <1>5, <1>6

LEMMA LoginGrantedStep ==
    ASSUME DataInv, NEW user \in Users, LoginGranted(user)
    PROVE  DataInv'
<1> USE DEF DataInv
<1> DEFINE pair == [user |-> user, grant |-> issued[user] + 1]
<1>1. pair \in Tokens /\ pair # None /\ pair.user = user
  BY AuthAssumption DEF LoginGranted, DataOK, Tokens
<1>2. issued' \in [Users -> 0..MaxGrant]
  BY AuthAssumption DEF LoginGranted, DataOK
<1>3. /\ at' = "idle"
      /\ secrets' = [secrets EXCEPT ![user] = pair] \/ UNCHANGED secrets
      /\ \/ UNCHANGED <<registry, lastActive, accounts, active, tokens, socket, why>>
         \/ \E failing : Saved(user, pair, failing)
  BY DEF LoginGranted, diskVars, memoryVars
<1> HIDE DEF pair
<1>4. secrets' \in [Users -> Tokens \cup {None}] /\ PairsAreOwn'
  BY <1>1, <1>3 DEF DataOK, PairsAreOwn
<1>5. CASE UNCHANGED <<registry, lastActive, accounts, active, tokens, socket, why>>
  BY <1>2, <1>3, <1>4, <1>5
  DEF DataOK, SessionIsWhole, StagesHaveSessions, ClearedForAReason, Places
<1>6. ASSUME NEW failing, Saved(user, pair, failing) PROVE DataInv'
  <2>1. /\ registry' \subseteq Users /\ lastActive' = user /\ accounts' \subseteq Users
        /\ Activate(user, pair) /\ why' = [why EXCEPT ![user] = "none"]
    BY <1>6, SavedWrites
  <2>2. SessionIsWhole' /\ active' \in Users \cup {None} /\ tokens' \in Tokens /\ socket' \in Tokens
    BY <1>1, <2>1, ActivateStep
  <2>3. QED
    BY <1>2, <1>3, <1>4, <2>1, <2>2
    DEF DataOK, StagesHaveSessions, ClearedForAReason, Places, Reasons
<1>7. QED
  BY <1>3, <1>5, <1>6

LEMMA ClearNextStep ==
    ASSUME DataInv, NEW failing, NEW left \in Files, NEW first,
           IsFirst(first, left.accounts), ClearNext(failing, left, first),
           secrets' \in [Users -> Tokens \cup {None}], PairsAreOwn'
    PROVE  /\ registry' = left.accounts \/ (registry' = {} /\ "readForMark" \in failing)
           /\ accounts' = left.accounts \/ (accounts' = {} /\ "listAccounts" \in failing)
           /\ lastActive' \in Users \cup {None} /\ active' \in Users \cup {None}
           /\ tokens' \in Tokens \cup {None} /\ socket' \in Tokens \cup {None}
           /\ SessionIsWhole'
<1> USE DEF DataInv
<1>1. accounts' = left.accounts \/ (accounts' = {} /\ "listAccounts" \in failing)
  BY WhatIsRead DEF ClearNext
<1>2. accounts' # {} => first \in Users
  BY <1>1 DEF IsFirst, Files
<1>3. \/ active' = None /\ tokens' = None /\ socket' \in {None, socket} /\ Write(left)
      \/ /\ accounts' # {} /\ CanActivate(first, secrets', failing)
         /\ Activate(first, secrets'[first]) /\ MarkActive(left, first, failing)
  BY DEF ClearNext
<1>4. CASE active' = None /\ tokens' = None /\ socket' \in {None, socket} /\ Write(left)
  BY <1>1, <1>4 DEF DataOK, SessionIsWhole, Write, Files
<1>5. CASE /\ accounts' # {} /\ CanActivate(first, secrets', failing)
           /\ Activate(first, secrets'[first]) /\ MarkActive(left, first, failing)
  <2>1. first \in Users
    BY <1>2, <1>5
  <2>2. /\ active' \in Users /\ tokens' \in Tokens /\ socket' \in Tokens
        /\ SessionIsWhole'
    BY <1>5, <2>1, AuthAssumption DEF CanActivate, Activate, PairsAreOwn, SessionIsWhole
  <2>3. QED
    BY <1>1, <1>5, <2>1, <2>2, MarkActiveWrites
<1>6. QED
  BY <1>3, <1>4, <1>5

LEMMA ClearStep ==
    ASSUME DataInv, Clear
    PROVE  DataInv'
<1> USE DEF DataInv
<1>1. at' = "idle" /\ UNCHANGED <<issued, why>>
  BY DEF Clear
<1>2. CASE ClearNothing
  BY <1>1, <1>2
  DEF ClearNothing, diskVars, DataOK, SessionIsWhole, PairsAreOwn, StagesHaveSessions,
      ClearedForAReason, Places
<1>3. CASE ClearActive
  <2>1. PICK failing \in SUBSET ClearOps, first \in Users \cup {None} :
           /\ IsFirst(first, Left(failing, first).accounts)
           /\ ClearNext(failing, Left(failing, first), first)
    BY <1>3 DEF ClearActive
  <2>2. secrets' = secrets \/ secrets' = [secrets EXCEPT ![active] = None]
    BY <1>3 DEF ClearActive
  <2>3. secrets' \in [Users -> Tokens \cup {None}] /\ PairsAreOwn'
    BY <2>2 DEF DataOK, PairsAreOwn
  <2>4. Left(failing, first) \in Files
    BY <2>1, LeftByRemove
  <2>5. /\ registry' \subseteq Users /\ accounts' \subseteq Users
        /\ lastActive' \in Users \cup {None} /\ active' \in Users \cup {None}
        /\ tokens' \in Tokens \cup {None} /\ socket' \in Tokens \cup {None}
        /\ SessionIsWhole'
    BY <2>1, <2>3, <2>4, ClearNextStep DEF Files
  <2>6. QED
    BY <1>1, <2>3, <2>5
    DEF DataOK, StagesHaveSessions, ClearedForAReason, Places
<1>4. QED
  BY <1>2, <1>3 DEF Clear

LEMMA CrashStep ==
    ASSUME DataInv, Crash
    PROVE  DataInv'
<1> USE DEF DataInv
<1>1. secrets' \in [Users -> Tokens \cup {None}] /\ PairsAreOwn' /\ issued' \in [Users -> 0..MaxGrant]
  <2>1. CASE UNCHANGED <<secrets, issued>>
    BY <2>1 DEF DataOK, PairsAreOwn
  <2>2. CASE secrets' = [secrets EXCEPT ![active] = None] /\ UNCHANGED issued
    BY <2>2 DEF DataOK, PairsAreOwn
  <2>3. ASSUME NEW user \in Users, issued[user] < MaxGrant,
               issued' = [issued EXCEPT ![user] = @ + 1],
               secrets' = [secrets EXCEPT ![user] = [user |-> user, grant |-> issued[user] + 1]]
        PROVE  /\ secrets' \in [Users -> Tokens \cup {None}] /\ PairsAreOwn'
               /\ issued' \in [Users -> 0..MaxGrant]
    <3>1. issued[user] + 1 \in 1..MaxGrant
      BY <2>3, AuthAssumption DEF DataOK
    <3>2. PICK pair \in Tokens : pair = [user |-> user, grant |-> issued[user] + 1]
      BY <3>1 DEF Tokens
    <3>3. pair.user = user /\ secrets' = [secrets EXCEPT ![user] = pair]
      BY <2>3, <3>2
    <3>4. issued' \in [Users -> 0..MaxGrant]
      BY <2>3, <3>1 DEF DataOK
    <3>5. secrets' \in [Users -> Tokens \cup {None}] /\ PairsAreOwn'
      BY <3>2, <3>3 DEF DataOK, PairsAreOwn
    <3>6. QED
      BY <3>4, <3>5
  <2>4. QED
    BY <2>1, <2>2, <2>3 DEF Crash, CutOff
<1>2. QED
  BY <1>1
  DEF Crash, DataOK, SessionIsWhole, StagesHaveSessions, ClearedForAReason, Places

LEMMA DataStep == DataInv /\ [Next]_vars => DataInv'
<1> SUFFICES ASSUME DataInv, [Next]_vars PROVE DataInv'
  OBVIOUS
<1>1. ASSUME NEW command \in Commands, Dispatch(command) PROVE DataInv'
  BY <1>1
  DEF Dispatch, diskVars, memoryVars, worldVars, DataInv, DataOK, SessionIsWhole,
      PairsAreOwn, StagesHaveSessions, ClearedForAReason
<1>2. CASE UNCHANGED vars
  BY <1>2
  DEF vars, diskVars, memoryVars, worldVars, DataInv, DataOK, SessionIsWhole,
      PairsAreOwn, StagesHaveSessions, ClearedForAReason
<1>3. QED
  BY <1>1, <1>2, RestoreStep, SwitchStep, StageStep, RefreshGrantedStep, LoginGrantedStep,
     ClearStep, CrashStep
  DEF Next, Actor

-----------------------------------------------------------------------------
(* One more account fits where the list is empty or shorter than the limit. *)
LEMMA RoomForOne ==
    ASSUME NEW listed \in SUBSET Users, NEW user \in Users, NEW room \in Nat,
           AccountLimit <= room, Cardinality(listed) <= room,
           user \in listed \/ listed = {} \/ Cardinality(listed) < AccountLimit
    PROVE  Cardinality(listed \cup {user}) <= room
<1>1. IsFiniteSet(listed) /\ Cardinality(listed) \in Nat
  BY AuthAssumption, FS_Subset, FS_CardinalityType
<1>2. Cardinality(listed \cup {user}) =
         IF user \in listed THEN Cardinality(listed) ELSE Cardinality(listed) + 1
  BY <1>1, FS_AddElement
<1>3. listed = {} => Cardinality(listed) = 0
  BY FS_EmptySet
<1>4. QED
  BY <1>1, <1>2, <1>3, AuthAssumption

LEMMA Counted ==
    ASSUME NEW smaller, NEW listed \in SUBSET Users, smaller \subseteq listed
    PROVE  /\ Cardinality(smaller) \in Nat /\ Cardinality(listed) \in Nat
           /\ Cardinality(smaller) <= Cardinality(listed)
  BY AuthAssumption, FS_Subset, FS_CardinalityType

(* A file written back within a list that had room leaves the invariant;   *)
(* a list that a failed read left empty has one more place.                *)
LEMMA LimitCarries ==
    ASSUME FaultsOK, FaultsOK', misreads <= misreads', NEW listed \in SUBSET Users,
           Cardinality(listed) <= AccountLimit + misreads, registry' \subseteq listed,
           \/ registry' \subseteq accounts' /\ accounts' \subseteq listed
           \/ accounts' = {} /\ misreads < misreads'
    PROVE  WithinLimit' /\ KnowsItsAccounts'
<1>1. /\ Cardinality(registry') \in Nat
      /\ Cardinality(registry') <= AccountLimit + misreads
  BY Counted, AuthAssumption DEF FaultsOK
<1>2. CASE registry' \subseteq accounts' /\ accounts' \subseteq listed
  <2>1. /\ Cardinality(accounts') \in Nat
        /\ Cardinality(accounts') <= AccountLimit + misreads
    BY <1>2, Counted, AuthAssumption DEF FaultsOK
  <2>2. QED
    BY <1>1, <1>2, <2>1, AuthAssumption DEF FaultsOK, WithinLimit, KnowsItsAccounts
<1>3. CASE accounts' = {} /\ misreads < misreads'
  <2>1. Cardinality(accounts') = 0
    BY <1>3, FS_EmptySet
  <2>2. QED
    BY <1>1, <1>3, <2>1, AuthAssumption DEF FaultsOK, WithinLimit, KnowsItsAccounts
<1>4. QED
  BY <1>2, <1>3

LEMMA RestoreKeepsLimit ==
    ASSUME DataOK, FaultsOK, FaultsOK', misreads <= misreads', WithinLimit, Restore
    PROVE  WithinLimit' /\ KnowsItsAccounts'
<1>1. PICK failing \in SUBSET RestoreOps :
        /\ Faults(failing, RestoreOps)
        /\ accounts' = Registry(OnDisk, "listAccounts", failing).accounts
  BY DEF Restore
<1>2. registry' = registry
  BY DEF Restore, diskVars
<1>3. "listAccounts" \in failing => misreads < misreads'
  <2>1. RestoreOps \in SUBSET StoreOps
    BY DEF RestoreOps, StoreOps, RegistryReads
  <2>2. QED
    BY <1>1, <2>1, FaultsCount DEF RegistryReads
<1>4. accounts' = registry \/ (accounts' = {} /\ misreads < misreads')
  BY <1>1, <1>3, OnDiskIsAFile, WhatIsRead DEF OnDisk
<1>5. QED
  BY <1>2, <1>4, LimitCarries DEF DataOK, WithinLimit

LEMMA SwitchKeepsLimit ==
    ASSUME DataOK, FaultsOK, FaultsOK', misreads <= misreads', WithinLimit, KnowsItsAccounts,
           NEW user \in Users, SwitchAccount(user)
    PROVE  WithinLimit' /\ KnowsItsAccounts'
<1>1. accounts' = accounts /\ ~Restoring
  BY DEF SwitchAccount, Take, Restoring
<1>2. registry' = registry \/ registry' = {}
  <2>1. registry' = registry \/ \E failing : MarkActive(OnDisk, user, failing)
    BY DEF SwitchAccount
  <2>2. QED
    BY <2>1, OnDiskIsAFile, MarkActiveWrites DEF OnDisk
<1>3. CASE registry' \subseteq accounts
  BY <1>1, <1>3, LimitCarries DEF DataOK, KnowsItsAccounts
<1>4. CASE registry' = registry /\ ~(registry \subseteq accounts)
  <2>1. Cardinality(registry) \in Nat /\ Cardinality(accounts) \in Nat
    BY Counted DEF DataOK
  <2>2. accounts = {} /\ Cardinality(registry) < AccountLimit + misreads
    BY <1>1, <1>4 DEF KnowsItsAccounts
  <2>3. QED
    BY <1>1, <1>4, <2>1, <2>2, AuthAssumption
    DEF FaultsOK, WithinLimit, KnowsItsAccounts
<1>5. QED
  BY <1>2, <1>3, <1>4

LEMMA LoginKeepsLimit ==
    ASSUME DataOK, FaultsOK, FaultsOK', misreads <= misreads', WithinLimit, KnowsItsAccounts,
           NEW user \in Users, LoginGranted(user),
           NEW pair, NEW failing \in SUBSET {"readRegistry", "listAccounts"},
           Faults(failing, {"readRegistry", "listAccounts"}), HasRoomFor(user),
           Saved(user, pair, failing)
    PROVE  WithinLimit' /\ KnowsItsAccounts'
<1>1. /\ registry' \subseteq registry \cup {user}
      /\ accounts' = registry' \/ (accounts' = {} /\ "listAccounts" \in failing)
  BY SavedWrites
<1>2. "listAccounts" \in failing => misreads < misreads'
  <2>1. {"readRegistry", "listAccounts"} \in SUBSET StoreOps
    BY DEF StoreOps, RegistryReads
  <2>2. QED
    BY <2>1, FaultsCount DEF RegistryReads
<1>3. ~Restoring
  BY DEF LoginGranted, Restoring
<1>4. PICK listed \in SUBSET Users :
        Cardinality(listed) <= AccountLimit + misreads /\ registry' \subseteq listed
  <2>1. AccountLimit + misreads \in Nat /\ AccountLimit <= AccountLimit + misreads
    BY AuthAssumption DEF FaultsOK
  <2>2. CASE registry \subseteq accounts
    <3>1. Cardinality(accounts \cup {user}) <= AccountLimit + misreads
      BY <2>1, RoomForOne DEF HasRoomFor, KnowsItsAccounts, DataOK
    <3>2. QED
      BY <1>1, <2>2, <3>1 DEF DataOK
  <2>3. CASE Cardinality(registry) < AccountLimit + misreads
    <3>1. IsFiniteSet(registry) /\ Cardinality(registry) \in Nat
      BY AuthAssumption, FS_Subset, FS_CardinalityType DEF DataOK
    <3>2. Cardinality(registry \cup {user}) \in {Cardinality(registry), Cardinality(registry) + 1}
      BY <3>1, FS_AddElement
    <3>3. Cardinality(registry \cup {user}) <= AccountLimit + misreads
      BY <2>1, <2>3, <3>1, <3>2
    <3>4. QED
      BY <1>1, <3>3 DEF DataOK
  <2>4. QED
    BY <1>3, <2>2, <2>3 DEF KnowsItsAccounts
<1>5. QED
  BY <1>1, <1>2, <1>4, LimitCarries

LEMMA ClearKeepsLimit ==
    ASSUME DataInv, FaultsOK, FaultsOK', misreads <= misreads', WithinLimit,
           at' = "idle", ClearActive
    PROVE  WithinLimit' /\ KnowsItsAccounts'
<1> USE DEF DataInv
<1>1. PICK failing \in SUBSET ClearOps, first \in Users \cup {None} :
        /\ Faults(failing, ClearOps)
        /\ secrets' = secrets \/ secrets' = [secrets EXCEPT ![active] = None]
        /\ IsFirst(first, Left(failing, first).accounts)
        /\ ClearNext(failing, Left(failing, first), first)
  BY DEF ClearActive
<1>2. secrets' \in [Users -> Tokens \cup {None}] /\ PairsAreOwn'
  BY <1>1 DEF DataOK, PairsAreOwn
<1>3. PICK left \in Files :
        /\ left = Left(failing, first) /\ left.accounts \subseteq registry
  BY LeftByRemove
<1>4. /\ registry' = left.accounts \/ registry' = {}
      /\ accounts' = left.accounts \/ (accounts' = {} /\ "listAccounts" \in failing)
  BY <1>1, <1>2, <1>3, ClearNextStep
<1>5. "listAccounts" \in failing => misreads < misreads'
  <2>1. ClearOps \in SUBSET StoreOps
    BY DEF ClearOps, ActivateOps, StoreOps, RegistryReads
  <2>2. QED
    BY <1>1, <2>1, FaultsCount DEF RegistryReads
<1>6. registry' \subseteq registry /\ registry \in SUBSET Users
  BY <1>3, <1>4 DEF DataOK
<1>7. \/ registry' \subseteq accounts' /\ accounts' \subseteq registry
      \/ accounts' = {} /\ misreads < misreads'
  BY <1>3, <1>4, <1>5
<1>8. QED
  BY <1>6, <1>7, LimitCarries DEF WithinLimit

(* The steps that leave the lists alone.                                   *)
LEMMA LimitStays ==
    ASSUME FaultsOK, FaultsOK', misreads <= misreads', DataOK, WithinLimit, KnowsItsAccounts,
           UNCHANGED <<registry, accounts>>, Restoring => Restoring'
    PROVE  WithinLimit' /\ KnowsItsAccounts'
<1>1. Cardinality(registry) \in Nat /\ Cardinality(accounts) \in Nat
  BY Counted DEF DataOK
<1>2. QED
  BY <1>1, AuthAssumption DEF FaultsOK, WithinLimit, KnowsItsAccounts

LEMMA LimitStep ==
    ASSUME QueueOK, DataInv, FaultsOK, WithinLimit, KnowsItsAccounts, [Next]_vars
    PROVE  WithinLimit' /\ KnowsItsAccounts'
<1>0. FaultsOK' /\ misreads <= misreads' /\ DataOK
  BY FaultsStep DEF DataInv
<1>1. CASE Restore
  BY <1>0, <1>1, RestoreKeepsLimit
<1>2. ASSUME NEW command \in Commands, Dispatch(command)
      PROVE  WithinLimit' /\ KnowsItsAccounts'
  <2>1. queue' = Append(queue, command) /\ UNCHANGED <<registry, accounts, at>>
    BY <1>2 DEF Dispatch, diskVars, memoryVars
  <2>2. queue # <<>> => queue' # <<>> /\ Head(queue') = Head(queue)
    BY <2>1 DEF QueueOK
  <2>3. QED
    BY <1>0, <2>1, <2>2, LimitStays DEF Restoring
<1>3. CASE Crash
  <2>1. accounts' = {} /\ at' = "idle" /\ queue' = <<[op |-> "restore"]>>
        /\ registry' = registry
    BY <1>3 DEF Crash
  <2>2. Restoring'
    BY <2>1 DEF Restoring
  <2>3. Cardinality(registry) \in Nat /\ Cardinality(accounts') = 0
    BY <1>0, <2>1, Counted, FS_EmptySet DEF DataOK
  <2>4. QED
    BY <1>0, <2>1, <2>2, <2>3, AuthAssumption DEF FaultsOK, WithinLimit, KnowsItsAccounts
<1>4. ASSUME NEW op, op # "restore", Take(op), UNCHANGED <<registry, accounts>>
      PROVE  WithinLimit' /\ KnowsItsAccounts'
  BY <1>0, <1>4, LimitStays DEF Take, Restoring
<1>5. ASSUME NEW user \in Users, SwitchAccount(user) PROVE WithinLimit' /\ KnowsItsAccounts'
  BY <1>0, <1>5, SwitchKeepsLimit
<1>6. CASE NoteRemoteFailure \/ SignIn \/ SignOut
  <2>1. \/ Take("noteRemoteFailure") \/ Take("signIn") \/ Take("signOut")
    BY <1>6 DEF NoteRemoteFailure, SignIn, SignOut
  <2>2. UNCHANGED <<registry, accounts>>
    BY <1>6 DEF NoteRemoteFailure, SignIn, SignOut, diskVars, memoryVars
  <2>3. QED
    BY <2>1, <2>2, <1>4
<1>7. CASE UNCHANGED vars
  BY <1>0, <1>7, LimitStays DEF vars, diskVars, memoryVars, Restoring
<1>8. ASSUME at # "idle", UNCHANGED <<registry, accounts>>
      PROVE  WithinLimit' /\ KnowsItsAccounts'
  BY <1>0, <1>8, LimitStays DEF Restoring
<1>9. CASE Check \/ RefreshGranted \/ RefreshEnds \/ RefreshLost \/ LoginFails \/ LogoutEnds
  <2>1. at # "idle" /\ UNCHANGED <<registry, accounts>>
    BY <1>9 DEF Check, RefreshGranted, RefreshEnds, RefreshLost, LoginFails, LogoutEnds,
                diskVars, memoryVars
  <2>2. QED
    BY <2>1, <1>8
<1>10. ASSUME NEW user \in Users, LoginGranted(user) PROVE WithinLimit' /\ KnowsItsAccounts'
  <2>1. CASE UNCHANGED <<registry, accounts>>
    BY <1>8, <1>10, <2>1 DEF LoginGranted
  <2>2. CASE ~UNCHANGED <<registry, accounts>>
    <3> DEFINE pair == [user |-> user, grant |-> issued[user] + 1]
    <3>1. PICK failing \in SUBSET {"readRegistry", "listAccounts"} :
             /\ Faults(failing, {"readRegistry", "listAccounts"}) /\ HasRoomFor(user)
             /\ Saved(user, pair, failing)
      BY <1>10, <2>2 DEF LoginGranted, diskVars, memoryVars
    <3> HIDE DEF pair
    <3>2. QED
      BY <1>0, <1>10, <3>1, LoginKeepsLimit
  <2>3. QED
    BY <2>1, <2>2
<1>11. CASE Clear
  <2>1. at = "clearing" /\ at' = "idle"
    BY <1>11 DEF Clear
  <2>2. CASE ClearNothing
    BY <1>8, <2>1, <2>2 DEF ClearNothing, diskVars
  <2>3. CASE ClearActive
    BY <1>0, <2>1, <2>3, ClearKeepsLimit
  <2>4. QED
    BY <1>11, <2>2, <2>3 DEF Clear
<1>12. QED
  BY <1>1, <1>2, <1>3, <1>5, <1>6, <1>7, <1>9, <1>10, <1>11 DEF Next, Actor

(* What a handler without faults leaves in the stores agrees.              *)
LEMMA AgreeStep ==
    ASSUME DataInv, FaultsOK, StoresAgree, [Next]_vars
    PROVE  StoresAgree'
<1> SUFFICES ASSUME faults' = 0
             PROVE  /\ \A user \in Users : user \in registry' <=> secrets'[user] # None
                    /\ active' # None => secrets'[active'] = tokens'
  BY DEF StoresAgree
<1> USE AuthAssumption DEF DataInv, FaultsOK
<1>1. ASSUME NEW ops \in SUBSET StoreOps, NEW failing, Faults(failing, ops)
      PROVE  failing = {} /\ faults = 0
  BY <1>1, FaultsCount
<1>2. CASE Restore
  <2>0. RestoreOps \in SUBSET StoreOps
    BY DEF RestoreOps, StoreOps, RegistryReads
  <2>1. PICK failing \in SUBSET RestoreOps :
           /\ Faults(failing, RestoreOps)
           /\ \/ UNCHANGED <<active, tokens>>
              \/ \E user : Activate(user, secrets[user])
    BY <1>2 DEF Restore
  <2>2. faults = 0
    BY <2>0, <2>1, <1>1
  <2>3. UNCHANGED <<registry, secrets>>
    BY <1>2 DEF Restore, diskVars
  <2>4. QED
    BY <2>1, <2>2, <2>3 DEF StoresAgree, Activate
<1>3. ASSUME NEW user \in Users, SwitchAccount(user)
      PROVE  /\ \A u \in Users : u \in registry' <=> secrets'[u] # None
             /\ active' # None => secrets'[active'] = tokens'
  <2>1. SwitchOps \in SUBSET StoreOps /\ {"readSecret"} \in SUBSET StoreOps
    BY DEF SwitchOps, StoreOps, RegistryReads
  <2>2. \/ NoFaults /\ UNCHANGED <<registry, active, tokens>>
        \/ \E failing : /\ Faults(failing, {"readSecret"})
                        /\ UNCHANGED <<registry, active, tokens>>
        \/ \E failing : /\ Faults(failing, SwitchOps)
                        /\ Activate(user, secrets[user])
                        /\ MarkActive(OnDisk, user, failing)
    BY <1>3 DEF SwitchAccount
  <2>3. faults = 0
    BY <2>1, <2>2, <1>1 DEF NoFaults
  <2>4. registry' = registry /\ (UNCHANGED <<active, tokens>> \/ Activate(user, secrets[user]))
    <3>1. ASSUME NEW failing, Faults(failing, SwitchOps), MarkActive(OnDisk, user, failing)
          PROVE  registry' = registry
      <4>1. failing = {}
        BY <3>1, <2>1, <1>1
      <4>2. QED
        BY <3>1, <4>1, OnDiskIsAFile, MarkActiveWrites DEF OnDisk
    <3>2. QED
      BY <2>2, <3>1
  <2>5. UNCHANGED secrets
    BY <1>3 DEF SwitchAccount
  <2>6. QED
    BY <2>3, <2>4, <2>5 DEF StoresAgree, Activate
<1>4. CASE RefreshGranted
  <2> DEFINE next == [user |-> active, grant |-> issued[active] + 1]
  <2>1. PICK failing \in SUBSET {"readSecret", "writeSecret"} :
           /\ Faults(failing, {"readSecret", "writeSecret"})
           /\ IF secrets[active] = tokens /\ failing = {}
              THEN secrets' = [secrets EXCEPT ![active] = next] /\ Activate(active, next)
              ELSE UNCHANGED <<secrets, active, tokens>>
    BY <1>4 DEF RefreshGranted
  <2>2. faults = 0
    BY <2>1, <1>1 DEF StoreOps
  <2>3. active \in Users /\ tokens # None /\ next # None
    BY <1>4 DEF RefreshGranted, StagesHaveSessions, SessionIsWhole, DataOK, Tokens
  <2>4. UNCHANGED registry
    BY <1>4 DEF RefreshGranted
  <2> HIDE DEF next
  <2>5. QED
    BY <2>1, <2>2, <2>3, <2>4 DEF StoresAgree, Activate, DataOK
<1>5. ASSUME NEW user \in Users, LoginGranted(user)
      PROVE  /\ \A u \in Users : u \in registry' <=> secrets'[u] # None
             /\ active' # None => secrets'[active'] = tokens'
  <2> DEFINE pair == [user |-> user, grant |-> issued[user] + 1]
  <2>1. /\ {"writeSecret"} \in SUBSET StoreOps
        /\ {"readRegistry", "writeRegistry"} \in SUBSET StoreOps
        /\ {"readRegistry", "listAccounts"} \in SUBSET StoreOps
    BY DEF StoreOps, RegistryReads
  <2>2. ~Faults({"writeSecret"}, {"writeSecret"})
    BY <2>1, <1>1
  <2>3. ASSUME NEW failing,
               Faults(failing \cup {"writeRegistry"}, {"readRegistry", "writeRegistry"})
        PROVE  FALSE
    BY <2>1, <2>3, <1>1
  <2>4. \/ NoFaults /\ UNCHANGED <<secrets, registry, active, tokens>>
        \/ \E failing : /\ Faults(failing, {"readRegistry", "listAccounts"})
                        /\ secrets' = [secrets EXCEPT ![user] = pair]
                        /\ Saved(user, pair, failing)
    BY <1>5, <2>2, <2>3 DEF LoginGranted, diskVars, memoryVars
  <2>5. CASE NoFaults /\ UNCHANGED <<secrets, registry, active, tokens>>
    BY <2>5 DEF NoFaults, StoresAgree
  <2>6. ASSUME NEW failing, Faults(failing, {"readRegistry", "listAccounts"}),
               secrets' = [secrets EXCEPT ![user] = pair], Saved(user, pair, failing)
        PROVE  /\ \A u \in Users : u \in registry' <=> secrets'[u] # None
               /\ active' # None => secrets'[active'] = tokens'
    <3>1. failing = {} /\ faults = 0
      BY <2>1, <2>6, <1>1
    <3>2. pair # None
      BY <1>5 DEF LoginGranted, DataOK, Tokens
    <3> HIDE DEF pair
    <3>3. registry' = registry \cup {user} /\ Activate(user, pair)
      BY <2>6, <3>1, SavedWrites
    <3>4. QED
      BY <2>6, <3>1, <3>2, <3>3 DEF StoresAgree, Activate, DataOK
  <2>7. QED
    BY <2>4, <2>5, <2>6
<1>6. CASE Clear
  <2>1. CASE ClearNothing
    BY <2>1 DEF ClearNothing, NoFaults, diskVars, StoresAgree
  <2>2. CASE ClearActive
    <3>0. ClearOps \in SUBSET StoreOps
      BY DEF ClearOps, ActivateOps, StoreOps, RegistryReads
    <3>1. PICK failing \in SUBSET ClearOps, first \in Users \cup {None} :
             /\ Faults(failing, ClearOps)
             /\ secrets' = IF "deleteSecret" \in failing THEN secrets
                           ELSE [secrets EXCEPT ![active] = None]
             /\ IsFirst(first, Left(failing, first).accounts)
             /\ ClearNext(failing, Left(failing, first), first)
      BY <2>2 DEF ClearActive
    <3>2. failing = {} /\ faults = 0
      BY <3>0, <3>1, <1>1
    <3>3. secrets' = [secrets EXCEPT ![active] = None] /\ registry' = registry \ {active}
      <4>1. secrets' = [secrets EXCEPT ![active] = None]
        BY <3>1, <3>2
      <4>2. secrets' \in [Users -> Tokens \cup {None}] /\ PairsAreOwn'
        BY <4>1 DEF DataOK, PairsAreOwn
      <4>3. PICK left \in Files :
               left = Left(failing, first) /\ left.accounts = registry \ {active}
        BY <3>2, LeftByRemove
      <4>4. QED
        BY <3>1, <3>2, <4>1, <4>2, <4>3, ClearNextStep
    <3>4. active' # None => secrets'[active'] = tokens'
      BY <3>1 DEF ClearNext, Activate
    <3>5. QED
      BY <3>2, <3>3, <3>4 DEF StoresAgree, DataOK
  <2>3. QED
    BY <1>6, <2>1, <2>2 DEF Clear
<1>7. CASE Crash
  <2>1. ~CutOff
    <3>1. {"writeRegistry"} \in SUBSET StoreOps
      BY DEF StoreOps
    <3>2. QED
      BY <3>1, <1>1 DEF CutOff
  <2>2. UNCHANGED <<secrets, registry, faults>> /\ active' = None
    BY <1>7, <2>1 DEF Crash
  <2>3. QED
    BY <2>2 DEF StoresAgree
<1>8. CASE UNCHANGED <<registry, secrets, active, tokens, faults>>
  BY <1>8 DEF StoresAgree
<1>9. QED
  BY <1>2, <1>3, <1>4, <1>5, <1>6, <1>7, <1>8
  DEF Next, Actor, vars, diskVars, memoryVars, worldVars, Dispatch, Check, NoteRemoteFailure,
      RefreshEnds, RefreshLost, SignIn, LoginFails, SignOut, LogoutEnds, NoFaults

-----------------------------------------------------------------------------
LEMMA AuthInvParts == AuthInv <=> /\ DataInv /\ QueueOK /\ FaultsOK
                                  /\ StoresAgree /\ KnowsItsAccounts /\ WithinLimit
  BY DEF AuthInv, SessionInv, TypeOK, DataInv, DataOK, QueueOK, FaultsOK

(* The inductive invariant of the auth actor.                              *)
THEOREM AuthInvHolds == Spec => []AuthInv
<1>1. Init => AuthInv
  BY InitSession
<1>2. AuthInv /\ [Next]_vars => AuthInv'
  <2>1. SUFFICES ASSUME AuthInv, [Next]_vars PROVE AuthInv'
    OBVIOUS
  <2>2. DataInv /\ QueueOK /\ FaultsOK /\ StoresAgree /\ KnowsItsAccounts /\ WithinLimit
    BY <2>1, AuthInvParts
  <2>3. DataInv' /\ QueueOK' /\ FaultsOK'
    BY <2>1, <2>2, DataStep, QueueStep, FaultsStep
  <2>4. StoresAgree' /\ KnowsItsAccounts' /\ WithinLimit'
    BY <2>1, <2>2, AgreeStep, LimitStep
  <2>5. QED
    BY <2>3, <2>4
    DEF AuthInv, SessionInv, TypeOK, DataInv, DataOK, QueueOK, FaultsOK
<1>3. QED
  BY <1>1, <1>2, PTL DEF Spec

(* TypeOK: the state of the auth actor, its stores and its channel.        *)
THEOREM AuthTypeCorrect == Spec => []TypeOK
  BY AuthInvHolds, PTL DEF AuthInv, SessionInv

(* SessionIsWhole: the active account, its pair and the socket agree.      *)
THEOREM SessionsAreWhole == Spec => []SessionIsWhole
  BY AuthInvHolds, PTL DEF AuthInv, SessionInv

(* StoresAgree: without faults, both stores list the same sessions.        *)
THEOREM StoresKeepAgreeing == Spec => []StoresAgree
  BY AuthInvHolds, PTL DEF AuthInv

(* WithinLimit: accounts.json lists no more accounts than the limit and    *)
(* one for every time it could not be read.                                *)
THEOREM LimitIsKept == Spec => []WithinLimit
  BY AuthInvHolds, PTL DEF AuthInv

(* OnlyEndedSessionsAreDropped: an account leaves accounts.json only when  *)
(* its session was ended for a reason, or by a handler that failed to read *)
(* the file it writes back.                                                *)
THEOREM DroppedForAReason == Spec => OnlyEndedSessionsAreDropped
<1> DEFINE Step == \A user \in Users : user \in registry /\ user \notin registry' =>
                      why[user] # "none" \/ misreads' > misreads
<1>1. SessionInv /\ [Next]_vars => Step
  <2>1. SUFFICES ASSUME SessionInv, [Next]_vars, NEW user \in Users,
                        user \in registry, user \notin registry'
                 PROVE  why[user] # "none" \/ misreads' > misreads
    OBVIOUS
  <2>2. DataInv /\ FaultsOK /\ FaultsOK'
    BY <2>1, FaultsStep DEF SessionInv, TypeOK, DataInv, DataOK, FaultsOK
  <2>3. ASSUME NEW ops \in SUBSET StoreOps, NEW failing, Faults(failing, ops),
               failing \cap RegistryReads # {}
        PROVE  misreads' > misreads
    BY <2>2, <2>3, FaultsCount DEF FaultsOK
  <2>4. ASSUME NEW other \in Users, SwitchAccount(other) PROVE misreads' > misreads
    <3>1. PICK failing : Faults(failing, SwitchOps) /\ MarkActive(OnDisk, other, failing)
      BY <2>1, <2>4 DEF SwitchAccount
    <3>2. "readForMark" \in failing
      BY <2>1, <2>2, <3>1, OnDiskIsAFile, MarkActiveWrites DEF OnDisk, DataInv
    <3>3. SwitchOps \in SUBSET StoreOps /\ "readForMark" \in RegistryReads
      BY DEF SwitchOps, StoreOps, RegistryReads
    <3>4. QED
      BY <3>1, <3>2, <3>3, <2>3
  <2>5. ASSUME NEW other \in Users, LoginGranted(other) PROVE misreads' > misreads
    <3>1. PICK failing, pair : /\ Faults(failing, {"readRegistry", "listAccounts"})
                               /\ Saved(other, pair, failing)
      BY <2>1, <2>5 DEF LoginGranted, diskVars
    <3>2. "readRegistry" \in failing
      BY <2>1, <2>2, <3>1, SavedWrites DEF DataInv
    <3>3. /\ {"readRegistry", "listAccounts"} \in SUBSET StoreOps
          /\ "readRegistry" \in RegistryReads
      BY DEF StoreOps, RegistryReads
    <3>4. QED
      BY <3>1, <3>2, <3>3, <2>3
  <2>6. CASE Clear
    <3>1. at = "clearing" /\ active # None /\ ClearActive
      BY <2>1, <2>6 DEF Clear, ClearNothing, ClearActive, diskVars
    <3>2. PICK failing \in SUBSET ClearOps, first \in Users \cup {None} :
             /\ Faults(failing, ClearOps)
             /\ secrets' = secrets \/ secrets' = [secrets EXCEPT ![active] = None]
             /\ IsFirst(first, Left(failing, first).accounts)
             /\ ClearNext(failing, Left(failing, first), first)
      BY <3>1 DEF ClearActive
    <3>3. secrets' \in [Users -> Tokens \cup {None}] /\ PairsAreOwn'
      BY <2>2, <3>2 DEF DataInv, DataOK, PairsAreOwn
    <3>4. PICK left \in Files :
             /\ left = Left(failing, first)
             /\ registry \ {active} \subseteq left.accounts \/ "readRegistry" \in failing
      BY <2>2, LeftByRemove DEF DataInv
    <3>5. registry' = left.accounts \/ "readForMark" \in failing
      BY <2>2, <3>2, <3>3, <3>4, ClearNextStep
    <3>6. user = active \/ failing \cap RegistryReads # {}
      BY <2>1, <3>4, <3>5 DEF RegistryReads
    <3>7. ClearOps \in SUBSET StoreOps
      BY DEF ClearOps, ActivateOps, StoreOps, RegistryReads
    <3>8. QED
      BY <2>1, <3>1, <3>2, <3>6, <3>7, <2>3 DEF SessionInv, ClearedForAReason
  <2>7. \/ Clear \/ \E other \in Users : SwitchAccount(other) \/ LoginGranted(other)
    BY <2>1
    DEF Next, Actor, vars, diskVars, Dispatch, Restore, Check,
        NoteRemoteFailure, RefreshGranted, RefreshEnds, RefreshLost, SignIn, LoginFails,
        SignOut, LogoutEnds, Crash
  <2>8. QED
    BY <2>4, <2>5, <2>6, <2>7
<1>2. [Next]_vars /\ SessionInv => [Step]_vars
  BY <1>1
<1>3. Spec => []SessionInv
  BY AuthInvHolds, PTL DEF AuthInv
<1>4. QED
  BY <1>2, <1>3, PTL DEF Spec, OnlyEndedSessionsAreDropped
=============================================================================
