--------------------------- MODULE AuthRepository ---------------------------
(***************************************************************************)
(* The auth actor: which account is active, its token pair in memory, in   *)
(* the OS secure store and in accounts.json, and the credential the socket *)
(* is told to present.  One task takes commands from a bounded channel and *)
(* handles each to the end; while it awaits the server the rest wait.      *)
(*                                                                         *)
(* A handler is split where it awaits.  The server, the clock, the secure  *)
(* store and the disk are external: a store operation may fail at any      *)
(* time, the server may answer anything, and the process may be killed and *)
(* started again, between two writes of one handler too.  accounts.json is *)
(* read anew for every use, and one that cannot be read counts as empty.   *)
(*                                                                         *)
(* Sign-in stands for registration too: both end in consume_grant.  The    *)
(* order of accounts.json is left open where the code takes its first, and *)
(* one limit stands for the two of AccountLimitPolicy.  The registration   *)
(* form (codes, tag checks) touches none of this state and is left out.    *)
(***************************************************************************)
EXTENDS Naturals, FiniteSets, Sequences

CONSTANTS
    Users,          \* account ids
    None,           \* no account, no token pair, SocketCredential::Anonymous
    QueueCapacity,  \* 64, of the command channel
    AccountLimit,   \* AccountLimitPolicy
    MaxGrant,       \* bound: token pairs the server issues per account
    MaxFaults,      \* bound: store operations that fail or are cut off
    MaxCrashes      \* bound: times the process is killed

Tokens == [user : Users, grant : 1..MaxGrant]

ASSUME AuthAssumption ==
    /\ None \notin Users /\ None \notin Tokens /\ IsFiniteSet(Users)
    /\ QueueCapacity \in Nat \ {0} /\ AccountLimit \in Nat \ {0}
    /\ MaxGrant \in Nat /\ MaxFaults \in Nat /\ MaxCrashes \in Nat

VARIABLES
    registry,   \* accounts.json: the accounts it lists
    lastActive, \* accounts.json: the account it calls active
    secrets,    \* the secure store: each account's token pair
    accounts,   \* AuthState.accounts
    active,     \* AuthState.active
    tokens,     \* AuthState.tokens
    socket,     \* the credential last given to the socket
    queue,      \* the command channel
    at,         \* where the actor is
    issued,     \* how many pairs the server has issued to each account
    faults,     \* store operations that have failed or were cut off
    misreads,   \* those of them that were reads of accounts.json
    crashes,    \* times the process was killed
    why         \* history: why each account's last session ended

diskVars == <<registry, lastActive, secrets>>
memoryVars == <<accounts, active, tokens, socket>>
worldVars == <<issued, faults, misreads, crashes>>
vars == <<diskVars, memoryVars, queue, at, worldVars, why>>

Commands == [op : {"restore", "signIn", "signOut", "noteRemoteFailure"}]
              \cup [op : {"switchAccount"}, user : Users]
Places == {"idle", "login", "logout", "checking", "refresh", "clearing"}
Reasons == {"none", "signedOut", "expired", "refused", "malformed", "unavailable"}

TypeOK ==
    /\ registry \subseteq Users
    /\ lastActive \in Users \cup {None}
    /\ secrets \in [Users -> Tokens \cup {None}]
    /\ accounts \subseteq Users
    /\ active \in Users \cup {None}
    /\ tokens \in Tokens \cup {None}
    /\ socket \in Tokens \cup {None}
    /\ queue \in Seq(Commands) /\ Len(queue) <= QueueCapacity
    /\ at \in Places
    /\ issued \in [Users -> 0..MaxGrant]
    /\ faults \in 0..MaxFaults /\ misreads \in 0..faults
    /\ crashes \in 0..MaxCrashes
    /\ why \in [Users -> Reasons]

(* composition.rs dispatches Restore once the actor runs.                  *)
Init ==
    /\ registry = {} /\ lastActive = None /\ secrets = [u \in Users |-> None]
    /\ accounts = {} /\ active = None /\ tokens = None /\ socket = None
    /\ queue = <<[op |-> "restore"]>> /\ at = "idle"
    /\ issued = [u \in Users |-> 0]
    /\ faults = 0 /\ misreads = 0 /\ crashes = 0
    /\ why = [u \in Users |-> "none"]

-----------------------------------------------------------------------------
(* dispatch() is a try_send: with the channel full the command is lost.    *)
DispatchUnbounded(command) ==   \* mutant: an unbounded channel
    /\ queue' = Append(queue, command)
    /\ UNCHANGED <<diskVars, memoryVars, at, worldVars, why>>
Dispatch(command) ==
    /\ Len(queue) < QueueCapacity
    /\ queue' = Append(queue, command)
    /\ UNCHANGED <<diskVars, memoryVars, at, worldVars, why>>

Take(op) == at = "idle" /\ queue # <<>> /\ Head(queue).op = op /\ queue' = Tail(queue)

(* The reads of accounts.json: for accounts(), for active_account_id(), by *)
(* save() and remove(), and by set_active().                               *)
RegistryReads == {"listAccounts", "readActive", "readRegistry", "readForMark"}

(* Which of the store operations a step makes fail.                        *)
Faults(failing, ops) ==
    /\ failing \subseteq ops
    /\ faults + Cardinality(failing) <= MaxFaults
    /\ faults' = faults + Cardinality(failing)
    /\ misreads' = misreads + Cardinality(failing \cap RegistryReads)
NoFaults == UNCHANGED <<faults, misreads>>

(* registry(): what accounts.json, holding file, is taken to say.          *)
OnDisk == [accounts |-> registry, active |-> lastActive]
Registry(file, read, failing) ==
    IF read \in failing THEN [accounts |-> {}, active |-> None] ELSE file
Write(file) == registry' = file.accounts /\ lastActive' = file.active

(* set_active(): the registry it read is written back with user active.    *)
MarkActive(file, user, failing) ==
    IF "markActive" \in failing THEN Write(file)
    ELSE Write([Registry(file, "readForMark", failing) EXCEPT !.active = user])

(* activate(): without a readable pair nothing at all is changed.          *)
CanActivate(user, store, failing) == "readSecret" \notin failing /\ store[user] # None
Activate(user, pair) == active' = user /\ tokens' = pair /\ socket' = pair

EndSession(user, reason) == why' = [why EXCEPT ![user] = reason]

-----------------------------------------------------------------------------
(* restore(): the account accounts.json calls active, else its first.      *)
RestoreOps == {"listAccounts", "readActive", "readSecret"}
Restore ==
    /\ Take("restore")
    /\ \E failing \in SUBSET RestoreOps :
       LET listed == Registry(OnDisk, "listAccounts", failing).accounts
           marked == Registry(OnDisk, "readActive", failing).active
       IN
       /\ Faults(failing, RestoreOps)
       /\ accounts' = listed
       /\ \/ /\ listed = {}
             /\ at' = "idle"
             /\ UNCHANGED <<active, tokens, socket>>
          \/ \E user \in listed :
                /\ marked \in listed => user = marked
                /\ IF CanActivate(user, secrets, failing) THEN Activate(user, secrets[user])
                   ELSE UNCHANGED <<active, tokens, socket>>
                /\ at' = "checking"
    /\ UNCHANGED <<diskVars, issued, crashes, why>>

SwitchOps == {"readSecret", "readForMark", "markActive"}
SwitchAccount(user) ==
    /\ Take("switchAccount") /\ Head(queue).user = user
    /\ \/ /\ active = user \/ user \notin accounts
          /\ at' = "idle"
          /\ NoFaults /\ UNCHANGED <<registry, lastActive, active, tokens, socket>>
       \/ /\ active # user /\ user \in accounts
          /\ at' = "checking"
          /\ \E failing \in SUBSET SwitchOps :
             IF CanActivate(user, secrets, failing)
             THEN /\ Faults(failing, SwitchOps)
                  /\ Activate(user, secrets[user])
                  /\ MarkActive(OnDisk, user, failing)
             ELSE /\ Faults(failing, {"readSecret"})
                  /\ UNCHANGED <<registry, lastActive, active, tokens, socket>>
    /\ UNCHANGED <<secrets, accounts, issued, crashes, why>>

(* After activate(): is the refresh token dead, is the access token stale? *)
(* The clock decides, so either may be found at any time.                  *)
Check ==
    /\ at = "checking"
    /\ \/ /\ tokens = None
          /\ at' = "clearing" /\ UNCHANGED why
       \/ /\ tokens # None
          /\ at' = "clearing" /\ EndSession(active, "expired")
       \/ /\ tokens # None
          /\ at' \in {"idle", "refresh"} /\ UNCHANGED why
    /\ UNCHANGED <<diskVars, memoryVars, queue, worldVars>>

(* A failure that is about authentication: recovery_for().                 *)
NoteRemoteFailure ==
    /\ Take("noteRemoteFailure")
    /\ \/ /\ tokens = None
          /\ at' = "clearing" /\ UNCHANGED why
       \/ /\ tokens # None
          /\ at' = "clearing" /\ EndSession(active, "expired")
       \/ /\ tokens # None
          /\ at' = "refresh" /\ UNCHANGED why
    /\ UNCHANGED <<diskVars, memoryVars, worldVars>>

-----------------------------------------------------------------------------
(* refresh_tokens() around its await. *)
RefreshGrantedUnpublished ==    \* mutant: the rotated pair does not reach the socket
    /\ at = "refresh" /\ issued[active] < MaxGrant
    /\ issued' = [issued EXCEPT ![active] = @ + 1]
    /\ LET next == [user |-> active, grant |-> issued[active] + 1] IN
       secrets' = [secrets EXCEPT ![active] = next] /\ tokens' = next
    /\ at' = "idle"
    /\ NoFaults
    /\ UNCHANGED <<registry, lastActive, accounts, active, socket, queue, crashes, why>>
RefreshGranted ==
    /\ at = "refresh" /\ issued[active] < MaxGrant
    /\ issued' = [issued EXCEPT ![active] = @ + 1]
    /\ LET next == [user |-> active, grant |-> issued[active] + 1] IN
       \E failing \in SUBSET {"readSecret", "writeSecret"} :
          /\ Faults(failing, {"readSecret", "writeSecret"})
          /\ IF secrets[active] = tokens /\ failing = {}
             THEN /\ secrets' = [secrets EXCEPT ![active] = next]
                  /\ Activate(active, next)
             ELSE UNCHANGED <<secrets, active, tokens, socket>>
    /\ at' = "idle"
    /\ UNCHANGED <<registry, lastActive, accounts, queue, crashes, why>>

(* Any reply that is not 2xx is a WireError::Remote, which ends the        *)
(* session; so does a 2xx without tokens.                                  *)
RefreshEnds ==
    /\ at = "refresh"
    /\ \E reason \in {"refused", "malformed", "unavailable"} : EndSession(active, reason)
    /\ at' = "clearing"
    /\ UNCHANGED <<diskVars, memoryVars, queue, worldVars>>

(* The request or its reply is lost: the server may have rotated the pair. *)
RefreshLostClears ==            \* mutant: a dropped connection signs the account out
    /\ at = "refresh"
    /\ at' = "clearing"
    /\ UNCHANGED <<diskVars, memoryVars, queue, worldVars, why>>
RefreshLost ==
    /\ at = "refresh"
    /\ \/ UNCHANGED issued
       \/ issued[active] < MaxGrant /\ issued' = [issued EXCEPT ![active] = @ + 1]
    /\ at' = "idle"
    /\ NoFaults
    /\ UNCHANGED <<diskVars, memoryVars, queue, crashes, why>>

-----------------------------------------------------------------------------
(* sign_in() and register() around their await. *)
SignIn ==
    /\ Take("signIn")
    /\ at' = "login"
    /\ UNCHANGED <<diskVars, memoryVars, worldVars, why>>

LoginFails ==
    /\ at = "login"
    /\ at' = "idle"
    /\ UNCHANGED <<diskVars, memoryVars, queue, worldVars, why>>

HasRoomForOneMore(user) == Cardinality(accounts) <= AccountLimit    \* mutant: off by one
HasRoomFor(user) ==
    user \in accounts \/ accounts = {} \/ Cardinality(accounts) < AccountLimit

(* consume_grant(): the pair is stored before the registry, the registry   *)
(* before memory, and an error leaves the rest undone.  What memory lists  *)
(* is read back from accounts.json.                                        *)
Saved(user, pair, failing) ==
    LET read == Registry(OnDisk, "readRegistry", failing)
        file == [accounts |-> read.accounts \cup {user}, active |-> user]
    IN  /\ Write(file)
        /\ accounts' = Registry(file, "listAccounts", failing).accounts
        /\ Activate(user, pair)
        /\ why' = [why EXCEPT ![user] = "none"]

LoginGranted(user) ==
    /\ at = "login" /\ issued[user] < MaxGrant
    /\ issued' = [issued EXCEPT ![user] = @ + 1]
    /\ at' = "idle"
    /\ LET pair == [user |-> user, grant |-> issued[user] + 1] IN
       \/ /\ ~HasRoomFor(user)
          /\ NoFaults /\ UNCHANGED <<diskVars, memoryVars, why>>
       \/ /\ HasRoomFor(user)
          /\ Faults({"writeSecret"}, {"writeSecret"})
          /\ UNCHANGED <<diskVars, memoryVars, why>>
       \/ /\ HasRoomFor(user)
          /\ secrets' = [secrets EXCEPT ![user] = pair]
          /\ \/ \E failing \in SUBSET {"readRegistry"} :
                   /\ Faults(failing \cup {"writeRegistry"}, {"readRegistry", "writeRegistry"})
                   /\ UNCHANGED <<registry, lastActive, memoryVars, why>>
             \/ \E failing \in SUBSET {"readRegistry", "listAccounts"} :
                   /\ Faults(failing, {"readRegistry", "listAccounts"})
                   /\ Saved(user, pair, failing)
    /\ UNCHANGED <<queue, crashes>>

-----------------------------------------------------------------------------
(* sign_out(): asks the server for at most LOGOUT_GRACE, then clears.      *)
SignOut ==
    /\ Take("signOut")
    /\ IF active = None \/ tokens = None THEN at' = "clearing" /\ UNCHANGED why
       ELSE at' = "logout" /\ EndSession(active, "signedOut")
    /\ UNCHANGED <<diskVars, memoryVars, worldVars>>

LogoutEnds ==
    /\ at = "logout"
    /\ at' = "clearing"
    /\ UNCHANGED <<diskVars, memoryVars, queue, worldVars, why>>

(* clear_active_account(): the account's secret, then its registry entry,  *)
(* then the first of the accounts that remain is activated.  Only the last *)
(* is told to the socket, and only when it has a readable pair.            *)
ClearNothing ==
    /\ active = None
    /\ tokens' = None /\ socket' = None
    /\ NoFaults
    /\ UNCHANGED <<diskVars, accounts, active>>

(* The registry remove() writes, and the one it leaves on an error; first  *)
(* is the first account of what is left.                                   *)
Without(file, user, first) ==
    [accounts |-> file.accounts \ {user},
     active   |-> IF file.active = user THEN first ELSE file.active]
Left(failing, first) ==
    IF failing \cap {"deleteSecret", "writeRegistry"} # {} THEN OnDisk
    ELSE Without(Registry(OnDisk, "readRegistry", failing), active, first)
IsFirst(first, listed) == IF listed = {} THEN first = None ELSE first \in listed

ActivateOps == {"readSecret", "readForMark", "markActive"}
ClearNext(failing, left, first) ==
    LET listed == Registry(left, "listAccounts", failing).accounts IN
    /\ accounts' = listed
    /\ \/ /\ listed = {} /\ failing \cap ActivateOps = {}
          /\ active' = None /\ tokens' = None /\ socket' = None
          /\ Write(left)
       \/ /\ listed # {} /\ CanActivate(first, secrets', failing)
          /\ Activate(first, secrets'[first])
          /\ MarkActive(left, first, failing)
       \/ /\ listed # {} /\ ~CanActivate(first, secrets', failing)
          /\ failing \cap {"readForMark", "markActive"} = {}
          /\ active' = None /\ tokens' = None /\ UNCHANGED socket
          /\ Write(left)

ClearOps == {"deleteSecret", "readRegistry", "writeRegistry", "listAccounts"} \cup ActivateOps
ClearKeepingTheSecret ==        \* mutant: remove() forgets the secure store
    /\ active # None
    /\ NoFaults /\ UNCHANGED secrets
    /\ \E first \in Users \cup {None} :
          /\ IsFirst(first, Left({}, first).accounts)
          /\ ClearNext({}, Left({}, first), first)
ClearActive ==
    /\ active # None
    /\ \E failing \in SUBSET ClearOps, first \in Users \cup {None} :
       /\ Faults(failing, ClearOps)
       /\ "deleteSecret" \in failing => failing \cap {"readRegistry", "writeRegistry"} = {}
       /\ secrets' = IF "deleteSecret" \in failing THEN secrets
                     ELSE [secrets EXCEPT ![active] = None]
       /\ IsFirst(first, Left(failing, first).accounts)
       /\ ClearNext(failing, Left(failing, first), first)

Clear ==
    /\ at = "clearing"
    /\ ClearNothing \/ ClearActive
    /\ at' = "idle"
    /\ UNCHANGED <<queue, issued, crashes, why>>

-----------------------------------------------------------------------------
(* The process is killed between two writes: the pair is stored or deleted *)
(* and accounts.json is not yet.                                           *)
CutOff ==
    /\ Faults({"writeRegistry"}, {"writeRegistry"})
    /\ \/ /\ at = "clearing" /\ active # None
          /\ secrets' = [secrets EXCEPT ![active] = None]
          /\ UNCHANGED issued
       \/ /\ at = "login"
          /\ \E user \in Users :
                /\ issued[user] < MaxGrant /\ HasRoomFor(user)
                /\ issued' = [issued EXCEPT ![user] = @ + 1]
                /\ secrets' = [secrets EXCEPT
                                 ![user] = [user |-> user, grant |-> issued[user] + 1]]

Crash ==
    /\ crashes < MaxCrashes
    /\ crashes' = crashes + 1
    /\ accounts' = {} /\ active' = None /\ tokens' = None /\ socket' = None
    /\ queue' = <<[op |-> "restore"]>> /\ at' = "idle"
    /\ CutOff \/ UNCHANGED <<secrets, issued, faults, misreads>>
    /\ UNCHANGED <<registry, lastActive, why>>

Actor ==
    \/ Restore \/ (\E user \in Users : SwitchAccount(user)) \/ Check \/ NoteRemoteFailure
    \/ RefreshGranted \/ RefreshEnds \/ RefreshLost
    \/ SignIn \/ LoginFails \/ (\E user \in Users : LoginGranted(user))
    \/ SignOut \/ LogoutEnds \/ Clear

Next ==
    \/ \E command \in Commands : command.op # "restore" /\ Dispatch(command)
    \/ Actor
    \/ Crash

Spec == Init /\ [][Next]_vars
-----------------------------------------------------------------------------
(* Properties.                                                             *)

(* The session in memory is whole: an active account has its own token     *)
(* pair, and the socket was last told to present that very pair.           *)
SessionIsWhole ==
    IF active = None THEN tokens = None
    ELSE tokens # None /\ tokens.user = active /\ socket = tokens

(* While no store operation fails or is cut off, accounts.json and the     *)
(* secure store list the same accounts, and the active one's stored pair   *)
(* is the one in use: a restart finds every session as it was.             *)
StoresAgree ==
    faults = 0 =>
        /\ \A user \in Users : user \in registry <=> secrets[user] # None
        /\ active # None => secrets[active] = tokens

(* No sequence of sign-ins, failed writes and restarts exceeds the limit,  *)
(* but a sign-in after accounts.json could not be read: the list in memory *)
(* is then empty and is not checked against the file.  Each such read lets *)
(* in one account at most.                                                 *)
WithinLimit == Cardinality(registry) <= AccountLimit + misreads

(* An account is dropped only when its user signed out, its refresh token  *)
(* expired or the server answered its refresh without renewing it: a       *)
(* dropped connection never signs anybody out.  Only a handler that cannot *)
(* read accounts.json and writes it drops others, those it did not read.   *)
OnlyEndedSessionsAreDropped ==
    [][\A user \in Users : user \in registry /\ user \notin registry' =>
          why[user] # "none" \/ misreads' > misreads]_vars

(* The auth domain is what tells the socket who it is connected as         *)
(* (modules/auth/CONTEXT.txt): with no account active, at rest, it is told *)
(* to be anonymous.                                                        *)
SocketFollowsAccount == at = "idle" /\ active = None => socket = None

(* Signing the user out on a rate limit would turn a wait into a logout    *)
(* (auth_session_guard.rs): nobody is dropped because the refresh endpoint *)
(* answered 429 or 503.                                                    *)
OutagesDropNobody ==
    [][\A user \in Users :
          user \in registry /\ user \notin registry' => why[user] # "unavailable"]_vars
=============================================================================
