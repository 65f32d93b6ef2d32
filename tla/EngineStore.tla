---------------------------- MODULE EngineStore ----------------------------
(***************************************************************************)
(* Opening, using and closing one account's database.  An engine takes an  *)
(* in-process lease and a file lock, then starts the one thread that owns  *)
(* the connection, which prepares the database before it serves the jobs   *)
(* in its channel.  Closing drains the channel, joins the thread and gives *)
(* both guards back; dropping an engine gives them back at once.           *)
(*                                                                         *)
(* An engine is <<p, i>>: the i-th attempt of process p.  A job is a write *)
(* batch some holder of the store's handle submits.                        *)
(***************************************************************************)
EXTENDS Naturals, Sequences, FiniteSets

CONSTANTS
    Processes,          \* the copies of the program that may run
    OpensPerProcess,    \* bound: how often a process opens the account
    Jobs,               \* the batches its clients submit
    NoEngine,
    MaxMishaps,         \* bound: processes that die, statements and calls that fail
    MaxAstray           \* bound: engines not closed the way RiseEngine::close does

VARIABLES
    leased,     \* leased[p]: the account is in p's registry
    fileLock,   \* the engine whose lock file handle holds the lock
    engine,     \* engine[e]: where the attempt is
    thread,     \* thread[e]: where its store thread is
    jobs,       \* jobs[e]: the channel to that thread
    answer,     \* answer[j]: what the submitter of j was told
    applied,    \* the jobs in the database
    schema,     \* statements of SCHEMA the database has executed
    version,    \* user_version was written
    verifier,   \* the key verifier row was written
    mishaps,    \* processes that died, statements and system calls that failed
    astray      \* engines dropped without close(), or closed under by a handle

guardVars == <<leased, fileLock>>
databaseVars == <<applied, schema, version, verifier>>
storeVars == <<guardVars, engine, thread, jobs, answer, databaseVars, mishaps, astray>>

Engines == Processes \X (1..OpensPerProcess)
ProcessOf(e) == e[1]
CloseCommand == "close"
ASSUME StoreAssumption ==
    /\ NoEngine \notin Engines /\ CloseCommand \notin Jobs
    /\ MaxMishaps \in Nat /\ MaxAstray \in Nat
SchemaStatements == 2   \* SCHEMA is many autocommitted statements: two will do

HoldsLease == {"leased", "locked", "starting", "unlocking", "unleasing",
               "open", "closing", "joining", "closed"}
HoldsLock == {"locked", "starting", "unlocking",
              "open", "closing", "joining", "closed", "releasing"}
EngineStates == HoldsLease \cup HoldsLock \cup {"idle", "refused", "gone", "failed", "wrongKey"}
Connected == {"preparing", "creating", "versioning", "sealing", "ready", "running", "finishing"}
ThreadStates == Connected \cup {"none", "cannotOpen", "keyRefused", "ended"}

StoreTypeOK ==
    /\ leased \in [Processes -> BOOLEAN]
    /\ fileLock \in Engines \cup {NoEngine}
    /\ engine \in [Engines -> EngineStates]
    /\ thread \in [Engines -> ThreadStates]
    /\ jobs \in [Engines -> Seq(Jobs \cup {CloseCommand})]
    /\ answer \in [Jobs -> {"unsent", "sent", "ok", "failed", "closed", "lost"}]
    /\ applied \subseteq Jobs
    /\ schema \in 0..SchemaStatements /\ version \in BOOLEAN /\ verifier \in BOOLEAN
    /\ mishaps \in 0..MaxMishaps /\ astray \subseteq Engines

StoreInit ==
    /\ leased = [p \in Processes |-> FALSE]
    /\ fileLock = NoEngine
    /\ engine = [e \in Engines |-> "idle"]
    /\ thread = [e \in Engines |-> "none"]
    /\ jobs = [e \in Engines |-> <<>>]
    /\ answer = [j \in Jobs |-> "unsent"]
    /\ applied = {}
    /\ schema = 0 /\ version = FALSE /\ verifier = FALSE
    /\ mishaps = 0 /\ astray = {}

(* Any statement or system call may fail. *)
Mishap == mishaps < MaxMishaps /\ mishaps' = mishaps + 1

EngineGoes(e, from, to) == engine[e] = from /\ engine' = [engine EXCEPT ![e] = to]
ThreadGoes(e, from, to) == thread[e] = from /\ thread' = [thread EXCEPT ![e] = to]

-----------------------------------------------------------------------------
(* RiseEngine::open: lease, then lock, then the store thread. *)
ClaimLease(e) ==
    LET p == ProcessOf(e) IN
    /\ \A i \in 1..OpensPerProcess : i < e[2] => engine[<<p, i>>] # "idle"
    /\ EngineGoes(e, "idle", IF leased[p] THEN "refused" ELSE "leased")
    /\ leased' = [leased EXCEPT ![p] = TRUE]
    /\ UNCHANGED <<fileLock, thread, jobs, answer, databaseVars, mishaps, astray>>

AcquireLock(e) ==
    /\ \/ fileLock = NoEngine /\ EngineGoes(e, "leased", "locked") /\ fileLock' = e
          /\ UNCHANGED mishaps
       \/ EngineGoes(e, "leased", "unleasing") /\ UNCHANGED fileLock
          /\ ((fileLock # NoEngine /\ UNCHANGED mishaps) \/ Mishap)
    /\ UNCHANGED <<leased, thread, jobs, answer, databaseVars, astray>>

(* A thread that cannot be started panics, and unwinding drops the guards.  *)
SpawnThread(e) ==
    /\ \/ EngineGoes(e, "locked", "starting")
          /\ thread' = [thread EXCEPT ![e] = "preparing"]
          /\ UNCHANGED mishaps
       \/ EngineGoes(e, "locked", "unlocking") /\ UNCHANGED thread /\ Mishap
    /\ UNCHANGED <<guardVars, jobs, answer, databaseVars, astray>>

(* open() returns once the thread has answered; an error drops the guards,  *)
(* the lock before the lease.                                               *)
Opened(e) ==
    /\ \/ thread[e] = "ready" /\ EngineGoes(e, "starting", "open")
          /\ thread' = [thread EXCEPT ![e] = "running"]
       \/ thread[e] \in {"cannotOpen", "keyRefused"} /\ EngineGoes(e, "starting", "unlocking")
          /\ UNCHANGED thread
    /\ UNCHANGED <<guardVars, jobs, answer, databaseVars, mishaps, astray>>

DropLockAfterFailure(e) ==
    /\ EngineGoes(e, "unlocking", "unleasing")
    /\ fileLock' = NoEngine
    /\ UNCHANGED <<leased, thread, jobs, answer, databaseVars, mishaps, astray>>

DropLeaseAfterFailure(e) ==
    /\ EngineGoes(e, "unleasing", IF thread[e] = "keyRefused" THEN "wrongKey" ELSE "failed")
    /\ leased' = [leased EXCEPT ![ProcessOf(e)] = FALSE]
    /\ UNCHANGED <<fileLock, thread, jobs, answer, databaseVars, mishaps, astray>>

-----------------------------------------------------------------------------
(* open_connection() and prepare(): no transaction spans their statements,  *)
(* and each may fail, which closes the connection and sends the error.  A   *)
(* verifier that cannot be read is told as a wrong key (verify_key).        *)
CannotOpen(e, from) ==
    /\ Mishap /\ ThreadGoes(e, from, "cannotOpen")
    /\ UNCHANGED <<guardVars, engine, jobs, answer, databaseVars, astray>>

ReadVersion(e) ==
    \/ /\ \/ ~version /\ schema = 0 /\ ThreadGoes(e, "preparing", "creating")
          \/ ~version /\ schema > 0 /\ ThreadGoes(e, "preparing", "cannotOpen")
          \/ version /\ verifier /\ ThreadGoes(e, "preparing", "ready")
          \/ version /\ ~verifier /\ ThreadGoes(e, "preparing", "keyRefused")
       /\ UNCHANGED <<guardVars, engine, jobs, answer, databaseVars, mishaps, astray>>
    \/ CannotOpen(e, "preparing")

VerifierUnread(e) ==
    /\ Mishap /\ version /\ ThreadGoes(e, "preparing", "keyRefused")
    /\ UNCHANGED <<guardVars, engine, jobs, answer, databaseVars, astray>>

CreateSchema(e) ==
    \/ /\ ThreadGoes(e, "creating",
                      IF schema + 1 = SchemaStatements THEN "versioning" ELSE "creating")
       /\ schema' = schema + 1
       /\ UNCHANGED <<guardVars, engine, jobs, answer, applied, version, verifier, mishaps, astray>>
    \/ CannotOpen(e, "creating")

SetVersion(e) ==
    \/ /\ ThreadGoes(e, "versioning", "sealing")
       /\ version' = TRUE
       /\ UNCHANGED <<guardVars, engine, jobs, answer, applied, schema, verifier, mishaps, astray>>
    \/ CannotOpen(e, "versioning")

WriteVerifier(e) ==
    \/ /\ ThreadGoes(e, "sealing", "ready")
       /\ verifier' = TRUE
       /\ UNCHANGED <<guardVars, engine, jobs, answer, applied, schema, version, mishaps, astray>>
    \/ CannotOpen(e, "sealing")

-----------------------------------------------------------------------------
(* The store thread and its clients.  A handle may outlive its engine.      *)
Accepts(e) == thread[e] = "running"

Submit(e, j) ==
    /\ engine[e] \in {"open", "closing", "joining", "closed", "releasing", "gone"}
    /\ thread[e] # "none"
    /\ answer[j] = "unsent"
    /\ \/ /\ Accepts(e)
          /\ jobs' = [jobs EXCEPT ![e] = Append(@, j)]
          /\ answer' = [answer EXCEPT ![j] = "sent"]
       \/ /\ ~Accepts(e)
          /\ answer' = [answer EXCEPT ![j] = "closed"]
          /\ UNCHANGED jobs
    /\ UNCHANGED <<guardVars, engine, thread, databaseVars, mishaps, astray>>

RunJob(e) ==
    LET j == Head(jobs[e]) IN
    /\ thread[e] = "running" /\ jobs[e] # <<>> /\ j # CloseCommand
    /\ jobs' = [jobs EXCEPT ![e] = Tail(@)]
    /\ \/ answer' = [answer EXCEPT ![j] = "ok"] /\ applied' = applied \cup {j}
       \/ answer' = [answer EXCEPT ![j] = "failed"] /\ UNCHANGED applied
    /\ UNCHANGED <<guardVars, engine, thread, schema, version, verifier, mishaps, astray>>

(* Close is answered and the channel's receiver dropped, with the jobs left *)
(* in it; the connection goes when the thread ends.                         *)
StillQueued(e) == {jobs[e][i] : i \in 1..Len(jobs[e])} \cap Jobs

TakeCloseRunningTheRest(e) ==   \* mutant: what is queued behind Close still runs
    /\ jobs[e] # <<>> /\ Head(jobs[e]) = CloseCommand
    /\ ThreadGoes(e, "running", "finishing")
    /\ applied' = applied \cup StillQueued(e)
    /\ answer' = [j \in Jobs |-> IF j \in StillQueued(e) THEN "closed" ELSE answer[j]]
    /\ jobs' = [jobs EXCEPT ![e] = <<>>]
    /\ UNCHANGED <<guardVars, engine, schema, version, verifier, mishaps, astray>>
TakeClose(e) ==
    /\ jobs[e] # <<>> /\ Head(jobs[e]) = CloseCommand
    /\ ThreadGoes(e, "running", "finishing")
    /\ answer' = [j \in Jobs |-> IF j \in StillQueued(e) THEN "closed" ELSE answer[j]]
    /\ jobs' = [jobs EXCEPT ![e] = <<>>]
    /\ UNCHANGED <<guardVars, engine, databaseVars, mishaps, astray>>

(* The last handle is gone: the channel is drained, then recv() fails. *)
Orphaned(e) ==
    /\ engine[e] \in {"releasing", "gone"} /\ jobs[e] = <<>>
    /\ ThreadGoes(e, "running", "finishing")
    /\ UNCHANGED <<guardVars, engine, jobs, answer, databaseVars, mishaps, astray>>

ThreadEnds(e) ==
    /\ ThreadGoes(e, "finishing", "ended")
    /\ UNCHANGED <<guardVars, engine, jobs, answer, databaseVars, mishaps, astray>>

-----------------------------------------------------------------------------
(* RiseEngine::close, and Drop, which gives back the lease before the lock. *)
(* A close whose send finds the receiver gone returns without a join.       *)
Close(e) ==
    /\ \/ Accepts(e) /\ EngineGoes(e, "open", "closing")
          /\ jobs' = [jobs EXCEPT ![e] = Append(@, CloseCommand)]
       \/ ~Accepts(e) /\ EngineGoes(e, "open", "closed") /\ UNCHANGED jobs
    /\ UNCHANGED <<guardVars, thread, answer, databaseVars, mishaps, astray>>

(* StoreHandle::close is public: whoever holds a clone may close the store  *)
(* under the engine, and may take the JoinHandle the engine's close needs.  *)
ClosesQueued(e) == {i \in 1..Len(jobs[e]) : jobs[e][i] = CloseCommand}
GoesAstray(e) == astray' = astray \cup {e} /\ Cardinality(astray') <= MaxAstray

HolderCloses(e) ==
    /\ engine[e] \in {"open", "closing", "joining", "closed", "releasing", "gone"}
    /\ Accepts(e) /\ Cardinality(ClosesQueued(e)) < 2      \* bound
    /\ jobs' = [jobs EXCEPT ![e] = Append(@, CloseCommand)]
    /\ GoesAstray(e)
    /\ UNCHANGED <<guardVars, engine, thread, answer, databaseVars, mishaps>>

CloseAnswered(e) ==
    /\ thread[e] \in {"finishing", "ended"}
    /\ \/ EngineGoes(e, "closing", "joining")
       \/ e \in astray /\ EngineGoes(e, "closing", "closed")
    /\ UNCHANGED <<guardVars, thread, jobs, answer, databaseVars, mishaps, astray>>

JoinAtOnce(e) ==            \* mutant: close() returns on the answer
    /\ EngineGoes(e, "joining", "closed")
    /\ UNCHANGED <<guardVars, thread, jobs, answer, databaseVars, mishaps, astray>>
Join(e) ==
    /\ thread[e] = "ended"
    /\ EngineGoes(e, "joining", "closed")
    /\ UNCHANGED <<guardVars, thread, jobs, answer, databaseVars, mishaps, astray>>

DropLease(e) ==
    /\ \/ EngineGoes(e, "closed", "releasing") /\ UNCHANGED astray
       \/ EngineGoes(e, "open", "releasing") /\ GoesAstray(e)
    /\ leased' = [leased EXCEPT ![ProcessOf(e)] = FALSE]
    /\ UNCHANGED <<fileLock, thread, jobs, answer, databaseVars, mishaps>>

DropLock(e) ==
    /\ EngineGoes(e, "releasing", "gone")
    /\ fileLock' = NoEngine
    /\ UNCHANGED <<leased, thread, jobs, answer, databaseVars, mishaps, astray>>

(* The process dies: its threads, channels and registry go, the system      *)
(* gives its lock back, and what was committed stays.  It may start again.  *)
Kill(p) ==
    LET mine == {e \in Engines : ProcessOf(e) = p}
        used == {e \in mine : engine[e] # "idle"} IN
    /\ used # {} /\ Mishap
    /\ leased' = [leased EXCEPT ![p] = FALSE]
    /\ fileLock' = IF fileLock \in mine THEN NoEngine ELSE fileLock
    /\ engine' = [e \in Engines |-> IF e \in used THEN "gone" ELSE engine[e]]
    /\ thread' = [e \in Engines |-> IF e \in mine THEN "none" ELSE thread[e]]
    /\ jobs' = [e \in Engines |-> IF e \in mine THEN <<>> ELSE jobs[e]]
    /\ answer' = [j \in Jobs |->
                     IF \E e \in mine : j \in StillQueued(e) THEN "lost" ELSE answer[j]]
    /\ UNCHANGED <<databaseVars, astray>>

StoreNext ==
    \/ \E e \in Engines :
          \/ ClaimLease(e) \/ AcquireLock(e) \/ SpawnThread(e) \/ Opened(e)
          \/ DropLockAfterFailure(e) \/ DropLeaseAfterFailure(e)
          \/ ReadVersion(e) \/ VerifierUnread(e) \/ CreateSchema(e) \/ SetVersion(e) \/ WriteVerifier(e)
          \/ \E j \in Jobs : Submit(e, j)
          \/ RunJob(e) \/ TakeClose(e) \/ Orphaned(e) \/ ThreadEnds(e)
          \/ Close(e) \/ HolderCloses(e) \/ CloseAnswered(e) \/ Join(e) \/ DropLease(e) \/ DropLock(e)
    \/ \E p \in Processes : Kill(p)

StoreSpec == StoreInit /\ [][StoreNext]_storeVars

-----------------------------------------------------------------------------
(* One connection owns the database, whatever processes and tasks open it   *)
(* and whatever fails or dies.  Only an engine that went astray may keep its *)
(* connection after giving its guards back: one dropped without being       *)
(* closed (RiseEngine's doc: close before opening the account again, Drop   *)
(* cannot do this), or one whose close could not join the thread because a  *)
(* holder of the handle had closed the store first.                         *)
OneConnection == Cardinality({e \in Engines \ astray : thread[e] \in Connected}) <= 1

(* What a submitter is told is what happened: Ok is in the database, Closed *)
(* and an error are not and never will be, and a batch nobody was told of   *)
(* is still in its channel (with_connection, run_loop, close).              *)
AnswersAreTrue ==
    \A j \in Jobs :
        /\ answer[j] = "ok" => j \in applied
        /\ answer[j] \in {"closed", "failed"} => j \notin applied
        /\ answer[j] = "sent" <=> \E e \in Engines : j \in StillQueued(e)

(* An account is listed exactly while an attempt of the process holds it,   *)
(* and likewise the file lock: every way out of open() and close() gives    *)
(* both back, or the account could not be opened until the program restarts.*)
GuardsAreReturned ==
    /\ \A p \in Processes :
          leased[p] <=> \E e \in Engines : ProcessOf(e) = p /\ engine[e] \in HoldsLease
    /\ \A e \in Engines : fileLock = e <=> engine[e] \in HoldsLock

(* Every engine here seals with the account's one key, and none is told     *)
(* that the key does not open the store (StoreOpenError::WrongKey) as long  *)
(* as nothing failed and no process died: no other opener reads the version *)
(* between the statements that write it and the verifier.  A death or an    *)
(* error between those two leaves a store that refuses its key for good,    *)
(* and a verifier that cannot be read is refused that once.                 *)
RightKeyIsAccepted == mishaps = 0 => \A e \in Engines : thread[e] # "keyRefused"

(* The lease, the file lock and the store thread together keep the account  *)
(* to one owner at a time, and give it back.                                *)
OneOwner == OneConnection /\ GuardsAreReturned /\ RightKeyIsAccepted
=============================================================================
