----------------------------- MODULE WorkerLoop -----------------------------
(***************************************************************************)
(* The main thread of one worker, WorkerDaemon.run (hlvmp_worker/          *)
(* worker.py): it claims jobs while its pool has a free thread, waits for  *)
(* a wake or a timeout, and shuts down on a signal.  Beside it run the     *)
(* threads of the pool, each in _process_job, and the thread of the        *)
(* socket server (socket_server.py), which sets the wake event.            *)
(*                                                                         *)
(* Of the jobs only what the loop can tell apart is kept: which ones a     *)
(* claim may return (`queue`).  What the threads do to the tables is in    *)
(* JobProcessing; here a job takes its lock or is refused, runs, and ends  *)
(* settled or queued again.  The refresh of the state cache only delays    *)
(* the loop and is left out; its writes are in MachineJobs.                *)
(***************************************************************************)
EXTENDS Integers, FiniteSets

CONSTANTS
    Jobs,          \* job ids, oldest first
    NoJob,
    Keys, Key,     \* Key[j]: the resource job j locks
    HeldElsewhere, \* keys locked elsewhere at first
    Concurrency,   \* PROVISIONER_CONCURRENCY: the threads of the pool
    Futures,       \* names for the futures of the pool
    MaxMishaps     \* bound: failed calls and jobs, kills, restarts, another worker,
                   \* rows locked by others

ASSUME WorkerLoopAssumption ==
    /\ Jobs \subseteq Nat
    /\ NoJob \notin Jobs
    /\ Key \in [Jobs -> Keys]
    /\ HeldElsewhere \subseteq Keys
    /\ Concurrency \in Nat \ {0}
    /\ Futures \subseteq Nat
    /\ IsFiniteSet(Futures)
    /\ MaxMishaps \in Nat

VARIABLES
    main,         \* where the main thread is
    why,          \* what its next wait is for
    claimed,      \* the job its last claim returned
    futures,      \* its list of futures
    event,        \* wake_event's flag
    shutdown,     \* shutdown_requested
    phase, job,   \* phase[f], job[f]: the call of _process_job behind future f
    active_jobs,  \* what the health answer counts
    queue,        \* the jobs a claim may return
    ahead,        \* the jobs the API has not enqueued yet
    elsewhere,    \* keys locked by other workers, or left locked by dead ones
    locked,       \* queued jobs whose rows some other open transaction has locked
    thread,       \* the thread of its socket server: on or off
    file,         \* what is behind the socket path
    other,        \* another worker started on the same socket path
    requeues, faults, crashes, launches, rowlocks,
    woken,        \* history: queued jobs that were there at a wake
    passedOver,   \* history: queued jobs that the last claim could not see
    shared,       \* history: jobs two threads had at a time
    left,         \* history: jobs whose processing returned before its try block
    overlapped    \* history: another worker used the path in this one's life

processVars == <<main, why, claimed, futures, event, shutdown, phase, job, active_jobs>>
socketVars == <<thread, file, other, overlapped>>
boundVars == <<requeues, faults, crashes, launches, rowlocks>>
tableVars == <<queue, ahead, elsewhere, locked, woken, passedOver>>
vars == <<processVars, socketVars, boundVars, tableVars, shared, left>>

-----------------------------------------------------------------------------
Main == {"unlink", "bind", "loop", "claim", "answered", "enter", "wait", "clear",
         "drain", "stop", "join", "abandon", "down", "stuck"}

Phase == {"none", "acquire", "execute", "finish", "done"}

(* Calls of _process_job that have not returned. *)
Unfinished == {f \in Futures : phase[f] \in {"acquire", "execute", "finish"}}

(* threading.Event is a flag behind a lock that is not reentrant; these    *)
(* are the places where the main thread holds the lock.                    *)
EventLocked == main \in {"enter", "clear", "stuck"}

(* The resources whose locks the threads of this worker hold. *)
LockedHere == {Key[job[f]] : f \in {g \in Futures : phase[g] \in {"execute", "finish"}}}

(* ORDER BY created_at LIMIT 1 *)
Oldest(S) == {j \in S : \A i \in S : j <= i}

(* What may still go wrong. *)
Mishap ==
    requeues + faults + crashes + launches + rowlocks
        + (IF other = "never" THEN 0 ELSE 1) < MaxMishaps

Fault == Mishap /\ faults' = faults + 1

Init ==
    /\ main = "unlink"
    /\ why = "none"
    /\ claimed = NoJob
    /\ futures = {}
    /\ event = FALSE
    /\ shutdown = FALSE
    /\ phase = [f \in Futures |-> "none"]
    /\ job = [f \in Futures |-> NoJob]
    /\ active_jobs = {}
    /\ queue = {}
    /\ ahead = Jobs
    /\ elsewhere = HeldElsewhere
    /\ locked = {}
    /\ thread = "off"
    /\ file \in {"none", "stale"}
    /\ other = "never"
    /\ requeues = 0 /\ faults = 0 /\ crashes = 0 /\ launches = 0 /\ rowlocks = 0
    /\ woken = {} /\ passedOver = {} /\ shared = {} /\ left = {}
    /\ overlapped = FALSE

-----------------------------------------------------------------------------
(* The API, the other workers, and whoever sends signals. *)

(* INSERT INTO jobs: the ids rise. *)
Enqueue(j) ==
    /\ j \in Oldest(ahead)
    /\ ahead' = ahead \ {j}
    /\ queue' = queue \cup {j}
    /\ UNCHANGED <<processVars, socketVars, boundVars, elsewhere, locked,
                   woken, passedOver, shared, left>>

(* Cancelled, or run by another worker: an UPDATE that waits for the row. *)
TakenElsewhere(j) ==
    /\ j \in queue \ locked
    /\ queue' = queue \ {j}
    /\ woken' = woken \ {j}
    /\ UNCHANGED <<processVars, socketVars, boundVars, ahead, elsewhere, locked,
                   passedOver, shared, left>>

(* A transaction of somebody else locks the row of a queued job and leaves *)
(* it queued: a claim, or a job that is marked failed and queued again.    *)
RowLocked(j) ==
    /\ Mishap
    /\ j \in queue \ locked
    /\ locked' = locked \cup {j}
    /\ rowlocks' = rowlocks + 1
    /\ UNCHANGED <<processVars, socketVars, requeues, faults, crashes, launches, queue, ahead,
                   elsewhere, woken, passedOver, shared, left>>

(* Its COMMIT or ROLLBACK. *)
RowFreed(j) ==
    /\ j \in locked
    /\ locked' = locked \ {j}
    /\ UNCHANGED <<processVars, socketVars, boundVars, queue, ahead, elsewhere, woken,
                   passedOver, shared, left>>

LetGo(k) ==
    /\ k \in elsewhere
    /\ elsewhere' = elsewhere \ {k}
    /\ UNCHANGED <<processVars, socketVars, boundVars, queue, ahead, locked, woken, passedOver,
                   shared, left>>

(* _handle_signal runs in the main thread, wherever that is.  Its set()    *)
(* takes the event's lock: for ever, if the main thread itself holds it.   *)
Signal ==
    /\ main \notin {"down", "stuck"}
    /\ shutdown' = TRUE
    /\ \/ EventLocked /\ main' = "stuck" /\ UNCHANGED event
       \/ ~EventLocked /\ event' = TRUE /\ UNCHANGED main
    /\ UNCHANGED <<why, claimed, futures, phase, job, active_jobs, socketVars,
                   boundVars, tableVars, shared, left>>

-----------------------------------------------------------------------------
(* The socket.  Clients reach the server by the path: only while it leads  *)
(* to this server's socket.                                                *)

(* Mutation: a stale file is not removed. *)
UnlinkStaleMutant ==
    /\ main = "unlink"
    /\ main' = "bind"
    /\ UNCHANGED <<why, claimed, futures, event, shutdown, phase, job, active_jobs,
                   socketVars, boundVars, tableVars, shared, left>>

UnlinkStale ==
    /\ main = "unlink"
    /\ \/ file' = "none" /\ main' = "bind" /\ UNCHANGED faults
       \/ file # "none" /\ Fault /\ main' = "loop" /\ UNCHANGED file
    /\ UNCHANGED <<why, claimed, futures, event, shutdown, phase, job, active_jobs, thread,
                   other, overlapped, requeues, crashes, launches, rowlocks, tableVars,
                   shared, left>>

(* A path that exists already makes bind fail: polling only. *)
Bind ==
    /\ main = "bind"
    /\ \/ file = "none" /\ file' = "ours" /\ thread' = "on"
       \/ file # "none" /\ UNCHANGED <<file, thread>>
    /\ main' = "loop"
    /\ UNCHANGED <<why, claimed, futures, event, shutdown, phase, job, active_jobs,
                   other, overlapped, boundVars, tableVars, shared, left>>

(* A client connects, sends "wake" and gets its answer; the event is set   *)
(* once its lock is free.  Health questions, unknown messages and clients  *)
(* that send nothing only keep the server busy.                            *)

Wake ==
    /\ thread = "on"
    /\ file = "ours"
    /\ ~EventLocked
    /\ event' = TRUE
    /\ woken' = queue
    /\ passedOver' = {}
    /\ UNCHANGED <<main, why, claimed, futures, shutdown, phase, job, active_jobs, socketVars,
                   boundVars, queue, ahead, elsewhere, locked, shared, left>>

(* Another worker on the same path, before, after or beside this one: its  *)
(* start replaces whatever file is there, its stop removes it.             *)
OtherStarts ==
    /\ Mishap
    /\ other = "never"
    /\ other' = "up"
    /\ file' = "theirs"
    /\ overlapped' = TRUE
    /\ UNCHANGED <<processVars, thread, boundVars, tableVars, shared, left>>

OtherStops ==
    /\ other = "up"
    /\ other' = "gone"
    /\ file' = "none"
    /\ UNCHANGED <<processVars, thread, overlapped, boundVars, tableVars, shared, left>>

-----------------------------------------------------------------------------
(* The loop. *)

(* Mutation: one more than the pool has threads. *)
SlotFreeMutant(fs) == Cardinality(fs) <= Concurrency

SlotFree(fs) == Cardinality(fs) < Concurrency

(* Futures that are done leave the list; a free slot is worth a claim. *)
Loop ==
    /\ main = "loop"
    /\ \/ /\ shutdown
          /\ main' = "drain"
          /\ UNCHANGED <<why, futures, phase, job>>
       \/ /\ ~shutdown
          /\ LET done == {f \in futures : phase[f] = "done"}
             IN  /\ futures' = futures \ done
                 /\ phase' = [f \in Futures |-> IF f \in done THEN "none" ELSE phase[f]]
                 /\ job' = [f \in Futures |-> IF f \in done THEN NoJob ELSE job[f]]
                 /\ \/ /\ SlotFree(futures \ done)
                       /\ main' = "claim"
                       /\ UNCHANGED why
                    \/ /\ ~SlotFree(futures \ done)
                       /\ main' = "enter"
                       /\ why' = "full"
    /\ UNCHANGED <<claimed, event, shutdown, active_jobs, socketVars, boundVars,
                   tableVars, shared, left>>

(* What a claim can see: SKIP LOCKED passes over rows that are locked. *)
Visible == queue \ locked

(* The service's part of a claim: the oldest job it can see, or none.  The *)
(* job stays in the queue, since a claim does not change the status.       *)
Claim ==
    /\ main = "claim"
    /\ \/ /\ claimed' \in Oldest(Visible)
          /\ UNCHANGED passedOver
       \/ /\ Visible = {}
          /\ claimed' = NoJob
          /\ passedOver' = locked
    /\ main' = "answered"
    /\ UNCHANGED <<why, futures, event, shutdown, phase, job, active_jobs, socketVars,
                   boundVars, queue, ahead, elsewhere, locked, woken, shared, left>>

(* Mutation: the event is cleared before the wait, not after it. *)
NothingClaimedMutant ==
    /\ main = "answered"
    /\ claimed = NoJob
    /\ main' = "enter"
    /\ why' = "none"
    /\ event' = FALSE
    /\ UNCHANGED <<claimed, futures, shutdown, phase, job, active_jobs, socketVars,
                   boundVars, tableVars, shared, left>>

NothingClaimed ==
    /\ main = "answered"
    /\ claimed = NoJob
    /\ main' = "enter"
    /\ why' = "none"
    /\ UNCHANGED <<claimed, futures, event, shutdown, phase, job, active_jobs, socketVars,
                   boundVars, tableVars, shared, left>>

(* The transaction of a claim whose caller has given up may stay open. *)
ClaimGoesOn ==
    \/ UNCHANGED locked
    \/ \E j \in Oldest(Visible) : locked' = locked \cup {j}

ClaimFails ==
    /\ main = "claim"
    /\ Fault
    /\ ClaimGoesOn
    /\ main' = "enter"
    /\ why' = "failed"
    /\ UNCHANGED <<claimed, futures, event, shutdown, phase, job, active_jobs, socketVars,
                   requeues, crashes, launches, rowlocks, queue, ahead, elsewhere, woken,
                   passedOver, shared, left>>

(* claim_next_job takes every error with "404" in its text for an answer   *)
(* without a job.                                                          *)
ClaimMisread ==
    /\ main = "claim"
    /\ Fault
    /\ claimed' = NoJob
    /\ passedOver' = queue
    /\ ClaimGoesOn
    /\ main' = "answered"
    /\ UNCHANGED <<why, futures, event, shutdown, phase, job, active_jobs, socketVars,
                   requeues, crashes, launches, rowlocks, queue, ahead, elsewhere, woken,
                   shared, left>>

(* The next name for a future that has none of its own. *)
NewFuture(f) ==
    /\ phase[f] = "none"
    /\ \A g \in Futures : phase[g] = "none" => f <= g

(* Mutation: an answer without a job is submitted like one with a job. *)
SubmitMutant ==
    /\ main = "answered"
    /\ \E f \in Futures :
         /\ NewFuture(f)
         /\ phase' = [phase EXCEPT ![f] = "acquire"]
         /\ job' = [job EXCEPT ![f] = claimed]
         /\ futures' = futures \cup {f}
    /\ active_jobs' = active_jobs \cup ({claimed} \cap Jobs)
    /\ claimed' = NoJob
    /\ main' = "clear"
    /\ UNCHANGED <<why, event, shutdown, socketVars, boundVars, tableVars, shared, left>>

Submit ==
    /\ main = "answered"
    /\ claimed # NoJob
    /\ \E f \in Futures :
         /\ NewFuture(f)
         /\ phase' = [phase EXCEPT ![f] = "acquire"]
         /\ job' = [job EXCEPT ![f] = claimed]
         /\ futures' = futures \cup {f}
    /\ active_jobs' = active_jobs \cup {claimed}
    /\ shared' = IF \E g \in Unfinished : job[g] = claimed THEN shared \cup {claimed} ELSE shared
    /\ left' = left \ {claimed}
    /\ claimed' = NoJob
    /\ main' = "clear"
    /\ UNCHANGED <<why, event, shutdown, socketVars, boundVars, tableVars>>

(* Event.wait: under the event's lock, a flag that is set ends the wait;   *)
(* otherwise the thread waits with the lock released.                      *)
EnterWait ==
    /\ main = "enter"
    /\ \/ event /\ main' = "clear" /\ why' = "none"
       \/ ~event /\ main' = "wait" /\ UNCHANGED why
    /\ UNCHANGED <<claimed, futures, event, shutdown, phase, job, active_jobs,
                   socketVars, boundVars, tableVars, shared, left>>

(* Mutation: a wait without a timeout. *)
EndWaitMutant ==
    /\ main = "wait"
    /\ event
    /\ main' = "clear"
    /\ why' = "none"
    /\ UNCHANGED <<claimed, futures, event, shutdown, phase, job, active_jobs,
                   socketVars, boundVars, tableVars, shared, left>>

(* The event is set, or the time is over. *)
EndWait ==
    /\ main = "wait"
    /\ main' = "clear"
    /\ why' = "none"
    /\ UNCHANGED <<claimed, futures, event, shutdown, phase, job, active_jobs,
                   socketVars, boundVars, tableVars, shared, left>>

Clear ==
    /\ main = "clear"
    /\ event' = FALSE
    /\ passedOver' = {}
    /\ main' = "loop"
    /\ UNCHANGED <<why, claimed, futures, shutdown, phase, job, active_jobs, socketVars,
                   boundVars, queue, ahead, elsewhere, locked, woken, shared, left>>

-----------------------------------------------------------------------------
(* The finally clause of run, and the end of the process. *)

(* Mutation: the drain waits for active_jobs to be empty. *)
DrainedMutant ==
    /\ main = "drain"
    /\ active_jobs = {}
    /\ main' = "stop"
    /\ UNCHANGED <<why, claimed, futures, event, shutdown, phase, job, active_jobs,
                   socketVars, boundVars, tableVars, shared, left>>

Drained ==
    /\ main = "drain"
    /\ \A f \in futures : phase[f] = "done"
    /\ main' = "stop"
    /\ UNCHANGED <<why, claimed, futures, event, shutdown, phase, job, active_jobs,
                   socketVars, boundVars, tableVars, shared, left>>

(* 300 s are over: as_completed raises, past the stop of the server. *)
DrainTimesOut ==
    /\ main = "drain"
    /\ \E f \in futures : phase[f] # "done"
    /\ main' = "abandon"
    /\ UNCHANGED <<why, claimed, futures, event, shutdown, phase, job, active_jobs,
                   socketVars, boundVars, tableVars, shared, left>>

(* Whoever's file the path leads to, it is removed. *)
StopServer ==
    /\ main = "stop"
    /\ thread' = "off"
    /\ file' = IF thread = "off" THEN file ELSE "none"
    /\ main' = "join"
    /\ UNCHANGED <<why, claimed, futures, event, shutdown, phase, job, active_jobs,
                   other, overlapped, boundVars, tableVars, shared, left>>

(* The server's thread and its socket end with the process, the file does  *)
(* not.                                                                    *)
ServerDies ==
    /\ thread' = "off"
    /\ file' = IF file = "ours" THEN "stale" ELSE file
    /\ UNCHANGED <<other, overlapped>>

(* Mutation: the pool is left without waiting for its threads. *)
ExitMutant ==
    /\ main \in {"join", "abandon"}
    /\ main' = "down"
    /\ ServerDies
    /\ UNCHANGED <<why, claimed, futures, event, shutdown, phase, job, active_jobs,
                   boundVars, tableVars, shared, left>>

(* Leaving the pool's with block waits for its threads, without limit. *)
Exit ==
    /\ main \in {"join", "abandon"}
    /\ Unfinished = {}
    /\ main' = "down"
    /\ ServerDies
    /\ UNCHANGED <<why, claimed, futures, event, shutdown, phase, job, active_jobs,
                   boundVars, tableVars, shared, left>>

Fresh ==
    /\ why' = "none"
    /\ claimed' = NoJob
    /\ futures' = {}
    /\ event' = FALSE
    /\ shutdown' = FALSE
    /\ phase' = [f \in Futures |-> "none"]
    /\ job' = [f \in Futures |-> NoJob]
    /\ active_jobs' = {}
    /\ passedOver' = {} /\ shared' = {} /\ left' = {}

(* The keys whose acquires a thread is waiting for. *)
Acquiring == {Key[job[f]] : f \in {g \in Futures : phase[g] = "acquire"}}

(* The locks its threads hold, or are about to get, outlive the process,   *)
(* and so does a claim.                                                    *)
Crash ==
    /\ Mishap
    /\ main # "down"
    /\ main' = "down"
    /\ Fresh
    /\ ServerDies
    /\ \E K \in SUBSET Acquiring : elsewhere' = elsewhere \cup LockedHere \cup K
    /\ IF main = "claim" THEN ClaimGoesOn ELSE UNCHANGED locked
    /\ crashes' = crashes + 1
    /\ UNCHANGED <<requeues, faults, launches, rowlocks, queue, ahead, woken>>

Launch ==
    /\ Mishap
    /\ main = "down"
    /\ main' = "unlink"
    /\ Fresh
    /\ overlapped' = (other = "up")
    /\ launches' = launches + 1
    /\ UNCHANGED <<thread, file, other, requeues, faults, crashes, rowlocks,
                   queue, ahead, elsewhere, locked, woken>>

-----------------------------------------------------------------------------
(* _process_job in a thread of the pool. *)

KeyFree(k) == k \notin elsewhere \cup LockedHere

(* The locks are there and mark_job_running takes the job off the queue,   *)
(* once its row is free, or fails, and mark_job_failed leaves the job in   *)
(* the queue.                                                              *)
Acquire(f) ==
    /\ phase[f] = "acquire"
    /\ KeyFree(Key[job[f]])
    /\ \/ /\ job[f] \notin locked
          /\ phase' = [phase EXCEPT ![f] = "execute"]
          /\ queue' = queue \ {job[f]}
          /\ woken' = woken \ {job[f]}
          /\ UNCHANGED requeues
       \/ /\ Mishap
          /\ requeues' = requeues + 1
          /\ phase' = [phase EXCEPT ![f] = "finish"]
          /\ UNCHANGED <<queue, woken>>
    /\ UNCHANGED <<main, why, claimed, futures, event, shutdown, job, active_jobs, socketVars,
                   faults, crashes, launches, rowlocks, ahead, elsewhere, locked, passedOver,
                   shared, left>>

(* A call about the locks fails: the service may have locked the key, or   *)
(* not have released it.                                                   *)
KeyStaysLocked(f) ==
    /\ Fault
    /\ \/ UNCHANGED elsewhere
       \/ elsewhere' = elsewhere \cup {Key[job[f]]}

(* Locks refused, or the call failed: the return before the try block.     *)
(* The job stays in active_jobs.                                           *)
Return(f) ==
    /\ phase[f] = "acquire"
    /\ \/ ~KeyFree(Key[job[f]]) /\ UNCHANGED <<faults, elsewhere>>
       \/ KeyStaysLocked(f)
    /\ phase' = [phase EXCEPT ![f] = "done"]
    /\ left' = left \cup {job[f]}
    /\ UNCHANGED <<main, why, claimed, futures, event, shutdown, job, active_jobs, socketVars,
                   requeues, crashes, launches, rowlocks, queue, ahead, locked, woken,
                   passedOver, shared>>

(* The job ends settled, or left running, or queued again. *)
Execute(f) ==
    /\ phase[f] = "execute"
    /\ phase' = [phase EXCEPT ![f] = "finish"]
    /\ \/ UNCHANGED <<queue, requeues>>
       \/ /\ Mishap
          /\ requeues' = requeues + 1
          /\ queue' = queue \cup {job[f]}
    /\ UNCHANGED <<main, why, claimed, futures, event, shutdown, job, active_jobs, socketVars,
                   faults, crashes, launches, rowlocks, ahead, elsewhere, locked, woken,
                   passedOver, shared, left>>

(* Mutation: the job is taken out of active_jobs by its success only. *)
FinishMutant(f) ==
    /\ phase[f] = "finish"
    /\ \/ UNCHANGED <<faults, elsewhere>>
       \/ KeyStaysLocked(f)
    /\ phase' = [phase EXCEPT ![f] = "done"]
    /\ active_jobs' = IF job[f] \in queue THEN active_jobs ELSE active_jobs \ {job[f]}
    /\ UNCHANGED <<main, why, claimed, futures, event, shutdown, job, socketVars,
                   requeues, crashes, launches, rowlocks, queue, ahead, locked, woken,
                   passedOver, shared, left>>

(* The finally clause: the locks are released, the job is inactive. *)
Finish(f) ==
    /\ phase[f] = "finish"
    /\ \/ UNCHANGED <<faults, elsewhere>>
       \/ KeyStaysLocked(f)
    /\ phase' = [phase EXCEPT ![f] = "done"]
    /\ active_jobs' = active_jobs \ {job[f]}
    /\ UNCHANGED <<main, why, claimed, futures, event, shutdown, job, socketVars,
                   requeues, crashes, launches, rowlocks, queue, ahead, locked, woken,
                   passedOver, shared, left>>

-----------------------------------------------------------------------------
Start == UnlinkStale \/ Bind

MainStep ==
    \/ Start \/ Loop
    \/ Claim \/ ClaimFails \/ ClaimMisread \/ NothingClaimed \/ Submit
    \/ EnterWait \/ EndWait \/ Clear
    \/ Drained \/ DrainTimesOut \/ StopServer \/ Exit

PoolStep(f) == Acquire(f) \/ Return(f) \/ Execute(f) \/ Finish(f)

QueueStep(j) == Enqueue(j) \/ TakenElsewhere(j) \/ RowLocked(j) \/ RowFreed(j)

Environment ==
    \/ \E j \in Jobs : QueueStep(j)
    \/ \E k \in Keys : LetGo(k)
    \/ Wake \/ OtherStarts \/ OtherStops
    \/ Signal \/ Crash \/ Launch

Next == MainStep \/ (\E f \in Futures : PoolStep(f)) \/ Environment

Spec == Init /\ [][Next]_vars

(* Threads are scheduled, waits end, calls are answered, executor          *)
(* operations and transactions end, and locks held elsewhere come free.    *)
Fairness ==
    /\ WF_vars(MainStep)
    /\ \A f \in Futures : WF_vars(PoolStep(f))
    /\ \A k \in Keys : WF_vars(LetGo(k))
    /\ \A j \in Jobs : WF_vars(RowFreed(j))

FairSpec == Spec /\ Fairness

-----------------------------------------------------------------------------
MainTyped ==
    /\ main \in Main
    /\ why \in {"none", "failed", "full"}
    /\ claimed \in Jobs \cup {NoJob}
    /\ event \in BOOLEAN
    /\ shutdown \in BOOLEAN

PoolTyped ==
    /\ futures \subseteq Futures
    /\ phase \in [Futures -> Phase]
    /\ job \in [Futures -> Jobs \cup {NoJob}]
    /\ \A f \in Futures : phase[f] # "none" => job[f] \in Jobs
    /\ active_jobs \subseteq Jobs
    /\ shared \subseteq Jobs /\ left \subseteq Jobs

TablesTyped ==
    /\ queue \subseteq Jobs /\ ahead \subseteq Jobs
    /\ elsewhere \subseteq Keys
    /\ locked \subseteq queue
    /\ woken \subseteq Jobs /\ passedOver \subseteq Jobs

SocketTyped ==
    /\ thread \in {"off", "on"}
    /\ file \in {"none", "stale", "ours", "theirs"}
    /\ other \in {"never", "up", "gone"}
    /\ overlapped \in BOOLEAN
    /\ requeues \in Nat /\ faults \in Nat /\ crashes \in Nat /\ launches \in Nat
    /\ rowlocks \in Nat

TypeOK == MainTyped /\ PoolTyped /\ TablesTyped /\ SocketTyped

(* No wake is lost: every wake is followed by a claim ("triggers an        *)
(* immediate job scan"), whatever the order of enqueue, claim, wake and    *)
(* clear.  When the loop sleeps because there was nothing to claim, a job  *)
(* that a wake has told of is queued only if a claim made after that wake  *)
(* could not see it: its row was locked by an open transaction, or the     *)
(* claim ended in an error that was read as an answer.  Such a job waits   *)
(* for the next wake or poll.                                              *)
WakesHeard ==
    main = "wait" /\ why = "none" /\ ~event => woken \subseteq passedOver

(* A claimed job always finds a free thread: jobs in process, the one on   *)
(* its way to the pool included, are no more than the pool has threads     *)
(* ("supports concurrent job execution up to PROVISIONER_CONCURRENCY").    *)
NeverOvercommitted ==
    Cardinality(Unfinished) + (IF main = "answered" /\ claimed # NoJob THEN 1 ELSE 0) <= Concurrency

(* available_slots of the health answer *)
AvailableSlots == Concurrency - Cardinality(active_jobs)

(* The health answer counts a job exactly while it is in process, unless   *)
(* its processing returned before the try block and nobody has claimed it  *)
(* since, or two threads had it at a time and the first took it out.  But  *)
(* for these, it reports no less than no free slot.                        *)
HealthCounts ==
    /\ \A j \in Jobs \ (left \cup shared) :
          j \in active_jobs <=> \E f \in Unfinished : job[f] = j
    /\ left \cup shared = {} => AvailableSlots >= 0

(* The server can be reached: a socket that serves is the one its path     *)
(* leads to, and without failed calls every worker that has come to its    *)
(* loop has one, whatever a predecessor left at the path.  Another worker  *)
(* on the same path ends this.                                             *)
Starting == main \in {"unlink", "bind", "down"}

SocketReachable ==
    ~overlapped =>
        /\ thread # "off" => file = "ours"
        /\ faults = 0 /\ ~Starting /\ main # "join" => thread # "off"

(* "Graceful shutdown (waits for active jobs to complete)": a process that *)
(* ends without being killed has no job in process, and leaves its socket  *)
(* file behind only if its jobs took longer than the 300 s of the drain.   *)
EndsGracefully ==
    [][main # "down" /\ main' = "down" /\ crashes' = crashes =>
          /\ Unfinished = {} /\ active_jobs \subseteq left \cup shared
          /\ file = "ours" => main = "abandon"]_vars

(* A worker that is told to stop does, once its jobs are done, unless the  *)
(* signal found the main thread inside its wake event.                     *)
ShutdownEnds == shutdown ~> main \in {"down", "stuck"}

(* Every queued job is taken up, also behind an older one whose lock is    *)
(* held elsewhere, as long as that lock comes free and nobody stops the    *)
(* worker.                                                                 *)
QueueDrains ==
    \A j \in Jobs : j \in queue ~> (j \notin queue \/ shutdown \/ main = "down")

-----------------------------------------------------------------------------
(* What the worker's documentation says of a signal, and the code does not *)
(* keep: "Graceful shutdown (waits for active jobs to complete)".  The     *)
(* handler's wake_event.set() deadlocks when the signal arrives while the  *)
(* main thread is inside wait() or clear().                                *)
ShutdownCompletes == shutdown ~> main = "down"
=============================================================================
