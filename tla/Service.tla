------------------------------ MODULE Service ------------------------------
(***************************************************************************)
(* Starting and pausing one pipeline in the serve process: ServiceManager  *)
(* (web/services.py), which keeps the status the dashboard shows, and the  *)
(* PipelineService objects it creates (core/runner.py), each with its own  *)
(* worker thread, stop event and trigger.                                  *)
(*                                                                         *)
(* The manager takes its lock to decide and to record, and releases it     *)
(* while it stops a service, loads the playbook and starts a service.  One *)
(* action is one hold of the lock, or one step outside it that another     *)
(* thread can tell apart.  Callers are the threads that call the manager:  *)
(* the routes of ordine serve call it on the event loop, one at a time.    *)
(*                                                                         *)
(* A definition marked "mistake" is the next definition with a bug, which  *)
(* the property it names finds; it is not used.                            *)
(***************************************************************************)
EXTENDS Naturals

CONSTANTS
  Callers,      \* threads that call start, pause and the dashboard's label
  Versions,     \* versions of the playbook that may be the current one
  NoVersion,    \* running_version None
  MaxServices,  \* bound on the PipelineService objects created
  Outcomes      \* what may come of loading the playbook and starting it

(* "unloadable": no current playbook, or it does not parse; "problems": a   *)
(* step the registry does not know; "unstartable": PipelineRunner or        *)
(* PipelineService.start raises (an unknown engine, a locked database, no   *)
(* directory to watch); "ok".                                               *)
ASSUME ServiceAssumption ==
  /\ NoVersion \notin Versions
  /\ MaxServices \in Nat
  /\ Outcomes \subseteq {"unloadable", "problems", "unstartable", "ok"}

Services == 1..MaxServices
NoService == 0

VARIABLES
  status,     \* runtime.status
  pending,    \* runtime.action_pending
  service,    \* runtime._service
  version,    \* runtime.running_version
  svc,        \* the PipelineService objects
  heartbeat,  \* what the pipeline's heartbeat file says of this process
  caller      \* where each caller is in start, pause or stop

vars == <<status, pending, service, version, svc, heartbeat, caller>>
runtime == <<status, pending, service, version>>

-----------------------------------------------------------------------------
(* A PipelineService and its worker thread.  ref says whether _worker holds *)
(* the thread, worker where the thread is: at the head of its loop, in      *)
(* run_once, about to touch the heartbeat with the flag it has read, gone.  *)

Unborn == [version |-> NoVersion, started |-> FALSE, stopFailed |-> FALSE, stop |-> FALSE,
           trigger |-> FALSE, ref |-> FALSE, worker |-> "none", flag |-> FALSE]

Running(v) == [version |-> v, started |-> TRUE, stopFailed |-> FALSE, stop |-> FALSE,
               trigger |-> TRUE, ref |-> TRUE, worker |-> "loop", flag |-> FALSE]

Alive(s) == svc[s].worker \in {"loop", "busy", "touch"}
WorkerAlive(s) == svc[s].ref /\ Alive(s)

NoHeartbeat == [alive |-> FALSE, stopFailed |-> FALSE]
Beat(stopFailed) == [alive |-> TRUE, stopFailed |-> stopFailed]

Object == [version : Versions \cup {NoVersion}, started : BOOLEAN, stopFailed : BOOLEAN,
           stop : BOOLEAN, trigger : BOOLEAN, ref : BOOLEAN, flag : BOOLEAN,
           worker : {"none", "loop", "busy", "touch", "gone"}]

(* A caller inside a service's stop knows which service, and whether pause, *)
(* start, or a start that gives way to a pause (honour) has called it.      *)
Idle == [at |-> "idle", for |-> "none", on |-> NoService, clean |-> FALSE]
At(at, for, on) == [at |-> at, for |-> for, on |-> on, clean |-> FALSE]
Stopped(c, clean) == [caller[c] EXCEPT !.at = "stopped", !.clean = clean]

Place == [at : {"idle", "stop", "join", "mark", "clear", "stopped", "load", "install"},
          for : {"none", "start", "pause", "honour"},
          on : Services \cup {NoService}, clean : BOOLEAN]

InStop == {"stop", "join", "mark", "clear", "stopped"}

Goto(c, place) == caller' = [caller EXCEPT ![c] = place]

Init ==
  /\ status = "paused"
  /\ pending = "none"
  /\ service = NoService
  /\ version = NoVersion
  /\ svc = [s \in Services |-> Unborn]
  /\ heartbeat = NoHeartbeat
  /\ caller = [c \in Callers |-> Idle]

-----------------------------------------------------------------------------
(* ServiceManager.start *)

Fresh == {s \in Services : svc[s] = Unborn}

OrphanHeld == status = "degraded" /\ service # NoService /\ WorkerAlive(service)

StartRefused ==
  \/ pending = "starting"
  \/ status = "running" /\ service # NoService
  \/ OrphanHeld

StartBegin(c) ==
  /\ caller[c] = Idle
  /\ Fresh # {}            \* MaxServices bounds the starts
  /\ IF StartRefused THEN UNCHANGED <<pending, caller>>
     ELSE /\ pending' = "starting"
          /\ Goto(c, IF service = NoService THEN At("load", "start", NoService)
                     ELSE At("stop", "start", service))
  /\ UNCHANGED <<status, service, version, svc, heartbeat>>

(* The old service would not stop: it is kept, and with it its worker.      *)
StartDegraded(c) ==
  /\ caller[c].at = "stopped" /\ caller[c].for = "start" /\ ~caller[c].clean
  /\ service' = caller[c].on
  /\ status' = "degraded"
  /\ pending' = "none"
  /\ Goto(c, Idle)
  /\ UNCHANGED <<version, svc, heartbeat>>

OldStopped(c) ==
  /\ caller[c].at = "stopped" /\ caller[c].for = "start" /\ caller[c].clean
  /\ Goto(c, At("load", "start", NoService))
  /\ UNCHANGED <<status, pending, service, version, svc, heartbeat>>

(* mistake: the label is left to the dashboard (PendingSettles).            *)
LoadRejectedLabelled(c) ==
  /\ caller[c].at = "load"
  /\ status' = "paused"
  /\ Goto(c, Idle)
  /\ UNCHANGED <<pending, service, version, svc, heartbeat>>

(* The playbook cannot be run: the pipeline is paused; when it parsed, its  *)
(* version is recorded all the same.                                        *)
LoadRejected(c) ==
  /\ caller[c].at = "load"
  /\ \/ "unloadable" \in Outcomes /\ UNCHANGED version
     \/ "problems" \in Outcomes /\ \E v \in Versions : version' = v
  /\ status' = "paused"
  /\ pending' = "none"
  /\ Goto(c, Idle)
  /\ UNCHANGED <<service, svc, heartbeat>>

(* No try surrounds PipelineRunner() and service.start(): the exception     *)
(* leaves start, and nothing takes back the action_pending that start has   *)
(* set.  The service object, if there is one yet, has no worker; of its     *)
(* trigger at most the folder observer has started, which admits nothing    *)
(* without the poller that would have been started next.                    *)
StartRaises(c) ==
  /\ caller[c].at = "load"
  /\ "unstartable" \in Outcomes
  /\ Goto(c, Idle)
  /\ UNCHANGED <<status, pending, service, version, svc, heartbeat>>

(* PipelineService.start of a new service, for the version just loaded.     *)
Launch(c) ==
  /\ caller[c].at = "load"
  /\ "ok" \in Outcomes
  /\ \E s \in Fresh, v \in Versions :
       /\ \A r \in Fresh : s <= r
       /\ svc' = [svc EXCEPT ![s] = Running(v)]
       /\ Goto(c, At("install", "start", s))
  /\ heartbeat' = Beat(FALSE)
  /\ UNCHANGED <<status, pending, service, version>>

(* mistake: the version is set with the outcome of loading only             *)
(* (RunningIsServed).                                                       *)
InstallUnversioned(c) ==
  /\ caller[c].at = "install"
  /\ pending' = "none"
  /\ service' = caller[c].on
  /\ status' = "running"
  /\ Goto(c, Idle)
  /\ UNCHANGED <<version, svc, heartbeat>>

Install(c) ==
  /\ caller[c].at = "install"
  /\ version' = svc[caller[c].on].version
  /\ pending' = "none"
  /\ IF pending = "pausing"
     THEN /\ service' = NoService
          /\ status' = "paused"
          /\ Goto(c, At("stop", "honour", caller[c].on))
     ELSE /\ service' = caller[c].on
          /\ status' = "running"
          /\ Goto(c, Idle)
  /\ UNCHANGED <<svc, heartbeat>>

Honoured(c) ==
  /\ caller[c].at = "stopped" /\ caller[c].for = "honour"
  /\ IF caller[c].clean THEN UNCHANGED <<service, status>>
     ELSE service' = caller[c].on /\ status' = "degraded"
  /\ Goto(c, Idle)
  /\ UNCHANGED <<pending, version, svc, heartbeat>>

-----------------------------------------------------------------------------
(* ServiceManager.pause, which shutdown calls for every pipeline            *)

PauseBegin(c) ==
  /\ caller[c] = Idle
  /\ service' = NoService
  /\ IF service = NoService
     THEN /\ status' = IF status = "degraded" THEN status ELSE "paused"
          /\ pending' = "none"
          /\ UNCHANGED caller
     ELSE /\ pending' = "pausing"
          /\ Goto(c, At("stop", "pause", service))
          /\ UNCHANGED status
  /\ UNCHANGED <<version, svc, heartbeat>>

PauseEnd(c) ==
  /\ caller[c].at = "stopped" /\ caller[c].for = "pause"
  /\ IF caller[c].clean THEN status' = "paused" /\ UNCHANGED service
     ELSE status' = "degraded" /\ service' = caller[c].on
  /\ pending' = "none"
  /\ Goto(c, Idle)
  /\ UNCHANGED <<version, svc, heartbeat>>

(* action_pending_label, on every rendering of the dashboard.               *)
Look(c) ==
  /\ caller[c] = Idle
  /\ pending' = IF \/ pending = "starting" /\ status = "running"
                   \/ pending = "pausing" /\ status = "paused"
                THEN "none" ELSE pending
  /\ UNCHANGED <<status, service, version, svc, heartbeat, caller>>

-----------------------------------------------------------------------------
(* PipelineService.stop, called without the manager's lock                  *)

StopBegin(c) ==
  /\ caller[c].at = "stop"
  /\ LET s == caller[c].on IN
       IF ~svc[s].started /\ ~svc[s].stopFailed
       THEN Goto(c, Stopped(c, TRUE)) /\ UNCHANGED svc
       ELSE /\ svc' = [svc EXCEPT ![s].stop = TRUE]
            /\ Goto(c, [caller[c] EXCEPT !.at = IF svc[s].ref THEN "join" ELSE "clear"])
  /\ UNCHANGED <<runtime, heartbeat>>

(* The join has returned and _worker is read again.                         *)
Joined(c) ==
  /\ caller[c].at = "join"
  /\ LET s == caller[c].on IN
       /\ svc[s].ref /\ ~Alive(s)
       /\ svc' = [svc EXCEPT ![s].ref = FALSE]
  /\ Goto(c, [caller[c] EXCEPT !.at = "clear"])
  /\ UNCHANGED <<runtime, heartbeat>>

(* mistake: the thread is given up, as before CHANGELOG's A1 (OneWorker).   *)
DropWorker(c) ==
  /\ caller[c].at = "join"
  /\ WorkerAlive(caller[c].on)
  /\ svc' = [svc EXCEPT ![caller[c].on].ref = FALSE]
  /\ Goto(c, [caller[c] EXCEPT !.at = "clear"])
  /\ UNCHANGED <<runtime, heartbeat>>

(* mistake: the trigger goes on feeding the queue (DegradedWindsDown).      *)
JoinTimeoutFed(c) ==
  /\ caller[c].at = "join"
  /\ LET s == caller[c].on IN
       /\ WorkerAlive(s)
       /\ svc' = [svc EXCEPT ![s].stopFailed = TRUE]
  /\ Goto(c, [caller[c] EXCEPT !.at = "mark"])
  /\ UNCHANGED <<runtime, heartbeat>>

(* The join has timed out: the trigger stops, the worker is an orphan.      *)
JoinTimeout(c) ==
  /\ caller[c].at = "join"
  /\ LET s == caller[c].on IN
       /\ WorkerAlive(s)
       /\ svc' = [svc EXCEPT ![s].stopFailed = TRUE, ![s].trigger = FALSE]
  /\ Goto(c, [caller[c] EXCEPT !.at = "mark"])
  /\ UNCHANGED <<runtime, heartbeat>>

MarkOrphan(c) ==
  /\ caller[c].at = "mark"
  /\ heartbeat' = Beat(TRUE)
  /\ Goto(c, Stopped(c, FALSE))
  /\ UNCHANGED <<runtime, svc>>

(* Another stop of the same service has set _worker to None since: reading  *)
(* is_alive of it raises, and neither stop nor its caller catches that.     *)
JoinRaises(c) ==
  /\ caller[c].at = "join"
  /\ ~svc[caller[c].on].ref
  /\ Goto(c, Idle)
  /\ UNCHANGED <<runtime, svc, heartbeat>>

(* mistake: the trigger is left running (PausedIsStopped).                  *)
StopWorkerOnly(c) ==
  /\ caller[c].at = "clear"
  /\ svc' = [svc EXCEPT ![caller[c].on].started = FALSE, ![caller[c].on].stopFailed = FALSE]
  /\ heartbeat' = NoHeartbeat
  /\ Goto(c, Stopped(c, TRUE))
  /\ UNCHANGED <<runtime>>

StopClean(c) ==
  /\ caller[c].at = "clear"
  /\ svc' = [svc EXCEPT ![caller[c].on].trigger = FALSE, ![caller[c].on].started = FALSE,
                        ![caller[c].on].stopFailed = FALSE]
  /\ heartbeat' = NoHeartbeat
  /\ Goto(c, Stopped(c, TRUE))
  /\ UNCHANGED <<runtime>>

-----------------------------------------------------------------------------
(* PipelineService._worker_loop.  run_once takes as long as it takes; what  *)
(* it does is Runner's.                                                     *)

WorkerTop(s) ==
  /\ svc[s].worker = "loop"
  /\ svc' = [svc EXCEPT ![s].worker = IF svc[s].stop THEN "gone" ELSE "busy"]
  /\ UNCHANGED <<runtime, heartbeat, caller>>

WorkerRan(s) ==
  /\ svc[s].worker = "busy"
  /\ svc' = [svc EXCEPT ![s].worker = "touch", ![s].flag = svc[s].stopFailed]
  /\ UNCHANGED <<runtime, heartbeat, caller>>

WorkerTouch(s) ==
  /\ svc[s].worker = "touch"
  /\ heartbeat' = Beat(svc[s].flag)
  /\ svc' = [svc EXCEPT ![s].worker = "loop"]
  /\ UNCHANGED <<runtime, caller>>

-----------------------------------------------------------------------------
Proceed(c) ==
  \/ StartDegraded(c) \/ OldStopped(c) \/ LoadRejected(c) \/ StartRaises(c)
  \/ Launch(c) \/ Install(c) \/ Honoured(c) \/ PauseEnd(c)
  \/ StopBegin(c) \/ Joined(c) \/ JoinTimeout(c) \/ MarkOrphan(c)
  \/ JoinRaises(c) \/ StopClean(c)

WorkerStep(s) == WorkerTop(s) \/ WorkerRan(s) \/ WorkerTouch(s)

Next ==
  \/ \E c \in Callers : StartBegin(c) \/ PauseBegin(c) \/ Look(c) \/ Proceed(c)
  \/ \E s \in Services : WorkerStep(s)

Spec == Init /\ [][Next]_vars

(* A request that has reached the manager runs to its end: no wait in it is *)
(* without a timeout.  The worker's run_once need not return.               *)
FairSpec == Spec /\ \A c \in Callers : WF_vars(Proceed(c))

-----------------------------------------------------------------------------
(* Properties *)

AllIdle == \A c \in Callers : caller[c] = Idle

(* The variables have their types: statuses and labels are those of         *)
(* RuntimeStatus and ActionPending, and a caller inside stop knows a        *)
(* service.                                                                 *)
TypeOK ==
  /\ status \in {"running", "paused", "degraded"}
  /\ pending \in {"none", "starting", "pausing"}
  /\ service \in Services \cup {NoService}
  /\ version \in Versions \cup {NoVersion}
  /\ svc \in [Services -> Object]
  /\ heartbeat \in [alive : BOOLEAN, stopFailed : BOOLEAN]
  /\ caller \in [Callers -> Place]
  /\ \A c \in Callers :
       caller[c].at \in InStop \cup {"install"} => caller[c].on \in Services

(* A pipeline never has two worker threads: the second is started only when *)
(* the first is known to be gone, however often a join has timed out        *)
(* (PipelineService: "the sequential worker loop").                         *)
OneWorker == \A r, s \in Services : Alive(r) /\ Alive(s) => r = s

(* When the dashboard says paused and nothing is under way, no worker and   *)
(* no trigger of any service that was ever started is left, and ordine      *)
(* status sees no heartbeat (PipelineService.stop, ServiceManager.pause).   *)
PausedIsStopped ==
  AllIdle /\ status = "paused" =>
    /\ \A s \in Services : ~Alive(s) /\ ~svc[s].trigger
    /\ heartbeat = NoHeartbeat

(* When it says running, the service in the runtime is the one that runs,   *)
(* with its trigger, and running_version is the version it was built from,  *)
(* which the dashboard compares with the current one (version_drift).       *)
RunningIsServed ==
  AllIdle /\ status = "running" =>
    /\ service \in Services
    /\ WorkerAlive(service) /\ svc[service].trigger /\ ~svc[service].stop
    /\ version = svc[service].version

(* When it says degraded and nothing is under way, the service that would   *)
(* not stop is kept, told to stop and fed by no trigger, so its worker ends *)
(* with the task it has (ServiceManager.pause: "the service reference is    *)
(* retained").                                                              *)
DegradedWindsDown ==
  AllIdle /\ status = "degraded" =>
    service \in Services /\ svc[service].stop /\ ~svc[service].trigger

(* A service whose stop has returned True has neither worker nor trigger,   *)
(* whoever else was stopping it at the time (PipelineService.stop: "True    *)
(* when the worker exited cleanly").                                        *)
CleanStopDrained ==
  \A s \in Services : ~svc[s].started => ~Alive(s) /\ ~svc[s].trigger

(* The label starting or pausing goes away again, so the dashboard's button *)
(* comes back (action_pending_label: "until runtime status confirms the     *)
(* transition").                                                            *)
PendingSettles == pending # "none" ~> pending = "none"
=============================================================================
