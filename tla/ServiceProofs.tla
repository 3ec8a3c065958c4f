--------------------------- MODULE ServiceProofs ---------------------------
(***************************************************************************)
(* Theorems about Service, for any number of services and versions.  Type  *)
(* correctness holds for any callers; the rest for one caller, the event   *)
(* loop of ordine serve, and is false with two.                            *)
(***************************************************************************)
EXTENDS Service, TLAPS

OneCaller == \E c : Callers = {c}

OnService == InStop \cup {"install"}

(* A caller that goes to a well-typed place leaves the callers well typed,  *)
(* and so does an object that becomes another one for the services.         *)
LEMMA GotoTyped ==
  ASSUME TypeOK, NEW c \in Callers, NEW p \in Place, Goto(c, p),
         p.at \in OnService => p.on \in Services
  PROVE  /\ caller' \in [Callers -> Place]
         /\ \A d \in Callers : caller'[d].at \in OnService => caller'[d].on \in Services
  BY DEF TypeOK, Goto, OnService, InStop

LEMMA BecomeTyped ==
  ASSUME TypeOK, NEW s \in Services, NEW o \in Object, svc' = [svc EXCEPT ![s] = o]
  PROVE  svc' \in [Services -> Object]
  BY DEF TypeOK

LEMMA ObjectUpdates ==
  ASSUME NEW o \in Object
  PROVE  /\ [o EXCEPT !.stop = TRUE] \in Object
         /\ [o EXCEPT !.ref = FALSE] \in Object
         /\ [o EXCEPT !.stopFailed = TRUE, !.trigger = FALSE] \in Object
         /\ [o EXCEPT !.trigger = FALSE, !.started = FALSE, !.stopFailed = FALSE] \in Object
<1>1. [o EXCEPT !.stop = TRUE] \in Object
  BY DEF Object
<1>2. [o EXCEPT !.ref = FALSE] \in Object
  BY DEF Object
<1>3. [o EXCEPT !.stopFailed = TRUE, !.trigger = FALSE] \in Object
  BY DEF Object
<1>4. [o EXCEPT !.trigger = FALSE, !.started = FALSE, !.stopFailed = FALSE] \in Object
  BY DEF Object
<1>5. QED  BY <1>1, <1>2, <1>3, <1>4

(* No step of a caller or a worker breaks the types.                        *)
LEMMA TypeStep == TypeOK /\ [Next]_vars => TypeOK'
<1> SUFFICES ASSUME TypeOK, [Next]_vars PROVE TypeOK'
  OBVIOUS
<1> DEFINE Moved(c, p) == p \in Place /\ Goto(c, p) /\ (p.at \in OnService => p.on \in Services)
           DataTyped == /\ status \in {"running", "paused", "degraded"}
                        /\ pending \in {"none", "starting", "pausing"}
                        /\ service \in Services \cup {NoService}
                        /\ version \in Versions \cup {NoVersion}
                        /\ svc \in [Services -> Object]
                        /\ heartbeat \in [alive : BOOLEAN, stopFailed : BOOLEAN]
<1>0. /\ DataTyped
      /\ \A c \in Callers : /\ caller[c] \in Place
                            /\ caller[c].at \in OnService => caller[c].on \in Services
      /\ \A s \in Services : svc[s] \in Object
      /\ NoHeartbeat \in [alive : BOOLEAN, stopFailed : BOOLEAN]
      /\ \A b \in BOOLEAN : Beat(b) \in [alive : BOOLEAN, stopFailed : BOOLEAN]
      /\ Idle \in Place /\ Idle.at = "idle"
  BY DEF TypeOK, OnService, InStop, NoHeartbeat, Beat, Idle, Place
<1>m. ASSUME NEW c \in Callers, NEW p, Moved(c, p), DataTyped' PROVE TypeOK'
  BY <1>m, GotoTyped DEF TypeOK, OnService, InStop
<1>k. ASSUME UNCHANGED caller, DataTyped' PROVE TypeOK'
  BY <1>k DEF TypeOK
<1> HIDE DEF Moved
<1>1. ASSUME NEW c \in Callers, StartBegin(c) PROVE TypeOK'
  <2>1. DataTyped'
    BY <1>0, <1>1 DEF StartBegin
  <2>2. CASE UNCHANGED caller
    BY <2>1, <2>2, <1>k
  <2>3. CASE service = NoService /\ Goto(c, At("load", "start", NoService))
    <3>1. Moved(c, At("load", "start", NoService))
      BY <2>3 DEF Moved, Place, At, OnService, InStop
    <3>2. QED  BY <3>1, <2>1, <1>m
  <2>4. CASE service # NoService /\ Goto(c, At("stop", "start", service))
    <3>1. Moved(c, At("stop", "start", service))
      BY <2>4, <1>0 DEF Moved, Place, At, OnService, InStop
    <3>2. QED  BY <3>1, <2>1, <1>m
  <2>5. QED  BY <1>1, <2>2, <2>3, <2>4 DEF StartBegin
<1>2. ASSUME NEW c \in Callers, PauseBegin(c) PROVE TypeOK'
  <2>1. DataTyped'
    BY <1>0, <1>2 DEF PauseBegin, NoService
  <2>2. CASE service = NoService
    BY <1>2, <2>1, <2>2, <1>k DEF PauseBegin
  <2>3. CASE service # NoService
    <3>1. Moved(c, At("stop", "pause", service))
      BY <1>2, <2>3, <1>0 DEF Moved, Place, At, OnService, InStop, PauseBegin
    <3>2. QED  BY <3>1, <2>1, <1>m
  <2>4. QED  BY <2>2, <2>3
<1>3. ASSUME NEW c \in Callers, Look(c) PROVE TypeOK'
  BY <1>0, <1>3, <1>k DEF Look
<1>4. ASSUME NEW c \in Callers, StartDegraded(c) \/ PauseEnd(c) \/ Honoured(c) PROVE TypeOK'
  <2>1. Moved(c, Idle)
    BY <1>0, <1>4 DEF StartDegraded, PauseEnd, Honoured, Moved, OnService, InStop
  <2>2. DataTyped'
    BY <1>0, <1>4 DEF StartDegraded, PauseEnd, Honoured, OnService, InStop
  <2>3. QED  BY <2>1, <2>2, <1>m
<1>5. ASSUME NEW c \in Callers, LoadRejected(c) \/ StartRaises(c) \/ JoinRaises(c) PROVE TypeOK'
  <2>1. Moved(c, Idle)
    BY <1>0, <1>5 DEF LoadRejected, StartRaises, JoinRaises, Moved, OnService, InStop
  <2>2. DataTyped'
    BY <1>0, <1>5 DEF LoadRejected, StartRaises, JoinRaises, runtime
  <2>3. QED  BY <2>1, <2>2, <1>m
<1>6. ASSUME NEW c \in Callers, OldStopped(c) PROVE TypeOK'
  <2>1. Moved(c, At("load", "start", NoService))
    BY <1>6 DEF OldStopped, Moved, Place, At, OnService, InStop
  <2>2. DataTyped'
    BY <1>0, <1>6 DEF OldStopped
  <2>3. QED  BY <2>1, <2>2, <1>m
<1>7. ASSUME NEW c \in Callers, Launch(c) PROVE TypeOK'
  <2>1. PICK s \in Services, v \in Versions :
          svc' = [svc EXCEPT ![s] = Running(v)] /\ Goto(c, At("install", "start", s))
    BY <1>7 DEF Launch, Fresh
  <2>2. svc' \in [Services -> Object]
    <3>1. Running(v) \in Object
      BY DEF Running, Object
    <3>2. QED  BY <2>1, <3>1, BecomeTyped
  <2>3. DataTyped'
    BY <1>0, <1>7, <2>2 DEF Launch
  <2>4. Moved(c, At("install", "start", s))
    BY <2>1 DEF Moved, Place, At, OnService, InStop
  <2>5. QED  BY <2>3, <2>4, <1>m
<1>8. ASSUME NEW c \in Callers, Install(c) PROVE TypeOK'
  <2>1. DataTyped'
    BY <1>0, <1>8 DEF Install, OnService, InStop, Object
  <2>2. CASE Goto(c, Idle)
    BY <1>0, <2>1, <2>2, <1>m DEF Moved, OnService, InStop
  <2>3. CASE Goto(c, At("stop", "honour", caller[c].on))
    <3>1. Moved(c, At("stop", "honour", caller[c].on))
      BY <1>0, <1>8, <2>3 DEF Moved, Place, At, OnService, InStop, Install
    <3>2. QED  BY <3>1, <2>1, <1>m
  <2>4. QED  BY <1>8, <2>2, <2>3 DEF Install
<1>9. ASSUME NEW c \in Callers, \/ StopBegin(c) \/ Joined(c) \/ JoinTimeout(c)
                                \/ MarkOrphan(c) \/ StopClean(c)
      PROVE TypeOK'
  <2>1. caller[c].at \in OnService /\ caller[c].on \in Services
    BY <1>0, <1>9 DEF StopBegin, Joined, JoinTimeout, MarkOrphan, StopClean, OnService, InStop
  <2>2. svc' \in [Services -> Object]
    <3> DEFINE o == svc[caller[c].on]
    <3>1. UNCHANGED svc \/ \E n \in Object : svc' = [svc EXCEPT ![caller[c].on] = n]
      <4>1. /\ [o EXCEPT !.stop = TRUE] \in Object
            /\ [o EXCEPT !.ref = FALSE] \in Object
            /\ [o EXCEPT !.stopFailed = TRUE, !.trigger = FALSE] \in Object
            /\ [o EXCEPT !.trigger = FALSE, !.started = FALSE, !.stopFailed = FALSE] \in Object
        BY <1>0, <2>1, ObjectUpdates
      <4>2. CASE StopBegin(c)
        BY <4>1, <4>2 DEF StopBegin
      <4>3. CASE Joined(c)
        BY <4>1, <4>3 DEF Joined
      <4>4. CASE JoinTimeout(c)
        <5>1. svc' = [svc EXCEPT ![caller[c].on] =
                                [o EXCEPT !.stopFailed = TRUE, !.trigger = FALSE]]
          BY <1>0, <4>4, <2>1 DEF JoinTimeout, TypeOK, Object
        <5>2. QED  BY <4>1, <5>1
      <4>5. CASE StopClean(c)
        BY <4>1, <4>5 DEF StopClean
      <4>6. QED  BY <1>9, <4>2, <4>3, <4>4, <4>5 DEF MarkOrphan
    <3>2. QED  BY <1>0, <2>1, <3>1, BecomeTyped
  <2>3. DataTyped'
    BY <1>0, <1>9, <2>2 DEF StopBegin, Joined, JoinTimeout, MarkOrphan, StopClean, runtime
  <2>4. \E p \in Place : Goto(c, p) /\ p.on = caller[c].on
    <3>1. \A a \in {"join", "mark", "clear"} :
             LET p == [caller[c] EXCEPT !.at = a] IN p \in Place /\ p.on = caller[c].on
      BY <1>0 DEF Place
    <3>2. \A b \in BOOLEAN : Stopped(c, b) \in Place /\ Stopped(c, b).on = caller[c].on
      BY <1>0 DEF Place, Stopped
    <3>3. CASE StopBegin(c)
      BY <3>1, <3>2, <3>3 DEF StopBegin
    <3>4. CASE Joined(c) \/ JoinTimeout(c)
      BY <3>1, <3>4 DEF Joined, JoinTimeout
    <3>5. CASE MarkOrphan(c) \/ StopClean(c)
      BY <3>2, <3>5 DEF MarkOrphan, StopClean
    <3>6. QED  BY <1>9, <3>3, <3>4, <3>5
  <2>5. QED  BY <2>1, <2>3, <2>4, <1>m DEF Moved
<1>10. ASSUME NEW s \in Services, WorkerStep(s) PROVE TypeOK'
  <2>1. svc' \in [Services -> Object]
    <3>1. /\ \A w \in {"loop", "busy", "gone"} : [svc[s] EXCEPT !.worker = w] \in Object
          /\ [svc[s] EXCEPT !.worker = "touch", !.flag = svc[s].stopFailed] \in Object
      BY <1>0 DEF Object
    <3>2. \E n \in Object : svc' = [svc EXCEPT ![s] = n]
      BY <1>10, <3>1 DEF WorkerStep, WorkerTop, WorkerRan, WorkerTouch
    <3>3. QED  BY <3>2, BecomeTyped
  <2>2. svc[s].flag \in BOOLEAN
    BY <1>0 DEF Object
  <2>3. DataTyped' /\ UNCHANGED caller
    BY <1>0, <1>10, <2>1, <2>2 DEF WorkerStep, WorkerTop, WorkerRan, WorkerTouch, runtime
  <2>4. QED  BY <2>3, <1>k
<1>11. CASE UNCHANGED vars
  BY <1>11 DEF vars, TypeOK
<1>12. QED
  BY <1>1, <1>2, <1>3, <1>4, <1>5, <1>6, <1>7, <1>8, <1>9, <1>10, <1>11 DEF Next, Proceed

(* The variables of Service have their types, with any number of callers:   *)
(* in particular stop is never called on a service that is None.            *)
THEOREM ServiceTypeCorrect == Spec => []TypeOK
<1>1. Init => TypeOK
  BY DEF Init, TypeOK, Object, Place, InStop, Unborn, NoHeartbeat, Idle, NoService
<1>2. QED  BY <1>1, TypeStep, PTL DEF Spec

-----------------------------------------------------------------------------
(* A worker or a trigger belongs to a started service, a thread leaves its  *)
(* loop only when told to, and a heartbeat to one that is started.          *)
Tidy ==
  /\ \A s \in Services :
       /\ Alive(s) => svc[s].ref /\ svc[s].started
       /\ svc[s].trigger \/ svc[s].stopFailed => svc[s].started
       /\ svc[s].worker = "gone" => svc[s].stop
  /\ heartbeat = NoHeartbeat \/ \E s \in Services : svc[s].started

(* A service as PipelineService.start leaves it.                            *)
Good(s) == Alive(s) /\ svc[s].ref /\ svc[s].trigger /\ ~svc[s].stop

(* What stop still has to take down is where the caller is, or, with the    *)
(* caller idle, in the runtime of a pipeline that is not paused.            *)
Owner(p, s) ==
  \/ p.at = "idle" /\ s = service /\ status # "paused"
  \/ p.at \in OnService /\ s = p.on /\ ~(p.at = "stopped" /\ p.clean)

Served ==
  status = "running" =>
    service \in Services /\ Good(service) /\ version = svc[service].version

(* Where the one caller is says what has been done already.                 *)
Reached(p) ==
  /\ p.at = "idle" => p = Idle /\ Served
  /\ p.at \in {"join", "mark", "clear"} => svc[p.on].started
  /\ p.at = "join" => svc[p.on].ref
  /\ p.at = "clear" => ~Alive(p.on)
  /\ p.at = "install" => Good(p.on)
  /\ p.at \in {"load", "install"} => p.for = "start"
  /\ p.for = "start" => status # "running"
  /\ p.for = "honour" => status # "running"
  /\ p.at \in OnService => p.on \in Services
  /\ \A s \in Services : svc[s].started => Owner(p, s)

Serial == TypeOK /\ Tidy /\ \A c \in Callers : Reached(caller[c])

(* With one caller, no step breaks the invariant.                           *)
LEMMA SerialStep == OneCaller /\ Serial /\ [Next]_vars => Serial'
<1> SUFFICES ASSUME OneCaller, Serial, [Next]_vars PROVE Serial'
  OBVIOUS
<1>0. /\ TypeOK /\ TypeOK' /\ Tidy
      /\ \A s \in Services : svc[s] \in Object /\ svc'[s] \in Object
      /\ \A c \in Callers : Reached(caller[c]) /\ caller[c] \in Place
      /\ NoService \notin Services
  <2>1. TypeOK /\ TypeOK' /\ Tidy /\ \A c \in Callers : Reached(caller[c])
    BY TypeStep DEF Serial
  <2>2. NoService \notin Services
    BY DEF NoService, Services
  <2>3. QED  BY <2>1, <2>2 DEF TypeOK
<1>m. ASSUME NEW c \in Callers, NEW p, Goto(c, p), Tidy', Reached(p)' PROVE Serial'
  BY <1>0, <1>m DEF OneCaller, Goto, Serial, TypeOK
<1>k. ASSUME UNCHANGED caller, Tidy', \A c \in Callers : Reached(caller[c])' PROVE Serial'
  BY <1>0, <1>k DEF Serial
<1>1. ASSUME NEW c \in Callers, StartBegin(c) PROVE Serial'
  <2>1. Reached(Idle) /\ caller[c] = Idle /\ Callers = {c}
    BY <1>0, <1>1 DEF StartBegin, OneCaller
  <2>2. Tidy'
    BY <1>0, <1>1 DEF Tidy, StartBegin, Alive
  <2>3. CASE UNCHANGED caller
    <3>1. Reached(Idle)'
      BY <1>1, <2>1 DEF StartBegin, Reached, Idle, Served, Good, Alive, Owner, OnService, InStop
    <3>2. QED  BY <2>1, <2>2, <2>3, <3>1, <1>k
  <2>4. CASE service = NoService /\ Goto(c, At("load", "start", NoService))
    <3>1. Reached(At("load", "start", NoService))'
      BY <1>0, <1>1, <2>1, <2>4
         DEF StartBegin, StartRefused, Reached, Idle, At, Served, Owner, OnService, InStop
    <3>2. QED  BY <2>2, <2>4, <3>1, <1>m
  <2>5. CASE service # NoService /\ ~StartRefused /\ Goto(c, At("stop", "start", service))
    <3>1. PICK p : p = At("stop", "start", service)
      OBVIOUS
    <3>2. Reached(p)'
      BY <1>0, <1>1, <2>1, <2>5, <3>1
         DEF StartBegin, StartRefused, Reached, Idle, At, Served, Owner, OnService, InStop, TypeOK
    <3>3. QED  BY <2>2, <2>5, <3>1, <3>2, <1>m
  <2>6. QED  BY <1>1, <2>3, <2>4, <2>5 DEF StartBegin
<1>2. ASSUME NEW c \in Callers, PauseBegin(c) PROVE Serial'
  <2>1. Reached(Idle) /\ caller[c] = Idle /\ Callers = {c}
    BY <1>0, <1>2 DEF PauseBegin, OneCaller
  <2>2. Tidy'
    BY <1>0, <1>2 DEF Tidy, PauseBegin, Alive
  <2>3. CASE service = NoService
    <3>1. Reached(Idle)' /\ UNCHANGED caller
      BY <1>0, <1>2, <2>1, <2>3 DEF PauseBegin, Reached, Idle, Served, Owner, OnService, InStop
    <3>2. QED  BY <2>1, <2>2, <3>1, <1>k
  <2>4. CASE service # NoService
    <3>1. PICK p : p = At("stop", "pause", service)
      OBVIOUS
    <3>2. Reached(p)' /\ Goto(c, p)
      BY <1>0, <1>2, <2>1, <2>4, <3>1
         DEF PauseBegin, Reached, Idle, At, Served, Owner, OnService, InStop, TypeOK
    <3>3. QED  BY <2>2, <3>2, <1>m
  <2>5. QED  BY <2>3, <2>4
<1>3. ASSUME NEW c \in Callers, Look(c) PROVE Serial'
  <2>1. Reached(Idle) /\ caller[c] = Idle /\ Callers = {c} /\ UNCHANGED caller
    BY <1>0, <1>3 DEF Look, OneCaller
  <2>2. Tidy'
    BY <1>0, <1>3 DEF Tidy, Look, Alive
  <2>3. Reached(Idle)'
    BY <1>3, <2>1 DEF Look, Reached, Idle, Served, Good, Alive, Owner, OnService, InStop
  <2>4. QED  BY <2>1, <2>2, <2>3, <1>k
<1>4. ASSUME NEW c \in Callers, StartDegraded(c) \/ PauseEnd(c) \/ Honoured(c) PROVE Serial'
  <2>1. Reached(caller[c]) /\ caller[c] \in Place
    BY <1>0
  <2>2. Goto(c, Idle)
    BY <1>4 DEF StartDegraded, PauseEnd, Honoured
  <2>3. Tidy'
    BY <1>0, <1>4 DEF Tidy, StartDegraded, PauseEnd, Honoured, Alive
  <2>4. Reached(Idle)'
    BY <1>0, <1>4, <2>1
       DEF StartDegraded, PauseEnd, Honoured, Reached, Idle, Served, Owner, OnService, InStop, Place
  <2>5. QED  BY <2>2, <2>3, <2>4, <1>m
<1>5. ASSUME NEW c \in Callers, LoadRejected(c) \/ StartRaises(c) PROVE Serial'
  <2>1. Reached(caller[c]) /\ caller[c].at = "load" /\ caller[c].for = "start"
    BY <1>0, <1>5 DEF LoadRejected, StartRaises, Reached
  <2>2. Goto(c, Idle)
    BY <1>5 DEF LoadRejected, StartRaises
  <2>3. Tidy'
    BY <1>0, <1>5 DEF Tidy, LoadRejected, StartRaises, Alive
  <2>4. Reached(Idle)'
    BY <1>0, <1>5, <2>1
       DEF LoadRejected, StartRaises, Reached, Idle, Served, Owner, OnService, InStop
  <2>5. QED  BY <2>2, <2>3, <2>4, <1>m
<1>6. ASSUME NEW c \in Callers, OldStopped(c) PROVE Serial'
  <2>1. Reached(caller[c])
    BY <1>0
  <2>2. Tidy'
    BY <1>0, <1>6 DEF Tidy, OldStopped, Alive
  <2>3. Reached(At("load", "start", NoService))'
    BY <1>0, <1>6, <2>1 DEF OldStopped, Reached, At, Owner, OnService, InStop
  <2>4. QED  BY <1>6, <2>2, <2>3, <1>m DEF OldStopped
<1>7. ASSUME NEW c \in Callers, Launch(c) PROVE Serial'
  <2>1. Reached(caller[c]) /\ caller[c].at = "load" /\ caller[c].for = "start"
    BY <1>0, <1>7 DEF Launch, Reached
  <2>2. PICK s \in Services, v \in Versions :
          svc' = [svc EXCEPT ![s] = Running(v)] /\ Goto(c, At("install", "start", s))
    BY <1>7 DEF Launch, Fresh
  <2>3. svc'[s] = Running(v) /\ \A r \in Services \ {s} : svc'[r] = svc[r]
    BY <1>0, <2>2 DEF TypeOK
  <2>4. \A r \in Services : ~svc[r].started
    BY <2>1 DEF Reached, Owner, OnService, InStop
  <2>5. Tidy'
    BY <1>0, <2>3 DEF Tidy, Running, Alive
  <2>6. Reached(At("install", "start", s))'
    BY <1>7, <2>1, <2>3, <2>4
       DEF Launch, Reached, At, Running, Good, Alive, Owner, OnService, InStop
  <2>7. QED  BY <2>2, <2>5, <2>6, <1>m
<1>8. ASSUME NEW c \in Callers, Install(c) PROVE Serial'
  <2>1. Reached(caller[c]) /\ caller[c].at = "install" /\ caller[c].on \in Services
    BY <1>0, <1>8 DEF Install, Reached, OnService
  <2>2. Tidy'
    BY <1>0, <1>8 DEF Tidy, Install, Alive
  <2>3. CASE pending = "pausing"
    <3>1. PICK p : p = At("stop", "honour", caller[c].on)
      OBVIOUS
    <3>2. Reached(p)' /\ Goto(c, p)
      BY <1>8, <2>1, <2>3, <3>1 DEF Install, Reached, At, Owner, OnService, InStop
    <3>3. QED  BY <2>2, <3>2, <1>m
  <2>4. CASE pending # "pausing"
    <3>1. Reached(Idle)' /\ Goto(c, Idle)
      BY <1>8, <2>1, <2>4 DEF Install, Reached, Idle, Served, Good, Alive, Owner, OnService, InStop
    <3>2. QED  BY <2>2, <3>1, <1>m
  <2>5. QED  BY <2>3, <2>4
<1>9. ASSUME NEW c \in Callers, StopBegin(c) PROVE Serial'
  <2> DEFINE s == caller[c].on
  <2>1. Reached(caller[c]) /\ caller[c] \in Place /\ caller[c].at = "stop" /\ s \in Services
    BY <1>0, <1>9 DEF StopBegin, Reached, OnService, InStop
  <2>2. CASE ~svc[s].started /\ ~svc[s].stopFailed
    <3>1. PICK p : p = Stopped(c, TRUE)
      OBVIOUS
    <3>2. Goto(c, p) /\ UNCHANGED <<runtime, svc, heartbeat>>
      BY <1>9, <2>2, <3>1 DEF StopBegin
    <3>3. Tidy'
      BY <1>0, <3>2 DEF Tidy, Alive
    <3>4. Reached(p)'
      BY <2>1, <2>2, <3>1, <3>2
         DEF Stopped, Place, Reached, Owner, OnService, InStop, runtime
    <3>5. QED  BY <3>2, <3>3, <3>4, <1>m
  <2>3. CASE svc[s].started \/ svc[s].stopFailed
    <3>1. PICK p : p = [caller[c] EXCEPT !.at = IF svc[s].ref THEN "join" ELSE "clear"]
      OBVIOUS
    <3>2. /\ Goto(c, p) /\ svc' = [svc EXCEPT ![s].stop = TRUE]
          /\ UNCHANGED <<runtime, heartbeat>>
      BY <1>9, <2>3, <3>1 DEF StopBegin
    <3>3. /\ \A r \in Services : /\ svc'[r].started = svc[r].started
                                 /\ svc'[r].stopFailed = svc[r].stopFailed
                                 /\ svc'[r].trigger = svc[r].trigger
                                 /\ svc'[r].ref = svc[r].ref
                                 /\ svc'[r].worker = svc[r].worker
                                 /\ svc[r].stop => svc'[r].stop
      BY <1>0, <3>2 DEF TypeOK, Object
    <3>4. Tidy'
      BY <1>0, <3>2, <3>3 DEF Tidy, Alive
    <3>5. svc[s].started
      BY <1>0, <2>1, <2>3 DEF Tidy
    <3>6. svc[s].ref \/ ~Alive(s)
      BY <1>0, <2>1 DEF Tidy
    <3>7. Reached(p)'
      BY <2>1, <3>1, <3>2, <3>3, <3>5, <3>6
         DEF Place, Reached, Owner, OnService, InStop, runtime, Alive
    <3>8. QED  BY <3>2, <3>4, <3>7, <1>m
  <2>4. QED  BY <2>2, <2>3
<1>10. ASSUME NEW c \in Callers, Joined(c) PROVE Serial'
  <2> DEFINE s == caller[c].on
  <2>1. Reached(caller[c]) /\ caller[c] \in Place /\ caller[c].at = "join" /\ s \in Services
    BY <1>0, <1>10 DEF Joined, Reached, OnService, InStop
  <2>2. PICK p : p = [caller[c] EXCEPT !.at = "clear"]
    OBVIOUS
  <2>3. Goto(c, p) /\ UNCHANGED <<runtime, heartbeat>>
    BY <1>10, <2>2 DEF Joined
  <2>4. /\ \A r \in Services : /\ svc'[r].started = svc[r].started
                               /\ svc'[r].worker = svc[r].worker
                               /\ svc'[r].stop = svc[r].stop
                               /\ svc'[r].stopFailed = svc[r].stopFailed
                               /\ svc'[r].trigger = svc[r].trigger
                               /\ r # s => svc'[r].ref = svc[r].ref
    <3>1. /\ svc'[s] = [svc[s] EXCEPT !.ref = FALSE]
          /\ \A r \in Services \ {s} : svc'[r] = svc[r]
      BY <1>10, <2>1, <1>0 DEF Joined, TypeOK
    <3>2. QED  BY <1>0, <2>1, <3>1 DEF Object
  <2>5. svc[s].started /\ ~Alive(s)
    BY <1>10, <2>1 DEF Joined, Reached, WorkerAlive
  <2>6. Tidy'
    BY <1>0, <2>3, <2>4, <2>5 DEF Tidy, Alive
  <2>7. Reached(p)'
    BY <2>1, <2>2, <2>3, <2>4, <2>5
       DEF Place, Reached, Owner, OnService, InStop, runtime, Alive
  <2>8. QED  BY <2>3, <2>6, <2>7, <1>m
<1>11. ASSUME NEW c \in Callers, JoinTimeout(c) PROVE Serial'
  <2> DEFINE s == caller[c].on
  <2>1. Reached(caller[c]) /\ caller[c] \in Place /\ caller[c].at = "join" /\ s \in Services
    BY <1>0, <1>11 DEF JoinTimeout, Reached, OnService, InStop
  <2>2. PICK p : p = [caller[c] EXCEPT !.at = "mark"]
    OBVIOUS
  <2>3. Goto(c, p) /\ UNCHANGED <<runtime, heartbeat>>
    BY <1>11, <2>2 DEF JoinTimeout
  <2>4. /\ \A r \in Services : /\ svc'[r].started = svc[r].started
                               /\ svc'[r].worker = svc[r].worker
                               /\ svc'[r].stop = svc[r].stop
                               /\ svc'[r].ref = svc[r].ref
                               /\ r # s => svc'[r] = svc[r]
    <3>1. /\ svc'[s] = [svc[s] EXCEPT !.stopFailed = TRUE, !.trigger = FALSE]
          /\ \A r \in Services \ {s} : svc'[r] = svc[r]
      BY <1>11, <2>1, <1>0 DEF JoinTimeout, TypeOK, Object
    <3>2. svc[s] \in Object
      BY <1>0, <2>1
    <3>3. /\ svc'[s].started = svc[s].started
          /\ svc'[s].worker = svc[s].worker
          /\ svc'[s].stop = svc[s].stop
          /\ svc'[s].ref = svc[s].ref
      BY <3>1, <3>2 DEF Object
    <3>4. QED  BY <3>1, <3>3
  <2>5. svc[s].started
    BY <1>11, <2>1 DEF JoinTimeout, Reached, WorkerAlive
  <2>6. Tidy'
    BY <1>0, <2>3, <2>4, <2>5 DEF Tidy, Alive
  <2>7. Reached(p)'
    BY <2>1, <2>2, <2>3, <2>4, <2>5
       DEF Place, Reached, Owner, OnService, InStop, runtime, Alive
  <2>8. QED  BY <2>3, <2>6, <2>7, <1>m
<1>12. ASSUME NEW c \in Callers, MarkOrphan(c) PROVE Serial'
  <2>1. Reached(caller[c]) /\ caller[c] \in Place
        /\ caller[c].at = "mark" /\ caller[c].on \in Services
    BY <1>0, <1>12 DEF MarkOrphan, Reached, OnService, InStop
  <2>2. PICK p : p = Stopped(c, FALSE)
    OBVIOUS
  <2>3. Goto(c, p)
    BY <1>12, <2>2 DEF MarkOrphan
  <2>4. Tidy'
    BY <1>0, <1>12, <2>1 DEF MarkOrphan, Tidy, Alive, Reached
  <2>5. Reached(p)'
    BY <1>12, <2>1, <2>2
       DEF MarkOrphan, Stopped, Place, Reached, Owner, OnService, InStop, runtime
  <2>6. QED  BY <2>3, <2>4, <2>5, <1>m
<1>13. ASSUME NEW c \in Callers, JoinRaises(c) PROVE FALSE
  BY <1>0, <1>13 DEF JoinRaises, Reached
<1>14. ASSUME NEW c \in Callers, StopClean(c) PROVE Serial'
  <2> DEFINE s == caller[c].on
  <2>1. Reached(caller[c]) /\ caller[c] \in Place /\ caller[c].at = "clear" /\ s \in Services
    BY <1>0, <1>14 DEF StopClean, Reached, OnService, InStop
  <2>2. PICK p : p = Stopped(c, TRUE)
    OBVIOUS
  <2>3. Goto(c, p) /\ heartbeat' = NoHeartbeat /\ UNCHANGED <<runtime>>
    BY <1>14, <2>2 DEF StopClean
  <2>4. /\ \A r \in Services : svc'[r].worker = svc[r].worker /\ svc'[r].stop = svc[r].stop
        /\ \A r \in Services \ {s} : svc'[r] = svc[r]
        /\ ~svc'[s].started /\ ~svc'[s].stopFailed /\ ~svc'[s].trigger
    BY <1>0, <1>14, <2>1 DEF StopClean, TypeOK, Object
  <2>5. ~Alive(s)
    BY <2>1 DEF Reached
  <2>6. Tidy'
    BY <1>0, <2>1, <2>3, <2>4, <2>5 DEF Tidy, Alive
  <2>7. Reached(p)'
    BY <2>1, <2>2, <2>3, <2>4
       DEF Stopped, Place, Reached, Owner, OnService, InStop, runtime
  <2>8. QED  BY <2>3, <2>6, <2>7, <1>m
<1>15. ASSUME NEW s \in Services, WorkerStep(s) PROVE Serial'
  <2>1. Alive(s) /\ UNCHANGED <<runtime, caller>>
    BY <1>15 DEF WorkerStep, WorkerTop, WorkerRan, WorkerTouch, Alive, runtime
  <2>2. /\ \A r \in Services : /\ svc'[r].started = svc[r].started
                               /\ svc'[r].stopFailed = svc[r].stopFailed
                               /\ svc'[r].trigger = svc[r].trigger
                               /\ svc'[r].ref = svc[r].ref
                               /\ svc'[r].stop = svc[r].stop
                               /\ svc'[r].version = svc[r].version
        /\ \A r \in Services \ {s} : svc'[r] = svc[r]
    BY <1>0, <1>15 DEF WorkerStep, WorkerTop, WorkerRan, WorkerTouch, TypeOK, Object
  <2>3. svc'[s].worker \in {"loop", "busy", "touch"} \/ (svc'[s].worker = "gone" /\ svc[s].stop)
    BY <1>0, <1>15 DEF WorkerStep, WorkerTop, WorkerRan, WorkerTouch, TypeOK, Object
  <2>4. \A r \in Services : (Alive(r)' => Alive(r)) /\ (Good(r) => Good(r)')
    BY <2>1, <2>2, <2>3 DEF Alive, Good
  <2>5. Tidy'
    BY <1>0, <2>1, <2>2, <2>3, <2>4 DEF Tidy, Alive
  <2>6. ASSUME NEW c \in Callers PROVE Reached(caller[c])'
    BY <1>0, <2>1, <2>2, <2>4 DEF Reached, Served, Owner, OnService, InStop, runtime
  <2>7. QED  BY <2>1, <2>5, <2>6, <1>k
<1>16. CASE UNCHANGED vars
  <2>1. Tidy'
    BY <1>0, <1>16 DEF vars, Tidy, Alive
  <2>2. ASSUME NEW c \in Callers PROVE Reached(caller[c])'
    BY <1>0, <1>16 DEF vars, Reached, Served, Good, Alive, Owner
  <2>3. QED  BY <1>16, <2>1, <2>2, <1>k DEF vars
<1>17. QED
  BY <1>1, <1>2, <1>3, <1>4, <1>5, <1>6, <1>7, <1>8, <1>9, <1>10, <1>11, <1>12, <1>13, <1>14,
     <1>15, <1>16 DEF Next, Proceed

LEMMA SerialInit == OneCaller /\ Init => Serial
<1> SUFFICES ASSUME OneCaller, Init PROVE Serial
  OBVIOUS
<1>1. TypeOK
  BY DEF Init, TypeOK, Object, Place, InStop, Unborn, NoHeartbeat, Idle, NoService
<1>2. Tidy
  BY DEF Init, Tidy, Unborn, Alive
<1>3. \A c \in Callers : Reached(caller[c])
  BY DEF Init, Reached, Idle, Unborn, Served, Owner, OnService, InStop
<1>4. QED  BY <1>1, <1>2, <1>3 DEF Serial

LEMMA AlwaysSerial == ASSUME OneCaller PROVE Spec => []Serial
  BY SerialInit, SerialStep, PTL DEF Spec

(* On the event loop of ordine serve, a pipeline never has two workers,     *)
(* whatever times out, fails to start, or is asked again and again.         *)
THEOREM AtMostOneWorker == OneCaller => (Spec => []OneWorker)
<1> SUFFICES ASSUME OneCaller PROVE Spec => []OneWorker
  OBVIOUS
<1>1. Serial => OneWorker
  <2> SUFFICES ASSUME Serial, NEW r \in Services, NEW s \in Services, Alive(r), Alive(s)
               PROVE  r = s
    BY DEF OneWorker
  <2>1. PICK c \in Callers : Reached(caller[c])
    BY DEF Serial, OneCaller
  <2>2. svc[r].started /\ svc[s].started
    BY DEF Serial, Tidy
  <2>3. QED  BY <2>1, <2>2 DEF Reached, Owner, OnService, InStop
<1>2. QED  BY <1>1, AlwaysSerial, PTL

(* A pipeline shown as paused, with nothing under way, has nothing running. *)
THEOREM PausedMeansStopped == OneCaller => (Spec => []PausedIsStopped)
<1> SUFFICES ASSUME OneCaller PROVE Spec => []PausedIsStopped
  OBVIOUS
<1>1. Serial => PausedIsStopped
  BY DEF Serial, OneCaller, Tidy, Reached, Owner, OnService, InStop, PausedIsStopped, AllIdle, Idle
<1>2. QED  BY <1>1, AlwaysSerial, PTL

(* A pipeline shown as running, with nothing under way, has its worker and  *)
(* trigger, on the version shown.                                           *)
THEOREM RunningMeansServed == OneCaller => (Spec => []RunningIsServed)
<1> SUFFICES ASSUME OneCaller PROVE Spec => []RunningIsServed
  OBVIOUS
<1>1. Serial => RunningIsServed
  BY DEF Serial, OneCaller, Reached, Served, Good, WorkerAlive, RunningIsServed, AllIdle, Idle
<1>2. QED  BY <1>1, AlwaysSerial, PTL

-----------------------------------------------------------------------------
(* With any number of callers: a thread is never lost to the service that   *)
(* owns it, and a caller about to clear a service has seen its thread gone. *)
Born(s) == svc[s].worker # "none"

Kept(p) ==
  /\ p.at \in OnService => p.on \in Services /\ Born(p.on)
  /\ p.at = "clear" => ~Alive(p.on)

Owning ==
  \A s \in Services : /\ Alive(s) => svc[s].ref /\ svc[s].started
                      /\ svc[s].trigger => svc[s].started

Drained ==
  /\ TypeOK
  /\ Owning
  /\ service \in Services => Born(service)
  /\ \A c \in Callers : Kept(caller[c])

(* What the steps of stop do to an object, field by field.                  *)
LEMMA StopEffect ==
  ASSUME TypeOK, NEW c \in Callers, NEW r \in Services,
         \/ StopBegin(c) \/ Joined(c) \/ JoinTimeout(c) \/ StopClean(c)
  PROVE  /\ svc'[r].worker = svc[r].worker
         /\ svc'[r].trigger => svc[r].trigger
         /\ svc[r].stop => svc'[r].stop
         /\ \/ svc'[r].started = svc[r].started
            \/ StopClean(c) /\ r = caller[c].on /\ ~svc'[r].trigger
         /\ \/ svc'[r].ref = svc[r].ref
            \/ Joined(c) /\ r = caller[c].on
<1>0. svc[r] \in Object /\ svc \in [Services -> Object]
  BY DEF TypeOK
<1>1. CASE svc'[r] = svc[r]
  BY <1>1
<1>2. CASE StopBegin(c) /\ svc'[r] = [svc[r] EXCEPT !.stop = TRUE]
  BY <1>0, <1>2 DEF Object
<1>3. CASE Joined(c) /\ r = caller[c].on /\ svc'[r] = [svc[r] EXCEPT !.ref = FALSE]
  BY <1>0, <1>3 DEF Object
<1>4. CASE JoinTimeout(c) /\ svc'[r] = [svc[r] EXCEPT !.stopFailed = TRUE, !.trigger = FALSE]
  <2>1. /\ svc'[r].worker = svc[r].worker /\ svc'[r].started = svc[r].started
        /\ svc'[r].ref = svc[r].ref /\ ~svc'[r].trigger /\ svc'[r].stop = svc[r].stop
    BY <1>0, <1>4 DEF Object
  <2>2. QED  BY <2>1
<1>5. CASE /\ StopClean(c) /\ r = caller[c].on
           /\ svc'[r] = [svc[r] EXCEPT !.trigger = FALSE, !.started = FALSE, !.stopFailed = FALSE]
  <2>1. /\ svc'[r].worker = svc[r].worker /\ ~svc'[r].trigger /\ svc'[r].ref = svc[r].ref
        /\ svc'[r].stop = svc[r].stop
    BY <1>0, <1>5 DEF Object
  <2>2. QED  BY <1>5, <2>1
<1>6. ASSUME StopBegin(c) PROVE svc'[r] = svc[r] \/ svc'[r] = [svc[r] EXCEPT !.stop = TRUE]
  BY <1>0, <1>6 DEF StopBegin
<1>7. ASSUME Joined(c)
      PROVE  \/ svc'[r] = svc[r]
             \/ r = caller[c].on /\ svc'[r] = [svc[r] EXCEPT !.ref = FALSE]
  BY <1>0, <1>7 DEF Joined
<1>8. ASSUME JoinTimeout(c)
      PROVE  \/ svc'[r] = svc[r]
             \/ svc'[r] = [svc[r] EXCEPT !.stopFailed = TRUE, !.trigger = FALSE]
  BY <1>0, <1>8 DEF JoinTimeout, Object
<1>9. ASSUME StopClean(c)
      PROVE  \/ svc'[r] = svc[r]
             \/ /\ r = caller[c].on
                /\ svc'[r] = [svc[r] EXCEPT !.trigger = FALSE, !.started = FALSE,
                                            !.stopFailed = FALSE]
  BY <1>0, <1>9 DEF StopClean, Object
<1>10. QED  BY <1>1, <1>2, <1>3, <1>4, <1>5, <1>6, <1>7, <1>8, <1>9

(* What the steps of a worker do to an object.                              *)
LEMMA WorkerEffect ==
  ASSUME TypeOK, NEW s \in Services, WorkerStep(s), NEW r \in Services
  PROVE  /\ svc'[r].trigger = svc[r].trigger
         /\ svc'[r].started = svc[r].started
         /\ svc'[r].ref = svc[r].ref
         /\ svc'[r].worker = svc[r].worker \/ (Alive(r) /\ svc'[r].worker # "none")
  BY DEF TypeOK, Object, WorkerStep, WorkerTop, WorkerRan, WorkerTouch, Alive

(* No thread is unborn, or comes back.                                      *)
LEMMA ThreadsAge ==
  ASSUME TypeOK, [Next]_vars, NEW s \in Services, Born(s)
  PROVE  Born(s)' /\ (~Alive(s) => ~Alive(s)')
<1>1. CASE UNCHANGED svc
  BY <1>1 DEF Born, Alive
<1>2. ASSUME NEW c \in Callers, Launch(c) PROVE svc'[s] = svc[s]
  BY <1>2 DEF Launch, Fresh, Born, Unborn, TypeOK
<1>3. ASSUME NEW c \in Callers,
             \/ StopBegin(c) \/ Joined(c) \/ JoinTimeout(c) \/ StopClean(c)
      PROVE  svc'[s].worker = svc[s].worker
  BY <1>3, StopEffect
<1>4. ASSUME NEW r \in Services, WorkerStep(r)
      PROVE  svc'[s].worker = svc[s].worker \/ (Alive(s) /\ svc'[s].worker # "none")
  BY <1>4, WorkerEffect
<1>5. QED
  BY <1>1, <1>2, <1>3, <1>4
     DEF Next, Proceed, StartBegin, PauseBegin, Look, StartDegraded, OldStopped, LoadRejected,
         StartRaises, Install, Honoured, PauseEnd, MarkOrphan, JoinRaises, Born, Alive, vars

LEMMA DrainedStep == Drained /\ [Next]_vars => Drained'
<1> SUFFICES ASSUME Drained, [Next]_vars PROVE Drained'
  OBVIOUS
<1>0. /\ TypeOK /\ TypeOK' /\ Owning /\ (service \in Services => Born(service))
      /\ \A c \in Callers : Kept(caller[c])
      /\ NoService \notin Services
  BY TypeStep DEF Drained, NoService, Services
<1>1. \A s \in Services : Born(s) => Born(s)' /\ (~Alive(s) => ~Alive(s)')
  BY <1>0, ThreadsAge
<1>2. ASSUME NEW p, Kept(p) PROVE Kept(p)'
  BY <1>1, <1>2 DEF Kept, OnService, InStop
<1>m. ASSUME NEW c \in Callers, NEW p, Goto(c, p), Kept(p)',
             Owning', (service \in Services => Born(service))'
      PROVE  Drained'
  <2>1. ASSUME NEW d \in Callers PROVE Kept(caller[d])'
    <3>1. CASE d = c
      BY <1>0, <1>m, <3>1 DEF Goto, TypeOK
    <3>2. CASE d # c
      <4>1. PICK q : q = caller[d] /\ caller'[d] = q
        BY <1>0, <1>m, <3>2 DEF Goto, TypeOK
      <4>2. QED  BY <1>0, <1>2, <4>1
    <3>3. QED  BY <3>1, <3>2
  <2>2. QED  BY <1>0, <1>m, <2>1 DEF Drained
<1>k. ASSUME UNCHANGED caller, Owning', (service \in Services => Born(service))' PROVE Drained'
  <2>1. ASSUME NEW d \in Callers PROVE Kept(caller[d])'
    <3>1. PICK q : q = caller[d] /\ caller'[d] = q
      BY <1>k
    <3>2. QED  BY <1>0, <1>2, <3>1
  <2>2. QED  BY <1>0, <1>k, <2>1 DEF Drained
<1>3. ASSUME UNCHANGED svc PROVE Owning' /\ \A s \in Services : Born(s) <=> Born(s)'
  BY <1>0, <1>3 DEF Owning, Alive, Born
<1>4. ASSUME NEW c \in Callers, StartBegin(c) \/ PauseBegin(c) \/ Look(c) PROVE Drained'
  <2>1. UNCHANGED svc /\ (service' = service \/ service' = NoService)
    BY <1>4 DEF StartBegin, PauseBegin, Look
  <2>2. Owning' /\ (service \in Services => Born(service))'
    BY <1>0, <1>3, <2>1 DEF Born
  <2>3. CASE UNCHANGED caller
    BY <2>2, <2>3, <1>k
  <2>4. CASE \E p : /\ Goto(c, p)
                    /\ \/ p.at = "load"
                       \/ p.at = "stop" /\ p.on = service /\ service # NoService
    <3>1. PICK p : /\ Goto(c, p)
                   /\ \/ p.at = "load"
                      \/ p.at = "stop" /\ p.on = service /\ service # NoService
      BY <2>4
    <3>2. Kept(p)
      BY <1>0, <3>1 DEF Kept, OnService, InStop, TypeOK
    <3>3. QED  BY <1>2, <1>m, <2>2, <3>1, <3>2
  <2>5. QED
    <3>1. ASSUME NEW why
          PROVE  /\ At("load", why, NoService).at = "load"
                 /\ At("stop", why, service).at = "stop" /\ At("stop", why, service).on = service
      BY DEF At
    <3>2. CASE StartBegin(c)
      BY <3>1, <3>2, <2>3, <2>4 DEF StartBegin
    <3>3. CASE PauseBegin(c)
      BY <3>1, <3>3, <2>3, <2>4 DEF PauseBegin
    <3>4. CASE Look(c)
      BY <3>4, <2>3 DEF Look
    <3>5. QED  BY <1>4, <3>2, <3>3, <3>4
<1>5. ASSUME NEW c \in Callers, \/ LoadRejected(c) \/ StartRaises(c) \/ OldStopped(c)
                                \/ JoinRaises(c) \/ StartDegraded(c) \/ PauseEnd(c)
                                \/ Honoured(c) \/ MarkOrphan(c) \/ Install(c)
      PROVE  Drained'
  <2>1. UNCHANGED svc
    BY <1>5 DEF LoadRejected, StartRaises, OldStopped, JoinRaises, StartDegraded, PauseEnd,
                Honoured, MarkOrphan, Install
  <2>2. /\ \/ service' \in {service, NoService}
           \/ service' = caller[c].on /\ caller[c].at \in OnService
        /\ caller[c] \in Place
    BY <1>0, <1>5 DEF LoadRejected, StartRaises, OldStopped, JoinRaises, StartDegraded, PauseEnd,
                Honoured, MarkOrphan, Install, runtime, OnService, InStop, TypeOK
  <2>3. Owning' /\ (service \in Services => Born(service))'
    BY <1>0, <1>3, <2>1, <2>2 DEF Kept, Born
  <2>4. \E p : Goto(c, p) /\ Kept(p)
    <3>1. Kept(Idle) /\ Kept(At("load", "start", NoService))
      BY DEF Kept, Idle, At, OnService, InStop
    <3>2. CASE MarkOrphan(c)
      <4>1. Stopped(c, FALSE).at = "stopped" /\ Stopped(c, FALSE).on = caller[c].on
        BY <2>2 DEF Stopped, Place
      <4>2. Kept(Stopped(c, FALSE))
        BY <1>0, <3>2, <4>1 DEF Kept, OnService, InStop, MarkOrphan
      <4>3. QED  BY <3>2, <4>2 DEF MarkOrphan
    <3>3. CASE Install(c)
      <4>1. Kept(At("stop", "honour", caller[c].on))
        BY <1>0, <3>3 DEF Kept, OnService, InStop, Install, At
      <4>2. QED  BY <3>1, <3>3, <4>1 DEF Install
    <3>4. QED
      BY <1>5, <3>1, <3>2, <3>3
         DEF LoadRejected, StartRaises, OldStopped, JoinRaises, StartDegraded, PauseEnd, Honoured
  <2>5. QED  BY <1>2, <1>m, <2>3, <2>4
<1>6. ASSUME NEW c \in Callers, Launch(c) PROVE Drained'
  <2>1. PICK s \in Services, v \in Versions :
          svc' = [svc EXCEPT ![s] = Running(v)] /\ Goto(c, At("install", "start", s))
    BY <1>6 DEF Launch, Fresh
  <2>2. svc'[s] = Running(v) /\ \A r \in Services \ {s} : svc'[r] = svc[r]
    BY <1>0, <2>1 DEF TypeOK
  <2>3. Owning' /\ Born(s)'
    BY <1>0, <2>2 DEF Owning, Alive, Running, Born
  <2>4. Kept(At("install", "start", s))'
    BY <2>3 DEF Kept, At, OnService, InStop
  <2>5. (service \in Services => Born(service))'
    BY <1>0, <1>1, <1>6 DEF Launch, Born
  <2>6. QED  BY <1>m, <2>1, <2>3, <2>4, <2>5
<1>7. ASSUME NEW c \in Callers, \/ StopBegin(c) \/ Joined(c) \/ JoinTimeout(c) \/ StopClean(c)
      PROVE  Drained'
  <2>1. caller[c].at \in InStop /\ caller[c] \in Place /\ caller[c].on \in Services
    BY <1>0, <1>7 DEF StopBegin, Joined, JoinTimeout, StopClean, InStop, TypeOK
  <2>2. /\ StopClean(c) => ~Alive(caller[c].on)
        /\ Joined(c) => ~Alive(caller[c].on)
    BY <1>0, <1>7 DEF StopClean, Joined, Kept
  <2>3. Owning'
    <3> SUFFICES ASSUME NEW r \in Services
                 PROVE  /\ Alive(r)' => svc'[r].ref /\ svc'[r].started
                        /\ svc'[r].trigger => svc'[r].started
      BY DEF Owning
    <3>1. QED  BY <1>0, <1>7, <2>2, StopEffect DEF Owning, Alive
  <2>4. (service \in Services => Born(service))'
    BY <1>0, <1>1, <1>7 DEF StopBegin, Joined, JoinTimeout, StopClean, runtime, Born
  <2>5. \E p : /\ Goto(c, p) /\ p.at \in InStop /\ p.on = caller[c].on
               /\ p.at = "clear" => ~Alive(caller[c].on)
    <3>1. ASSUME NEW a, NEW b
          PROVE  /\ [caller[c] EXCEPT !.at = a].at = a
                 /\ [caller[c] EXCEPT !.at = a].on = caller[c].on
                 /\ Stopped(c, b).at = "stopped" /\ Stopped(c, b).on = caller[c].on
      BY <2>1 DEF Place, Stopped
    <3>2. CASE StopBegin(c)
      <4>1. svc[caller[c].on].ref \/ ~Alive(caller[c].on)
        BY <1>0, <2>1 DEF Owning
      <4>2. CASE Goto(c, Stopped(c, TRUE))
        BY <3>1, <4>2 DEF InStop
      <4>3. CASE svc[caller[c].on].ref /\ Goto(c, [caller[c] EXCEPT !.at = "join"])
        BY <3>1, <4>3 DEF InStop
      <4>4. CASE ~svc[caller[c].on].ref /\ Goto(c, [caller[c] EXCEPT !.at = "clear"])
        BY <3>1, <4>1, <4>4 DEF InStop
      <4>5. QED  BY <3>2, <4>2, <4>3, <4>4 DEF StopBegin
    <3>3. CASE Joined(c)
      <4>1. Goto(c, [caller[c] EXCEPT !.at = "clear"])
        BY <3>3 DEF Joined
      <4>2. QED  BY <2>2, <3>1, <3>3, <4>1 DEF InStop
    <3>4. CASE JoinTimeout(c)
      <4>1. Goto(c, [caller[c] EXCEPT !.at = "mark"])
        BY <3>4 DEF JoinTimeout
      <4>2. QED  BY <2>2, <3>1, <3>4, <4>1 DEF InStop
    <3>5. CASE StopClean(c)
      <4>1. Goto(c, Stopped(c, TRUE))
        BY <3>5 DEF StopClean
      <4>2. Stopped(c, TRUE).at = "stopped" /\ Stopped(c, TRUE).on = caller[c].on
        BY <3>1
      <4>3. QED  BY <4>1, <4>2 DEF InStop
    <3>6. QED  BY <1>7, <3>2, <3>3, <3>4, <3>5
  <2>6. PICK p : /\ Goto(c, p) /\ p.at \in InStop /\ p.on = caller[c].on
                 /\ p.at = "clear" => ~Alive(caller[c].on)
    BY <2>5
  <2>7. Kept(p)
    BY <1>0, <2>1, <2>6 DEF Kept, OnService
  <2>8. QED  BY <1>2, <1>m, <2>3, <2>4, <2>6, <2>7
<1>8. ASSUME NEW s \in Services, WorkerStep(s) PROVE Drained'
  <2>1. UNCHANGED <<runtime, caller>>
    BY <1>8 DEF WorkerStep, WorkerTop, WorkerRan, WorkerTouch
  <2>2. Owning'
    <3> SUFFICES ASSUME NEW r \in Services
                 PROVE  /\ Alive(r)' => svc'[r].ref /\ svc'[r].started
                        /\ svc'[r].trigger => svc'[r].started
      BY DEF Owning
    <3>1. QED  BY <1>0, <1>8, WorkerEffect DEF Owning, Alive
  <2>3. (service \in Services => Born(service))'
    BY <1>0, <1>1, <2>1 DEF runtime, Born
  <2>4. QED  BY <2>1, <2>2, <2>3, <1>k
<1>9. CASE UNCHANGED vars
  <2>1. Owning' /\ (service \in Services => Born(service))'
    BY <1>0, <1>3, <1>9 DEF vars, Born
  <2>2. QED  BY <1>9, <2>1, <1>k DEF vars
<1>10. QED
  BY <1>4, <1>5, <1>6, <1>7, <1>8, <1>9 DEF Next, Proceed

(* Whoever stops a service, and whoever else does, it is not taken for      *)
(* stopped before its thread is gone and its trigger has stopped.           *)
THEOREM CleanStopIsDrained == Spec => []CleanStopDrained
<1>1. Init => Drained
  <2> SUFFICES ASSUME Init PROVE Drained
    OBVIOUS
  <2>1. TypeOK
    BY DEF Init, TypeOK, Object, Place, InStop, Unborn, NoHeartbeat, Idle, NoService
  <2>2. Owning /\ ~(service \in Services) /\ \A c \in Callers : Kept(caller[c])
    BY DEF Init, Owning, Unborn, Alive, Kept, Idle, OnService, InStop, NoService, Services
  <2>3. QED  BY <2>1, <2>2 DEF Drained
<1>2. Drained => CleanStopDrained
  BY DEF Drained, Owning, CleanStopDrained
<1>3. QED  BY <1>1, <1>2, DrainedStep, PTL DEF Spec

-----------------------------------------------------------------------------
(* A service that has been told to stop and has lost its trigger stays so.  *)
Wound(s) == svc[s].stop /\ ~svc[s].trigger

LEMMA WoundForGood ==
  ASSUME TypeOK, [Next]_vars, NEW s \in Services
  PROVE  (svc[s].stop => svc'[s].stop) /\ (Wound(s) => Wound(s)')
<1>0. svc[s] \in Object /\ svc \in [Services -> Object]
  BY DEF TypeOK
<1>1. ASSUME NEW c \in Callers, StopBegin(c) \/ Joined(c) \/ JoinTimeout(c) \/ StopClean(c)
      PROVE (svc[s].stop => svc'[s].stop) /\ (svc'[s].trigger => svc[s].trigger)
  BY <1>1, StopEffect
<1>2. ASSUME NEW r \in Services, WorkerStep(r)
      PROVE svc'[s].stop = svc[s].stop /\ svc'[s].trigger = svc[s].trigger
  BY <1>0, <1>2 DEF WorkerStep, WorkerTop, WorkerRan, WorkerTouch, Object
<1>3. ASSUME NEW c \in Callers, Launch(c), svc[s].stop PROVE svc'[s] = svc[s]
  BY <1>0, <1>3 DEF Launch, Fresh, Unborn
<1>4. QED
  BY <1>1, <1>2, <1>3
     DEF Wound, Next, Proceed, StartBegin, PauseBegin, Look, StartDegraded, OldStopped,
         LoadRejected, StartRaises, Install, Honoured, PauseEnd, MarkOrphan, JoinRaises, vars

(* A stop that fails has wound its service down before it says so, and a    *)
(* pause that has taken the service out of the runtime puts it back.        *)
WindingAt(p) ==
  /\ p.at = "join" => svc[p.on].stop
  /\ p.at = "mark" \/ (p.at = "stopped" /\ ~p.clean) => Wound(p.on)
  /\ p.for = "pause" \/ (status = "degraded" => service \in Services /\ Wound(service))
  /\ p.at = "idle" => p = Idle
  /\ p.at \in OnService => p.on \in Services

Winding == \A c \in Callers : WindingAt(caller[c])

(* With one caller, no step breaks it.                                      *)
LEMMA WindingStep == OneCaller /\ Serial /\ Winding /\ [Next]_vars => Winding'
<1> SUFFICES ASSUME OneCaller, Serial, Winding, [Next]_vars PROVE Winding'
  OBVIOUS
<1>0. /\ TypeOK /\ svc \in [Services -> Object] /\ NoService \notin Services
      /\ \A c \in Callers : /\ Callers = {c} /\ caller[c] \in Place
                            /\ WindingAt(caller[c]) /\ Reached(caller[c])
  BY DEF OneCaller, Serial, Winding, TypeOK, NoService, Services
<1>1. \A s \in Services : (svc[s].stop => svc'[s].stop) /\ (Wound(s) => Wound(s)')
  BY <1>0, WoundForGood
<1>m. ASSUME NEW c \in Callers, NEW p, Goto(c, p), WindingAt(p)' PROVE Winding'
  BY <1>0, <1>m DEF Goto, TypeOK, Winding
<1>k. ASSUME NEW c \in Callers, UNCHANGED caller, WindingAt(caller[c])' PROVE Winding'
  BY <1>0, <1>k DEF Winding
<1>2. ASSUME NEW c \in Callers, StartBegin(c) \/ PauseBegin(c) \/ Look(c) PROVE Winding'
  <2>1. caller[c] = Idle /\ WindingAt(Idle) /\ Reached(Idle)
    BY <1>0, <1>2 DEF StartBegin, PauseBegin, Look
  <2>2. status = "degraded" => service \in Services /\ Wound(service)
    BY <2>1 DEF WindingAt, Idle
  <2>3. CASE UNCHANGED <<caller, status, service>>
    <3>1. WindingAt(Idle)'
      BY <1>1, <2>2, <2>3 DEF WindingAt, Idle, OnService, InStop
    <3>2. QED  BY <2>1, <2>3, <3>1, <1>k
  <2>4. CASE PauseBegin(c) /\ service = NoService
    <3>1. UNCHANGED caller /\ status' # "degraded"
      BY <1>0, <2>2, <2>4 DEF PauseBegin
    <3>2. WindingAt(Idle)'
      BY <3>1 DEF WindingAt, Idle, OnService, InStop
    <3>3. QED  BY <2>1, <3>1, <3>2, <1>k
  <2>5. CASE PauseBegin(c) /\ service # NoService
    <3>1. PICK p : p = At("stop", "pause", service)
      OBVIOUS
    <3>2. Goto(c, p) /\ WindingAt(p)'
      BY <1>0, <2>5, <3>1 DEF PauseBegin, WindingAt, At, OnService, InStop, TypeOK
    <3>3. QED  BY <3>2, <1>m
  <2>6. CASE StartBegin(c) /\ ~UNCHANGED caller
    <3>1. PICK p : p = IF service = NoService THEN At("load", "start", NoService)
                       ELSE At("stop", "start", service)
      OBVIOUS
    <3>2. Goto(c, p) /\ UNCHANGED <<status, service>>
      BY <2>6, <3>1 DEF StartBegin
    <3>3. WindingAt(p)'
      BY <1>0, <1>1, <2>2, <3>1, <3>2 DEF WindingAt, At, OnService, InStop, TypeOK
    <3>4. QED  BY <3>2, <3>3, <1>m
  <2>7. QED  BY <1>2, <2>3, <2>4, <2>5, <2>6 DEF StartBegin, Look
<1>3. ASSUME NEW c \in Callers, StartDegraded(c) \/ PauseEnd(c) \/ Honoured(c) PROVE Winding'
  <2>1. WindingAt(caller[c]) /\ Reached(caller[c]) /\ caller[c] \in Place
    BY <1>0
  <2>2. Goto(c, Idle)
    BY <1>3 DEF StartDegraded, PauseEnd, Honoured
  <2>3. WindingAt(Idle)'
    BY <1>1, <1>3, <2>1
       DEF StartDegraded, PauseEnd, Honoured, WindingAt, Idle, Place, OnService, InStop
  <2>4. QED  BY <2>2, <2>3, <1>m
<1>4. ASSUME NEW c \in Callers, LoadRejected(c) \/ StartRaises(c) PROVE Winding'
  <2>1. WindingAt(caller[c]) /\ Reached(caller[c])
    BY <1>0
  <2>2. Goto(c, Idle)
    BY <1>4 DEF LoadRejected, StartRaises
  <2>3. WindingAt(Idle)'
    BY <1>1, <1>4, <2>1
       DEF LoadRejected, StartRaises, WindingAt, Reached, Idle, OnService, InStop
  <2>4. QED  BY <2>2, <2>3, <1>m
<1>5. ASSUME NEW c \in Callers, OldStopped(c) PROVE Winding'
  <2>1. WindingAt(caller[c])
    BY <1>0
  <2>2. WindingAt(At("load", "start", NoService))'
    BY <1>1, <1>5, <2>1 DEF OldStopped, WindingAt, At, OnService, InStop
  <2>3. QED  BY <1>5, <2>2, <1>m DEF OldStopped
<1>6. ASSUME NEW c \in Callers, Launch(c) PROVE Winding'
  <2>1. WindingAt(caller[c]) /\ Reached(caller[c])
    BY <1>0
  <2>2. PICK s \in Services : Goto(c, At("install", "start", s))
    BY <1>6 DEF Launch, Fresh
  <2>3. WindingAt(At("install", "start", s))'
    BY <1>1, <1>6, <2>1 DEF Launch, WindingAt, Reached, At, OnService, InStop
  <2>4. QED  BY <2>2, <2>3, <1>m
<1>7. ASSUME NEW c \in Callers, Install(c) PROVE Winding'
  <2>1. WindingAt(caller[c]) /\ caller[c].at = "install" /\ caller[c].on \in Services
    BY <1>0, <1>7 DEF Install, Reached, OnService
  <2>2. PICK p : p = IF pending = "pausing" THEN At("stop", "honour", caller[c].on) ELSE Idle
    OBVIOUS
  <2>3. Goto(c, p) /\ status' # "degraded"
    BY <1>7, <2>2 DEF Install
  <2>4. WindingAt(p)'
    BY <2>1, <2>2, <2>3 DEF WindingAt, At, Idle, OnService, InStop
  <2>5. QED  BY <2>3, <2>4, <1>m
<1>8. ASSUME NEW c \in Callers,
             StopBegin(c) \/ Joined(c) \/ JoinTimeout(c) \/ MarkOrphan(c) \/ StopClean(c)
      PROVE Winding'
  <2>1. /\ WindingAt(caller[c]) /\ caller[c] \in Place /\ caller[c].at \in InStop
        /\ caller[c].on \in Services
    BY <1>0, <1>8
       DEF StopBegin, Joined, JoinTimeout, MarkOrphan, StopClean, InStop, Reached, OnService
  <2>2. UNCHANGED <<status, service>>
    BY <1>8 DEF StopBegin, Joined, JoinTimeout, MarkOrphan, StopClean, runtime
  <2>3. ASSUME NEW p \in Place, Goto(c, p), p.on = caller[c].on, p.for = caller[c].for,
               p.at \in InStop,
               p.at = "join" => svc'[p.on].stop,
               p.at = "mark" \/ (p.at = "stopped" /\ ~p.clean) => Wound(p.on)'
        PROVE Winding'
    <3>1. WindingAt(p)'
      BY <1>1, <2>1, <2>2, <2>3 DEF WindingAt, OnService, InStop
    <3>2. QED  BY <2>3, <3>1, <1>m
  <2>4. CASE StopBegin(c)
    <3>1. CASE ~svc[caller[c].on].started /\ ~svc[caller[c].on].stopFailed
      <4>1. PICK p : p = Stopped(c, TRUE)
        OBVIOUS
      <4>2. p \in Place /\ p.on = caller[c].on /\ p.for = caller[c].for /\ p.at = "stopped" /\ p.clean
        BY <2>1, <4>1 DEF Stopped, Place
      <4>3. Goto(c, p)
        BY <2>4, <3>1, <4>1 DEF StopBegin
      <4>4. QED  BY <2>3, <4>2, <4>3 DEF InStop
    <3>2. CASE svc[caller[c].on].started \/ svc[caller[c].on].stopFailed
      <4>1. PICK p : p = [caller[c] EXCEPT !.at = IF svc[caller[c].on].ref THEN "join" ELSE "clear"]
        OBVIOUS
      <4>2. p \in Place /\ p.on = caller[c].on /\ p.for = caller[c].for /\ p.at \in {"join", "clear"}
        BY <2>1, <4>1 DEF Place
      <4>3. Goto(c, p) /\ svc' = [svc EXCEPT ![caller[c].on].stop = TRUE]
        BY <2>4, <3>2, <4>1 DEF StopBegin
      <4>4. svc'[caller[c].on].stop
        BY <1>0, <2>1, <4>3 DEF Object
      <4>5. QED  BY <2>3, <4>2, <4>3, <4>4 DEF InStop
    <3>3. QED  BY <3>1, <3>2
  <2>5. CASE Joined(c)
    <3>1. PICK p : p = [caller[c] EXCEPT !.at = "clear"]
      OBVIOUS
    <3>2. p \in Place /\ p.on = caller[c].on /\ p.for = caller[c].for /\ p.at = "clear"
      BY <2>1, <3>1 DEF Place
    <3>3. QED  BY <2>3, <2>5, <3>1, <3>2 DEF Joined, InStop
  <2>6. CASE JoinTimeout(c)
    <3>1. PICK p : p = [caller[c] EXCEPT !.at = "mark"]
      OBVIOUS
    <3>2. p \in Place /\ p.on = caller[c].on /\ p.for = caller[c].for /\ p.at = "mark"
      BY <2>1, <3>1 DEF Place
    <3>3. /\ svc[caller[c].on].stop
          /\ svc'[caller[c].on] = [svc[caller[c].on] EXCEPT !.stopFailed = TRUE, !.trigger = FALSE]
      BY <1>0, <2>1, <2>6 DEF JoinTimeout, WindingAt, Object
    <3>4. svc'[p.on].stop /\ ~svc'[p.on].trigger
      <4>1. svc[caller[c].on] \in Object
        BY <1>0, <2>1
      <4>2. QED  BY <3>2, <3>3, <4>1 DEF Object
    <3>5. Goto(c, p) /\ Wound(p.on)'
      BY <2>6, <3>1, <3>4 DEF JoinTimeout, Wound
    <3>6. QED  BY <2>3, <3>2, <3>5 DEF InStop
  <2>7. CASE MarkOrphan(c)
    <3>1. PICK p : p = Stopped(c, FALSE)
      OBVIOUS
    <3>2. p \in Place /\ p.on = caller[c].on /\ p.for = caller[c].for /\ p.at = "stopped"
      BY <2>1, <3>1 DEF Stopped, Place
    <3>3. svc'[p.on].stop /\ ~svc'[p.on].trigger
      BY <1>1, <2>1, <2>7, <3>2 DEF MarkOrphan, WindingAt, Wound
    <3>4. Goto(c, p) /\ Wound(p.on)'
      BY <2>7, <3>1, <3>3 DEF MarkOrphan, Wound
    <3>5. QED  BY <2>3, <3>2, <3>4 DEF InStop
  <2>8. CASE StopClean(c)
    <3>1. PICK p : p = Stopped(c, TRUE)
      OBVIOUS
    <3>2. /\ p \in Place /\ p.on = caller[c].on /\ p.for = caller[c].for
          /\ p.at = "stopped" /\ p.clean
      BY <2>1, <3>1 DEF Stopped, Place
    <3>3. QED  BY <2>3, <2>8, <3>1, <3>2 DEF StopClean, InStop
  <2>9. QED  BY <1>8, <2>4, <2>5, <2>6, <2>7, <2>8
<1>9. ASSUME NEW c \in Callers, JoinRaises(c) PROVE FALSE
  BY <1>0, <1>9 DEF JoinRaises, Reached
<1>10. CASE (\E s \in Services : WorkerStep(s)) \/ UNCHANGED vars
  <2>1. PICK c \in Callers : Callers = {c}
    BY DEF OneCaller
  <2>2. UNCHANGED <<status, service, caller>>
    BY <1>10 DEF WorkerStep, WorkerTop, WorkerRan, WorkerTouch, runtime, vars
  <2>3. WindingAt(caller[c])'
    BY <1>0, <1>1, <2>1, <2>2 DEF WindingAt, OnService, InStop
  <2>4. QED  BY <2>2, <2>3, <1>k
<1>11. QED
  BY <1>2, <1>3, <1>4, <1>5, <1>6, <1>7, <1>8, <1>9, <1>10 DEF Next, Proceed

(* A degraded pipeline, with nothing under way, keeps a service that has    *)
(* been told to stop and is fed by no trigger.                              *)
THEOREM DegradedMeansWindingDown == OneCaller => (Spec => []DegradedWindsDown)
<1> SUFFICES ASSUME OneCaller PROVE Spec => []DegradedWindsDown
  OBVIOUS
<1>1. Init => Winding
  <2> SUFFICES ASSUME Init, NEW c \in Callers PROVE WindingAt(Idle) /\ caller[c] = Idle
    BY DEF Winding
  <2>1. caller[c] = Idle /\ status # "degraded"
    BY DEF Init
  <2>2. QED  BY <2>1 DEF WindingAt, Idle, OnService, InStop
<1>2. Winding => DegradedWindsDown
  BY DEF OneCaller, Winding, WindingAt, Wound, DegradedWindsDown, AllIdle, Idle
<1>3. QED  BY <1>1, <1>2, WindingStep, AlwaysSerial, PTL DEF Spec
=============================================================================
