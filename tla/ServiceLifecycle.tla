--------------------------- MODULE ServiceLifecycle ---------------------------
(* Starting and stopping the services (src/modbus_service_tcp.c and           *)
(* src/modbus_service_rtu.c): one static pointer per transport says whether   *)
(* it listens, a start that is given fields keeps them in one static struct,  *)
(* one that is given a struct uses that, and every connection copies what it  *)
(* needs when it is accepted (modbus_service_create).                         *)
EXTENDS Integers, FiniteSets

CONSTANTS
  Objects,    \* the application's own modbus_service_args_t
  Memories,   \* the memories there are to serve
  Peers,      \* the tcp connections there may be at a time
  Sources,    \* bound: the event sources there may be of listeners
  None        \* model value

Transports == {"tcp", "rtu"}
Statics == {"static tcp", "static rtu"}
Static(t) == IF t = "tcp" THEN "static tcp" ELSE "static rtu"
Args == Objects \cup Statics
Line == "line"     \* the serial line, of which there is one service
Streams == Peers \cup {Line}

ASSUME LifecycleAssumption ==
  /\ Memories # {} /\ Sources # {}
  /\ None \notin Sources /\ Line \notin Peers
  /\ Objects \cap Statics = {}

(* onLine (not in the code): a serial start was given the struct since it was *)
(* set up                                                                     *)
Settings == [memory : Memories, shared : BOOLEAN, onLine : BOOLEAN]

(* Not in the code: started, the memory the start that made the listener asked *)
(* for, and origin, how it was started, "overruled" once it was by fields and *)
(* another start by fields has been refused since                             *)
Origins == {"fields", "args", "overruled"}
Listener == [transport : Transports, args : Args, started : Memories,
             origin : Origins, dying : BOOLEAN]

(* started, origin: as in the listener when it accepted the connection *)
Service == [memory : Memories, shared : BOOLEAN, onLine : BOOLEAN,
            started : Memories, origin : Origins, open : BOOLEAN]

ASSUME LifecycleModelValues == None \notin Listener /\ None \notin Service

VARIABLES
  args,      \* the memory and is_shared_transport of each args struct
  source,    \* s_service_source of each of the two files
  listener,  \* the sources there are; dying: removed, not yet destroyed
  service,   \* the services there are, by the stream they serve
  wanted     \* transports the application has started and not stopped

vars == <<args, source, listener, service, wanted>>

Fresh(m) == [memory |-> m, shared |-> FALSE, onLine |-> FALSE]

Init ==
  /\ \E m \in Memories : args = [a \in Args |-> Fresh(m)]
  /\ source = [t \in Transports |-> None]
  /\ listener = [s \in Sources |-> None]
  /\ service = [k \in Streams |-> None]
  /\ wanted = {}

InUse(o) == \E s \in Sources : listener[s] # None /\ listener[s].args = o

----------------------------------------------------------------------------
(* Starting. *)

(* The application fills its own struct in, unless a listener keeps a pointer *)
(* to it.                                                                     *)
Prepare(o, m) ==
  /\ ~InUse(o)
  /\ args' = [args EXCEPT ![o] = Fresh(m)]
  /\ UNCHANGED <<source, listener, service, wanted>>

(* Slip: is_shared_transport is set by both starts. *)
AlwaysShared(t, set) == TRUE

(* Slip: is_shared_transport is left to the caller. *)
NeverShared(t, set) == set.shared

SharedOn(t, set) == t = "rtu" \/ set.shared

(* Slip: the new service is not given the memory. *)
NewServiceUnset(set, m, from) ==
  [memory |-> None, shared |-> set.shared, onLine |-> set.onLine,
   started |-> m, origin |-> from, open |-> TRUE]

NewService(set, m, from) ==
  [memory |-> set.memory, shared |-> set.shared, onLine |-> set.onLine,
   started |-> m, origin |-> from, open |-> TRUE]

(* The struct of a start that is refused, and of one that goes on. *)
Given(t, set) == [set EXCEPT !.onLine = @ \/ t = "rtu"]
Ready(t, set) == [Given(t, set) EXCEPT !.shared = SharedOn(t, set)]

Made(t, a, set, how) ==
  [transport |-> t, args |-> a, started |-> set.memory, origin |-> how, dying |-> FALSE]

Overruled(l, how) ==
  [l EXCEPT !.origin = IF @ = "fields" /\ how = "fields" THEN "overruled" ELSE @]

(* modbus_service_*_start_impl with args a, which hold set.  The port or the  *)
(* device may not be had, and the application may refuse a serial line in     *)
(* on_connected; a serial line has its service at once.                       *)
StartImpl(t, a, set, how) ==
  IF source[t] # None
  THEN /\ args' = [args EXCEPT ![a] = Given(t, set)]
       /\ listener' = [listener EXCEPT ![source[t]] = Overruled(@, how)]
       /\ UNCHANGED <<source, service, wanted>>
  ELSE /\ args' = [args EXCEPT ![a] = Ready(t, set)]
       /\ \/ UNCHANGED <<source, listener, service, wanted>>
          \/ \E s \in Sources :
               /\ listener[s] = None
               /\ source' = [source EXCEPT ![t] = s]
               /\ listener' = [listener EXCEPT ![s] = Made(t, a, set, how)]
               /\ service' = IF t = "tcp" THEN service
                             ELSE [service EXCEPT ![Line] =
                                     NewService(Ready(t, set), set.memory, how)]
               /\ wanted' = wanted \cup {t}

(* modbus_service_*_start: the fields go to the static struct before anything *)
(* is checked.                                                                *)
StartByFields(t, m) ==
  StartImpl(t, Static(t), [args[Static(t)] EXCEPT !.memory = m], "fields")

(* Slip: the struct is copied into the static one. *)
StartByArgsCopied(t, o) ==
  StartImpl(t, Static(t),
            [args[Static(t)] EXCEPT !.memory = args[o].memory, !.shared = args[o].shared],
            "args")

(* modbus_service_*_start_by_args *)
StartByArgs(t, o) == StartImpl(t, o, args[o], "args")

----------------------------------------------------------------------------
(* Serving. *)

(* modbus_service_create for a new connection.  That the application refuses  *)
(* it in on_connected changes nothing: the service is destroyed again.        *)
Accept(p, s) ==
  /\ listener[s] # None /\ listener[s].transport = "tcp" /\ ~listener[s].dying
  /\ service[p] = None
  /\ service' = [service EXCEPT ![p] =
       NewService(args[listener[s].args], listener[s].started, listener[s].origin)]
  /\ UNCHANGED <<args, source, listener, wanted>>

(* The connection or the line fails: external. *)
Break(k) ==
  /\ service[k] # None /\ service[k].open
  /\ service' = [service EXCEPT ![k].open = FALSE]
  /\ UNCHANGED <<args, source, listener, wanted>>

(* The source is destroyed, and a serial line's service with it;              *)
(* on_service_source_destroy does not look at which source it was.            *)
Destroy(s) ==
  /\ listener' = [listener EXCEPT ![s] = None]
  /\ source' = [source EXCEPT ![listener[s].transport] = None]
  /\ service' = IF listener[s].transport = "rtu" THEN [service EXCEPT ![Line] = None]
                ELSE service

(* A service ends; that of the line does with its source. *)
EndService(k) ==
  IF k = Line
  THEN \E s \in Sources :
         listener[s] # None /\ listener[s].transport = "rtu" /\ Destroy(s)
  ELSE /\ service' = [service EXCEPT ![k] = None]
       /\ UNCHANGED <<source, listener>>

(* modbus_service_dispatch meets the failure: RET_REMOVE ends the service,    *)
(* flushing lets a shared line go on, and leaves a connection broken.         *)
DispatchBroken(k) ==
  /\ service[k] # None /\ ~service[k].open
  /\ IF service[k].shared
     THEN /\ service' = [service EXCEPT ![k].open = (k = Line)]
          /\ UNCHANGED <<source, listener>>
     ELSE EndService(k)
  /\ UNCHANGED <<args, wanted>>

----------------------------------------------------------------------------
(* Stopping. *)

(* Slip: the pointer is cleared when the source is removed. *)
StopForgets(t) ==
  /\ source[t] # None /\ ~listener[source[t]].dying
  /\ \/ Destroy(source[t])
     \/ /\ listener' = [listener EXCEPT ![source[t]].dying = TRUE]
        /\ source' = [source EXCEPT ![t] = None]
        /\ UNCHANGED service
  /\ wanted' = wanted \ {t}
  /\ UNCHANGED args

(* modbus_service_*_stop.  A source removed while the event loop dispatches   *)
(* is destroyed later; until then it counts as started.                       *)
Stop(t) ==
  /\ source[t] # None /\ ~listener[source[t]].dying
  /\ \/ Destroy(source[t])
     \/ /\ listener' = [listener EXCEPT ![source[t]].dying = TRUE]
        /\ UNCHANGED <<source, service>>
  /\ wanted' = wanted \ {t}
  /\ UNCHANGED args

(* The event loop drops its last reference: external. *)
Destroyed(s) ==
  /\ listener[s] # None /\ listener[s].dying
  /\ Destroy(s)
  /\ UNCHANGED <<args, wanted>>

(* event_source_manager_destroy: every source, and every service with its.    *)
LoopDestroyed ==
  /\ listener' = [s \in Sources |-> None]
  /\ service' = [k \in Streams |-> None]
  /\ source' = [t \in Transports |->
       IF \E s \in Sources : listener[s] # None /\ listener[s].transport = t
       THEN None ELSE source[t]]
  /\ wanted' = {}
  /\ UNCHANGED args

----------------------------------------------------------------------------
Next ==
  \/ \E o \in Objects, m \in Memories : Prepare(o, m)
  \/ \E t \in Transports, m \in Memories : StartByFields(t, m)
  \/ \E t \in Transports, o \in Objects : StartByArgs(t, o)
  \/ \E p \in Peers, s \in Sources : Accept(p, s)
  \/ \E k \in Streams : Break(k) \/ DispatchBroken(k)
  \/ \E t \in Transports : Stop(t)
  \/ \E s \in Sources : Destroyed(s)
  \/ LoopDestroyed

Spec == Init /\ [][Next]_vars

(* The event loop runs: it dispatches and destroys what was removed. *)
Fairness ==
  /\ \A k \in Streams : WF_vars(DispatchBroken(k))
  /\ \A s \in Sources : WF_vars(Destroyed(s))

FairSpec == Spec /\ Fairness

----------------------------------------------------------------------------
(* Properties *)

(* The structs, pointers, sources and services keep their types. *)
TypeOK ==
  /\ args \in [Args -> Settings]
  /\ source \in [Transports -> Sources \cup {None}]
  /\ listener \in [Sources -> Listener \cup {None}]
  /\ service \in [Streams -> Service \cup {None}]
  /\ wanted \subseteq Transports

(* s_service_source names exactly the sources there are: none is forgotten    *)
(* (it could not be stopped, and a second start would find its port taken or  *)
(* serve the line twice) and none is used after it was destroyed, though stop *)
(* may only mark it and the destroy handler clears the pointer unseen.        *)
SourcesAreTracked ==
  \A t \in Transports, s \in Sources :
    source[t] = s <=> listener[s] # None /\ listener[s].transport = t

(* Every connection is served the memory that the start which made its        *)
(* listener asked for: by fields, kept in one struct for all such starts, or  *)
(* by args, kept where the application has them; over stops, failed starts    *)
(* and new listeners, and unless another start by fields was refused while it *)
(* listened (RefusedStartIsVoid).                                             *)
ServedAsStarted ==
  \A k \in Streams : service[k] # None /\ service[k].origin # "overruled"
                      => service[k].memory = service[k].started

(* A start that is refused because there is a listener (modbus_service_tcp.c: *)
(* 41, "limited to one call") does not change what that one serves.           *)
RefusedStartIsVoid ==
  \A k \in Streams : service[k] # None => service[k].memory = service[k].started

(* A broken tcp connection does not stay in the event loop, unless the        *)
(* application has given the struct of its listener to a serial start too     *)
(* without setting it up anew (is_shared_transport is set there and nowhere   *)
(* cleared, modbus_service_rtu.c:42).                                         *)
BrokenIsReleased ==
  \A p \in Peers :
    (service[p] # None /\ ~service[p].open /\ ~service[p].onLine) ~> service[p] = None

(* What the application has started and not stopped is there, and nothing     *)
(* else but what a stop has still to destroy: in particular no failure on a   *)
(* serial line, which nobody would open again, takes its service away.        *)
StartedStays ==
  \A t \in Transports :
    t \in wanted <=> \E s \in Sources :
      listener[s] # None /\ listener[s].transport = t /\ ~listener[s].dying
=============================================================================
