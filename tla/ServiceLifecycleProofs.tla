------------------------ MODULE ServiceLifecycleProofs ------------------------
(* Theorems about ServiceLifecycle, for every value of its constants. *)
EXTENDS ServiceLifecycle, TLAPS

(* A start that is refused, one that does not come about, and one that does. *)
Refused(t, a, set, how) ==
  /\ source[t] # None
  /\ args' = [args EXCEPT ![a] = Given(t, set)]
  /\ listener' = [listener EXCEPT ![source[t]] = Overruled(listener[source[t]], how)]
  /\ UNCHANGED <<source, service, wanted>>

Failed(t, a, set) ==
  /\ source[t] = None
  /\ args' = [args EXCEPT ![a] = Ready(t, set)]
  /\ UNCHANGED <<source, listener, service, wanted>>

Began(t, a, set, how, s) ==
  /\ source[t] = None /\ listener[s] = None
  /\ args' = [args EXCEPT ![a] = Ready(t, set)]
  /\ source' = [source EXCEPT ![t] = s]
  /\ listener' = [listener EXCEPT ![s] = Made(t, a, set, how)]
  /\ service' = IF t = "tcp" THEN service
                ELSE [service EXCEPT ![Line] = NewService(Ready(t, set), set.memory, how)]
  /\ wanted' = wanted \cup {t}

LEMMA StartCases ==
  ASSUME NEW t, NEW a, NEW set, NEW how, StartImpl(t, a, set, how)
  PROVE  \/ Refused(t, a, set, how) \/ Failed(t, a, set)
         \/ \E s \in Sources : Began(t, a, set, how, s)
<1>1. CASE source[t] # None
  <2>1. Refused(t, a, set, how)
    BY <1>1 DEF StartImpl, Refused
  <2> QED
    BY <2>1
<1>2. CASE source[t] = None
  BY <1>2, Zenon DEF StartImpl, Failed, Began
<1> QED
  BY <1>1, <1>2

(* Both ways to start, with what the start finds in the struct. *)
Starts(t, a, set, how) ==
  /\ t \in Transports /\ a \in Args /\ set \in Settings
  /\ \/ a = Static(t) /\ how = "fields"
     \/ a \in Objects /\ set = args[a] /\ how = "args"
  /\ StartImpl(t, a, set, how)

LEMMA StartByEither ==
  ASSUME TypeOK,
         \/ \E t \in Transports, m \in Memories : StartByFields(t, m)
         \/ \E t \in Transports, o \in Objects : StartByArgs(t, o)
  PROVE  \E t, a, set, how : Starts(t, a, set, how)
<1>1. ASSUME NEW t \in Transports, NEW m \in Memories, StartByFields(t, m)
      PROVE  \E u, a, set, how : Starts(u, a, set, how)
  <2>1. Static(t) \in Args
    BY DEF Static, Args, Statics, Transports
  <2>2. args[Static(t)] \in Settings
    BY <2>1 DEF TypeOK
  <2>3. [args[Static(t)] EXCEPT !.memory = m] \in Settings
    BY <2>2 DEF Settings
  <2>4. Starts(t, Static(t), [args[Static(t)] EXCEPT !.memory = m], "fields")
    BY <1>1, <2>1, <2>3 DEF Starts, StartByFields
  <2> QED
    BY <2>4
<1>2. ASSUME NEW t \in Transports, NEW o \in Objects, StartByArgs(t, o)
      PROVE  \E u, a, set, how : Starts(u, a, set, how)
  <2>1. o \in Args /\ args[o] \in Settings
    BY DEF Args, TypeOK
  <2>2. Starts(t, o, args[o], "args")
    BY <1>2, <2>1 DEF Starts, StartByArgs
  <2> QED
    BY <2>2
<1> QED
  BY <1>1, <1>2

(* -------------------------- types and the pointers ------------------------- *)

(* A serial line is shared from the moment it has a service. *)
LineInv == service[Line] # None => service[Line].shared = TRUE

BaseInv == TypeOK /\ SourcesAreTracked /\ LineInv /\ StartedStays

LEMMA ReadyType ==
  ASSUME NEW t, NEW set \in Settings
  PROVE  /\ Given(t, set) \in Settings /\ Given(t, set).memory = set.memory
         /\ Ready(t, set) \in Settings /\ Ready(t, set).memory = set.memory
         /\ Ready(t, set).shared = (t = "rtu" \/ set.shared)
<1>1. (set.onLine \/ t = "rtu") \in BOOLEAN /\ (t = "rtu" \/ set.shared) \in BOOLEAN
  OBVIOUS
<1>2. Given(t, set) \in Settings /\ Given(t, set).memory = set.memory
  BY <1>1 DEF Given, Settings
<1>3. /\ Ready(t, set) \in Settings /\ Ready(t, set).memory = Given(t, set).memory
      /\ Ready(t, set).shared = (t = "rtu" \/ set.shared)
  BY <1>1, <1>2 DEF Ready, Settings, SharedOn
<1> QED
  BY <1>2, <1>3

LEMMA NewServiceType ==
  ASSUME NEW set \in Settings, NEW m \in Memories, NEW from \in Origins
  PROVE  /\ NewService(set, m, from) \in Service /\ NewService(set, m, from) # None
         /\ NewService(set, m, from).shared = set.shared
         /\ NewService(set, m, from).memory = set.memory
         /\ NewService(set, m, from).started = m
         /\ NewService(set, m, from).origin = from
<1>1. NewService(set, m, from) \in Service
  BY DEF NewService, Service, Settings
<1>2. NewService(set, m, from) # None
  BY <1>1, LifecycleModelValues
<1> QED
  BY <1>1, <1>2 DEF NewService

LEMMA MadeType ==
  ASSUME NEW t \in Transports, NEW a \in Args, NEW set \in Settings, NEW how \in Origins
  PROVE  /\ Made(t, a, set, how) \in Listener /\ Made(t, a, set, how) # None
         /\ Made(t, a, set, how).transport = t /\ Made(t, a, set, how).args = a
         /\ Made(t, a, set, how).started = set.memory /\ ~Made(t, a, set, how).dying
         /\ Made(t, a, set, how).origin = how
<1>1. Made(t, a, set, how) \in Listener
  BY DEF Made, Listener, Settings
<1>2. Made(t, a, set, how) # None
  BY <1>1, LifecycleModelValues
<1> QED
  BY <1>1, <1>2 DEF Made

LEMMA OverruledType ==
  ASSUME NEW l \in Listener, NEW how
  PROVE  /\ Overruled(l, how) \in Listener /\ Overruled(l, how) # None
         /\ Overruled(l, how).transport = l.transport /\ Overruled(l, how).args = l.args
         /\ Overruled(l, how).started = l.started /\ Overruled(l, how).dying = l.dying
         /\ Overruled(l, how).origin = IF l.origin = "fields" /\ how = "fields"
                                       THEN "overruled" ELSE l.origin
<1>1. (IF l.origin = "fields" /\ how = "fields" THEN "overruled" ELSE l.origin) \in Origins
  BY DEF Listener, Origins
<1>2. Overruled(l, how) \in Listener
  BY <1>1 DEF Overruled, Listener
<1> QED
  BY <1>2, LifecycleModelValues DEF Overruled, Listener

LEMMA BaseInit == Init => BaseInv
BY LifecycleAssumption
DEF Init, Fresh, BaseInv, TypeOK, SourcesAreTracked, LineInv, StartedStays, Settings, Streams

LEMMA StartBase ==
  ASSUME BaseInv, NEW t, NEW a, NEW set, NEW how, Starts(t, a, set, how)
  PROVE  BaseInv'
<1>1. t \in Transports /\ a \in Args /\ set \in Settings /\ TypeOK /\ how \in Origins
  BY DEF Starts, BaseInv, Origins
<1>2. CASE Failed(t, a, set)
  <2>1. args' \in [Args -> Settings]
    BY <1>1, <1>2, ReadyType DEF Failed, TypeOK
  <2> QED
    BY <1>1, <1>2, <2>1
    DEF BaseInv, TypeOK, SourcesAreTracked, LineInv, StartedStays, Failed
<1>4. CASE Refused(t, a, set, how)
  <2> DEFINE q == source[t]
             now == Overruled(listener[q], how)
  <2>1. q \in Sources /\ listener[q] \in Listener /\ listener[q] # None
    BY <1>1, <1>4 DEF Refused, BaseInv, TypeOK, SourcesAreTracked
  <2>2. /\ now \in Listener /\ now # None
        /\ now.transport = listener[q].transport /\ now.dying = listener[q].dying
    BY <2>1, OverruledType
  <2>3. args' \in [Args -> Settings]
    BY <1>1, <1>4, ReadyType DEF Refused, TypeOK
  <2>4. listener' = [listener EXCEPT ![q] = now] /\ UNCHANGED <<source, service, wanted>>
    BY <1>4 DEF Refused
  <2> HIDE DEF q, now
  <2>5. TypeOK' /\ LineInv'
    BY <1>1, <2>1, <2>2, <2>3, <2>4 DEF BaseInv, TypeOK, LineInv
  <2>6. SourcesAreTracked'
    BY <1>1, <2>1, <2>2, <2>4 DEF BaseInv, TypeOK, SourcesAreTracked
  <2>7. StartedStays'
    BY <1>1, <2>1, <2>2, <2>4 DEF BaseInv, TypeOK, StartedStays
  <2> QED
    BY <2>5, <2>6, <2>7 DEF BaseInv
<1>3. ASSUME NEW s \in Sources, Began(t, a, set, how, s)
      PROVE  BaseInv'
  <2> DEFINE new == Made(t, a, set, how)
             srv == NewService(Ready(t, set), set.memory, how)
  <2>1. /\ new \in Listener /\ new # None /\ new.transport = t /\ ~new.dying
        /\ srv \in Service /\ srv # None
        /\ t = "rtu" => srv.shared = TRUE
    <3>1. set.memory \in Memories /\ Ready(t, set) \in Settings
      BY <1>1, ReadyType DEF Settings
    <3>2. t = "rtu" => Ready(t, set).shared = TRUE
      BY <1>1, ReadyType
    <3>3. new \in Listener /\ new # None /\ new.transport = t /\ ~new.dying
      BY <1>1, MadeType
    <3>4. srv \in Service /\ srv # None /\ srv.shared = Ready(t, set).shared
      BY <1>1, <3>1, NewServiceType
    <3> QED
      BY <3>2, <3>3, <3>4
  <2>2. /\ listener' = [listener EXCEPT ![s] = new]
        /\ source' = [source EXCEPT ![t] = s]
        /\ service' = IF t = "tcp" THEN service ELSE [service EXCEPT ![Line] = srv]
        /\ wanted' = wanted \cup {t} /\ source[t] = None /\ listener[s] = None
    BY <1>3 DEF Began
  <2>3. args' \in [Args -> Settings]
    BY <1>1, <1>3, ReadyType DEF Began, TypeOK
  <2> HIDE DEF new, srv
  <2>4. TypeOK'
    BY <1>1, <2>1, <2>2, <2>3 DEF TypeOK, Streams
  <2>5. SourcesAreTracked'
    BY <1>1, <2>1, <2>2, LifecycleAssumption DEF BaseInv, TypeOK, SourcesAreTracked
  <2>6. LineInv'
    BY <1>1, <2>1, <2>2 DEF BaseInv, TypeOK, LineInv, Streams, Transports
  <2>7. StartedStays'
    BY <1>1, <2>1, <2>2 DEF BaseInv, TypeOK, StartedStays
  <2> QED
    BY <2>4, <2>5, <2>6, <2>7 DEF BaseInv
<1> QED
  BY <1>2, <1>3, <1>4, StartCases DEF Starts

LEMMA PrepareBase ==
  ASSUME BaseInv, NEW o \in Objects, NEW m \in Memories, Prepare(o, m)
  PROVE  BaseInv'
BY DEF BaseInv, TypeOK, SourcesAreTracked, LineInv, StartedStays, Prepare, Fresh, Settings, Args

LEMMA AcceptBase ==
  ASSUME BaseInv, NEW p \in Peers, NEW s \in Sources, Accept(p, s)
  PROVE  BaseInv'
<1>1. listener[s] \in Listener /\ TypeOK
  BY DEF Accept, BaseInv, TypeOK
<1>2. NewService(args[listener[s].args], listener[s].started, listener[s].origin) \in Service
  BY <1>1, NewServiceType DEF TypeOK, Listener
<1>3. service' \in [Streams -> Service \cup {None}] /\ service'[Line] = service[Line]
  BY <1>1, <1>2, LifecycleAssumption DEF Accept, TypeOK, Streams
<1> QED
  BY <1>1, <1>3 DEF BaseInv, TypeOK, SourcesAreTracked, LineInv, StartedStays, Accept

LEMMA BreakBase ==
  ASSUME BaseInv, NEW k \in Streams, Break(k) \/ DispatchBroken(k)
  PROVE  BaseInv'
<1>1. service[k] \in Service /\ service[k] # None /\ TypeOK
  BY DEF Break, DispatchBroken, BaseInv, TypeOK
<1>2. ASSUME NEW b \in BOOLEAN, service' = [service EXCEPT ![k].open = b],
             UNCHANGED <<args, source, listener, wanted>>
      PROVE  BaseInv'
  <2> DEFINE now == [service[k] EXCEPT !.open = b]
  <2>1. now \in Service /\ now.shared = service[k].shared
    BY <1>1 DEF Service
  <2>2. service' = [service EXCEPT ![k] = now]
    BY <1>2
  <2> HIDE DEF now
  <2>3. TypeOK'
    BY <1>1, <1>2, <2>1, <2>2 DEF TypeOK
  <2>4. LineInv'
    BY <1>1, <2>1, <2>2 DEF BaseInv, TypeOK, LineInv, Streams
  <2> QED
    BY <1>2, <2>3, <2>4 DEF BaseInv, SourcesAreTracked, StartedStays
<1>3. CASE Break(k)
  BY <1>2, <1>3 DEF Break
<1>4. CASE DispatchBroken(k) /\ service[k].shared
  BY <1>2, <1>4 DEF DispatchBroken
<1>5. CASE DispatchBroken(k) /\ ~service[k].shared
  <2>1. k # Line
    BY <1>1, <1>5 DEF BaseInv, LineInv, DispatchBroken
  <2>2. service' = [service EXCEPT ![k] = None] /\ UNCHANGED <<args, source, listener, wanted>>
    BY <1>5, <2>1 DEF DispatchBroken, EndService
  <2> QED
    BY <1>1, <2>1, <2>2 DEF BaseInv, TypeOK, SourcesAreTracked, LineInv, StartedStays, Streams
<1> QED
  BY <1>3, <1>4, <1>5

(* Destroying the one source of its transport. *)
LEMMA DestroyTracked ==
  ASSUME BaseInv, NEW s \in Sources, listener[s] # None, Destroy(s)
  PROVE  /\ SourcesAreTracked' /\ LineInv'
         /\ source' \in [Transports -> Sources \cup {None}]
         /\ listener' \in [Sources -> Listener \cup {None}]
         /\ service' \in [Streams -> Service \cup {None}]
<1>1. listener[s] \in Listener /\ listener[s].transport \in Transports /\ TypeOK
  BY DEF BaseInv, TypeOK, Listener
<1>2. SourcesAreTracked'
  BY <1>1, LifecycleAssumption DEF BaseInv, TypeOK, SourcesAreTracked, Destroy
<1>3. LineInv'
  BY <1>1 DEF BaseInv, TypeOK, LineInv, Destroy, Streams
<1> QED
  BY <1>1, <1>2, <1>3 DEF TypeOK, Destroy, Streams

LEMMA StopBase ==
  ASSUME BaseInv, NEW t \in Transports, Stop(t)
  PROVE  BaseInv'
<1> DEFINE s == source[t]
<1>1. TypeOK /\ s \in Sources /\ listener[s] # None /\ listener[s].transport = t
      /\ listener[s] \in Listener
  BY DEF Stop, BaseInv, TypeOK, SourcesAreTracked
<1>2. \A r \in Sources : listener[r] # None /\ listener[r].transport = t => r = s
  BY DEF BaseInv, SourcesAreTracked
<1>3. wanted' = wanted \ {t} /\ args' = args
  BY DEF Stop
<1> HIDE DEF s
<1>4. CASE Destroy(s)
  <2>1. StartedStays'
    BY <1>1, <1>2, <1>3, <1>4 DEF BaseInv, TypeOK, StartedStays, Destroy
  <2> QED
    BY <1>1, <1>3, <1>4, <2>1, DestroyTracked DEF BaseInv, TypeOK
<1>5. CASE listener' = [listener EXCEPT ![s].dying = TRUE] /\ UNCHANGED <<source, service>>
  <2> DEFINE marked == [listener[s] EXCEPT !.dying = TRUE]
  <2>1. marked \in Listener /\ marked # None /\ marked.transport = t /\ marked.dying = TRUE
    BY <1>1, LifecycleModelValues DEF Listener
  <2>2. listener' = [listener EXCEPT ![s] = marked]
    BY <1>5
  <2> HIDE DEF marked
  <2>3. TypeOK'
    BY <1>1, <1>3, <1>5, <2>1, <2>2 DEF TypeOK
  <2>4. SourcesAreTracked'
    <3>1. \A r \in Sources : (listener'[r] # None /\ listener'[r].transport = t) <=> r = s
      BY <1>1, <1>2, <2>1, <2>2 DEF TypeOK
    <3>2. \A u \in Transports, r \in Sources : u # t =>
            ((listener'[r] # None /\ listener'[r].transport = u)
              <=> (listener[r] # None /\ listener[r].transport = u))
      BY <1>1, <2>1, <2>2 DEF TypeOK
    <3> QED
      BY <1>1, <1>5, <3>1, <3>2 DEF BaseInv, SourcesAreTracked, s
  <2>5. LineInv'
    BY <1>5 DEF BaseInv, LineInv
  <2>6. StartedStays'
    BY <1>1, <1>2, <1>3, <2>1, <2>2 DEF BaseInv, TypeOK, StartedStays
  <2> QED
    BY <2>3, <2>4, <2>5, <2>6 DEF BaseInv
<1> QED
  BY <1>4, <1>5 DEF Stop, s

LEMMA DestroyedBase ==
  ASSUME BaseInv, NEW s \in Sources, Destroyed(s)
  PROVE  BaseInv'
<1>1. listener[s] # None /\ listener[s].dying /\ Destroy(s) /\ UNCHANGED <<args, wanted>> /\ TypeOK
  BY DEF Destroyed, BaseInv
<1>2. StartedStays'
  BY <1>1 DEF BaseInv, TypeOK, StartedStays, Destroy
<1> QED
  BY <1>1, <1>2, DestroyTracked DEF BaseInv, TypeOK

LEMMA LoopDestroyedBase ==
  ASSUME BaseInv, LoopDestroyed
  PROVE  BaseInv'
<1>1. \A t \in Transports : source'[t] = None
  BY DEF BaseInv, TypeOK, SourcesAreTracked, LoopDestroyed
<1>2. source' \in [Transports -> Sources \cup {None}]
  BY DEF BaseInv, TypeOK, LoopDestroyed
<1> QED
  BY <1>1, <1>2, LifecycleAssumption
  DEF BaseInv, TypeOK, SourcesAreTracked, LineInv, StartedStays, LoopDestroyed, Streams

LEMMA BaseStep == BaseInv /\ [Next]_vars => BaseInv'
<1> SUFFICES ASSUME BaseInv, [Next]_vars PROVE BaseInv'
  OBVIOUS
<1>1. CASE UNCHANGED vars
  BY <1>1 DEF BaseInv, TypeOK, SourcesAreTracked, LineInv, StartedStays, vars
<1>2. CASE \/ \E t \in Transports, m \in Memories : StartByFields(t, m)
           \/ \E t \in Transports, o \in Objects : StartByArgs(t, o)
  BY <1>2, StartByEither, StartBase DEF BaseInv
<1> QED
  BY <1>1, <1>2, PrepareBase, AcceptBase, BreakBase, StopBase, DestroyedBase, LoopDestroyedBase
  DEF Next

LEMMA BaseInvariant == Spec => []BaseInv
BY BaseInit, BaseStep, PTL DEF Spec

(* The structs, pointers, sources and services keep their types (TypeOK).     *)
THEOREM TypeCorrect == Spec => []TypeOK
<1>1. BaseInv => TypeOK
  BY DEF BaseInv
<1> QED
  BY <1>1, BaseInvariant, PTL

(* s_service_source names exactly the sources there are (SourcesAreTracked),  *)
(* though a stop within a dispatch destroys its source only later and         *)
(* on_service_source_destroy clears the pointer whatever it points to.        *)
THEOREM SourcesTracked == Spec => []SourcesAreTracked
<1>1. BaseInv => SourcesAreTracked
  BY DEF BaseInv
<1> QED
  BY <1>1, BaseInvariant, PTL

(* What was started and not stopped is there (StartedStays): a failing serial *)
(* line does not take its service away.                                       *)
THEOREM StartedIsThere == Spec => []StartedStays
<1>1. BaseInv => StartedStays
  BY DEF BaseInv
<1> QED
  BY <1>1, BaseInvariant, PTL

(* ------------------------------ what is served ----------------------------- *)

Listens(s) == listener[s] # None /\ listener[s].transport = "tcp"

(* What a tcp listener that was not overruled was started with is what its    *)
(* struct holds: the static one, or one of the application's own.             *)
Holds(s) ==
  /\ \/ listener[s].args = "static tcp" /\ listener[s].origin = "fields"
     \/ listener[s].args \in Objects /\ listener[s].origin = "args"
  /\ args[listener[s].args].memory = listener[s].started

ServedInv ==
  /\ \A s \in Sources : Listens(s) /\ listener[s].origin # "overruled" => Holds(s)
  /\ ServedAsStarted

LEMMA ServedStart ==
  ASSUME BaseInv, ServedInv, NEW t, NEW a, NEW set, NEW how, Starts(t, a, set, how)
  PROVE  ServedInv'
<1>1. /\ t \in Transports /\ a \in Args /\ set \in Settings /\ TypeOK /\ how \in Origins
  BY DEF Starts, BaseInv, Origins
<1>0. \/ a = "static tcp" /\ how = "fields"
      \/ a \in Objects /\ how = "args"
      \/ t = "rtu"
  BY DEF Starts, Static, Transports
<1>2. /\ Given(t, set) \in Settings /\ Given(t, set).memory = set.memory
      /\ Ready(t, set) \in Settings /\ Ready(t, set).memory = set.memory
  BY <1>1, ReadyType
(* Such a start leaves the memory in the struct of a listener that it does not *)
(* overrule.                                                                  *)
<1>6. ASSUME NEW x \in {Given(t, set), Ready(t, set)}, args' = [args EXCEPT ![a] = x],
             NEW s \in Sources, Listens(s), Holds(s),
             source[t] = s => ~(listener[s].origin = "fields" /\ how = "fields")
      PROVE  args'[listener[s].args].memory = listener[s].started
  <2>1. x \in Settings /\ x.memory = set.memory
    BY <1>2, <1>6
  <2>2. listener[s] \in Listener /\ listener[s].args \in Args
    BY <1>1, <1>6 DEF TypeOK, Listens, Listener
  <2>3. "static tcp" \notin Objects /\ "static rtu" \notin Objects
    BY LifecycleAssumption DEF Statics
  <2>4. CASE a # listener[s].args
    BY <1>1, <1>6, <2>2, <2>4 DEF TypeOK, Holds
  <2>5. CASE a = listener[s].args /\ a \in Objects
    <3>1. set = args[a]
      BY <2>3, <2>5 DEF Starts, Static
    <3> QED
      BY <1>1, <1>6, <2>1, <2>5, <3>1 DEF TypeOK, Holds
  <2>6. CASE a = listener[s].args /\ a \notin Objects
    <3>1. a = "static tcp" /\ listener[s].origin = "fields" /\ how = "fields" /\ t = "tcp"
      BY <1>1, <1>6, <2>6 DEF Holds, Starts, Static, Transports
    <3>2. source["tcp"] = s
      BY <1>6 DEF Listens, BaseInv, SourcesAreTracked, Transports
    <3> QED
      BY <1>6, <3>1, <3>2
  <2> QED
    BY <2>4, <2>5, <2>6
<1>3. CASE Refused(t, a, set, how)
  <2> DEFINE q == source[t]
             now == Overruled(listener[q], how)
  <2>1. q \in Sources /\ listener[q] \in Listener /\ listener[q] # None
    BY <1>1, <1>3 DEF Refused, BaseInv, TypeOK, SourcesAreTracked
  <2>2. /\ now.transport = listener[q].transport /\ now.args = listener[q].args
        /\ now.started = listener[q].started
        /\ now.origin # "overruled" => /\ now.origin = listener[q].origin
                                      /\ ~(listener[q].origin = "fields" /\ how = "fields")
    BY <2>1, OverruledType
  <2>3. listener' = [listener EXCEPT ![q] = now] /\ service' = service
        /\ args' = [args EXCEPT ![a] = Given(t, set)]
    BY <1>3 DEF Refused
  <2> HIDE DEF now
  <2>4. ASSUME NEW s \in Sources, Listens(s)', listener'[s].origin # "overruled"
        PROVE  Holds(s)'
    <3>1. /\ listener[s] # None /\ listener'[s].transport = listener[s].transport
          /\ listener'[s].args = listener[s].args /\ listener'[s].started = listener[s].started
          /\ listener'[s].origin = listener[s].origin
          /\ source[t] = s => ~(listener[s].origin = "fields" /\ how = "fields")
      BY <1>1, <2>1, <2>2, <2>3, <2>4 DEF Listens, TypeOK
    <3>2. Listens(s) /\ Holds(s)
      BY <2>4, <3>1 DEF Listens, ServedInv
    <3>3. args'[listener[s].args].memory = listener[s].started
      BY <1>6, <2>3, <3>1, <3>2
    <3> QED
      BY <3>1, <3>2, <3>3 DEF Holds
  <2> QED
    BY <2>3, <2>4 DEF ServedInv, ServedAsStarted
<1>4. CASE Failed(t, a, set)
  <2>1. source[t] = None /\ UNCHANGED <<listener, service>>
        /\ args' = [args EXCEPT ![a] = Ready(t, set)]
    BY <1>4 DEF Failed
  <2>2. ASSUME NEW s \in Sources, Listens(s), Holds(s)
        PROVE  Holds(s)'
    <3>1. source[t] # s
      BY <2>1, LifecycleAssumption
    <3>2. args'[listener[s].args].memory = listener[s].started
      BY <1>6, <2>1, <2>2, <3>1
    <3> QED
      BY <2>1, <2>2, <3>2 DEF Holds
  <2> QED
    BY <2>1, <2>2 DEF ServedInv, ServedAsStarted, Listens
<1>5. ASSUME NEW r \in Sources, Began(t, a, set, how, r)
      PROVE  ServedInv'
  <2> DEFINE new == Made(t, a, set, how)
             srv == NewService(Ready(t, set), set.memory, how)
  <2>1. new.transport = t /\ new.args = a /\ new.started = set.memory /\ new.origin = how
    BY <1>1, MadeType
  <2>2. srv.memory = srv.started
    <3>1. set.memory \in Memories
      BY <1>1 DEF Settings
    <3> QED
      BY <1>1, <1>2, <3>1, NewServiceType
  <2>3. /\ source[t] = None /\ listener[r] = None
        /\ args' = [args EXCEPT ![a] = Ready(t, set)]
        /\ listener' = [listener EXCEPT ![r] = new]
        /\ (service' = service \/ service' = [service EXCEPT ![Line] = srv])
    BY <1>5 DEF Began
  <2> HIDE DEF new, srv
  <2>4. ServedAsStarted'
    BY <1>1, <2>2, <2>3 DEF ServedInv, ServedAsStarted, TypeOK
  <2>5. ASSUME NEW s \in Sources, Listens(s)', listener'[s].origin # "overruled"
        PROVE  Holds(s)'
    <3>1. CASE s = r
      <4>1. listener'[s] = new /\ t = "tcp" /\ args'[a].memory = set.memory
        BY <1>1, <1>2, <2>1, <2>3, <2>5, <3>1 DEF Listens, TypeOK
      <4> QED
        BY <1>0, <2>1, <4>1 DEF Holds
    <3>2. CASE s # r
      <4>1. listener'[s] = listener[s] /\ Listens(s) /\ Holds(s) /\ source[t] # s
        BY <1>1, <2>3, <2>5, <3>2, LifecycleAssumption DEF Listens, TypeOK, ServedInv
      <4>2. args'[listener[s].args].memory = listener[s].started
        BY <1>6, <2>3, <4>1
      <4> QED
        BY <4>1, <4>2 DEF Holds
    <3> QED
      BY <3>1, <3>2
  <2> QED
    BY <2>4, <2>5 DEF ServedInv
<1> QED
  BY <1>3, <1>4, <1>5, StartCases DEF Starts

(* Everything but a start and Prepare only removes listeners and services, or *)
(* gives a connection what its listener's struct holds.                       *)
Removes ==
  /\ UNCHANGED args
  /\ \A s \in Sources : \/ listener'[s] = None
                        \/ /\ listener[s] # None
                           /\ listener'[s].transport = listener[s].transport
                           /\ listener'[s].args = listener[s].args
                           /\ listener'[s].started = listener[s].started
                           /\ listener'[s].origin = listener[s].origin
  /\ \A k \in Streams : \/ service'[k] = None
                        \/ /\ service[k] # None
                           /\ service'[k].memory = service[k].memory
                           /\ service'[k].started = service[k].started
                           /\ service'[k].origin = service[k].origin

LEMMA DestroyRemoves ==
  ASSUME TypeOK, NEW s \in Sources, Destroy(s), UNCHANGED args
  PROVE  Removes
BY DEF TypeOK, Destroy, Removes, Streams

LEMMA OthersRemove ==
  ASSUME BaseInv,
         \/ \E k \in Streams : Break(k) \/ DispatchBroken(k)
         \/ \E t \in Transports : Stop(t)
         \/ \E s \in Sources : Destroyed(s)
         \/ LoopDestroyed
  PROVE  Removes
<1> USE DEF BaseInv
<1>1. ASSUME NEW k \in Streams, Break(k) \/ DispatchBroken(k)
      PROVE  Removes
  <2>1. service[k] \in Service /\ service[k] # None
    BY <1>1 DEF Break, DispatchBroken, TypeOK
  <2>2. ASSUME NEW b \in BOOLEAN, service' = [service EXCEPT ![k].open = b],
               UNCHANGED <<args, source, listener, wanted>>
        PROVE  Removes
    <3> DEFINE now == [service[k] EXCEPT !.open = b]
    <3>1. /\ now.memory = service[k].memory /\ now.origin = service[k].origin
          /\ now.started = service[k].started
      BY <2>1 DEF Service
    <3>2. service' = [service EXCEPT ![k] = now]
      BY <2>2
    <3> HIDE DEF now
    <3> QED
      BY <2>1, <2>2, <3>1, <3>2 DEF Removes, TypeOK
  <2>3. CASE Break(k)
    BY <2>2, <2>3 DEF Break
  <2>4. CASE DispatchBroken(k) /\ service[k].shared
    BY <2>2, <2>4 DEF DispatchBroken
  <2>5. CASE DispatchBroken(k) /\ ~service[k].shared
    <3>1. k # Line
      BY <2>1, <2>5 DEF LineInv, DispatchBroken
    <3>2. service' = [service EXCEPT ![k] = None] /\ UNCHANGED <<args, listener>>
      BY <2>5, <3>1 DEF DispatchBroken, EndService
    <3> QED
      BY <3>2 DEF Removes, TypeOK
  <2> QED
    BY <1>1, <2>3, <2>4, <2>5
<1>2. ASSUME NEW t \in Transports, Stop(t)
      PROVE  Removes
  <2> DEFINE s == source[t]
             marked == [listener[s] EXCEPT !.dying = TRUE]
  <2>1. s \in Sources /\ listener[s] # None /\ listener[s] \in Listener
    BY <1>2 DEF Stop, TypeOK, SourcesAreTracked
  <2>2. marked.transport = listener[s].transport /\ marked.args = listener[s].args
        /\ marked.started = listener[s].started /\ marked.origin = listener[s].origin
    BY <2>1 DEF Listener
  <2>3. \/ Destroy(s) /\ UNCHANGED args
        \/ listener' = [listener EXCEPT ![s] = marked] /\ UNCHANGED <<args, service>>
    BY <1>2 DEF Stop
  <2> HIDE DEF s, marked
  <2>4. CASE Destroy(s) /\ UNCHANGED args
    BY <2>1, <2>4, DestroyRemoves
  <2>5. CASE listener' = [listener EXCEPT ![s] = marked] /\ UNCHANGED <<args, service>>
    BY <2>1, <2>2, <2>5 DEF Removes, TypeOK
  <2> QED
    BY <2>3, <2>4, <2>5
<1>3. ASSUME NEW s \in Sources, Destroyed(s)
      PROVE  Removes
  BY <1>3, DestroyRemoves DEF Destroyed
<1>4. CASE LoopDestroyed
  BY <1>4 DEF LoopDestroyed, Removes
<1> QED
  BY <1>1, <1>2, <1>3, <1>4

LEMMA ServedStep ==
  ASSUME BaseInv, ServedInv, [Next]_vars
  PROVE  ServedInv'
<1>1. CASE UNCHANGED vars
  BY <1>1 DEF vars, ServedInv, ServedAsStarted, Listens, Holds
<1>2. CASE \/ \E t \in Transports, m \in Memories : StartByFields(t, m)
           \/ \E t \in Transports, o \in Objects : StartByArgs(t, o)
  BY <1>2, StartByEither, ServedStart DEF BaseInv
<1>3. ASSUME NEW o \in Objects, NEW m \in Memories, Prepare(o, m)
      PROVE  ServedInv'
  <2>1. ASSUME NEW s \in Sources, Listens(s), Holds(s)
        PROVE  Holds(s)'
    <3>1. listener[s].args # o /\ listener[s].args \in Args
      BY <1>3, <2>1 DEF Prepare, InUse, Listens, BaseInv, TypeOK, Listener
    <3> QED
      BY <1>3, <2>1, <3>1 DEF Prepare, Holds, BaseInv, TypeOK
  <2> QED
    BY <1>3, <2>1 DEF Prepare, ServedInv, ServedAsStarted, Listens
<1>4. ASSUME NEW p \in Peers, NEW s \in Sources, Accept(p, s)
      PROVE  ServedInv'
  <2>1. Listens(s) /\ listener[s] \in Listener
    BY <1>4 DEF Accept, Listens, BaseInv, TypeOK
  <2>2. /\ args[listener[s].args] \in Settings /\ listener[s].started \in Memories
        /\ listener[s].origin \in Origins
    BY <2>1 DEF Listener, BaseInv, TypeOK
  <2> DEFINE new == NewService(args[listener[s].args], listener[s].started, listener[s].origin)
  <2>3. new.origin # "overruled" => new.memory = new.started
    <3>1. /\ new.origin = listener[s].origin /\ new.started = listener[s].started
          /\ new.memory = args[listener[s].args].memory
      BY <2>2, NewServiceType
    <3> QED
      BY <2>1, <3>1 DEF ServedInv, Holds
  <2>4. service' = [service EXCEPT ![p] = new] /\ UNCHANGED <<args, listener>>
    BY <1>4 DEF Accept
  <2> HIDE DEF new
  <2> QED
    BY <2>3, <2>4 DEF ServedInv, ServedAsStarted, Listens, Holds, BaseInv, TypeOK
<1>5. CASE Removes
  BY <1>5 DEF Removes, ServedInv, ServedAsStarted, Listens, Holds
<1> QED
  BY <1>1, <1>2, <1>3, <1>4, <1>5, OthersRemove DEF Next

(* Every connection is served the memory its listener was started with        *)
(* (ServedAsStarted), by fields or by args, whatever is started, refused or   *)
(* stopped meanwhile; what it leaves out, a listener by fields of which       *)
(* another start by fields was refused, is what RefusedStartIsVoid claims and *)
(* the code does not do.                                                      *)
THEOREM ServedCorrect == Spec => []ServedAsStarted
<1>1. Init => ServedInv
  BY DEF Init, ServedInv, ServedAsStarted, Listens
<1>2. BaseInv /\ ServedInv /\ [Next]_vars => ServedInv'
  BY ServedStep
<1>3. ServedInv => ServedAsStarted
  BY DEF ServedInv
<1> QED
  BY <1>1, <1>2, <1>3, BaseInvariant, PTL DEF Spec
=============================================================================
