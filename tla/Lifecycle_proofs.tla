-------------------------- MODULE Lifecycle_proofs --------------------------
(***************************************************************************)
(* The life of an instance, for any number of processes, Provisions, init  *)
(* requests, clients and events: no command outlives it, callers reach the *)
(* one that serves, and subscribers attach to a stream that init cleared.  *)
(***************************************************************************)
EXTENDS Lifecycle, TLAPS

\* What the argument needs of the variables' types.
LifeTypes ==
  /\ adapter \in {"standalone", "caddy"}
  /\ stage \in [Instances -> Stages]
  /\ script \in [Instances -> {"none", "running", "exited", "killed"}]
  /\ pending \in [Instances -> Nat] /\ events \in [Instances -> Nat]
  /\ bridges \in [Instances -> BOOLEAN] /\ command \in [Instances -> BOOLEAN]
  /\ listening \in [Instances -> BOOLEAN]
  /\ stopper \in [Instances -> {"none", "waits", "stopped", "drains", "done"}]
  /\ requests \in [Instances -> SUBSET Clients]
  /\ slot \in Instances \cup {None} /\ current \in Instances \cup {None}
  /\ reload \in Instances \cup {None}
  /\ ended \in [Instances -> {"none", "abruptly", "error"}] /\ overlap \in BOOLEAN

Booting == {"init", "drain", "subscribe", "publish"}

\* What only a process does, and what only the module does.
AdapterFits ==
  /\ adapter = "caddy" =>
       \A i \in Instances : ~ listening[i] /\ stopper[i] = "none" /\ stage[i] # "exiting"
  /\ adapter = "standalone" =>
       /\ slot = None /\ current = None /\ reload = None
       /\ \A i \in Instances : stage[i] \notin {"provisioned", "retiring", "deregister"}

\* Listening and stopping belong to a process that serves.
ServerFits ==
  \A i \in Instances :
    /\ listening[i] => stage[i] = "serving" /\ stopper[i] \notin {"drains", "done"}
    /\ stopper[i] # "none" => stage[i] \in {"serving", "exiting"}
    /\ stage[i] \in Booting \cup {"none"} => requests[i] = {}

\* Caddy provisions one instance at a time.
OneReload ==
  adapter = "caddy" =>
    \A i \in Instances : stage[i] \in Booting \cup {"provisioned"} => reload = i

\* The slot's gateway has been provisioned and not cleaned up; the one that
\* serves is not being retired; the one just provisioned is in the slot.
SlotFits ==
  /\ slot # None => stage[slot] \in {"provisioned", "serving", "retiring", "deregister"}
  /\ current # None => stage[current] = "serving"
  /\ reload # None /\ stage[reload] = "provisioned" => slot = reload
  /\ reload = None /\ current # None /\ ~ rolledBack => slot = current

\* Instances come in the order of their numbers, and processes one at a time
\* unless two overlap.
Alive(i) == stage[i] \notin {"none", "gone"}

InOrder ==
  /\ \A i, j \in Instances : j < i /\ stage[j] = "none" => stage[i] = "none"
  /\ adapter = "standalone" /\ ~ overlap =>
       \A i, j \in Instances : Alive(i) /\ Alive(j) => i = j

PathFits == ~ overlap => \A i \in Instances : listening[i] => path = i

\* What is left of the init script when the bridges attach.
InitFits ==
  \A i \in Instances :
    /\ stage[i] = "none" => script[i] = "none" /\ events[i] = 0
    /\ script[i] = "none" => pending[i] = 0
    /\ stage[i] \in {"drain", "subscribe"} /\ i \notin leftover => events[i] = 0

LifeInv ==
  /\ LifeTypes /\ AdapterFits /\ ServerFits /\ OneReload /\ SlotFits /\ InOrder /\ PathFits /\ InitFits
  /\ NoOrphanCommand

USE DEF history, initVars, runVars, caddy, To

LEMMA InstancesAreNumbers == Instances \subseteq Nat /\ None \notin Instances
BY LifecycleConstants DEF Instances, None

LEMMA InitLife == Init => LifeInv
<1> SUFFICES ASSUME Init PROVE LifeInv OBVIOUS
<1>1. LifeTypes BY InstancesAreNumbers DEF Init, LifeTypes, Stages
<1>2. AdapterFits BY InstancesAreNumbers DEF Init, AdapterFits
<1>3. ServerFits BY InstancesAreNumbers DEF Init, ServerFits, Booting
<1>4. OneReload BY InstancesAreNumbers DEF Init, OneReload, Booting
<1>5. SlotFits BY InstancesAreNumbers DEF Init, SlotFits
<1>6. InOrder BY InstancesAreNumbers DEF Init, InOrder, Alive
<1>7. PathFits BY InstancesAreNumbers DEF Init, PathFits
<1>8. InitFits BY InstancesAreNumbers DEF Init, InitFits
<1>9. NoOrphanCommand BY InstancesAreNumbers DEF Init, NoOrphanCommand
<1> QED BY <1>1, <1>2, <1>3, <1>4, <1>5, <1>6, <1>7, <1>8, <1>9 DEF LifeInv

\* A new instance: the older ones are gone, or two processes overlap.
LEMMA NewGatewayKeeps ==
  ASSUME LifeInv, NEW i \in Instances, NewGateway(i)
  PROVE  LifeInv'
<1> USE InstancesAreNumbers DEF LifeInv, LifeTypes, Booting, Stages
<1>1. LifeTypes' /\ AdapterFits' /\ ServerFits' BY DEF NewGateway, AdapterFits, ServerFits
<1>2. OneReload' /\ SlotFits' BY DEF NewGateway, OneReload, SlotFits
<1>3. InOrder'
  <2>1. \A j \in Instances : j < i => j \in 1..(i - 1) BY DEF Instances
  <2>2. \A j \in Instances : j < i => stage[j] # "none" BY <2>1 DEF NewGateway
  <2>3. \A j \in Instances : i < j => stage[j] = "none" BY DEF NewGateway, InOrder
  <2>4. stage'[i] # "none" /\ \A j \in Instances : j # i => stage'[j] = stage[j] BY DEF NewGateway
  <2>5. \A j, k \in Instances : k < j /\ stage'[k] = "none" => stage'[j] = "none"
    BY <2>2, <2>3, <2>4 DEF InOrder
  <2>6. ASSUME adapter' = "standalone", ~ overlap' PROVE \A j \in Instances : j # i => ~ Alive(j)'
    <3>1. \A j \in 1..(i - 1) : stage[j] = "gone" BY <2>6 DEF NewGateway
    <3> QED BY <2>1, <2>3, <2>4, <3>1 DEF Alive
  <2> QED BY <2>5, <2>6 DEF InOrder
<1>4. PathFits' BY DEF NewGateway, PathFits
<1>5. InitFits' /\ NoOrphanCommand' BY DEF NewGateway, InitFits, NoOrphanCommand
<1> QED BY <1>1, <1>2, <1>3, <1>4, <1>5

\* The boot: nobody can reach the instance yet.
LEMMA BootKeeps ==
  ASSUME LifeInv, NEW i \in Instances,
         \/ Serve(i) \/ ClearEvents(i) \/ PrivateShutdown(i) \/ StartReservedSubscribers(i)
         \/ Post(i) \/ ScriptExits(i) \/ Kill(i) \/ CommandEnds(i)
  PROVE  LifeInv'
<1> USE InstancesAreNumbers DEF LifeInv, LifeTypes, Booting, Stages, Alive
<1>1. CASE Serve(i)
  <2>1. LifeTypes' /\ AdapterFits' /\ ServerFits' BY <1>1 DEF Serve, Written, AdapterFits, ServerFits
  <2>2. OneReload' /\ SlotFits' BY <1>1 DEF Serve, Written, OneReload, SlotFits
  <2>3. InOrder' /\ PathFits' BY <1>1 DEF Serve, Written, InOrder, PathFits
  <2>4. InitFits' /\ NoOrphanCommand' BY <1>1 DEF Serve, Written, InitFits, NoOrphanCommand
  <2> QED BY <2>1, <2>2, <2>3, <2>4
<1>2. CASE ClearEvents(i)
  <2>1. LifeTypes' /\ AdapterFits' /\ ServerFits' BY <1>2 DEF ClearEvents, ClearedEvents, AdapterFits, ServerFits
  <2>2. OneReload' /\ SlotFits' BY <1>2 DEF ClearEvents, ClearedEvents, OneReload, SlotFits
  <2>3. InOrder' /\ PathFits' BY <1>2 DEF ClearEvents, ClearedEvents, InOrder, PathFits
  <2>4. InitFits' /\ NoOrphanCommand' BY <1>2 DEF ClearEvents, ClearedEvents, InitFits, NoOrphanCommand
  <2> QED BY <2>1, <2>2, <2>3, <2>4
<1>3. CASE PrivateShutdown(i)
  <2>1. LifeTypes' /\ AdapterFits' /\ ServerFits' BY <1>3 DEF PrivateShutdown, AdapterFits, ServerFits
  <2>2. OneReload' /\ SlotFits' BY <1>3 DEF PrivateShutdown, OneReload, SlotFits
  <2>3. InOrder' /\ PathFits' BY <1>3 DEF PrivateShutdown, InOrder, PathFits
  <2>4. InitFits' /\ NoOrphanCommand' BY <1>3 DEF PrivateShutdown, InitFits, NoOrphanCommand
  <2> QED BY <2>1, <2>2, <2>3, <2>4
<1>4. CASE StartReservedSubscribers(i)
  <2>1. LifeTypes' /\ AdapterFits' /\ ServerFits' BY <1>4 DEF StartReservedSubscribers, AdapterFits, ServerFits
  <2>2. OneReload' /\ SlotFits' BY <1>4 DEF StartReservedSubscribers, OneReload, SlotFits
  <2>3. InOrder' /\ PathFits' BY <1>4 DEF StartReservedSubscribers, InOrder, PathFits
  <2>4. InitFits' /\ NoOrphanCommand' BY <1>4 DEF StartReservedSubscribers, InitFits, NoOrphanCommand
  <2> QED BY <2>1, <2>2, <2>3, <2>4
<1>5. CASE Post(i)
  <2>1. LifeTypes' /\ AdapterFits' /\ ServerFits' BY <1>5 DEF Post, AdapterFits, ServerFits
  <2>2. OneReload' /\ SlotFits' BY <1>5 DEF Post, OneReload, SlotFits
  <2>3. InOrder' /\ PathFits' BY <1>5 DEF Post, InOrder, PathFits
  <2>4. InitFits' /\ NoOrphanCommand' BY <1>5 DEF Post, InitFits, NoOrphanCommand
  <2> QED BY <2>1, <2>2, <2>3, <2>4
<1>6. CASE ScriptExits(i)
  <2>1. LifeTypes' /\ AdapterFits' /\ ServerFits' BY <1>6 DEF ScriptExits, AdapterFits, ServerFits
  <2>2. OneReload' /\ SlotFits' BY <1>6 DEF ScriptExits, OneReload, SlotFits
  <2>3. InOrder' /\ PathFits' BY <1>6 DEF ScriptExits, InOrder, PathFits
  <2>4. InitFits' /\ NoOrphanCommand' BY <1>6 DEF ScriptExits, InitFits, NoOrphanCommand
  <2> QED BY <2>1, <2>2, <2>3, <2>4
<1>7. CASE Kill(i)
  <2>1. LifeTypes' /\ AdapterFits' /\ ServerFits' BY <1>7 DEF Kill, AdapterFits, ServerFits
  <2>2. OneReload' /\ SlotFits' BY <1>7 DEF Kill, OneReload, SlotFits
  <2>3. InOrder' /\ PathFits' BY <1>7 DEF Kill, InOrder, PathFits
  <2>4. InitFits' /\ NoOrphanCommand' BY <1>7 DEF Kill, InitFits, NoOrphanCommand
  <2> QED BY <2>1, <2>2, <2>3, <2>4
<1>8. CASE CommandEnds(i)
  <2>1. LifeTypes' /\ AdapterFits' /\ ServerFits' BY <1>8 DEF CommandEnds, AdapterFits, ServerFits
  <2>2. OneReload' /\ SlotFits' BY <1>8 DEF CommandEnds, OneReload, SlotFits
  <2>3. InOrder' /\ PathFits' BY <1>8 DEF CommandEnds, InOrder, PathFits
  <2>4. InitFits' /\ NoOrphanCommand' BY <1>8 DEF CommandEnds, InitFits, NoOrphanCommand
  <2> QED BY <2>1, <2>2, <2>3, <2>4
<1> QED BY <1>1, <1>2, <1>3, <1>4, <1>5, <1>6, <1>7, <1>8

\* The process: it binds the path, serves, and leaves.
LEMMA ProcessKeeps ==
  ASSUME LifeInv, NEW i \in Instances,
         \/ Listen(i) \/ ServeReturns(i) \/ MainReturns(i)
         \/ StopperStops(i) \/ Shutdown(i) \/ ShutdownReturns(i)
         \/ ServeFails(i) \/ ListenFails(i) \/ Signal(i) \/ Crash(i)
  PROVE  LifeInv'
<1> USE InstancesAreNumbers DEF LifeInv, LifeTypes, Booting, Stages, Alive
<1>1. CASE Listen(i)
  <2>1. LifeTypes' /\ AdapterFits' /\ ServerFits' BY <1>1 DEF Listen, AdapterFits, ServerFits
  <2>2. OneReload' /\ SlotFits' BY <1>1 DEF Listen, OneReload, SlotFits
  <2>3. InOrder' /\ PathFits' BY <1>1 DEF Listen, ServerFits, InOrder, PathFits
  <2>4. InitFits' /\ NoOrphanCommand' BY <1>1 DEF Listen, InitFits, NoOrphanCommand
  <2> QED BY <2>1, <2>2, <2>3, <2>4
<1>2. CASE ServeReturns(i)
  <2>1. LifeTypes' /\ AdapterFits' /\ ServerFits' BY <1>2 DEF ServeReturns, AdapterFits, ServerFits
  <2>2. OneReload' /\ SlotFits' BY <1>2 DEF ServeReturns, AdapterFits, OneReload, SlotFits
  <2>3. InOrder' /\ PathFits' BY <1>2 DEF ServeReturns, InOrder, PathFits
  <2>4. InitFits' /\ NoOrphanCommand' BY <1>2 DEF ServeReturns, InitFits, NoOrphanCommand
  <2> QED BY <2>1, <2>2, <2>3, <2>4
<1>3. CASE MainReturns(i)
  <2>1. LifeTypes' /\ AdapterFits' /\ ServerFits' BY <1>3 DEF MainReturns, Backstop, StopSubscribers, ProcessEnds, AdapterFits, ServerFits
  <2>2. OneReload' /\ SlotFits' BY <1>3 DEF MainReturns, Backstop, StopSubscribers, ProcessEnds, OneReload, SlotFits
  <2>3. InOrder' /\ PathFits' BY <1>3 DEF MainReturns, Backstop, StopSubscribers, ProcessEnds, AdapterFits, ServerFits, InOrder, PathFits
  <2>4. InitFits' /\ NoOrphanCommand' BY <1>3 DEF MainReturns, Backstop, StopSubscribers, ProcessEnds, InitFits, NoOrphanCommand
  <2> QED BY <2>1, <2>2, <2>3, <2>4
<1>4. CASE StopperStops(i)
  <2>1. LifeTypes' /\ AdapterFits' /\ ServerFits' BY <1>4 DEF StopperStops, StopSubscribers, AdapterFits, ServerFits
  <2>2. OneReload' /\ SlotFits' BY <1>4 DEF StopperStops, StopSubscribers, OneReload, SlotFits
  <2>3. InOrder' /\ PathFits' BY <1>4 DEF StopperStops, StopSubscribers, InOrder, PathFits
  <2>4. InitFits' /\ NoOrphanCommand' BY <1>4 DEF StopperStops, StopSubscribers, InitFits, NoOrphanCommand
  <2> QED BY <2>1, <2>2, <2>3, <2>4
<1>5. CASE Shutdown(i)
  <2>1. LifeTypes' /\ AdapterFits' /\ ServerFits' BY <1>5 DEF Shutdown, AdapterFits, ServerFits
  <2>2. OneReload' /\ SlotFits' BY <1>5 DEF Shutdown, OneReload, SlotFits
  <2>3. InOrder' /\ PathFits' BY <1>5 DEF Shutdown, AdapterFits, ServerFits, InOrder, PathFits
  <2>4. InitFits' /\ NoOrphanCommand' BY <1>5 DEF Shutdown, InitFits, NoOrphanCommand
  <2> QED BY <2>1, <2>2, <2>3, <2>4
<1>6. CASE ShutdownReturns(i)
  <2>1. LifeTypes' /\ AdapterFits' /\ ServerFits' BY <1>6 DEF ShutdownReturns, AdapterFits, ServerFits
  <2>2. OneReload' /\ SlotFits' BY <1>6 DEF ShutdownReturns, OneReload, SlotFits
  <2>3. InOrder' /\ PathFits' BY <1>6 DEF ShutdownReturns, InOrder, PathFits
  <2>4. InitFits' /\ NoOrphanCommand' BY <1>6 DEF ShutdownReturns, InitFits, NoOrphanCommand
  <2> QED BY <2>1, <2>2, <2>3, <2>4
<1>7. CASE ServeFails(i)
  <2>1. LifeTypes' /\ AdapterFits' /\ ServerFits' BY <1>7 DEF ServeFails, AdapterFits, ServerFits
  <2>2. OneReload' /\ SlotFits' BY <1>7 DEF ServeFails, AdapterFits, OneReload, SlotFits
  <2>3. InOrder' /\ PathFits' BY <1>7 DEF ServeFails, InOrder, PathFits
  <2>4. InitFits' /\ NoOrphanCommand' BY <1>7 DEF ServeFails, InitFits, NoOrphanCommand
  <2> QED BY <2>1, <2>2, <2>3, <2>4
<1>8. CASE ListenFails(i)
  <2>1. LifeTypes' /\ AdapterFits' /\ ServerFits' BY <1>8 DEF ListenFails, ProcessEnds, AdapterFits, ServerFits
  <2>2. OneReload' /\ SlotFits' BY <1>8 DEF ListenFails, ProcessEnds, OneReload, SlotFits
  <2>3. InOrder' /\ PathFits' BY <1>8 DEF ListenFails, ProcessEnds, ServerFits, InOrder, PathFits
  <2>4. InitFits' /\ NoOrphanCommand' BY <1>8 DEF ListenFails, ProcessEnds, InitFits, NoOrphanCommand
  <2> QED BY <2>1, <2>2, <2>3, <2>4
<1>9. CASE Signal(i)
  <2>1. LifeTypes' /\ AdapterFits' /\ ServerFits' BY <1>9 DEF Signal, AdapterFits, ServerFits
  <2>2. OneReload' /\ SlotFits' BY <1>9 DEF Signal, OneReload, SlotFits
  <2>3. InOrder' /\ PathFits' BY <1>9 DEF Signal, InOrder, PathFits
  <2>4. InitFits' /\ NoOrphanCommand' BY <1>9 DEF Signal, InitFits, NoOrphanCommand
  <2> QED BY <2>1, <2>2, <2>3, <2>4
<1>10. CASE Crash(i)
  <2>1. LifeTypes' /\ AdapterFits' /\ ServerFits' BY <1>10 DEF Crash, ProcessEnds, AdapterFits, ServerFits
  <2>2. OneReload' /\ SlotFits' BY <1>10 DEF Crash, ProcessEnds, AdapterFits, OneReload, SlotFits
  <2>3. InOrder' /\ PathFits' BY <1>10 DEF Crash, ProcessEnds, InOrder, PathFits
  <2>4. InitFits' /\ NoOrphanCommand' BY <1>10 DEF Crash, ProcessEnds, InitFits, NoOrphanCommand
  <2> QED BY <2>1, <2>2, <2>3, <2>4
<1> QED BY <1>1, <1>2, <1>3, <1>4, <1>5, <1>6, <1>7, <1>8, <1>9, <1>10

\* The module: Provision, the switch to the new instance, Cleanup.
LEMMA ModuleKeeps ==
  ASSUME LifeInv, NEW i \in Instances,
         \/ RegisterGateway(i) \/ CleanupStops(i) \/ CleanupDeregisters(i)
         \/ Used(i) \/ Switch(i) \/ Rollback(i) \/ Retire(i)
  PROVE  LifeInv'
<1> USE InstancesAreNumbers DEF LifeInv, LifeTypes, Booting, Stages, Alive
<1>1. CASE RegisterGateway(i)
  <2>1. LifeTypes' /\ AdapterFits' /\ ServerFits' BY <1>1 DEF RegisterGateway, AdapterFits, ServerFits
  <2>2. OneReload' /\ SlotFits' BY <1>1 DEF RegisterGateway, OneReload, SlotFits
  <2>3. InOrder' /\ PathFits' BY <1>1 DEF RegisterGateway, InOrder, PathFits
  <2>4. InitFits' /\ NoOrphanCommand' BY <1>1 DEF RegisterGateway, InitFits, NoOrphanCommand
  <2> QED BY <2>1, <2>2, <2>3, <2>4
<1>2. CASE CleanupStops(i)
  <2>1. LifeTypes' /\ AdapterFits' /\ ServerFits' BY <1>2 DEF CleanupStops, StopSubscribers, AdapterFits, ServerFits
  <2>2. OneReload' /\ SlotFits' BY <1>2 DEF CleanupStops, StopSubscribers, OneReload, SlotFits
  <2>3. InOrder' /\ PathFits' BY <1>2 DEF CleanupStops, StopSubscribers, InOrder, PathFits
  <2>4. InitFits' /\ NoOrphanCommand' BY <1>2 DEF CleanupStops, StopSubscribers, InitFits, NoOrphanCommand
  <2> QED BY <2>1, <2>2, <2>3, <2>4
<1>3. CASE CleanupDeregisters(i)
  <2>1. LifeTypes' /\ AdapterFits' /\ ServerFits' BY <1>3 DEF CleanupDeregisters, SwappedSlot, AdapterFits, ServerFits
  <2>2. OneReload' /\ SlotFits' BY <1>3 DEF CleanupDeregisters, SwappedSlot, OneReload, SlotFits
  <2>3. InOrder' /\ PathFits' BY <1>3 DEF CleanupDeregisters, SwappedSlot, InOrder, PathFits
  <2>4. InitFits' /\ NoOrphanCommand' BY <1>3 DEF CleanupDeregisters, SwappedSlot, InitFits, NoOrphanCommand
  <2> QED BY <2>1, <2>2, <2>3, <2>4
<1>4. CASE Used(i)
  <2>1. LifeTypes' /\ AdapterFits' /\ ServerFits' BY <1>4 DEF Used, Written, AdapterFits, ServerFits
  <2>2. OneReload' /\ SlotFits' BY <1>4 DEF Used, Written, OneReload, SlotFits
  <2>3. InOrder' /\ PathFits' BY <1>4 DEF Used, Written, InOrder, PathFits
  <2>4. InitFits' /\ NoOrphanCommand' BY <1>4 DEF Used, Written, SlotFits, InitFits, NoOrphanCommand
  <2> QED BY <2>1, <2>2, <2>3, <2>4
<1>5. CASE Switch(i)
  <2>1. LifeTypes' /\ AdapterFits' /\ ServerFits' BY <1>5 DEF Switch, AdapterFits, ServerFits
  <2>2. OneReload' /\ SlotFits' BY <1>5 DEF Switch, OneReload, SlotFits
  <2>3. InOrder' /\ PathFits' BY <1>5 DEF Switch, InOrder, PathFits, SlotFits
  <2>4. InitFits' /\ NoOrphanCommand' BY <1>5 DEF Switch, InitFits, NoOrphanCommand
  <2> QED BY <2>1, <2>2, <2>3, <2>4
<1>6. CASE Rollback(i)
  <2>1. LifeTypes' /\ AdapterFits' /\ ServerFits' BY <1>6 DEF Rollback, AdapterFits, ServerFits
  <2>2. OneReload' /\ SlotFits' BY <1>6 DEF Rollback, OneReload, SlotFits
  <2>3. InOrder' /\ PathFits' BY <1>6 DEF Rollback, InOrder, PathFits
  <2>4. InitFits' /\ NoOrphanCommand' BY <1>6 DEF Rollback, InitFits, NoOrphanCommand
  <2> QED BY <2>1, <2>2, <2>3, <2>4
<1>7. CASE Retire(i)
  <2>1. LifeTypes' /\ AdapterFits' /\ ServerFits' BY <1>7 DEF Retire, AdapterFits, ServerFits
  <2>2. OneReload' /\ SlotFits' BY <1>7 DEF Retire, OneReload, SlotFits
  <2>3. InOrder' /\ PathFits' BY <1>7 DEF Retire, InOrder, PathFits
  <2>4. InitFits' /\ NoOrphanCommand' BY <1>7 DEF Retire, InitFits, NoOrphanCommand
  <2> QED BY <2>1, <2>2, <2>3, <2>4
<1> QED BY <1>1, <1>2, <1>3, <1>4, <1>5, <1>6, <1>7

\* Requests: they write, and wake a bridge that is attached.
LEMMA ClientKeeps ==
  ASSUME LifeInv, NEW i \in Instances, NEW c \in Clients, Accept(i, c) \/ Answer(i, c)
  PROVE  LifeInv'
<1> USE InstancesAreNumbers DEF LifeInv, LifeTypes, Booting, Stages, Alive
<1>1. CASE Accept(i, c)
  <2>1. LifeTypes' /\ AdapterFits' /\ ServerFits' BY <1>1 DEF Accept, AdapterFits, ServerFits
  <2>2. OneReload' /\ SlotFits' BY <1>1 DEF Accept, OneReload, SlotFits
  <2>3. InOrder' /\ PathFits' BY <1>1 DEF Accept, InOrder, PathFits
  <2>4. InitFits' /\ NoOrphanCommand' BY <1>1 DEF Accept, InitFits, NoOrphanCommand
  <2> QED BY <2>1, <2>2, <2>3, <2>4
<1>2. CASE Answer(i, c)
  <2>1. LifeTypes' /\ AdapterFits' /\ ServerFits' BY <1>2 DEF Answer, Written, AdapterFits, ServerFits
  <2>2. OneReload' /\ SlotFits' BY <1>2 DEF Answer, Written, OneReload, SlotFits
  <2>3. InOrder' /\ PathFits' BY <1>2 DEF Answer, Written, InOrder, PathFits
  <2>4. InitFits' /\ NoOrphanCommand' BY <1>2 DEF Answer, Written, ServerFits, InitFits, NoOrphanCommand
  <2> QED BY <2>1, <2>2, <2>3, <2>4
<1> QED BY <1>1, <1>2

LEMMA LifeStep ==
  ASSUME LifeInv, [Next]_vars
  PROVE  LifeInv'
<1>1. ASSUME NEW i \in Instances, NewGateway(i) PROVE LifeInv' BY <1>1, NewGatewayKeeps
<1>2. ASSUME NEW i \in Instances, Boot(i) \/ Post(i) \/ ScriptExits(i) \/ Kill(i) \/ CommandEnds(i) PROVE LifeInv'
  BY <1>2, BootKeeps DEF Boot
<1>3. ASSUME NEW i \in Instances,
             Process(i) \/ Stopper(i) \/ ServeFails(i) \/ ListenFails(i) \/ Signal(i) \/ Crash(i)
      PROVE  LifeInv'
  BY <1>3, ProcessKeeps DEF Process, Stopper
<1>4. ASSUME NEW i \in Instances, NEW c \in Clients, Accept(i, c) \/ Answer(i, c) PROVE LifeInv'
  BY <1>4, ClientKeeps
<1>5. ASSUME NEW i \in Instances, Module(i) \/ Used(i) \/ Switch(i) \/ Rollback(i) \/ Retire(i) PROVE LifeInv'
  BY <1>5, ModuleKeeps DEF Module
<1>6. CASE UNCHANGED vars
  BY <1>6 DEF vars, LifeInv, LifeTypes, AdapterFits, ServerFits, OneReload, SlotFits, InOrder, PathFits,
              InitFits, NoOrphanCommand, Alive
<1> QED BY <1>1, <1>2, <1>3, <1>4, <1>5, <1>6 DEF Next

\* main.go, module.go and gateway_registry.go keep the invariant.
THEOREM LifeInvariant == Spec => []LifeInv
<1>1. LifeInv /\ [Next]_vars => LifeInv' BY LifeStep
<1> QED BY <1>1, InitLife, PTL DEF Spec

\* No command outlives its process or its module: stopSubscribers runs on every
\* way out of main and Cleanup, and no late write starts it again.
THEOREM NoCommandIsOrphaned == Spec => []NoOrphanCommand
<1>1. LifeInv => NoOrphanCommand BY DEF LifeInv
<1> QED BY <1>1, LifeInvariant, PTL

\* The registry's compare-and-swap and the order of Provision and Cleanup keep
\* the slot on the gateway that serves, and the socket file leads to the process
\* that listens.
THEOREM ServerIsReached == Spec => []CallersReachTheServer
<1>1. LifeInv => CallersReachTheServer
  BY DEF LifeInv, SlotFits, PathFits, CallersReachTheServer
<1> QED BY <1>1, LifeInvariant, PTL

\* RunInitCommand clears _events however the script ended, and nobody can reach the
\* cache between then and the bridges but the requests that the script left behind.
THEOREM BridgesAttachToEmpty == Spec => AttachToEmpty
<1>1. ASSUME LifeInv, Next, NEW i \in Instances, ~ bridges[i], bridges'[i]
      PROVE  events[i] = 0 \/ i \in leftover
  <2>1. StartReservedSubscribers(i)
    BY <1>1 DEF Next, NewGateway, Boot, Serve, ClearEvents, PrivateShutdown, StartReservedSubscribers, Post,
                ScriptExits, Kill, CommandEnds, Process, Listen, ServeReturns, MainReturns, Backstop,
                StopSubscribers, Stopper, StopperStops, Shutdown, ShutdownReturns, ServeFails, ListenFails,
                Signal, Crash, Accept, Answer, Module, RegisterGateway, CleanupStops, CleanupDeregisters,
                Used, Switch, Rollback, Retire, LifeInv, LifeTypes
  <2> QED BY <1>1, <2>1 DEF StartReservedSubscribers, LifeInv, InitFits
<1>2. LifeInv /\ [Next]_vars =>
        [\A i \in Instances : ~ bridges[i] /\ bridges'[i] => events[i] = 0 \/ i \in leftover]_vars
  BY <1>1
<1> QED BY <1>2, LifeInvariant, PTL DEF Spec, AttachToEmpty

=============================================================================
