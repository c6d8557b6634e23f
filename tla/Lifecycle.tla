----------------------------- MODULE Lifecycle -----------------------------
(***************************************************************************)
(* How an instance of the cache comes up and goes away, in both adapters:  *)
(* the standalone process (cmd/scopecache/main.go) and the Caddy module    *)
(* (caddymodule/module.go, gateway_registry.go).  They share the boot:     *)
(* a gateway, the init command behind a private socket (init_command.go),  *)
(* the subscriber bridges (subscriber_command.go).  Then the process binds *)
(* its public socket, or the module publishes its gateway in the registry  *)
(* slot that in-process callers load.                                      *)
(*                                                                         *)
(* An instance is a process, or one Provision of the module, numbered in   *)
(* the order they come.  Its cache is reduced to the number of entries in  *)
(* _events.  The operating system, the clients and Caddy (one reload at a  *)
(* time, Cleanup of the instance that is replaced, or of the new one when  *)
(* another module refuses the reload) are modelled as the code relies on   *)
(* them.                                                                   *)
(***************************************************************************)
EXTENDS Integers, FiniteSets

CONSTANTS
  Clients,      \* requests on the public socket
  MaxInstances, \* bounds of the model: Provisions of the module,
  MaxProcesses, \* processes,
  MaxPosts,     \* requests of one init script,
  MaxEvents     \* and entries of _events

ASSUME LifecycleConstants ==
  MaxInstances \in Nat \ {0} /\ MaxProcesses \in Nat /\ MaxPosts \in Nat /\ MaxEvents \in Nat

Instances == 1..MaxInstances

None == 0

VARIABLES
  adapter,      \* "standalone" or "caddy"
  stage,        \* per instance: how far main or Provision has come
  script,       \* per instance: the init command
  posts,        \*   requests it has sent,
  pending,      \*   and those the private server still serves
  events,       \* per instance: entries in _events
  bridges,      \* per instance: its subscribers are attached
  command,      \*   and run their command
  cancelled,    \* per instance: signalCtx, or the context of Provision
  listening,    \* per instance: its public socket accepts
  stopper,      \* per instance: the goroutine of main that waits for the signal
  requests,     \* per instance: client requests in flight
  path,         \* the socket file: the process it leads to or that left it behind
  slot,         \* the "default" slot: the gateway of an instance, or nil
  current, reload,      \* Caddy: the instance it serves from, the one it provisions
  late, ended, overlap, rolledBack, leftover   \* history: see below

\* Instances whose grace period ran out; how an instance ended that no signal
\* ended; whether two processes ran at once; whether the last reload was refused;
\* the instances whose init script had a request served after _events was cleared.
history  == <<late, ended, overlap, rolledBack, leftover>>
initVars == <<script, posts, pending>>
runVars  == <<bridges, command, cancelled, listening, stopper, requests>>
caddy    == <<slot, current, reload>>
vars     == <<adapter, stage, initVars, events, runVars, path, caddy, history>>

Stages == {"none", "init", "drain", "subscribe", "publish", "serving", "exiting",
           "provisioned", "retiring", "deregister", "gone"}

To(i, s) == stage' = [stage EXCEPT ![i] = s]

\* A write leaves an event and wakes the bridge that is attached.
Written(i) ==
  /\ events' = [events EXCEPT ![i] = IF @ < MaxEvents THEN @ + 1 ELSE @]
  /\ command' = [command EXCEPT ![i] = @ \/ bridges[i]]

----------------------------------------------------------------------------
(* The boot *)

\* main, or Provision: NewGateway; the init command if one is configured.
NewGateway(i) ==
  /\ stage[i] = "none"
  /\ \A j \in 1..(i - 1) : stage[j] # "none"
  /\ adapter = "standalone" => i <= MaxProcesses
  /\ reload = None
  /\ reload' = IF adapter = "caddy" THEN i ELSE reload
  /\ overlap' = (overlap \/ (adapter = "standalone" /\ \E j \in 1..(i - 1) : stage[j] # "gone"))
  /\ \/ To(i, "init") /\ script' = [script EXCEPT ![i] = "running"]
     \/ To(i, "subscribe") /\ UNCHANGED script
  /\ UNCHANGED <<adapter, posts, pending, events, runVars, path, slot, current, late, ended, rolledBack, leftover>>

\* The script, or a child it left behind, calls the cache through the private
\* socket, which is there until Shutdown.
Post(i) ==
  /\ script[i] = "running" \/ (script[i] = "exited" /\ stage[i] \in {"init", "drain"})
  /\ posts[i] < MaxPosts
  /\ posts' = [posts EXCEPT ![i] = @ + 1]
  /\ pending' = [pending EXCEPT ![i] = @ + 1]
  /\ UNCHANGED <<adapter, stage, script, events, runVars, path, caddy, history>>

\* The private server serves a request, whether or not its sender still lives.
Serve(i) ==
  /\ pending[i] > 0 /\ stage[i] # "gone"
  /\ pending' = [pending EXCEPT ![i] = @ - 1]
  /\ Written(i)
  /\ leftover' = IF stage[i] \in {"drain", "subscribe"} THEN leftover \cup {i} ELSE leftover
  /\ UNCHANGED <<adapter, stage, script, posts, bridges, cancelled, listening, stopper, requests,
                 path, caddy, late, ended, overlap, rolledBack>>

\* The script ends by itself, whatever calls it gave up waiting for: cmd.Run waits
\* for the direct child alone.
ScriptExits(i) ==
  /\ script[i] = "running"
  /\ script' = [script EXCEPT ![i] = "exited"]
  /\ UNCHANGED <<adapter, stage, posts, pending, events, runVars, path, caddy, history>>

\* exec.CommandContext kills it: the context was cancelled, or init_timeout is over.
Kill(i) ==
  /\ script[i] = "running"
  /\ script' = [script EXCEPT ![i] = "killed"]
  /\ UNCHANGED <<adapter, stage, posts, pending, events, runVars, path, caddy, history>>

\* Mutant: an early return when the script has failed.
ClearedOnSuccess(i) == IF script[i] = "exited" THEN 0 ELSE events[i]

ClearedEvents(i) == 0

\* RunInitCommand after cmd.Run: DeleteUpTo(_events).
ClearEvents(i) ==
  /\ stage[i] = "init" /\ script[i] \in {"exited", "killed"}
  /\ events' = [events EXCEPT ![i] = ClearedEvents(i)]
  /\ To(i, "drain")
  /\ UNCHANGED <<adapter, initVars, runVars, path, caddy, history>>

\* runInitWithPrivateSocket: Shutdown of the private server, for 5 seconds at most.
PrivateShutdown(i) ==
  /\ stage[i] = "drain"
  /\ To(i, "subscribe")
  /\ UNCHANGED <<adapter, initVars, events, runVars, path, caddy, history>>

\* StartReservedSubscribers, after init, if a command is configured.
StartReservedSubscribers(i) ==
  /\ stage[i] = "subscribe"
  /\ \E configured \in BOOLEAN : bridges' = [bridges EXCEPT ![i] = configured]
  /\ To(i, "publish")
  /\ UNCHANGED <<adapter, initVars, events, command, cancelled, listening, stopper, requests, path, caddy, history>>

\* The command has emptied _events (drain_events.sh).
CommandEnds(i) ==
  /\ command[i]
  /\ command' = [command EXCEPT ![i] = FALSE]
  /\ events' = [events EXCEPT ![i] = 0]
  /\ UNCHANGED <<adapter, stage, initVars, bridges, cancelled, listening, stopper, requests, path, caddy, history>>

\* stopSubscribers: abortive, and a second call does nothing.
StopSubscribers(i) ==
  /\ bridges' = [bridges EXCEPT ![i] = FALSE]
  /\ command' = [command EXCEPT ![i] = FALSE]

----------------------------------------------------------------------------
(* The standalone process *)

\* SIGINT or SIGTERM.
Signal(i) ==
  /\ adapter = "standalone" /\ stage[i] \notin {"none", "gone"} /\ ~ cancelled[i]
  /\ cancelled' = [cancelled EXCEPT ![i] = TRUE]
  /\ UNCHANGED <<adapter, stage, initVars, events, bridges, command, listening, stopper, requests, path, caddy, history>>

\* listenUnixSocket, which removes the socket file it finds; the stopper starts.
Listen(i) ==
  /\ adapter = "standalone" /\ stage[i] = "publish"
  /\ To(i, "serving")
  /\ path' = i
  /\ listening' = [listening EXCEPT ![i] = TRUE]
  /\ stopper' = [stopper EXCEPT ![i] = "waits"]
  /\ UNCHANGED <<adapter, initVars, events, bridges, command, cancelled, requests, caddy, history>>

\* The process is gone, and with it whatever it was serving; the command is a
\* process group of its own.
ProcessEnds(i) ==
  /\ To(i, "gone")
  /\ listening' = [listening EXCEPT ![i] = FALSE]
  /\ stopper' = [stopper EXCEPT ![i] = "none"]

\* log.Fatal: the deferred calls do not run.
ListenFails(i) ==
  /\ adapter = "standalone" /\ stage[i] = "publish"
  /\ ProcessEnds(i)
  /\ path' \in {path, None}
  /\ ended' = [ended EXCEPT ![i] = "abruptly"]
  /\ bridges' = [bridges EXCEPT ![i] = FALSE]
  /\ UNCHANGED <<adapter, initVars, events, command, cancelled, requests, caddy, late, overlap, rolledBack, leftover>>

\* SIGKILL, a panic, out of memory: nothing is cleaned up.
Crash(i) ==
  /\ adapter = "standalone" /\ stage[i] \notin {"none", "gone"}
  /\ ProcessEnds(i)
  /\ ended' = [ended EXCEPT ![i] = "abruptly"]
  /\ bridges' = [bridges EXCEPT ![i] = FALSE]
  /\ UNCHANGED <<adapter, initVars, events, command, cancelled, requests, path, caddy, late, overlap, rolledBack, leftover>>

\* A client opens the socket file.
Accept(i, c) ==
  /\ listening[i] /\ stage[i] = "serving" /\ path = i
  /\ c \notin requests[i]
  /\ requests' = [requests EXCEPT ![i] = @ \cup {c}]
  /\ UNCHANGED <<adapter, stage, initVars, events, bridges, command, cancelled, listening, stopper, path, caddy, history>>

\* The handler writes and answers.
Answer(i, c) ==
  /\ c \in requests[i] /\ stage[i] # "gone"
  /\ requests' = [requests EXCEPT ![i] = @ \ {c}]
  /\ Written(i)
  /\ UNCHANGED <<adapter, stage, initVars, bridges, cancelled, listening, stopper, path, caddy, history>>

\* The stopper: stopSubscribers while the server is still up,
StopperStops(i) ==
  /\ stopper[i] = "waits" /\ cancelled[i]
  /\ StopSubscribers(i)
  /\ stopper' = [stopper EXCEPT ![i] = "stopped"]
  /\ UNCHANGED <<adapter, stage, initVars, events, cancelled, listening, requests, path, caddy, history>>

\* then server.Shutdown, which closes the listener and unlinks the socket file:
\* no request is accepted from here on,
Shutdown(i) ==
  /\ stopper[i] = "stopped"
  /\ path' = None
  /\ listening' = [listening EXCEPT ![i] = FALSE]
  /\ stopper' = [stopper EXCEPT ![i] = "drains"]
  /\ UNCHANGED <<adapter, stage, initVars, events, bridges, command, cancelled, requests, caddy, history>>

\* which returns when the requests in flight are answered or the grace period is over.
ShutdownReturns(i) ==
  /\ stopper[i] = "drains"
  /\ stopper' = [stopper EXCEPT ![i] = "done"]
  /\ late' = IF requests[i] = {} THEN late ELSE late \cup {i}
  /\ UNCHANGED <<adapter, stage, initVars, events, bridges, command, cancelled, listening, requests,
                 path, caddy, ended, overlap, rolledBack, leftover>>

\* server.Serve returns as soon as Shutdown has closed the listener,
ServeReturns(i) ==
  /\ stage[i] = "serving" /\ stopper[i] \in {"drains", "done"}
  /\ To(i, "exiting")
  /\ UNCHANGED <<adapter, initVars, events, runVars, path, caddy, history>>

\* or with an error.
ServeFails(i) ==
  /\ stage[i] = "serving" /\ listening[i]
  /\ To(i, "exiting")
  /\ listening' = [listening EXCEPT ![i] = FALSE]
  /\ ended' = [ended EXCEPT ![i] = "error"]
  /\ UNCHANGED <<adapter, initVars, events, bridges, command, cancelled, stopper, requests, path, caddy, late, overlap, rolledBack, leftover>>

\* Mutant: no deferred backstop.
NoBackstop(i) == UNCHANGED <<bridges, command>>

\* defer stopSubscribers().
Backstop(i) == StopSubscribers(i)

\* main has only waited for Serve; it removes the socket file and returns.
MainReturns(i) ==
  /\ stage[i] = "exiting"
  /\ path' = None
  /\ Backstop(i)
  /\ ProcessEnds(i)
  /\ UNCHANGED <<adapter, initVars, events, cancelled, requests, caddy, history>>

----------------------------------------------------------------------------
(* The Caddy module *)

\* The last line of Provision: RegisterGateway.
RegisterGateway(i) ==
  /\ adapter = "caddy" /\ stage[i] = "publish"
  /\ slot' = i
  /\ To(i, "provisioned")
  /\ UNCHANGED <<adapter, initVars, events, runVars, path, current, reload, history>>

\* A request of Caddy or an in-process caller (PHP) writes.
Used(i) ==
  /\ adapter = "caddy" /\ i \in {current, slot}
  /\ Written(i)
  /\ UNCHANGED <<adapter, stage, initVars, bridges, cancelled, listening, stopper, requests, path, caddy, history>>

\* Caddy takes the new configuration and retires the old one.
Switch(i) ==
  /\ reload = i /\ stage[i] = "provisioned"
  /\ stage' = [j \in Instances |-> IF j = i THEN "serving" ELSE IF j = current THEN "retiring" ELSE stage[j]]
  /\ current' = i /\ reload' = None
  /\ rolledBack' = FALSE
  /\ UNCHANGED <<adapter, initVars, events, runVars, path, slot, late, ended, overlap, leftover>>

\* Another module of the new configuration fails: Caddy keeps the old one.
Rollback(i) ==
  /\ reload = i /\ stage[i] = "provisioned"
  /\ To(i, "retiring")
  /\ cancelled' = [cancelled EXCEPT ![i] = TRUE]
  /\ reload' = None
  /\ rolledBack' = TRUE
  /\ UNCHANGED <<adapter, initVars, events, bridges, command, listening, stopper, requests, path, slot, current,
                 late, ended, overlap, leftover>>

\* Caddy ends, or scopecache is removed from the configuration.
Retire(i) ==
  /\ adapter = "caddy" /\ current = i /\ stage[i] = "serving" /\ reload = None
  /\ To(i, "retiring")
  /\ current' = None
  /\ UNCHANGED <<adapter, initVars, events, runVars, path, slot, reload, history>>

\* Cleanup, first part.
CleanupStops(i) ==
  /\ stage[i] = "retiring"
  /\ StopSubscribers(i)
  /\ To(i, "deregister")
  /\ UNCHANGED <<adapter, initVars, events, cancelled, listening, stopper, requests, path, caddy, history>>

\* Mutant: RegisterGateway("default", nil).
ClearedSlot(i) == None

\* DeregisterGatewayIf: CompareAndSwap(gw, nil).
SwappedSlot(i) == IF slot = i THEN None ELSE slot

\* Cleanup, second part.
CleanupDeregisters(i) ==
  /\ stage[i] = "deregister"
  /\ slot' = SwappedSlot(i)
  /\ To(i, "gone")
  /\ UNCHANGED <<adapter, initVars, events, runVars, path, current, reload, history>>

----------------------------------------------------------------------------
(* Specification *)

Init ==
  /\ adapter \in {"standalone", "caddy"}
  /\ stage = [i \in Instances |-> "none"]
  /\ script = [i \in Instances |-> "none"]
  /\ posts = [i \in Instances |-> 0] /\ pending = [i \in Instances |-> 0]
  /\ events = [i \in Instances |-> 0]
  /\ bridges = [i \in Instances |-> FALSE] /\ command = [i \in Instances |-> FALSE]
  /\ cancelled = [i \in Instances |-> FALSE] /\ listening = [i \in Instances |-> FALSE]
  /\ stopper = [i \in Instances |-> "none"] /\ requests = [i \in Instances |-> {}]
  /\ path = None /\ slot = None /\ current = None /\ reload = None
  /\ late = {} /\ ended = [i \in Instances |-> "none"] /\ overlap = FALSE /\ rolledBack = FALSE
  /\ leftover = {}

\* Mutant: the init command is run without the context.
NeverKilled(i) == FALSE

\* Whether exec.CommandContext is due to kill the script.
KillDue(i) == cancelled[i]

\* What the code, the kernel and the timers do by themselves.
Boot(i) ==
  Serve(i) \/ ClearEvents(i) \/ PrivateShutdown(i) \/ StartReservedSubscribers(i)

Process(i) == Listen(i) \/ ServeReturns(i) \/ MainReturns(i)

Stopper(i) == StopperStops(i) \/ Shutdown(i) \/ ShutdownReturns(i)

Module(i) == RegisterGateway(i) \/ CleanupStops(i) \/ CleanupDeregisters(i)

Next ==
  \E i \in Instances :
    \/ NewGateway(i) \/ Boot(i) \/ Post(i) \/ ScriptExits(i) \/ Kill(i) \/ CommandEnds(i)
    \/ Process(i) \/ Stopper(i) \/ ServeFails(i) \/ ListenFails(i) \/ Signal(i) \/ Crash(i)
    \/ \E c \in Clients : Accept(i, c) \/ Answer(i, c)
    \/ Module(i) \/ Used(i) \/ Switch(i) \/ Rollback(i) \/ Retire(i)

Spec == Init /\ [][Next]_vars

\* Nobody has to send a request or a signal, the script and the command may run
\* for ever, and Caddy reloads when it likes.
FairSpec ==
  /\ Spec
  /\ \A i \in Instances : WF_vars(Boot(i)) /\ WF_vars(KillDue(i) /\ Kill(i))
                          /\ WF_vars(Process(i)) /\ WF_vars(Stopper(i)) /\ WF_vars(Module(i))

----------------------------------------------------------------------------
(* Properties *)

\* No event of the init script is drained back to where its data came from, whether
\* the script succeeded, failed or was killed: the bridges attach to an empty
\* _events, but for the requests that the script had left behind and that were
\* served after RunInitCommand cleared it.
AttachToEmpty ==
  [][\A i \in Instances : ~ bridges[i] /\ bridges'[i] => events[i] = 0 \/ i \in leftover]_vars

\* No command outlives its process or its module, whichever way main returns and
\* whoever calls stopSubscribers first; only log.Fatal and a crash skip it.
NoOrphanCommand ==
  \A i \in Instances : stage[i] \in {"deregister", "gone"} /\ ended[i] # "abruptly" => ~ bridges[i] /\ ~ command[i]

\* Callers reach the instance that serves.  In-process callers never load a
\* gateway whose Cleanup is over, and while no reload is under way, and unless
\* the last one was refused, they load the one HTTP is served from, in whatever
\* order old Cleanups and new Provisions come.  The socket file leads to the
\* process that listens, over crashes and restarts, unless two processes overlap
\* (each removes whatever file is at the path).
CallersReachTheServer ==
  /\ slot # None => stage[slot] # "gone"
  /\ reload = None /\ current # None /\ ~ rolledBack => slot = current
  /\ ~ overlap => \A i \in Instances : listening[i] => path = i

\* A signal ends the process: during init, whose script may hang, between the
\* steps of the boot, before Serve, or with requests that never finish.
SignalEndsProcess == \A i \in Instances : cancelled[i] ~> stage[i] = "gone"

\* "Then Shutdown drains in-flight HTTP requests" (main.go): after a signal the
\* process does not go away under a request it has accepted before the grace
\* period is over.
InFlightDrained ==
  \A i \in Instances : stage[i] = "gone" /\ i \notin late /\ ended[i] = "none" => requests[i] = {}

=============================================================================
