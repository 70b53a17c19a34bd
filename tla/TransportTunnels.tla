-------------------------- MODULE TransportTunnels --------------------------
(***************************************************************************)
(* The transport layers of a connection                                    *)
(* (crates/dbx-core/src/db/transport_layer_tunnel.rs) and the managers of  *)
(* their tunnels: TunnelManager (ssh_tunnel.rs), ProxyTunnelManager        *)
(* (proxy_tunnel.rs) and HttpTunnelManager (http_tunnel.rs).               *)
(*                                                                         *)
(* A tunnel is a task with a listener on a local port; the tunnel of layer *)
(* i+1 is given, once, the local port of the tunnel of layer i to connect  *)
(* to.  An SSH tunnel connects when it is started, under a start lock of   *)
(* its layer, reconnects when its session is lost and gives up after       *)
(* MAX_RECONNECT_ATTEMPTS.  A proxy or HTTP tunnel (called lazy here) only *)
(* binds its port, and two starters settle at the insert.                  *)
(*                                                                         *)
(* A task runs start_transport_layers or stop_transport_layers, layer by   *)
(* layer:                                                                  *)
(*   start  check -> [getLock -> lock -> recheck ->] dial -> insert        *)
(*   stop   [stopGetLock -> stopLock ->] remove [-> dropLock]              *)
(* or stop_all_tunnels of a manager, for SSH with clearLocks.  Each of     *)
(* these steps begins at an await, where the web front end drops the       *)
(* future of a request whose client went away.                             *)
(***************************************************************************)
EXTENDS Naturals, FiniteSets

CONSTANTS
  Tasks,       \* tasks that start and stop the transport of one connection
  MaxLayer,    \* index of the last layer
  MaxTunnels,  \* bound on the tunnels spawned
  MaxAttempts  \* MAX_RECONNECT_ATTEMPTS (10 in the code)

ASSUME TransportTunnelsAssumption ==
  /\ Tasks # {} /\ IsFiniteSet(Tasks)
  /\ MaxLayer \in Nat
  /\ MaxTunnels \in Nat
  /\ MaxAttempts \in Nat \ {0}

Layers == 0..MaxLayer
Tunnels == 1..MaxTunnels                   \* a tunnel and its local port
Locks == 1..(Cardinality(Tasks) + MaxLayer + 1)
None == 0                                  \* no tunnel, no lock, the outside

VARIABLES
  ssh,       \* is the layer an SSH layer?  (the configuration, never changed)
  spawned,   \* number of tunnels spawned
  tunnels,   \* the managers' maps: layer -> its tunnel, or None
  startLock, \* start_locks: layer -> the identity of its Arc<Mutex>, or None
  down,      \* managers whose stop_all_tunnels shutdown has called
  split,     \* did stop_all drop a start lock of the layer that was in use?
  lost,      \* tunnels whose start was dropped before it inserted them
  tun,       \* what the task of a tunnel does
  layerOf,   \* the layer a tunnel was started for
  upstream,  \* the local port a tunnel connects to (None: the layer's own host)
  attempts,  \* failed reconnect attempts in a row
  pc,        \* control of a task
  layer,     \* the layer a task is at
  port,      \* next_connect_endpoint of a start
  lock,      \* the Arc of the start lock a task holds a clone of, or None
  made       \* the tunnel a start has spawned and not inserted yet

managerVars == <<ssh, spawned, tunnels, startLock, down, split, lost>>
tunnelVars  == <<tun, layerOf, upstream, attempts>>
taskVars    == <<pc, layer, port, lock, made>>
vars == <<managerVars, tunnelVars, taskVars>>

HoldPc == {"recheck", "dial", "insert", "remove", "dropLock"}
Pcs == HoldPc \cup {"idle", "check", "getLock", "lock", "stopGetLock", "stopLock",
                    "clearLocks"}

(***************************************************************************)
(* Type correctness of the maps, the tunnels and the tasks.                *)
(***************************************************************************)
TypeOK ==
  /\ ssh \in [Layers -> BOOLEAN]
  /\ spawned \in 0..MaxTunnels
  /\ tunnels \in [Layers -> Tunnels \cup {None}]
  /\ startLock \in [Layers -> Locks \cup {None}]
  /\ down \subseteq {"ssh", "lazy"}
  /\ split \in [Layers -> BOOLEAN]
  /\ lost \subseteq Tunnels
  /\ tun \in [Tunnels -> {"none", "up", "retry", "ended"}]
  /\ layerOf \in [Tunnels -> Layers]
  /\ upstream \in [Tunnels -> Tunnels \cup {None}]
  /\ attempts \in [Tunnels -> 0..MaxAttempts]
  /\ pc \in [Tasks -> Pcs]
  /\ layer \in [Tasks -> Layers]
  /\ port \in [Tasks -> Tunnels \cup {None}]
  /\ lock \in [Tasks -> Locks \cup {None}]
  /\ made \in [Tasks -> Tunnels \cup {None}]

\* HTTP tunnels are the first layer only (validate_transport_layers); nothing
\* below depends on which lazy tunnel it is.
Init ==
  /\ ssh \in [Layers -> BOOLEAN]
  /\ spawned = 0
  /\ tunnels = [i \in Layers |-> None]
  /\ startLock = [i \in Layers |-> None]
  /\ down = {}
  /\ split = [i \in Layers |-> FALSE]
  /\ lost = {}
  /\ tun = [n \in Tunnels |-> "none"]
  /\ layerOf = [n \in Tunnels |-> 0]
  /\ upstream = [n \in Tunnels |-> None]
  /\ attempts = [n \in Tunnels |-> 0]
  /\ pc = [t \in Tasks |-> "idle"]
  /\ layer = [t \in Tasks |-> 0]
  /\ port = [t \in Tasks |-> None]
  /\ lock = [t \in Tasks |-> None]
  /\ made = [t \in Tasks |-> None]

-----------------------------------------------------------------------------
Live(n) == tun[n] \in {"up", "retry"}
Goto(t, p) == pc' = [pc EXCEPT ![t] = p]

\* get_active_port: an entry whose task has finished does not count.
Active(i) == tunnels[i] # None /\ Live(tunnels[i])

\* local_port of the lazy managers: an entry counts, whatever its task does.
Known(i) == IF ssh[i] THEN Active(i) ELSE tunnels[i] # None

\* The tasks of these tunnels end (JoinHandle::abort, or the loop returns), and
\* their locals with them.
End(ns) ==
  /\ tun' = [n \in Tunnels |-> IF n \in ns THEN "ended" ELSE tun[n]]
  /\ layerOf' = [n \in Tunnels |-> IF n \in ns THEN 0 ELSE layerOf[n]]
  /\ upstream' = [n \in Tunnels |-> IF n \in ns THEN None ELSE upstream[n]]
  /\ attempts' = [n \in Tunnels |-> IF n \in ns THEN 0 ELSE attempts[n]]

InUse(l) == \E t \in Tasks : lock[t] = l
Held(l) == \E t \in Tasks : lock[t] = l /\ pc[t] \in HoldPc

\* A call ends: the task gives up its clone of the start lock.
Return(t) ==
  /\ Goto(t, "idle")
  /\ layer' = [layer EXCEPT ![t] = 0]
  /\ port' = [port EXCEPT ![t] = None]
  /\ lock' = [lock EXCEPT ![t] = None]
  /\ made' = [made EXCEPT ![t] = None]

\* start_transport_layers: the layer has local port n; on to the next one.
NextLayer(t, n) ==
  IF layer[t] = MaxLayer
    THEN Return(t)
    ELSE /\ Goto(t, "check")
         /\ layer' = [layer EXCEPT ![t] = @ + 1]
         /\ port' = [port EXCEPT ![t] = n]
         /\ lock' = [lock EXCEPT ![t] = None]
         /\ made' = [made EXCEPT ![t] = None]

StopEntry(i) == IF ssh[i] THEN "stopGetLock" ELSE "remove"

\* stop_transport_layers: on to the next layer.
NextStop(t) ==
  IF layer[t] = MaxLayer
    THEN Return(t)
    ELSE /\ Goto(t, StopEntry(layer[t] + 1))
         /\ layer' = [layer EXCEPT ![t] = @ + 1]
         /\ lock' = [lock EXCEPT ![t] = None]
         /\ UNCHANGED <<port, made>>

\* start_lock: the entry of the map, made when there is none.
TakeLock(t) ==
  LET i == layer[t]
      fresh == CHOOSE l \in Locks : ~InUse(l) /\ \A j \in Layers : startLock[j] # l
      l == IF startLock[i] = None THEN fresh ELSE startLock[i]
  IN /\ startLock' = [startLock EXCEPT ![i] = l]
     /\ lock' = [lock EXCEPT ![t] = l]

-----------------------------------------------------------------------------
(* start_transport_layers                                                  *)

StartLayers(t) ==
  /\ pc[t] = "idle"
  /\ Goto(t, "check")
  /\ UNCHANGED <<managerVars, tunnelVars, layer, port, lock, made>>

\* start_tunnel: a known tunnel is used; the entry of a finished one is removed.
Check(t) ==
  LET i == layer[t] IN
    /\ pc[t] \in {"check", "recheck"}
    /\ IF Known(i)
         THEN NextLayer(t, tunnels[i]) /\ UNCHANGED tunnels
         ELSE /\ tunnels' = [tunnels EXCEPT ![i] = None]
              /\ Goto(t, IF ssh[i] /\ pc[t] = "check" THEN "getLock" ELSE "dial")
              /\ UNCHANGED <<layer, port, lock, made>>
    /\ UNCHANGED <<ssh, spawned, startLock, down, split, lost, tunnelVars>>

GetLock(t) ==
  /\ pc[t] \in {"getLock", "stopGetLock"}
  /\ TakeLock(t)
  /\ Goto(t, IF pc[t] = "getLock" THEN "lock" ELSE "stopLock")
  /\ UNCHANGED <<ssh, spawned, tunnels, down, split, lost, tunnelVars, layer, port, made>>

\* start_lock.lock().await
Lock(t) ==
  /\ pc[t] \in {"lock", "stopLock"}
  /\ ~Held(lock[t])
  /\ Goto(t, IF pc[t] = "lock" THEN "recheck" ELSE "remove")
  /\ UNCHANGED <<managerVars, tunnelVars, layer, port, lock, made>>

\* spawn_tunnel (SSH: connect and authenticate first; lazy: only bind), then the
\* task of the tunnel.
Dial(t) ==
  LET i == layer[t]
      n == spawned + 1
  IN /\ pc[t] = "dial"
     /\ spawned < MaxTunnels
     /\ ssh[i] /\ port[t] # None => tun[port[t]] = "up"
     /\ spawned' = n
     /\ tun' = [tun EXCEPT ![n] = "up"]
     /\ layerOf' = [layerOf EXCEPT ![n] = i]
     /\ upstream' = [upstream EXCEPT ![n] = port[t]]
     /\ made' = [made EXCEPT ![t] = n]
     /\ Goto(t, "insert")
     /\ UNCHANGED <<ssh, tunnels, startLock, down, split, lost, attempts, layer, port, lock>>

\* The connection is refused, or the port cannot be bound: the start fails and
\* the earlier layers stay up.
DialFails(t) ==
  /\ pc[t] = "dial"
  /\ Return(t)
  /\ UNCHANGED <<managerVars, tunnelVars>>

\* A mistaken insert that does not look for another starter's tunnel.
InsertOver(t) ==
  LET i == layer[t] IN
    /\ pc[t] = "insert"
    /\ tunnels' = [tunnels EXCEPT ![i] = made[t]]
    /\ NextLayer(t, made[t])
    /\ UNCHANGED <<ssh, spawned, startLock, down, split, lost, tunnelVars>>

\* SSH: insert, replacing what is there (its JoinHandle is dropped, its task goes
\* on).  Lazy: a tunnel that is there by now wins and the new one is aborted.
Insert(t) ==
  LET i == layer[t] IN
    /\ pc[t] = "insert"
    /\ IF ~ssh[i] /\ tunnels[i] # None
         THEN /\ End({made[t]})
              /\ NextLayer(t, tunnels[i])
              /\ UNCHANGED tunnels
         ELSE /\ tunnels' = [tunnels EXCEPT ![i] = made[t]]
              /\ NextLayer(t, made[t])
              /\ UNCHANGED tunnelVars
    /\ UNCHANGED <<ssh, spawned, startLock, down, split, lost>>

-----------------------------------------------------------------------------
(* stop_transport_layers and stop_all_tunnels                              *)

StopLayers(t) ==
  /\ pc[t] = "idle"
  /\ Goto(t, StopEntry(0))
  /\ UNCHANGED <<managerVars, tunnelVars, layer, port, lock, made>>

\* stop_tunnel: remove the entry and abort its task.
RemoveTunnel(t) ==
  LET i == layer[t] IN
    /\ pc[t] = "remove"
    /\ End({tunnels[i]})
    /\ tunnels' = [tunnels EXCEPT ![i] = None]
    /\ IF ssh[i] THEN Goto(t, "dropLock") /\ UNCHANGED <<layer, port, lock, made>>
                 ELSE NextStop(t)
    /\ UNCHANGED <<ssh, spawned, startLock, down, split, lost>>

\* A mistaken end of stop_tunnel that drops the start lock others wait for.
DropAnyLock(t) ==
  LET i == layer[t] IN
    /\ pc[t] = "dropLock"
    /\ startLock' = [startLock EXCEPT ![i] = IF @ = lock[t] THEN None ELSE @]
    /\ NextStop(t)
    /\ UNCHANGED <<ssh, spawned, tunnels, down, split, lost, tunnelVars>>

\* stop_tunnel: drop the entry of start_locks when it is still the same lock and
\* nobody else has a clone of it (strong_count == 2: the map's and its own).
DropLock(t) ==
  LET i == layer[t]
      idle == startLock[i] = lock[t] /\ \A u \in Tasks \ {t} : lock[u] # lock[t]
  IN /\ pc[t] = "dropLock"
     /\ startLock' = [startLock EXCEPT ![i] = IF idle THEN None ELSE @]
     /\ NextStop(t)
     /\ UNCHANGED <<ssh, spawned, tunnels, down, split, lost, tunnelVars>>

\* stop_all_tunnels (shutdown joins the calls of the managers, in any order): take
\* the manager's map and abort every task; for SSH ...
TakeAll(t) ==
  /\ pc[t] = "idle"
  /\ \E m \in {"ssh", "lazy"} \ down :
       LET mine == {i \in Layers : ssh[i] <=> m = "ssh"} IN
         /\ mine # {}  \* other managers have nothing of this connection
         /\ down' = down \cup {m}
         /\ End({tunnels[i] : i \in mine})
         /\ tunnels' = [i \in Layers |-> IF i \in mine THEN None ELSE tunnels[i]]
         /\ Goto(t, IF m = "ssh" THEN "clearLocks" ELSE "idle")
  /\ UNCHANGED <<ssh, spawned, startLock, split, lost, layer, port, lock, made>>

\* ... and clear start_locks, whoever holds one.
ClearLocks(t) ==
  /\ pc[t] = "clearLocks"
  /\ startLock' = [i \in Layers |-> None]
  /\ split' = [i \in Layers |-> split[i] \/ (startLock[i] # None /\ InUse(startLock[i]))]
  /\ Return(t)
  /\ UNCHANGED <<ssh, spawned, tunnels, down, lost, tunnelVars>>

\* The future of a call is dropped at an await: its guard and its clone of the
\* start lock go, the entry of start_locks stays.  Dropping the JoinHandle of a
\* tunnel that was spawned and waits to be inserted detaches the tunnel.
Dropped(t) ==
  /\ pc[t] # "idle"
  /\ lost' = lost \cup ({made[t]} \ {None})
  /\ Return(t)
  /\ UNCHANGED <<ssh, spawned, tunnels, startLock, down, split, tunnelVars>>

-----------------------------------------------------------------------------
(* tunnel_reconnect_loop, the task of an SSH tunnel                        *)

\* forward_loop returns: the session is closed, or a ping fails.
SessionLost(n) ==
  /\ tun[n] = "up"
  /\ ssh[layerOf[n]]
  /\ tun' = [tun EXCEPT ![n] = "retry"]
  /\ UNCHANGED <<managerVars, layerOf, upstream, attempts, taskVars>>

\* connect_and_authenticate with the endpoint the tunnel was started with.
Reconnect(n) ==
  /\ tun[n] = "retry"
  /\ attempts[n] < MaxAttempts
  /\ upstream[n] # None => tun[upstream[n]] = "up"
  /\ tun' = [tun EXCEPT ![n] = "up"]
  /\ attempts' = [attempts EXCEPT ![n] = 0]
  /\ UNCHANGED <<managerVars, layerOf, upstream, taskVars>>


ReconnectFails(n) ==
  /\ tun[n] = "retry"
  /\ attempts[n] < MaxAttempts
  /\ attempts' = [attempts EXCEPT ![n] = @ + 1]
  /\ UNCHANGED <<managerVars, tun, layerOf, upstream, taskVars>>

\* The task returns; its entry stays in the map until the next start.
GiveUp(n) ==
  /\ tun[n] = "retry"
  /\ attempts[n] = MaxAttempts
  /\ End({n})
  /\ UNCHANGED <<managerVars, taskVars>>

-----------------------------------------------------------------------------
Calls(t) == StartLayers(t) \/ StopLayers(t) \/ TakeAll(t)

TaskStep(t) ==
  \/ Check(t)
  \/ GetLock(t)
  \/ Lock(t)
  \/ Dial(t)
  \/ DialFails(t)
  \/ Insert(t)
  \/ RemoveTunnel(t)
  \/ DropLock(t)
  \/ ClearLocks(t)
  \/ Dropped(t)

TunnelStep(n) ==
  \/ SessionLost(n)
  \/ Reconnect(n)
  \/ ReconnectFails(n)
  \/ GiveUp(n)

Next ==
  \/ \E t \in Tasks : Calls(t) \/ TaskStep(t)
  \/ \E n \in Tunnels : TunnelStep(n)

(***************************************************************************)
(* Fairness.  A tunnel that reconnects to a port nobody listens on any     *)
(* more goes on with its loop: each sleep ends, each attempt is refused.   *)
(* Nothing says that it notices: the tasks that forward single connections *)
(* are not aborted with the tunnel, and may keep the session above alive.  *)
(***************************************************************************)
UpstreamEnded(n) == upstream[n] # None /\ tun[upstream[n]] = "ended"

Fairness ==
  \A n \in Tunnels : WF_vars(UpstreamEnded(n) /\ (ReconnectFails(n) \/ GiveUp(n)))

Spec == Init /\ [][Next]_vars
FairSpec == Spec /\ Fairness

-----------------------------------------------------------------------------
\* A tunnel that runs is in the map of its manager, where stop finds it, or in
\* the hands of the start that is about to insert it: no interleaving of starts,
\* stops and reconnects leaves a forwarding task that nothing can stop.  There
\* are two exceptions: stop_all_tunnels clears start locks that are in use, and
\* the future of a start may be dropped while it holds a spawned tunnel and waits
\* for the map (ssh_tunnel.rs 809-867, 956-991, 1036; proxy_tunnel.rs 38-64).
EveryTunnelIsKept ==
  \A n \in Tunnels :
    Live(n) => \/ tunnels[layerOf[n]] = n
               \/ \E t \in Tasks : made[t] = n
               \/ split[layerOf[n]]
               \/ n \in lost

\* Two starts never connect the same SSH layer at the same time (the user would
\* be asked for the host key twice), although stops create, share and drop the
\* start locks meanwhile, unless stop_all_tunnels cleared a lock in use
\* (ssh_tunnel.rs 799-806, 835-844, 966-971).
OneHandshake ==
  \A t, u \in Tasks :
    /\ t # u
    /\ layer[t] = layer[u] /\ ssh[layer[t]]
    /\ pc[t] \in HoldPc /\ pc[u] \in HoldPc
    => split[layer[t]]


=============================================================================
