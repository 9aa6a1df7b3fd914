----------------------------- MODULE SshTunnel -----------------------------
(***************************************************************************)
(* maybe_ssh_tunnel (mailllama/ssh_tunnel.py) as the web server's lifespan   *)
(* (web/app.py) and the commands of cli.py enter it: independent processes  *)
(* that probe, spawn, share and stop tunnels on one local port, without a   *)
(* lock. ssh runs in a session of its own, so it outlives a parent that is  *)
(* killed.                                                                  *)
(***************************************************************************)
EXTENDS Naturals, FiniteSets

CONSTANTS
    Users,          \* processes that enter the context manager
    MaxSpawns       \* bound: ssh processes started

ASSUME SpawnAssumption == MaxSpawns \in Nat

VARIABLES
    at,         \* where each user is
    proc,       \* its Popen (0: none)
    ssh,        \* every ssh process ever started
    external,   \* somebody else listens on the port
    killed      \* ssh processes whose parent was killed before it could stop them

vars == <<at, proc, ssh, external, killed>>

Spawned == 1..MaxSpawns

Init ==
    /\ at = [u \in Users |-> "out"]
    /\ proc = [u \in Users |-> 0]
    /\ ssh = [c \in Spawned |-> "unborn"]
    /\ external = FALSE
    /\ killed = {}

Alive(c) == ssh[c] \in {"connecting", "listening"}

PortOpen == external \/ \E c \in Spawned : ssh[c] = "listening"

-----------------------------------------------------------------------------
(* ssh, and other programs that listen on the port.                         *)

\* ExitOnForwardFailure: who finds the port taken exits.
SshConnects(c) ==
    /\ ssh[c] = "connecting"
    /\ ssh' = [ssh EXCEPT ![c] = IF PortOpen THEN "exited" ELSE "listening"]
    /\ UNCHANGED <<at, proc, external, killed>>

SshExits(c) ==
    /\ Alive(c)
    /\ ssh' = [ssh EXCEPT ![c] = "exited"]
    /\ UNCHANGED <<at, proc, external, killed>>

External ==
    /\ external \/ ~PortOpen
    /\ external' = ~external
    /\ UNCHANGED <<at, proc, ssh, killed>>

-----------------------------------------------------------------------------
(* The context manager.                                                     *)

\* An open port is used as it is.
Probe(u) ==
    /\ at[u] = "out"
    /\ at' = [at EXCEPT ![u] = IF PortOpen THEN "inside" ELSE "spawning"]
    /\ UNCHANGED <<proc, ssh, external, killed>>

Unborn == {c \in Spawned : ssh[c] = "unborn"}

Spawn(u) ==
    /\ at[u] = "spawning"
    /\ \E c \in Unborn :
         /\ \A d \in Unborn : c <= d
         /\ proc' = [proc EXCEPT ![u] = c]
         /\ ssh' = [ssh EXCEPT ![c] = "connecting"]
    /\ at' = [at EXCEPT ![u] = "waiting"]
    /\ UNCHANGED <<external, killed>>

\* _wait_for_port: whoever opened it.
PortSeen(u) ==
    /\ at[u] = "waiting"
    /\ PortOpen
    /\ at' = [at EXCEPT ![u] = "inside"]
    /\ UNCHANGED <<proc, ssh, external, killed>>

\* Mutation: a tunnel that is late is given up without stopping its ssh.
TimeoutLeaves == "out"

AfterTimeout == "stopping"

\* Mutation: only an ssh that exited is given up, one that hangs is waited for.
TimesOutOnExit(u) ==
    /\ at[u] = "waiting"
    /\ ~Alive(proc[u])
    /\ at' = [at EXCEPT ![u] = AfterTimeout]
    /\ UNCHANGED <<proc, ssh, external, killed>>

\* The deadline passes, or Ctrl-C comes, at whichever poll.
TimesOut(u) ==
    /\ at[u] = "waiting"
    /\ at' = [at EXCEPT ![u] = AfterTimeout]
    /\ proc' = [proc EXCEPT ![u] = IF AfterTimeout = "out" THEN 0 ELSE @]
    /\ UNCHANGED <<ssh, external, killed>>

\* Mutation: the finally clause is run for a reused tunnel, too.
LeaveAlwaysStops(u) ==
    /\ at[u] = "inside"
    /\ at' = [at EXCEPT ![u] = "stopping"]
    /\ UNCHANGED <<proc, ssh, external, killed>>

\* The body of the with statement ends, or is interrupted.
Leave(u) ==
    /\ at[u] = "inside"
    /\ at' = [at EXCEPT ![u] = IF proc[u] = 0 THEN "out" ELSE "stopping"]
    /\ UNCHANGED <<proc, ssh, external, killed>>

ToStop(u) == {c \in {proc[u]} : Alive(c)}

\* terminate, and kill for one that does not listen.
Stop(u) ==
    /\ at[u] = "stopping"
    /\ ssh' = [c \in Spawned |-> IF c \in ToStop(u) THEN "exited" ELSE ssh[c]]
    /\ proc' = [proc EXCEPT ![u] = 0]
    /\ at' = [at EXCEPT ![u] = "out"]
    /\ UNCHANGED <<external, killed>>

\* The process is killed, or interrupted between Popen and try: no finally
\* clause runs.
Die(u) ==
    /\ at[u] # "out"
    /\ at' = [at EXCEPT ![u] = "out"]
    /\ proc' = [proc EXCEPT ![u] = 0]
    /\ killed' = killed \cup ({proc[u]} \ {0})
    /\ UNCHANGED <<ssh, external>>

-----------------------------------------------------------------------------
UserStep(u) ==
    Probe(u) \/ Spawn(u) \/ PortSeen(u) \/ TimesOut(u) \/ Leave(u) \/ Stop(u) \/ Die(u)

Next ==
    \/ \E u \in Users : UserStep(u)
    \/ \E c \in Spawned : SshConnects(c) \/ SshExits(c)
    \/ External

\* A user that has started to wait gives up at its deadline, and one that has
\* started to stop its ssh does so.
Fairness == \A u \in Users : WF_vars(PortSeen(u) \/ TimesOut(u)) /\ WF_vars(Stop(u))

Spec == Init /\ [][Next]_vars

FairSpec == Spec /\ Fairness

-----------------------------------------------------------------------------
\* Type invariant: a user waits for, and stops, an ssh of its own that was started,
\* and has none before it spawns and after it left.
TypeOK ==
    /\ at \in [Users -> {"out", "spawning", "waiting", "inside", "stopping"}]
    /\ proc \in [Users -> 0..MaxSpawns]
    /\ ssh \in [Spawned -> {"unborn", "connecting", "listening", "exited"}]
    /\ external \in BOOLEAN
    /\ killed \subseteq Spawned
    /\ \A u \in Users :
         /\ at[u] \in {"out", "spawning"} => proc[u] = 0
         /\ at[u] \in {"waiting", "stopping"} => proc[u] # 0
         /\ proc[u] # 0 => ssh[proc[u]] # "unborn"

\* ssh_tunnel.py:8, "then tears the tunnel down on exit": whatever way a user
\* leaves, short of being killed, no ssh it started is left behind, and no two
\* users hold the same one.
NoSshLeftBehind ==
    \A c \in Spawned : Alive(c) =>
        c \in killed \/ Cardinality({u \in Users : proc[u] = c /\ at[u] # "out"}) = 1

\* A user never hangs between the probe and the body: it gets in, or gives up at its
\* deadline (then with its own ssh stopped, as NoSshLeftBehind demands), or is killed.
WaitingEnds == \A u \in Users : at[u] = "waiting" ~> at[u] \in {"inside", "out"}
=============================================================================
