-------------------------- MODULE SshTunnelProofs ---------------------------
(***************************************************************************)
(* Proofs about SshTunnel, for any number of processes and tunnels. The     *)
(* inductive invariant IInv says, beside the types, that no two users hold  *)
(* the same ssh (OneHolder), and that an ssh that is alive has a holder,    *)
(* unless its parent was killed (AliveIsHeld).                              *)
(***************************************************************************)
EXTENDS SshTunnel, FiniteSetTheorems, TLAPS

OneHolder == \A u, v \in Users : proc[u] = proc[v] /\ proc[u] # 0 => u = v

AliveIsHeld == \A c \in Spawned : Alive(c) => c \in killed \/ \E u \in Users : proc[u] = c

IInv == TypeOK /\ OneHolder /\ AliveIsHeld

LEMMA ZeroIsNoSsh == 0 \notin Spawned /\ Spawned \subseteq 0..MaxSpawns /\ Spawned = (0..MaxSpawns) \ {0}
  BY SpawnAssumption DEF Spawned

LEMMA InitIInv == Init => IInv
<1> SUFFICES ASSUME Init PROVE IInv
  OBVIOUS
<1>1. 0 \in 0..MaxSpawns
  BY SpawnAssumption
<1>2. TypeOK
  BY <1>1 DEF Init, TypeOK
<1>3. OneHolder /\ AliveIsHeld
  BY DEF Init, OneHolder, AliveIsHeld, Alive
<1>4. QED
  BY <1>2, <1>3 DEF IInv

\* Steps that leave every user's ssh alone.
LEMMA SameHolders ==
    ASSUME IInv, UNCHANGED proc, killed \subseteq killed',
           \A c \in Spawned : Alive(c)' => Alive(c)
    PROVE  OneHolder' /\ AliveIsHeld'
  BY DEF IInv, OneHolder, AliveIsHeld

LEMMA SshKeeps ==
    ASSUME IInv, NEW c \in Spawned, SshConnects(c) \/ SshExits(c)
    PROVE  IInv'
<1>1. /\ UNCHANGED <<at, proc, external, killed>>
      /\ ssh' \in [Spawned -> {"unborn", "connecting", "listening", "exited"}]
      /\ ssh[c] # "unborn" /\ ssh'[c] # "unborn" /\ Alive(c)
      /\ \A d \in Spawned \ {c} : ssh'[d] = ssh[d]
  BY DEF SshConnects, SshExits, Alive, IInv, TypeOK
<1>2. TypeOK'
  BY <1>1, ZeroIsNoSsh DEF IInv, TypeOK
<1>3. \A d \in Spawned : Alive(d)' => Alive(d)
  BY <1>1 DEF Alive
<1>4. QED
  BY <1>1, <1>2, <1>3, SameHolders DEF IInv

\* A new ssh is nobody's yet.
LEMMA SpawnKeeps ==
    ASSUME IInv, NEW u \in Users, Spawn(u)
    PROVE  IInv'
<1>1. PICK c \in Unborn : proc' = [proc EXCEPT ![u] = c] /\ ssh' = [ssh EXCEPT ![c] = "connecting"]
  BY DEF Spawn
<1>2. c \in Spawned /\ ssh[c] = "unborn"
  BY DEF Unborn
<1>3. at' = [at EXCEPT ![u] = "waiting"] /\ UNCHANGED <<external, killed>>
  BY DEF Spawn
<1>4. TypeOK
  BY DEF IInv
<1>5. \A v \in Users : proc[v] # c
  BY <1>2, <1>4, ZeroIsNoSsh DEF TypeOK
<1>6. TypeOK'
  <2>1. /\ at' \in [Users -> {"out", "spawning", "waiting", "inside", "stopping"}]
        /\ proc' \in [Users -> 0..MaxSpawns]
        /\ ssh' \in [Spawned -> {"unborn", "connecting", "listening", "exited"}]
    BY <1>1, <1>2, <1>3, <1>4, ZeroIsNoSsh DEF TypeOK
  <2>2. ASSUME NEW v \in Users
        PROVE  /\ at'[v] \in {"out", "spawning"} => proc'[v] = 0
               /\ at'[v] \in {"waiting", "stopping"} => proc'[v] # 0
               /\ proc'[v] # 0 => ssh'[proc'[v]] # "unborn"
    <3>1. CASE v = u
      BY <1>1, <1>2, <1>3, <1>4, <3>1, ZeroIsNoSsh DEF TypeOK
    <3>2. CASE v # u
      <4>1. at'[v] = at[v] /\ proc'[v] = proc[v]
        BY <1>1, <1>3, <1>4, <3>2 DEF TypeOK
      <4>2. proc[v] # 0 => ssh'[proc[v]] = ssh[proc[v]]
        BY <1>1, <1>4, <1>5, ZeroIsNoSsh DEF TypeOK
      <4>3. QED
        BY <1>4, <4>1, <4>2 DEF TypeOK
    <3>3. QED
      BY <3>1, <3>2
  <2>3. QED
    BY <1>3, <1>4, <2>1, <2>2 DEF TypeOK
<1>7. OneHolder'
  BY <1>1, <1>4, <1>5 DEF IInv, OneHolder, TypeOK
<1>8. AliveIsHeld'
  <2>1. ASSUME NEW d \in Spawned, Alive(d)', d # c, d \notin killed
        PROVE  \E v \in Users : proc'[v] = d
    <3>1. PICK v \in Users : proc[v] = d
      BY <1>1, <1>2, <1>4, <2>1 DEF IInv, AliveIsHeld, Alive, TypeOK
    <3>2. v # u
      BY <1>4, <2>1, <3>1, ZeroIsNoSsh DEF Spawn, TypeOK
    <3>3. QED
      BY <1>1, <1>4, <3>1, <3>2 DEF TypeOK
  <2>2. proc'[u] = c
    BY <1>1, <1>4 DEF TypeOK
  <2>3. QED
    BY <1>3, <2>1, <2>2 DEF AliveIsHeld
<1>9. QED
  BY <1>6, <1>7, <1>8 DEF IInv

\* Steps of a user before it lets its ssh go.
LEMMA UserMoves ==
    ASSUME IInv, NEW u \in Users, Probe(u) \/ PortSeen(u) \/ TimesOut(u) \/ Leave(u)
    PROVE  IInv'
<1>1. TypeOK /\ AfterTimeout = "stopping"
  BY DEF IInv, AfterTimeout
<1>2. UNCHANGED <<ssh, external, killed>> /\ proc' = proc
  BY <1>1 DEF Probe, PortSeen, TimesOut, Leave, TypeOK
<1>3. TypeOK'
  <2>1. at' \in [Users -> {"out", "spawning", "waiting", "inside", "stopping"}]
    BY <1>1 DEF Probe, PortSeen, TimesOut, Leave, TypeOK
  <2>2. \A v \in Users \ {u} : at'[v] = at[v]
    BY <1>1 DEF Probe, PortSeen, TimesOut, Leave, TypeOK
  <2>3. /\ at'[u] \in {"out", "spawning"} => proc[u] = 0
        /\ at'[u] \in {"waiting", "stopping"} => proc[u] # 0
    BY <1>1 DEF Probe, PortSeen, TimesOut, Leave, TypeOK
  <2>4. QED
    BY <1>1, <1>2, <2>1, <2>2, <2>3 DEF TypeOK
<1>4. OneHolder' /\ AliveIsHeld'
  BY <1>2, SameHolders DEF Alive
<1>5. QED
  BY <1>3, <1>4 DEF IInv

\* A user lets its ssh go: it was stopped, or the user was killed.
LEMMA LetGo ==
    ASSUME IInv, NEW u \in Users, Stop(u) \/ Die(u)
    PROVE  IInv'
<1>1. TypeOK
  BY DEF IInv
<1>2. /\ at' = [at EXCEPT ![u] = "out"] /\ proc' = [proc EXCEPT ![u] = 0]
      /\ external' = external /\ killed \subseteq killed'
      /\ killed' \subseteq killed \cup ({proc[u]} \ {0})
  BY DEF Stop, Die
<1>3. /\ ssh' \in [Spawned -> {"unborn", "connecting", "listening", "exited"}]
      /\ \A c \in Spawned : ssh'[c] \in {ssh[c], "exited"}
  BY <1>1 DEF Stop, Die, TypeOK
<1>4. TypeOK'
  <2>0. killed' \subseteq Spawned
    BY <1>1, <1>2, ZeroIsNoSsh DEF TypeOK
  <2>1. /\ at' \in [Users -> {"out", "spawning", "waiting", "inside", "stopping"}]
        /\ proc' \in [Users -> 0..MaxSpawns]
    BY <1>1, <1>2, ZeroIsNoSsh, SpawnAssumption DEF TypeOK
  <2>2. ASSUME NEW v \in Users
        PROVE  /\ at'[v] \in {"out", "spawning"} => proc'[v] = 0
               /\ at'[v] \in {"waiting", "stopping"} => proc'[v] # 0
               /\ proc'[v] # 0 => ssh'[proc'[v]] # "unborn"
    <3>1. CASE v = u
      BY <1>1, <1>2, <3>1 DEF TypeOK
    <3>2. CASE v # u
      <4>1. at'[v] = at[v] /\ proc'[v] = proc[v]
        BY <1>1, <1>2, <3>2 DEF TypeOK
      <4>2. QED
        BY <1>1, <1>3, <4>1, ZeroIsNoSsh DEF TypeOK
    <3>3. QED
      BY <3>1, <3>2
  <2>3. QED
    BY <1>1, <1>2, <1>3, <2>0, <2>1, <2>2 DEF TypeOK
<1>5. OneHolder'
  BY <1>1, <1>2 DEF IInv, OneHolder, TypeOK
<1>6. ASSUME NEW c \in Spawned, Alive(c)', c \notin killed'
      PROVE  \E v \in Users : proc'[v] = c
  <2>1. Alive(c) /\ c \notin killed
    BY <1>2, <1>3, <1>6 DEF Alive
  <2>2. PICK v \in Users : proc[v] = c
    BY <2>1 DEF IInv, AliveIsHeld
  <2>3. c # 0
    BY ZeroIsNoSsh
  <2>4. v # u
    <3>1. CASE Stop(u)
      BY <1>1, <1>6, <2>2, <3>1 DEF Stop, ToStop, Alive, TypeOK
    <3>2. CASE Die(u)
      BY <1>6, <2>2, <2>3, <3>2 DEF Die
    <3>3. QED
      BY <3>1, <3>2
  <2>5. QED
    BY <1>1, <1>2, <2>2, <2>4 DEF TypeOK
<1>7. QED
  BY <1>4, <1>5, <1>6 DEF IInv, AliveIsHeld

LEMMA NextIInv ==
    ASSUME IInv, [Next]_vars
    PROVE  IInv'
<1>1. CASE UNCHANGED vars
  BY <1>1 DEF vars, IInv, TypeOK, OneHolder, AliveIsHeld, Alive
<1>2. ASSUME NEW u \in Users, UserStep(u) PROVE IInv'
  BY <1>1, <1>2, SpawnKeeps, UserMoves, LetGo DEF UserStep
<1>3. ASSUME NEW c \in Spawned, SshConnects(c) \/ SshExits(c) PROVE IInv'
  BY <1>3, SshKeeps
<1>4. CASE External
  BY <1>4 DEF External, IInv, TypeOK, OneHolder, AliveIsHeld, Alive
<1>5. QED
  BY <1>1, <1>2, <1>3, <1>4 DEF Next

LEMMA SpecIInv == Spec => []IInv
  BY InitIInv, NextIInv, PTL DEF Spec

-----------------------------------------------------------------------------
\* A user waits for, and stops, an ssh of its own that was started, and has none
\* before it spawns and after it left (ssh_tunnel.py).
THEOREM TypeCorrect == Spec => []TypeOK
<1>1. IInv => TypeOK
  BY DEF IInv
<1>2. QED
  BY <1>1, SpecIInv, PTL

\* Short of a kill, no ssh outlives the user that started it, and no two users hold
\* the same one (ssh_tunnel.py:8).
THEOREM NoneIsLeftBehind == Spec => []NoSshLeftBehind
<1>1. ASSUME IInv, NEW c \in Spawned, Alive(c), c \notin killed
      PROVE  Cardinality({u \in Users : proc[u] = c /\ at[u] # "out"}) = 1
  <2>1. PICK u \in Users : proc[u] = c
    BY <1>1 DEF IInv, AliveIsHeld
  <2>2. c # 0
    BY ZeroIsNoSsh
  <2>3. at[u] # "out"
    BY <1>1, <2>1, <2>2 DEF IInv, TypeOK
  <2>4. {v \in Users : proc[v] = c /\ at[v] # "out"} = {u}
    BY <1>1, <2>1, <2>2, <2>3 DEF IInv, OneHolder
  <2>5. QED
    BY <2>4, FS_Singleton
<1>2. IInv => NoSshLeftBehind
  BY <1>1 DEF NoSshLeftBehind
<1>3. QED
  BY <1>2, SpecIInv, PTL
=============================================================================
