---------------------------- MODULE ManagedHost ----------------------------
(***************************************************************************)
(* The host of the users' own Fiber nodes (managed-host/index.mjs): it     *)
(* starts an fnn process per user on demand, restarts one that exits,      *)
(* forwards requests to it, and snapshots, restores, retires and purges    *)
(* its data directory.                                                     *)
(*                                                                         *)
(* withUserOperation runs one operation of a user at a time, so a user's   *)
(* operation is pc[u]; the operations of other users, the processes and    *)
(* their exit events interleave with it.  One action is the code between   *)
(* two awaits, or a run of awaits that only touches the user's own files.  *)
(*                                                                         *)
(* The processes are outside the repository: fnn holds a lock on its       *)
(* database, listens on the port it was given, or exits.  A directory is   *)
(* the state its node has written, 0 for a new identity.                   *)
(***************************************************************************)
EXTENDS Naturals, FiniteSets, Sequences, SequencesExt

CONSTANTS
    Users,
    Asks,        \* the operations asked for each user (a bound)
    Procs,       \* processes the host may have at once (a bound)
    Ports,
    MaxNodes,    \* KEYWAY_MANAGED_MAX_NODES
    Keep,        \* KEYWAY_MANAGED_BACKUP_GENERATIONS
    Writers,     \* the users whose nodes write (a bound)
    MaxState,    \* how often they do (a bound)
    MaxGivenUp,  \* processes given up at once (a bound)
    MaxListed,   \* snapshots of a user at once, when removing the old ones keeps failing (a bound)
    Faults,      \* races with the operating system the host would lose (none in the runs)
    None

FaultKinds == {"samePort",    \* a port found free is found free again before it is used
               "lateAnswer"}  \* the exit event of a starting node overtakes its last answer

Nodes == [proc : Procs, port : Ports, stopping : BOOLEAN]

ASSUME HostAssumption ==
    /\ Asks \in [Users -> SUBSET {"call", "snapshot", "restore", "retire", "purge"}]
    /\ Keep \in Nat \ {0}
    /\ MaxState \in Nat /\ MaxNodes \in Nat /\ MaxListed \in Nat /\ MaxGivenUp \in Nat
    /\ Faults \subseteq FaultKinds
    /\ None \notin Procs \cup Ports \cup Nat \cup Nodes

VARIABLES
    pc,         \* where each user's operation is
    kind,       \* which operation it is
    node,       \* nodes: the process registered for each user
    child,      \* the process an operation starts or stops
    port,       \* the port an operation starts a node on, or forwards to
    was,        \* whether a snapshot or restore stopped a running node
    seen,       \* the digest a snapshot took, or the state a restore has staged
    proc,       \* the processes
    orphans,    \* history: processes given up and told to stop, but not waited for
    timer,      \* users whose node is restarted in a second
    dir,        \* the data directories
    previous,   \* <data directory>.previous
    snapshots,  \* the snapshots listed for each user, oldest first, each the state a restore of it gives, None if it
                \* refuses (no archive, or not the recorded digest); and, history, whether it was torn
    retired,    \* users with a retirement marker
    known       \* history: users who have an identity

opRest == <<kind, child, port, was, seen>>
opVars == <<pc, opRest>>
fileVars == <<dir, previous, snapshots, retired, known>>
vars == <<opVars, node, proc, orphans, timer, fileVars>>

States == 0 .. MaxState
Kinds == {"call", "restart", "snapshot", "restore", "retire", "purge"}
Starting == {"port", "spawn", "poll", "answered"}
OnFiles == {"digest", "archive", "swapOut", "swapIn", "drop"}
Labels == {"idle", "ensure", "forward", "stopped", "check", "stop", "exiting", "load", "prune", "unlist",
               "purge", "resume"}
              \cup Starting \cup OnFiles

NoProc == [user |-> None, port |-> None, life |-> "none"]
Live(p) == proc[p].life \in {"spawned", "open"}
Listening(n) == {p \in Procs : proc[p].life = "open" /\ proc[p].port = n}

Init ==
    /\ pc = [u \in Users |-> "idle"]
    /\ kind = [u \in Users |-> "call"]
    /\ node = [u \in Users |-> None]
    /\ child = [u \in Users |-> None]
    /\ port = [u \in Users |-> None]
    /\ was = [u \in Users |-> FALSE]
    /\ seen = [u \in Users |-> None]
    /\ proc = [p \in Procs |-> NoProc]
    /\ orphans = {}
    /\ timer = {}
    /\ dir = [u \in Users |-> None]
    /\ previous = [u \in Users |-> None]
    /\ snapshots = [u \in Users |-> <<>>]
    /\ retired = {}
    /\ known = {}

Goto(u, label) == pc' = [pc EXCEPT ![u] = label]

\* The operation goes on with nothing but its kind, which it keeps until it is over.
Clear(u, label) ==
    /\ Goto(u, label)
    /\ kind' = [kind EXCEPT ![u] = IF label = "idle" THEN "call" ELSE @]
    /\ child' = [child EXCEPT ![u] = None]
    /\ port' = [port EXCEPT ![u] = None]
    /\ seen' = [seen EXCEPT ![u] = None]
    /\ was' = [was EXCEPT ![u] = FALSE]

\* The operation has answered; the next one of the user may begin.
End(u) == Clear(u, "idle")

-----------------------------------------------------------------------------
(* Operations begin.                                                       *)

FirstLabel(k) ==
    CASE k \in {"call", "restart"} -> "ensure"
      [] k \in {"snapshot", "restore"} -> "stop"
      [] k = "retire" -> "ensure"
      [] k = "purge" -> "purge"

\* A request; to retire, the directory must exist and not be retired yet.
Begin(u, k) ==
    /\ pc[u] = "idle"
    /\ k = "retire" => dir[u] # None /\ u \notin retired
    /\ kind' = [kind EXCEPT ![u] = k]
    /\ Goto(u, FirstLabel(k))
    /\ UNCHANGED <<node, child, port, was, seen, proc, orphans, timer, fileVars>>

\* The second after an exit is over, or the host has just started.
Restart(u) ==
    /\ pc[u] = "idle" /\ u \in timer
    /\ timer' = timer \ {u}
    /\ kind' = [kind EXCEPT ![u] = "restart"]
    /\ Goto(u, "ensure")
    /\ UNCHANGED <<node, child, port, was, seen, proc, orphans, fileVars>>

-----------------------------------------------------------------------------
(* ensureNode and startNode.                                               *)

\* With the node there: forward the request, list its channels, or nothing more.
Ensured(u) ==
    Clear(u, CASE kind[u] = "call" -> "forward" [] kind[u] = "retire" -> "check" [] OTHER -> "idle")

InUse == {u \in Users : node[u] # None \/ pc[u] \in Starting}

\* A retired user's node, one still stopping, or one too many is refused; a running one is used.
Ensure(u) ==
    /\ pc[u] = "ensure"
    /\ IF u \in retired THEN End(u)
       ELSE IF node[u] # None
       THEN IF node[u].stopping THEN End(u) ELSE Ensured(u)
       ELSE IF Cardinality(InUse) >= MaxNodes THEN End(u)
       ELSE Goto(u, "port") /\ UNCHANGED opRest
    /\ UNCHANGED <<node, proc, orphans, timer, fileVars>>

\* Ports another node is about to listen on.
Promised == {port[u] : u \in {v \in Users : pc[v] \in Starting}} \cup {proc[p].port : p \in {q \in Procs : Live(q)}}

\* availablePort: nobody listens on it now.
PickPort(u) ==
    /\ pc[u] = "port"
    /\ \E n \in Ports :
         /\ Listening(n) = {}
         /\ n \in Promised => "samePort" \in Faults
         /\ port' = [port EXCEPT ![u] = n]
    /\ Goto(u, "spawn")
    /\ UNCHANGED <<kind, node, child, was, seen, proc, orphans, timer, fileVars>>

\* mkdir, createCkbKey and spawn.
SpawnIn(u) ==
    /\ dir' = [dir EXCEPT ![u] = IF dir[u] = None THEN 0 ELSE dir[u]]
    /\ known' = known \cup {u}
    /\ \E p \in Procs :
         /\ proc[p].life = "none"
         /\ proc' = [proc EXCEPT ![p] = [user |-> u, port |-> port[u], life |-> "spawned"]]
         /\ child' = [child EXCEPT ![u] = p]
    /\ Goto(u, "poll")
    /\ UNCHANGED <<kind, port, was, seen>>

\* Mutant: a directory an interrupted restore left behind is not noticed.
SpawnUnclean(u) ==
    /\ pc[u] = "spawn"
    /\ SpawnIn(u)
    /\ UNCHANGED <<node, orphans, timer, previous, snapshots, retired>>

\* requireCleanRestore, then the process.
Spawn(u) ==
    /\ pc[u] = "spawn"
    /\ IF previous[u] # None THEN End(u) /\ UNCHANGED <<proc, dir, known>> ELSE SpawnIn(u)
    /\ UNCHANGED <<node, orphans, timer, previous, snapshots, retired>>

\* waitForRpc: whoever listens on the port answers; the process has exited; or a minute is over
\* and it is told to stop, without waiting (a death by signal leaves exitCode unset, so it is not noticed).
Poll(u) ==
    /\ pc[u] = "poll"
    /\ \/ Listening(port[u]) # {} /\ Goto(u, "answered") /\ UNCHANGED <<opRest, orphans>>
       \/ proc[child[u]].life = "gone" /\ End(u) /\ UNCHANGED orphans
       \/ /\ Live(child[u]) /\ Cardinality(orphans) < MaxGivenUp
          /\ End(u)
          /\ orphans' = orphans \cup {child[u]}
    /\ UNCHANGED <<node, proc, timer, fileVars>>

\* nodes.set.
Register(u) ==
    /\ pc[u] = "answered"
    /\ node' = [node EXCEPT ![u] = [proc |-> child[u], port |-> port[u], stopping |-> FALSE]]
    /\ Ensured(u)
    /\ UNCHANGED <<proc, orphans, timer, fileVars>>

\* A request went to the port as ensureNode returned the node; it is answered now, or fails.  Or the user is retired.
Answer(u) ==
    /\ pc[u] \in {"forward", "stopped"}
    /\ End(u)
    /\ UNCHANGED <<node, proc, orphans, timer, fileVars>>

-----------------------------------------------------------------------------
(* stopNode and waitForExit.                                               *)

AfterStop(u) ==
    CASE kind[u] = "snapshot" -> "digest"
      [] kind[u] = "restore" -> "load"
      [] kind[u] = "retire" -> "stopped"

\* Mutant: the process is told to stop and not waited for.
StopAtOnce(u) ==
    /\ pc[u] = "stop"
    /\ was' = [was EXCEPT ![u] = node[u] # None]
    /\ node' = [node EXCEPT ![u] = None]
    /\ Goto(u, AfterStop(u))
    /\ UNCHANGED <<kind, child, port, seen, proc, orphans, timer, fileVars>>

\* The node is marked as stopping and told to stop.
Stop(u) ==
    /\ pc[u] = "stop"
    /\ IF node[u] = None
       THEN /\ Goto(u, AfterStop(u))
            /\ UNCHANGED <<node, child, was>>
       ELSE /\ node' = [node EXCEPT ![u].stopping = TRUE]
            /\ child' = [child EXCEPT ![u] = node[u].proc]
            /\ was' = [was EXCEPT ![u] = TRUE]
            /\ Goto(u, "exiting")
    /\ UNCHANGED <<kind, port, seen, proc, orphans, timer, fileVars>>

\* The exit event.
Exited(u) ==
    /\ pc[u] = "exiting"
    /\ proc[child[u]].life = "gone"
    /\ node' = [node EXCEPT ![u] = IF node[u] # None /\ node[u].proc = child[u] THEN None ELSE node[u]]
    /\ child' = [child EXCEPT ![u] = None]
    /\ Goto(u, AfterStop(u))
    /\ UNCHANGED <<kind, port, was, seen, proc, orphans, timer, fileVars>>

\* It has not exited 20 seconds later: the operation fails, and the node stays marked as stopping.
StopFails(u) ==
    /\ pc[u] = "exiting"
    /\ Live(child[u])
    /\ End(u)
    /\ UNCHANGED <<node, proc, orphans, timer, fileVars>>

-----------------------------------------------------------------------------
(* Snapshots and restores.                                                 *)

\* snapshotDigest.
Digest(u) ==
    /\ pc[u] = "digest"
    /\ seen' = [seen EXCEPT ![u] = dir[u]]
    /\ Goto(u, IF dir[u] = None THEN "resume" ELSE "archive")
    /\ UNCHANGED <<kind, node, child, port, was, proc, orphans, timer, fileVars>>

\* What an archive of the directory and the digest taken before make; it is torn if a node that was given up wrote
\* in between.
Taken(u) ==
    [content |-> IF seen[u] = dir[u] THEN dir[u] ELSE None,
     torn |-> seen[u] # dir[u] /\ \E p \in orphans : proc[p].user = u]

\* tar, then the record that lists the snapshot; or tar fails.
Archive(u) ==
    /\ pc[u] = "archive"
    /\ \/ /\ Len(snapshots[u]) < MaxListed
          /\ snapshots' = [snapshots EXCEPT ![u] = Append(@, Taken(u))]
          /\ Goto(u, "prune")
       \/ Goto(u, "resume") /\ UNCHANGED snapshots
    /\ seen' = [seen EXCEPT ![u] = None]
    /\ UNCHANGED <<kind, node, child, port, was, proc, orphans, timer, dir, previous, retired, known>>

\* A snapshot without its archive.
Cut == [content |-> None, torn |-> FALSE]

\* Of the snapshots older than the newest Keep, the oldest loses its archive; or there are none, or a removal fails.
Prune(u) ==
    /\ pc[u] = "prune"
    /\ \/ Len(snapshots[u]) > Keep /\ snapshots' = [snapshots EXCEPT ![u][1] = Cut] /\ Goto(u, "unlist")
       \/ Goto(u, "resume") /\ UNCHANGED snapshots
    /\ UNCHANGED <<kind, node, child, port, was, seen, proc, orphans, timer, dir, previous, retired, known>>

\* And then its record.
Unlist(u) ==
    /\ pc[u] = "unlist"
    /\ \/ snapshots' = [snapshots EXCEPT ![u] = Tail(@)] /\ Goto(u, "prune")
       \/ Goto(u, "resume") /\ UNCHANGED snapshots
    /\ UNCHANGED <<kind, node, child, port, was, seen, proc, orphans, timer, dir, previous, retired, known>>

\* A snapshot is staged if no restore was interrupted, and its archive is there and has the recorded digest.
Load(u) ==
    /\ pc[u] = "load"
    /\ \/ /\ previous[u] = None
          /\ \E s \in ToSet(snapshots[u]) :
               /\ s.content # None
               /\ seen' = [seen EXCEPT ![u] = s.content]
          /\ Goto(u, "swapOut")
       \/ Goto(u, "resume") /\ UNCHANGED seen
    /\ UNCHANGED <<kind, node, child, port, was, proc, orphans, timer, fileVars>>

SwapOut(u) ==
    /\ pc[u] = "swapOut"
    /\ previous' = [previous EXCEPT ![u] = dir[u]]
    /\ dir' = [dir EXCEPT ![u] = None]
    /\ Goto(u, "swapIn")
    /\ UNCHANGED <<kind, node, child, port, was, seen, proc, orphans, timer, snapshots, retired, known>>

\* The staged directory takes its place, or the old one goes back.
SwapIn(u) ==
    /\ pc[u] = "swapIn"
    /\ seen' = [seen EXCEPT ![u] = None]
    /\ \/ /\ dir' = [dir EXCEPT ![u] = seen[u]]
          /\ Goto(u, IF previous[u] = None THEN "resume" ELSE "drop")
          /\ UNCHANGED previous
       \/ /\ dir' = [dir EXCEPT ![u] = previous[u]]
          /\ previous' = [previous EXCEPT ![u] = None]
          /\ Goto(u, "resume")
    /\ UNCHANGED <<kind, node, child, port, was, proc, orphans, timer, snapshots, retired, known>>

\* The old directory is removed; if that fails it stays, and blocks the next start.
Drop(u) ==
    /\ pc[u] = "drop"
    /\ previous' = [previous EXCEPT ![u] = None] \/ UNCHANGED previous
    /\ Goto(u, "resume")
    /\ UNCHANGED <<kind, node, child, port, was, seen, proc, orphans, timer, dir, snapshots, retired, known>>

\* completeDatabaseOperation starts the node again if it ran.
Resume(u) ==
    /\ pc[u] = "resume"
    /\ IF was[u] THEN Goto(u, "ensure") /\ UNCHANGED opRest ELSE End(u)
    /\ UNCHANGED <<node, proc, orphans, timer, fileVars>>

-----------------------------------------------------------------------------
(* Retirement.                                                             *)

\* Every channel is closed and the marker is written, or the operation fails.
Check(u) ==
    /\ pc[u] = "check"
    /\ \/ retired' = retired \cup {u} /\ Goto(u, "stop") /\ UNCHANGED opRest
       \/ End(u) /\ UNCHANGED retired
    /\ UNCHANGED <<node, proc, orphans, timer, dir, previous, snapshots, known>>

\* Only a retired user's data is removed, and only when no node is registered: the directory, then the snapshots,
\* unless the host dies or fails before.  The marker stays.
Purge(u) ==
    /\ pc[u] = "purge"
    /\ IF u \in retired /\ node[u] = None
       THEN /\ dir' = [dir EXCEPT ![u] = None]
            /\ snapshots' \in {snapshots, [snapshots EXCEPT ![u] = <<>>]}
            /\ known' = known \ {u}
       ELSE UNCHANGED <<dir, snapshots, known>>
    /\ End(u)
    /\ UNCHANGED <<node, proc, orphans, timer, previous, retired>>

-----------------------------------------------------------------------------
(* The processes, and the host itself.                                     *)

\* fnn gets its database and its port; by then the host knows of the exits before it (a start takes seconds).
Open(p) ==
    /\ proc[p].life = "spawned"
    /\ \A q \in Procs : proc[q].life = "open" => proc[q].user # proc[p].user /\ proc[q].port # proc[p].port
    /\ \A q \in Procs : proc[q].life # "dead"
    /\ proc' = [proc EXCEPT ![p].life = "open"]
    /\ UNCHANGED <<opVars, node, orphans, timer, fileVars>>

\* A node writes channel state.
Write(p) ==
    /\ proc[p].life = "open"
    /\ LET u == proc[p].user IN
         /\ u \in Writers /\ dir[u] # None
         /\ dir[u] < MaxState
         /\ dir' = [dir EXCEPT ![u] = @ + 1]
    /\ UNCHANGED <<opVars, node, proc, orphans, timer, previous, snapshots, retired, known>>

\* A process exits, told to or not.
Exit(p) ==
    /\ Live(p)
    /\ proc' = [proc EXCEPT ![p].life = "dead"]
    /\ UNCHANGED <<opVars, node, orphans, timer, fileVars>>

Answering(p) == \E u \in Users : pc[u] = "answered" /\ child[u] = p

\* Mutant: forgetting the node is left to stopNode.
ExitKeepsNode(p) ==
    /\ proc[p].life = "dead"
    /\ Answering(p) => "lateAnswer" \in Faults
    /\ proc' = [proc EXCEPT ![p].life = "gone"]
    /\ LET u == proc[p].user IN
         IF node[u] # None /\ node[u].proc = p /\ ~node[u].stopping
         THEN timer' = timer \cup {u}
         ELSE UNCHANGED timer
    /\ UNCHANGED <<opVars, node, orphans, fileVars>>

\* The exit event: a registered node is forgotten, and started again unless it was being stopped.
ExitEvent(p) ==
    /\ proc[p].life = "dead"
    /\ Answering(p) => "lateAnswer" \in Faults
    /\ proc' = [proc EXCEPT ![p].life = "gone"]
    /\ LET u == proc[p].user IN
         IF node[u] # None /\ node[u].proc = p
         THEN /\ node' = [node EXCEPT ![u] = None]
              /\ timer' = IF node[u].stopping THEN timer ELSE timer \cup {u}
         ELSE UNCHANGED <<node, timer>>
    /\ UNCHANGED <<opVars, orphans, fileVars>>

\* Nothing refers to a process that is gone (its name is free again: a bound).
Forget(p) ==
    /\ proc[p].life = "gone"
    /\ \A u \in Users : child[u] # p /\ (node[u] # None => node[u].proc # p)
    /\ p \in orphans => pc[proc[p].user] \notin OnFiles
    /\ proc' = [proc EXCEPT ![p] = NoProc]
    /\ orphans' = orphans \ {p}
    /\ UNCHANGED <<opVars, node, timer, fileVars>>

\* The host exits and starts again: its processes are gone, and every user with a directory is started.
Reboot ==
    /\ kind' = [u \in Users |-> "call"]
    /\ pc' = [u \in Users |-> "idle"]
    /\ node' = [u \in Users |-> None]
    /\ child' = [u \in Users |-> None]
    /\ port' = [u \in Users |-> None]
    /\ was' = [u \in Users |-> FALSE]
    /\ seen' = [u \in Users |-> None]
    /\ proc' = [p \in Procs |-> NoProc]
    /\ orphans' = {}
    /\ timer' = {u \in Users \ retired : dir[u] # None}
    /\ UNCHANGED fileVars

OperationStep(u) ==
    \/ Ensure(u) \/ PickPort(u) \/ Spawn(u) \/ Poll(u) \/ Register(u) \/ Answer(u)
    \/ Stop(u) \/ Exited(u) \/ StopFails(u) \/ Digest(u) \/ Archive(u) \/ Prune(u) \/ Unlist(u)
    \/ Load(u) \/ SwapOut(u) \/ SwapIn(u) \/ Drop(u) \/ Resume(u) \/ Check(u) \/ Purge(u)

Next ==
    \/ \E u \in Users : Restart(u) \/ OperationStep(u) \/ \E k \in Asks[u] : Begin(u, k)
    \/ \E p \in Procs : Open(p) \/ Write(p) \/ Exit(p) \/ ExitEvent(p) \/ Forget(p)
    \/ Reboot

Spec == Init /\ [][Next]_vars

-----------------------------------------------------------------------------
(* Properties.                                                             *)

Processes == [user : Users \cup {None}, port : Ports \cup {None}, life : {"none", "spawned", "open", "dead", "gone"}]
Snapshots == [content : States \cup {None}, torn : BOOLEAN]

OpTypes ==
    /\ pc \in [Users -> Labels]
    /\ kind \in [Users -> Kinds]
    /\ child \in [Users -> Procs \cup {None}]
    /\ port \in [Users -> Ports \cup {None}]
    /\ was \in [Users -> BOOLEAN]
    /\ seen \in [Users -> States \cup {None}]

HostTypes ==
    /\ node \in [Users -> Nodes \cup {None}]
    /\ proc \in [Procs -> Processes]
    /\ orphans \subseteq Procs
    /\ timer \subseteq Users

FileTypes ==
    /\ dir \in [Users -> States \cup {None}]
    /\ previous \in [Users -> States \cup {None}]
    /\ snapshots \in [Users -> Seq(Snapshots)]
    /\ retired \subseteq Users
    /\ known \subseteq Users

TypeOK == OpTypes /\ HostTypes /\ FileTypes

\* A snapshot or a swap happens with the node stopped (docs/ARCHITECTURE.md:98): none of its processes runs,
\* but for one that waitForRpc gave up and nobody waited for.
AloneWithData ==
    \A u \in Users, p \in Procs : pc[u] \in OnFiles /\ proc[p].user = u /\ Live(p) => p \in orphans

\* The nodes the host counts on are what it takes them for, whatever exits, starts and requests of two users overlap:
\* a registered node's process is not one whose exit was handled, since its user's requests would fail for good; no
\* other user's process listens on its port (docs/ARCHITECTURE.md:86); and there are no more of them than the host may
\* have.
RegistryHolds ==
    /\ Faults = {} => \A u \in Users : node[u] # None =>
           /\ ~node[u].stopping => proc[node[u].proc].life # "gone"
           /\ \A p \in Listening(node[u].port) : proc[p].user = u
    /\ Cardinality(InUse) <= MaxNodes

\* A user with an identity never gets a new one, and a node never starts while an interrupted restore
\* has left its directory behind (index.mjs:434).
IdentityKept ==
    /\ \A u \in Users : u \in known => dir[u] # None \/ previous[u] # None
    /\ \A u \in Users : pc[u] \in {"poll", "answered"} => previous[u] = None

\* Of a user who is not retired, every one of the newest Keep snapshots listed is one a restore accepts, whatever
\* failed or died on the way: its archive is there and has the digest that was recorded, unless a node that was given
\* up ran while it was taken.  (An older one may be listed without its archive, when its removal was cut short.)
SnapshotIntact ==
    \A u \in Users \ retired : \A i \in DOMAIN snapshots[u] :
        LET s == snapshots[u][i] IN i > Len(snapshots[u]) - Keep /\ ~s.torn => s.content # None

-----------------------------------------------------------------------------
(* The inductive invariant behind them (proved inductive in                *)
(* ManagedHostProofs): which process belongs to whom, and which port.      *)

Present(p) == proc[p].life \in {"spawned", "open", "dead"}
Spawned == {"poll", "answered"}
HasPort == {"spawn"} \cup Spawned

\* What an operation has in its hands at each place.
PlaceInv ==
    \A u \in Users :
        /\ pc[u] \in {"stop", "exiting"} => kind[u] \in {"snapshot", "restore", "retire"}
        /\ pc[u] = "check" => kind[u] = "retire"
        /\ pc[u] \in HasPort => port[u] \in Ports
        /\ pc[u] \in Spawned \cup {"exiting"} => child[u] \in Procs
        /\ pc[u] \in Starting \cup OnFiles \cup {"load"} => node[u] = None
        /\ pc[u] = "exiting" => node[u] = None \/ node[u].proc = child[u]

\* Whose a process is.
ProcInv ==
    /\ \A p \in Procs : proc[p].life # "none" => proc[p].user \in Users /\ proc[p].port \in Ports
    /\ \A p \in orphans : proc[p].life # "none"
    /\ \A u \in Users : pc[u] \in Spawned =>
           LET c == proc[child[u]] IN c.user = u /\ c.port = port[u] /\ c.life # "none"
    /\ \A u \in Users : node[u] # None =>
           LET c == proc[node[u].proc] IN c.user = u /\ c.port = node[u].port /\ c.life # "none"

\* Every process is registered, being started, or given up.
OwnInv ==
    \A p \in Procs : Present(p) /\ p \notin orphans =>
        LET u == proc[p].user IN
        \/ node[u] # None /\ node[u].proc = p
        \/ pc[u] \in Spawned /\ child[u] = p

\* No two hold one port, if a port found free stays free.
PortInv ==
    "samePort" \notin Faults =>
    /\ \A p, q \in Procs :
           p # q /\ Live(p) /\ (Live(q) \/ (proc[p].life = "open" /\ proc[q].life = "dead"))
           => proc[p].port # proc[q].port
    /\ \A u, v \in Users : u # v /\ pc[u] \in HasPort /\ pc[v] \in HasPort => port[u] # port[v]
    /\ \A u \in Users, p \in Procs :
           pc[u] \in HasPort /\ Live(p) /\ (pc[u] \in Spawned => child[u] # p) => port[u] # proc[p].port

\* The exit of a registered node, or of one about to be, was not handled yet.
AliveInv ==
    Faults = {} => \A u \in Users :
        /\ node[u] # None => Present(node[u].proc)
        /\ pc[u] = "answered" => Present(child[u])

CountInv == IsFiniteSet(InUse) /\ Cardinality(InUse) <= MaxNodes

\* Where the directories of an operation are.
FileInv ==
    \A u \in Users :
        /\ u \in known => dir[u] # None \/ previous[u] # None
        /\ pc[u] \in Spawned => previous[u] = None
        /\ pc[u] = "archive" => dir[u] # None /\ seen[u] # None
        /\ pc[u] = "swapOut" => previous[u] = None /\ seen[u] # None
        /\ pc[u] = "swapIn" => dir[u] = None /\ seen[u] # None
        /\ pc[u] = "drop" => dir[u] # None

\* Only a process that was given up writes under a snapshot.
DigestInv ==
    \A u \in Users : pc[u] = "archive" /\ seen[u] # dir[u] => \E p \in orphans : proc[p].user = u

\* The snapshots are intact, and there is one where a record is being removed.
ListInv ==
    /\ SnapshotIntact
    /\ \A u \in Users : pc[u] = "unlist" => snapshots[u] # <<>>

IInv ==
    /\ TypeOK /\ PlaceInv /\ ProcInv /\ OwnInv /\ PortInv /\ AliveInv
    /\ CountInv /\ FileInv /\ DigestInv /\ ListInv
=============================================================================
