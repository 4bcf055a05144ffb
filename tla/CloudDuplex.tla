----------------------------- MODULE CloudDuplex -----------------------------
(***************************************************************************)
(* The life cycle of the cloud orchestrator under its one stable agent id: *)
(* a launch (on a blocking-pool thread) records a pending session row,     *)
(* fences off the predecessor, spawns a piped child and a reader thread;   *)
(* the reader closes the row when the child's output ends; stop, send and  *)
(* the live-state refresh run on the app's main thread.                    *)
(*                                                                         *)
(* Shared between them are the session row and the launch ledger (files    *)
(* under the agents lock) and the in-memory session map, which has a mutex *)
(* of its own: each locked section is one step, with two exceptions, both  *)
(* of them a wait under a mutex.  A launch that lost its session joins its *)
(* reader under the map's mutex, and a reader waits for its child under    *)
(* the child's.  Generation g of the child is the one that launch g        *)
(* spawns.                                                                 *)
(***************************************************************************)
EXTENDS Naturals, FiniteSets

CONSTANTS
    Launches,   \* the launch commands, numbered in the order they begin
    Env         \* what else may happen: a failing spawn, reader thread or ledger write, the
                \* ledger prune, the ghost reap, a child that closes its output and lives on

ASSUME DuplexConstants ==
    /\ Launches \subseteq Nat \ {0} /\ IsFiniteSet(Launches)
    /\ Env \subseteq {"spawnfail", "readerfail", "ledgerfail", "prune", "reap", "mute"}

Main == 0

Actors == Launches \cup {Main}

VARIABLES
    row,      \* status of the session row
    ledger,   \* whether the launch ledger has the id, as app-hosted
    slot,     \* CloudDuplexSessions: the generation in the map, its attached reader
    child,    \* the process of each generation; a mute one has closed its output
    reader,   \* the reader thread of each generation
    act,      \* each launch, and the main thread: pc and, in a kill, whom and what next
    doomed,   \* history: completed launches whose child ran, known to the ledger, when
              \* the last stop began
    raced     \* history: whether a launch or a stop began while another one ran

vars == <<row, ledger, slot, child, reader, act, doomed, raced>>

None == 0

Empty == [gen |-> None, handle |-> None]

Ended == {"idle", "done", "failed"}

TypeOK ==
    /\ row \in {"absent", "launch_pending", "active", "closed"}
    /\ ledger \in BOOLEAN
    /\ slot \in [gen: Launches \cup {None}, handle: Launches \cup {None}]
    /\ child \in [Launches -> {"none", "alive", "mute", "dead"}]
    /\ reader \in [Launches -> {"none", "reading", "reaping", "eof", "closing", "done"}]
    /\ act \in [Actors ->
          [pc: Ended \cup {"fence", "kill", "reap", "join", "close", "unledger", "clean",
                           "spawn", "reader", "drop", "attach", "joinown", "ledger", "stopped",
                           "heal"},
           victim: Launches \cup {None}, handle: Launches \cup {None},
           next: {"none", "unledger", "spawn", "failed"}]]
    /\ doomed \subseteq Launches
    /\ raced \in BOOLEAN

IdleAct == [pc |-> "idle", victim |-> None, handle |-> None, next |-> "none"]

Init ==
    /\ row = "absent"
    /\ ledger = FALSE
    /\ slot = Empty
    /\ child = [g \in Launches |-> "none"]
    /\ reader = [g \in Launches |-> "none"]
    /\ act = [x \in Actors |-> IdleAct]
    /\ doomed = {}
    /\ raced = FALSE

Goto(x, label) == act' = [act EXCEPT ![x].pc = label]

Running(g) == child[g] \in {"alive", "mute"}

\* The session map's mutex is held across steps only by a launch that joins its reader.
MapFree == \A g \in Launches : act[g].pc # "joinown"

\* A row that does not exist is left alone by touch and close.
SetRow(status) == row' = IF row = "absent" THEN row ELSE status

-----------------------------------------------------------------------------
(***************************************************************************)
(* kill_cloud_duplex, called by the fence, by the spawn, by the ledger's   *)
(* error path and by stop: take the session out of the map, kill and reap  *)
(* its child, join its reader, close the row.  next says where the caller  *)
(* goes on.                                                                *)
(***************************************************************************)
Kill(x, next) == act' = [act EXCEPT ![x] = [@ EXCEPT !.pc = "kill", !.next = next]]

KillReturn(x) ==
    act' = [act EXCEPT ![x] = [pc |-> act[x].next, victim |-> None, handle |-> None,
                               next |-> "none"]]

TakeSession(x) ==
    /\ act[x].pc = "kill" /\ MapFree
    /\ IF slot = Empty
       THEN KillReturn(x)
       ELSE act' = [act EXCEPT ![x] = [@ EXCEPT !.pc = "reap", !.victim = slot.gen,
                                                !.handle = slot.handle]]
    /\ slot' = Empty
    /\ UNCHANGED <<row, ledger, child, reader, doomed, raced>>

\* Mutant: the reader is joined before the child is killed.
ReapAfterJoin(x) ==
    /\ act[x].pc = "reap"
    /\ reader[act[x].victim] # "reaping"
    /\ act[x].handle # None => reader[act[x].handle] = "done"
    /\ child' = [child EXCEPT ![act[x].victim] = "dead"]
    /\ Goto(x, "join")
    /\ UNCHANGED <<row, ledger, slot, reader, doomed, raced>>

\* Mutant: the session leaves the map and its child lives on.
ReapNothing(x) ==
    /\ act[x].pc = "reap"
    /\ act' = [act EXCEPT ![x].pc = "close"]
    /\ UNCHANGED <<row, ledger, slot, child, reader, doomed, raced>>

\* Kill and wait, under the child's mutex, which the child's reader may hold.
ReapChild(x) ==
    /\ act[x].pc = "reap"
    /\ reader[act[x].victim] # "reaping"
    /\ child' = [child EXCEPT ![act[x].victim] = "dead"]
    /\ Goto(x, "join")
    /\ UNCHANGED <<row, ledger, slot, reader, doomed, raced>>

JoinReader(x) ==
    /\ act[x].pc = "join"
    /\ act[x].handle # None => reader[act[x].handle] = "done"
    /\ Goto(x, "close")
    /\ UNCHANGED <<row, ledger, slot, child, reader, doomed, raced>>

CloseKilled(x) ==
    /\ act[x].pc = "close"
    /\ SetRow("closed")
    /\ KillReturn(x)
    /\ UNCHANGED <<ledger, slot, child, reader, doomed, raced>>

KillStep(x) == TakeSession(x) \/ ReapChild(x) \/ JoinReader(x) \/ CloseKilled(x)

\* stop_agent_process_only: kill the child if the ledger knows it as app-hosted (an
\* external window otherwise, of which there is none), then drop the ledger entry.
StopProcessOnly(x) == IF ledger THEN Kill(x, "unledger") ELSE Goto(x, "unledger")

-----------------------------------------------------------------------------
(***************************************************************************)
(* A launch.                                                               *)
(***************************************************************************)
\* Nothing in the code keeps launches and stops apart; some properties need to know
\* whether they met.
NoteRace == raced' = (raced \/ \E x \in Actors : act[x].pc \notin Ended \cup {"heal"})

\* record_launch_pending: the stable id resets whatever row there is.
BeginLaunch(g) ==
    /\ act[g].pc = "idle"
    /\ \A h \in Launches : h < g => act[h].pc # "idle"
    /\ row' = "launch_pending"
    /\ Goto(g, "fence")
    /\ NoteRace
    /\ UNCHANGED <<ledger, slot, child, reader, doomed>>

fence_stale_orchestrator(g) ==
    /\ act[g].pc = "fence"
    /\ StopProcessOnly(g)
    /\ UNCHANGED <<row, ledger, slot, child, reader, doomed, raced>>

RemoveLedgerEntry(x) ==
    /\ act[x].pc = "unledger"
    /\ ledger' = FALSE
    /\ Goto(x, IF x = Main THEN "stopped" ELSE "clean")
    /\ UNCHANGED <<row, slot, child, reader, doomed, raced>>

\* spawn_cloud_duplex begins with a kill of its own ("clean relaunch").
CleanRelaunch(g) ==
    /\ act[g].pc = "clean"
    /\ Kill(g, "spawn")
    /\ UNCHANGED <<row, ledger, slot, child, reader, doomed, raced>>

\* The child is registered before its reader exists.  insert replaces what is there.
SpawnChild(g) ==
    /\ act[g].pc = "spawn"
    /\ \/ /\ MapFree
          /\ child' = [child EXCEPT ![g] = "alive"]
          /\ slot' = [gen |-> g, handle |-> None]
          /\ Goto(g, "reader")
       \/ /\ "spawnfail" \in Env
          /\ Goto(g, "failed")
          /\ UNCHANGED <<child, slot>>
    /\ UNCHANGED <<row, ledger, reader, doomed, raced>>

\* A launch whose reader thread cannot start kills its child and takes the session, its
\* own or another one, out of the map.
StartReader(g) ==
    /\ act[g].pc = "reader"
    /\ \/ /\ reader' = [reader EXCEPT ![g] = "reading"]
          /\ Goto(g, "attach")
          /\ UNCHANGED child
       \/ /\ "readerfail" \in Env
          /\ child' = [child EXCEPT ![g] = "dead"]
          /\ Goto(g, "drop")
          /\ UNCHANGED reader
    /\ UNCHANGED <<row, ledger, slot, doomed, raced>>

DropSession(g) ==
    /\ act[g].pc = "drop" /\ MapFree
    /\ slot' = Empty
    /\ Goto(g, "failed")
    /\ UNCHANGED <<row, ledger, child, reader, doomed, raced>>

\* Mutant: the row becomes active without a look at the map.
AttachBlind(g) ==
    /\ act[g].pc = "attach"
    /\ SetRow("active")
    /\ Goto(g, "ledger")
    /\ UNCHANGED <<ledger, slot, child, reader, doomed, raced>>

\* Under the map's mutex: if the id is there, attach the reader and touch the row to
\* active; if a kill or an early exit removed it, give up and join the own reader.  The
\* mutex is kept until the join returns.
AttachReader(g) ==
    /\ act[g].pc = "attach" /\ MapFree
    /\ IF slot # Empty
       THEN /\ slot' = [slot EXCEPT !.handle = g]
            /\ SetRow("active")
            /\ Goto(g, "ledger")
       ELSE /\ Goto(g, "joinown")
            /\ UNCHANGED <<slot, row>>
    /\ UNCHANGED <<ledger, child, reader, doomed, raced>>

JoinOwnReader(g) ==
    /\ act[g].pc = "joinown"
    /\ reader[g] = "done"
    /\ Goto(g, "failed")
    /\ UNCHANGED <<row, ledger, slot, child, reader, doomed, raced>>

record_agent_launch(g) ==
    /\ act[g].pc = "ledger"
    /\ \/ ledger' = TRUE /\ Goto(g, "done")
       \/ "ledgerfail" \in Env /\ Kill(g, "failed") /\ UNCHANGED ledger
    /\ UNCHANGED <<row, slot, child, reader, doomed, raced>>

LaunchStep(g) ==
    \/ fence_stale_orchestrator(g) \/ RemoveLedgerEntry(g) \/ CleanRelaunch(g)
    \/ SpawnChild(g) \/ StartReader(g) \/ DropSession(g) \/ AttachReader(g)
    \/ JoinOwnReader(g) \/ record_agent_launch(g) \/ KillStep(g)

-----------------------------------------------------------------------------
(***************************************************************************)
(* The child and its reader thread.                                        *)
(***************************************************************************)
ChildExits(g) ==
    /\ Running(g)
    /\ child' = [child EXCEPT ![g] = "dead"]
    /\ UNCHANGED <<row, ledger, slot, reader, act, doomed, raced>>

ChildCloses(g) ==
    /\ "mute" \in Env
    /\ child[g] = "alive"
    /\ child' = [child EXCEPT ![g] = "mute"]
    /\ UNCHANGED <<row, ledger, slot, reader, act, doomed, raced>>

\* The end of the child's output: the reader takes the child's mutex and, if the child
\* still runs, waits for it to exit.
ReaderEof(g) ==
    /\ reader[g] = "reading" /\ child[g] # "alive"
    /\ reader' = [reader EXCEPT ![g] = IF child[g] = "dead" THEN "eof" ELSE "reaping"]
    /\ UNCHANGED <<row, ledger, slot, child, act, doomed, raced>>

ReaderReaps(g) ==
    /\ reader[g] = "reaping" /\ child[g] = "dead"
    /\ reader' = [reader EXCEPT ![g] = "eof"]
    /\ UNCHANGED <<row, ledger, slot, child, act, doomed, raced>>

\* Whatever session the id has leaves the map.
ReaderRemoves(g) ==
    /\ reader[g] = "eof" /\ MapFree
    /\ slot' = Empty
    /\ reader' = [reader EXCEPT ![g] = "closing"]
    /\ UNCHANGED <<row, ledger, child, act, doomed, raced>>

ReaderCloses(g) ==
    /\ reader[g] = "closing"
    /\ SetRow("closed")
    /\ reader' = [reader EXCEPT ![g] = "done"]
    /\ UNCHANGED <<ledger, slot, child, act, doomed, raced>>

ReaderStep(g) == ReaderEof(g) \/ ReaderReaps(g) \/ ReaderRemoves(g) \/ ReaderCloses(g)

-----------------------------------------------------------------------------
(***************************************************************************)
(* The main thread: stop, send, and the live-state refresh.                *)
(***************************************************************************)
stop_agent ==
    /\ act[Main].pc = "idle"
    /\ row # "absent"
    /\ StopProcessOnly(Main)
    /\ NoteRace
    /\ doomed' = {g \in Launches : ledger /\ act[g].pc = "done" /\ Running(g)}
    /\ UNCHANGED <<row, ledger, slot, child, reader>>

CloseStopped ==
    /\ act[Main].pc = "stopped"
    /\ SetRow("closed")
    /\ act' = [act EXCEPT ![Main] = IdleAct]
    /\ UNCHANGED <<ledger, slot, child, reader, doomed, raced>>

\* A send that finds no session takes the row for a ghost and closes it.
SendFindsNoSession ==
    /\ act[Main].pc = "idle" /\ MapFree
    /\ row # "absent" /\ slot = Empty
    /\ Goto(Main, "heal")
    /\ UNCHANGED <<row, ledger, slot, child, reader, doomed, raced>>

SelfHeal ==
    /\ act[Main].pc = "heal"
    /\ SetRow("closed")
    /\ act' = [act EXCEPT ![Main] = IdleAct]
    /\ UNCHANGED <<ledger, slot, child, reader, doomed, raced>>

MainStep == RemoveLedgerEntry(Main) \/ KillStep(Main) \/ CloseStopped \/ SelfHeal

\* prune_dead_ledger_entries (Windows): an app-hosted entry is kept only if the map of
\* in-app terminals has the id, and the cloud child is not one of those.
PruneLedger ==
    /\ "prune" \in Env
    /\ act[Main].pc = "idle"
    /\ ledger
    /\ ledger' = FALSE
    /\ UNCHANGED <<row, slot, child, reader, act, doomed, raced>>

\* reap_stale_ghost_sessions: nothing was heard from the session for minutes.
ReapStale ==
    /\ "reap" \in Env
    /\ act[Main].pc = "idle"
    /\ \/ row = "active"
       \/ row = "launch_pending" /\ \A g \in Launches : act[g].pc \in Ended
    /\ row' = "closed"
    /\ UNCHANGED <<ledger, slot, child, reader, act, doomed, raced>>

Next ==
    \/ \E g \in Launches : \/ BeginLaunch(g) \/ LaunchStep(g)
                            \/ ChildExits(g) \/ ChildCloses(g) \/ ReaderStep(g)
    \/ stop_agent \/ SendFindsNoSession \/ MainStep
    \/ PruneLedger \/ ReapStale

Spec == Init /\ [][Next]_vars

\* Threads that are not blocked run; a child may live for ever and nobody has to
\* launch, stop or send.
FairSpec ==
    /\ Spec
    /\ \A g \in Launches : WF_vars(LaunchStep(g)) /\ WF_vars(ReaderStep(g))
    /\ WF_vars(MainStep)

-----------------------------------------------------------------------------
(***************************************************************************)
(* Properties.                                                             *)
(***************************************************************************)

BeingKilled(g) == \E x \in Actors : act[x].pc = "reap" /\ act[x].victim = g

\* fence_stale_orchestrator: "so there is at most one live writer generation": a running
\* child is the one in the map, or somebody holds it to kill it.  A child that neither is
\* true of cannot be steered or stopped any more.
NoOrphanChild ==
    \A g \in Launches : Running(g) => slot.gen = g \/ BeingKilled(g)

\* As long as launches and stops do not meet, relaunches, failed spawns and reader threads,
\* early exits, children without output and late readers leave no orphan child.
SerialNoOrphan == raced \/ NoOrphanChild

\* No ghost: the row says active only while there is a child, or a thread that will
\* still close the row (as long as launches and stops do not meet).
SerialNoGhostRow ==
    row = "active" =>
        \/ raced
        \/ \E g \in Launches : Running(g) \/ reader[g] \notin {"none", "done"}
        \/ \E x \in Actors : act[x].pc \in {"reap", "join", "close", "stopped", "heal"}

\* Stop stops: when it has closed the row, the child of every launch that was complete
\* and in the ledger when it began is dead (unless it met a launch).
SerialStopKills ==
    [][act[Main].pc = "stopped" /\ act'[Main].pc = "idle"
          => raced \/ \A g \in doomed : child[g] = "dead"]_act

\* A launch holds the map's mutex and joins a reader that has yet to take it.
MapDeadlock ==
    \E g \in Launches : act[g].pc = "joinown" /\ reader[g] \notin {"closing", "done"}

\* What keeps a thread waiting.  If launches and stops met: that deadlock, or an orphan
\* child, whose reader somebody may join.  Always: a child that has closed its output and
\* runs on, with its reader waiting under the child's mutex.
Blocked ==
    \/ raced /\ (MapDeadlock \/ ~NoOrphanChild)
    \/ \E g \in Launches : reader[g] = "reaping"

\* No thread waits for ever (a kill joins the reader, the reader needs the map and the
\* child's end, a launch joins its own reader): every launch, also one that meets a stop
\* or another launch or whose child exits half way, and every stop and send on the main
\* thread ends, or one of the three causes above lasts.
ThreadsEnd ==
    /\ \A g \in Launches : act[g].pc \notin Ended ~> act[g].pc \in Ended \/ Blocked
    /\ act[Main].pc # "idle" ~> act[Main].pc = "idle" \/ Blocked

\* spawn_cloud_duplex at its attach: "If kill removed us mid-setup, join the orphaned
\* reader and report failure (child was already reaped by kill)": a launch that gives up
\* and whose child is dead returns its error.
KilledLaunchReports ==
    \A g \in Launches : act[g].pc = "joinown" /\ child[g] = "dead" ~> act[g].pc = "failed"
=============================================================================
