-------------------------- MODULE CloudDuplexProofs --------------------------
(***************************************************************************)
(* Proofs about the life cycle of the cloud orchestrator, for any number   *)
(* of launches and any environment, as long as launches and stops do not   *)
(* meet.                                                                   *)
(*                                                                         *)
(* A late reader empties the map whatever session is in it, and the spawn  *)
(* replaces what is there.  That no child is lost by it rests on the kill  *)
(* before every spawn: it takes the session out of the map with the reader *)
(* attached to it and joins that reader, so that the only reader that may  *)
(* still reach the map is the one of the generation in the map             *)
(* (ReaderInv), and nobody spawns over a session (SlotInv).  For the same  *)
(* reason a launch that finds its session gone at the attach finds its     *)
(* reader past the map already: only when launches and stops meet does it  *)
(* join, with the map's mutex held, a reader that still needs the mutex.   *)
(***************************************************************************)
EXTENDS CloudDuplex, TLAPS

Busy(x) == act[x].pc \notin Ended \cup {"heal"}

Killing == {"kill", "reap", "join", "close"}

\* A kill knows where to go on.
KillInv(x) == act[x].pc \in Killing => act[x].next \in {"unledger", "spawn", "failed"}

\* A reader that has yet to take the map's mutex.
Active == {"reading", "reaping", "eof"}

\* A reader was started by a launch that is past its spawn, and goes on to the map only
\* when its child is dead.
StartedInv(g) ==
    /\ reader[g] # "none" =>
          \/ act[g].pc \in {"attach", "joinown", "ledger", "done", "failed"}
          \/ act[g].pc \in Killing /\ act[g].next = "failed"
    /\ reader[g] \in {"eof", "closing", "done"} => child[g] = "dead"

OneBusy == \A x, y \in Actors : Busy(x) /\ Busy(y) => x = y

\* The session in the map has a reader or is about to get one, which is attached once
\* the launch is over; nobody who took a session out of the map or is about to spawn
\* finds one there.
SlotInv ==
    slot # Empty =>
        /\ slot.gen \in Launches
        /\ act[slot.gen].pc \in {"reader", "drop"} \/ reader[slot.gen] \in Active
        /\ act[slot.gen].pc \in {"reader", "drop", "attach"} \/ slot.handle = slot.gen
        /\ \A x \in Actors : act[x].pc \notin {"reap", "join", "close", "spawn"}

\* The reader of g reaches the map only while g is in it or its killer waits for it.
ReaderInv(g) ==
    reader[g] \in Active =>
        \/ slot.gen = g
        \/ \E x \in Actors : /\ act[x].pc \in {"reap", "join"}
                             /\ act[x].victim = g /\ act[x].handle = g

\* Between the spawn and the attach the map has the launch's own session or none; if
\* none, the launch's reader has emptied it.
SpawnedInv(g) ==
    /\ act[g].pc \in {"reader", "drop"}
          => slot.gen = g /\ slot.handle = None /\ reader[g] = "none"
    /\ act[g].pc = "drop" => child[g] = "dead"
    /\ act[g].pc = "attach" => (slot = Empty \/ slot.gen = g) /\ reader[g] # "none"
    /\ act[g].pc = "joinown" => reader[g] \in {"closing", "done"}

\* A thread that will close an active row.
RowInv == row = "active" => \E g \in Launches : reader[g] \in Active \cup {"closing"}

\* What a stop found running is dead once its kill is past the reap.
DoomInv ==
    /\ \A g \in doomed : child[g] # "none"
    /\ act[Main].pc \in {"join", "close", "unledger", "stopped"}
          => \A g \in doomed : child[g] = "dead"

SerialInv ==
    /\ OneBusy
    /\ SlotInv
    /\ \A g \in Launches : ReaderInv(g) /\ SpawnedInv(g)
    /\ NoOrphanChild
    /\ RowInv
    /\ DoomInv

\* What holds also when launches and stops meet.
BaseInv ==
    /\ TypeOK
    /\ \A x \in Actors : KillInv(x)
    /\ \A g \in Launches : StartedInv(g)

DuplexInv == BaseInv /\ (raced \/ SerialInv)

-----------------------------------------------------------------------------
(***************************************************************************)
(* How a step of an actor changes act: the one record, field by field.     *)
(***************************************************************************)
Pcs == {"idle", "done", "failed", "fence", "kill", "reap", "join", "close", "unledger", "clean",
        "spawn", "reader", "drop", "attach", "joinown", "ledger", "stopped", "heal"}

ActRecs == [pc: Pcs, victim: Launches \cup {None}, handle: Launches \cup {None},
            next: {"none", "unledger", "spawn", "failed"}]

Moved(x, pc, victim, handle, next) ==
    /\ act' \in [Actors -> ActRecs]
    /\ act'[x].pc = pc /\ act'[x].victim = victim /\ act'[x].handle = handle
    /\ act'[x].next = next
    /\ \A y \in Actors : y # x => act'[y] = act[y]

\* The main thread is no launch.
LEMMA MainApart ==
    Main \notin Launches /\ None \notin Launches /\ Main \in Actors /\ Launches \subseteq Actors
BY DuplexConstants DEF Main, None, Actors

\* The type of act, by its abbreviation.
LEMMA ActType == TypeOK <=> 
    /\ row \in {"absent", "launch_pending", "active", "closed"}
    /\ ledger \in BOOLEAN
    /\ slot \in [gen: Launches \cup {None}, handle: Launches \cup {None}]
    /\ child \in [Launches -> {"none", "alive", "mute", "dead"}]
    /\ reader \in [Launches -> {"none", "reading", "reaping", "eof", "closing", "done"}]
    /\ act \in [Actors -> ActRecs]
    /\ doomed \subseteq Launches
    /\ raced \in BOOLEAN
<1>1. Ended \cup {"fence", "kill", "reap", "join", "close", "unledger", "clean", "spawn", "reader",
                  "drop", "attach", "joinown", "ledger", "stopped", "heal"} = Pcs
  BY DEF Ended, Pcs
<1>. QED
  BY <1>1, Zenon DEF TypeOK, ActRecs

\* The same of the state after a step.
LEMMA ActTypeAfter == TypeOK' <=> 
    /\ row' \in {"absent", "launch_pending", "active", "closed"}
    /\ ledger' \in BOOLEAN
    /\ slot' \in [gen: Launches \cup {None}, handle: Launches \cup {None}]
    /\ child' \in [Launches -> {"none", "alive", "mute", "dead"}]
    /\ reader' \in [Launches -> {"none", "reading", "reaping", "eof", "closing", "done"}]
    /\ act' \in [Actors -> ActRecs]
    /\ doomed' \subseteq Launches
    /\ raced' \in BOOLEAN
<1>1. Ended \cup {"fence", "kill", "reap", "join", "close", "unledger", "clean", "spawn", "reader",
                  "drop", "attach", "joinown", "ledger", "stopped", "heal"} = Pcs
  BY DEF Ended, Pcs
<1>. QED
  BY <1>1, Zenon DEF TypeOK, ActRecs

\* Only the program counter moves.
LEMMA GotoMoves ==
    ASSUME act \in [Actors -> ActRecs], NEW x \in Actors, NEW label \in Pcs, Goto(x, label)
    PROVE  Moved(x, label, act[x].victim, act[x].handle, act[x].next)
<1>1. act[x] \in ActRecs
  OBVIOUS
<1>2. [act[x] EXCEPT !.pc = label] \in ActRecs
  BY <1>1 DEF ActRecs
<1>3. act' = [act EXCEPT ![x] = [act[x] EXCEPT !.pc = label]]
  BY DEF Goto
<1>. QED
  BY <1>1, <1>2, <1>3 DEF Moved, ActRecs

\* A kill begins.
LEMMA KillMoves ==
    ASSUME act \in [Actors -> ActRecs], NEW x \in Actors,
           NEW next \in {"unledger", "spawn", "failed"}, Kill(x, next)
    PROVE  Moved(x, "kill", act[x].victim, act[x].handle, next)
<1>1. act[x] \in ActRecs
  OBVIOUS
<1>2. [act[x] EXCEPT !.pc = "kill", !.next = next] \in ActRecs
  BY <1>1 DEF ActRecs, Pcs
<1>3. act' = [act EXCEPT ![x] = [act[x] EXCEPT !.pc = "kill", !.next = next]]
  BY DEF Kill
<1>. QED
  BY <1>1, <1>2, <1>3 DEF Moved, ActRecs

\* A kill ends.
LEMMA ReturnMoves ==
    ASSUME act \in [Actors -> ActRecs], NEW x \in Actors,
           act[x].next \in {"unledger", "spawn", "failed"}, KillReturn(x)
    PROVE  Moved(x, act[x].next, None, None, "none")
<1>2. [pc |-> act[x].next, victim |-> None, handle |-> None, next |-> "none"] \in ActRecs
  BY DEF ActRecs, Pcs
<1>. QED
  BY <1>2 DEF Moved, KillReturn

\* A kill takes the session.
LEMMA TakeMoves ==
    ASSUME TypeOK, NEW x \in Actors,
           act' = [act EXCEPT ![x] = [@ EXCEPT !.pc = "reap", !.victim = slot.gen,
                                                !.handle = slot.handle]]
    PROVE  Moved(x, "reap", slot.gen, slot.handle, act[x].next)
<1>0. /\ act \in [Actors -> ActRecs]
      /\ slot.gen \in Launches \cup {None} /\ slot.handle \in Launches \cup {None}
  BY ActType
<1>1. act[x] \in ActRecs
  BY <1>0
<1>2. [act[x] EXCEPT !.pc = "reap", !.victim = slot.gen, !.handle = slot.handle] \in ActRecs
  BY <1>0, <1>1 DEF ActRecs, Pcs
<1>3. act' = [act EXCEPT ![x] = [act[x] EXCEPT !.pc = "reap", !.victim = slot.gen,
                                               !.handle = slot.handle]]
  OBVIOUS
<1>. QED
  BY <1>0, <1>1, <1>2 DEF Moved, ActRecs

\* The main thread is idle again.
LEMMA IdleMoves ==
    ASSUME act \in [Actors -> ActRecs], act' = [act EXCEPT ![Main] = IdleAct]
    PROVE  Moved(Main, "idle", None, None, "none")
BY MainApart DEF Moved, IdleAct, ActRecs, Pcs

-----------------------------------------------------------------------------
(***************************************************************************)
(* One lemma per step: it keeps the invariant.                             *)
(***************************************************************************)
\* A kill that finds no session.
LEMMA TakeNothingKeeps ==
    ASSUME DuplexInv, NEW x \in Actors, TakeSession(x), slot = Empty
    PROVE  DuplexInv'
<1>0. /\ BaseInv /\ TypeOK /\ act \in [Actors -> ActRecs] /\ None \notin Launches
      /\ Main \notin Launches /\ Main \in Actors /\ Launches \subseteq Actors
  BY ActType, MainApart DEF DuplexInv, BaseInv
<1>1. /\ act[x].pc = "kill"
      /\ Moved(x, act[x].next, None, None, "none")
      /\ slot' = Empty
      /\ UNCHANGED <<row, ledger, child, reader, doomed, raced>>
  BY <1>0, ReturnMoves DEF TakeSession, KillInv, Killing, BaseInv
<1>2. BaseInv'
  <2>1. TypeOK'
    BY <1>0, <1>1, ActType, ActTypeAfter DEF Moved
  <2>2. \A y \in Actors : KillInv(y)'
    BY <1>0, <1>1 DEF BaseInv, KillInv, Killing, Moved
  <2>3. \A h \in Launches : StartedInv(h)'
    BY <1>0, <1>1 DEF BaseInv, StartedInv, Killing, Moved
  <2>. QED
    BY <2>1, <2>2, <2>3 DEF BaseInv
<1>3. SUFFICES ASSUME ~raced' PROVE SerialInv'
  BY <1>2 DEF DuplexInv
<1>4. SerialInv /\ ~raced
  BY <1>1, <1>3 DEF DuplexInv
<1>5. OneBusy'
  BY <1>1, <1>4 DEF SerialInv, OneBusy, Busy, Ended, Moved
<1>6. SlotInv'
  BY <1>1, <1>4 DEF SerialInv, SlotInv, Moved
<1>7. \A h \in Launches : ReaderInv(h)' /\ SpawnedInv(h)'
  <2>1. act[x].next \notin {"reader", "drop", "attach", "joinown"}
    BY <1>0 DEF ActRecs
  <2>2. \A h \in Launches : ReaderInv(h)'
    BY <1>0, <1>1, <1>4 DEF SerialInv, ReaderInv, Moved
  <2>3. \A h \in Launches : SpawnedInv(h)'
    BY <1>0, <1>1, <1>4, <2>1 DEF SerialInv, SpawnedInv, Moved
  <2>. QED
    BY <2>2, <2>3
<1>8. NoOrphanChild'
  BY <1>1, <1>4 DEF SerialInv, NoOrphanChild, BeingKilled, Running, Moved
<1>9. RowInv'
  BY <1>1, <1>4 DEF SerialInv, RowInv
<1>10. DoomInv'
  <2>1. \A g \in Launches : ~Running(g)
    BY <1>0, <1>1, <1>4 DEF TakeSession, SerialInv, NoOrphanChild, BeingKilled, Running, Empty, OneBusy,
       Busy, Ended
  <2>2. \A g \in doomed : child[g] = "dead"
    BY <1>0, <1>4, <2>1 DEF SerialInv, DoomInv, TypeOK, Running
  <2>. QED
    BY <1>1, <2>2 DEF DoomInv
<1>. QED
  BY <1>5, <1>6, <1>7, <1>8, <1>9, <1>10 DEF SerialInv

\* A kill that takes the session out of the map.
LEMMA TakeFoundKeeps ==
    ASSUME DuplexInv, NEW x \in Actors, TakeSession(x), slot # Empty
    PROVE  DuplexInv'
<1>0. /\ BaseInv /\ TypeOK /\ act \in [Actors -> ActRecs] /\ None \notin Launches
      /\ Main \notin Launches /\ Main \in Actors /\ Launches \subseteq Actors
  BY ActType, MainApart DEF DuplexInv, BaseInv
<1>1. /\ act[x].pc = "kill"
      /\ Moved(x, "reap", slot.gen, slot.handle, act[x].next)
      /\ slot' = Empty
      /\ UNCHANGED <<row, ledger, child, reader, doomed, raced>>
  BY <1>0, TakeMoves DEF TakeSession
<1>2. BaseInv'
  <2>1. TypeOK'
    BY <1>0, <1>1, ActType, ActTypeAfter DEF Empty, Moved
  <2>2. \A y \in Actors : KillInv(y)'
    BY <1>0, <1>1 DEF BaseInv, KillInv, Killing, Moved
  <2>3. \A h \in Launches : StartedInv(h)'
    BY <1>0, <1>1 DEF BaseInv, StartedInv, Killing, Moved
  <2>. QED
    BY <2>1, <2>2, <2>3 DEF BaseInv
<1>3. SUFFICES ASSUME ~raced' PROVE SerialInv'
  BY <1>2 DEF DuplexInv
<1>4. SerialInv /\ ~raced
  BY <1>1, <1>3 DEF DuplexInv
<1>5. OneBusy'
  BY <1>1, <1>4 DEF SerialInv, OneBusy, Busy, Ended, Moved
<1>6. SlotInv'
  BY <1>1, <1>4 DEF SerialInv, SlotInv, Moved
<1>7. \A h \in Launches : ReaderInv(h)' /\ SpawnedInv(h)'
  BY <1>0, <1>1, <1>4 DEF SerialInv, OneBusy, Busy, Ended, SlotInv, ReaderInv, SpawnedInv, Moved
<1>8. NoOrphanChild'
  BY <1>1, <1>4 DEF SerialInv, NoOrphanChild, BeingKilled, Running, Moved
<1>9. RowInv'
  BY <1>1, <1>4 DEF SerialInv, RowInv
<1>10. DoomInv'
  BY <1>0, <1>1, <1>4 DEF SerialInv, DoomInv, Moved
<1>. QED
  BY <1>5, <1>6, <1>7, <1>8, <1>9, <1>10 DEF SerialInv

\* The child is killed and reaped.
LEMMA ReapChildKeeps ==
    ASSUME DuplexInv, NEW x \in Actors, ReapChild(x)
    PROVE  DuplexInv'
<1>0. /\ BaseInv /\ TypeOK /\ act \in [Actors -> ActRecs] /\ None \notin Launches
      /\ Main \notin Launches /\ Main \in Actors /\ Launches \subseteq Actors
  BY ActType, MainApart DEF DuplexInv, BaseInv
<1>1. /\ act[x].pc = "reap"
      /\ Moved(x, "join", act[x].victim, act[x].handle, act[x].next)
      /\ child' = [child EXCEPT ![act[x].victim] = "dead"]
      /\ UNCHANGED <<row, ledger, slot, reader, doomed, raced>>
  BY <1>0, GotoMoves DEF ReapChild, Pcs
<1>2. BaseInv'
  <2>1. TypeOK'
    BY <1>0, <1>1, ActType, ActTypeAfter DEF Moved
  <2>2. \A y \in Actors : KillInv(y)'
    BY <1>0, <1>1 DEF BaseInv, KillInv, Killing, Moved
  <2>3. \A h \in Launches : StartedInv(h)'
    BY <1>0, <1>1 DEF BaseInv, StartedInv, Killing, Moved
  <2>. QED
    BY <2>1, <2>2, <2>3 DEF BaseInv
<1>3. SUFFICES ASSUME ~raced' PROVE SerialInv'
  BY <1>2 DEF DuplexInv
<1>4. SerialInv /\ ~raced
  BY <1>1, <1>3 DEF DuplexInv
<1>5. OneBusy'
  BY <1>1, <1>4 DEF SerialInv, OneBusy, Busy, Ended, Moved
<1>6. SlotInv'
  BY <1>1, <1>4 DEF SerialInv, SlotInv, Moved
<1>7. \A h \in Launches : ReaderInv(h)' /\ SpawnedInv(h)'
  <2>1. \A h \in Launches : ReaderInv(h)'
    BY <1>1, <1>4 DEF SerialInv, ReaderInv, Moved
  <2>2. \A h \in Launches : SpawnedInv(h)'
    BY <1>0, <1>1, <1>4 DEF SerialInv, SpawnedInv, Moved
  <2>. QED
    BY <2>1, <2>2
<1>8. NoOrphanChild'
  <2>1. \A h \in Launches : child'[h] \in {child[h], "dead"}
    BY <1>0, <1>1 DEF TypeOK
  <2>2. \A h \in Launches : h = act[x].victim => child'[h] = "dead"
    BY <1>0, <1>1 DEF TypeOK
  <2>. QED
    BY <1>1, <1>4, <2>1, <2>2 DEF SerialInv, NoOrphanChild, BeingKilled, Running, Moved
<1>9. RowInv'
  BY <1>1, <1>4 DEF SerialInv, RowInv
<1>10. DoomInv'
  <2>1. \A g \in doomed : child'[g] # "none"
    BY <1>0, <1>1, <1>4 DEF SerialInv, DoomInv, TypeOK
  <2>2. \A g \in Launches : Running(g) => child'[g] = "dead"
    <3>1. slot = Empty /\ \A y \in Actors : act[y].pc = "reap" => y = x
      BY <1>0, <1>1, <1>4 DEF SerialInv, SlotInv, OneBusy, Busy, Ended
    <3>2. \A g \in Launches : Running(g) => act[x].victim = g
      BY <1>0, <1>4, <3>1 DEF SerialInv, NoOrphanChild, BeingKilled, Running, Empty
    <3>. QED
      BY <1>0, <1>1, <3>2 DEF TypeOK
  <2>3. \A g \in doomed : child'[g] = "dead"
    BY <1>0, <1>1, <1>4, <2>1, <2>2 DEF TypeOK, Running
  <2>. QED
    BY <1>1, <2>1, <2>3 DEF DoomInv
<1>. QED
  BY <1>5, <1>6, <1>7, <1>8, <1>9, <1>10 DEF SerialInv

\* The reader of the killed child is joined.
LEMMA JoinReaderKeeps ==
    ASSUME DuplexInv, NEW x \in Actors, JoinReader(x)
    PROVE  DuplexInv'
<1>0. /\ BaseInv /\ TypeOK /\ act \in [Actors -> ActRecs] /\ None \notin Launches
      /\ Main \notin Launches /\ Main \in Actors /\ Launches \subseteq Actors
  BY ActType, MainApart DEF DuplexInv, BaseInv
<1>1. /\ act[x].pc = "join"
      /\ act[x].handle # None => reader[act[x].handle] = "done"
      /\ Moved(x, "close", act[x].victim, act[x].handle, act[x].next)
      /\ UNCHANGED <<row, ledger, slot, child, reader, doomed, raced>>
  BY <1>0, GotoMoves DEF JoinReader, Pcs
<1>2. BaseInv'
  <2>1. TypeOK'
    BY <1>0, <1>1, ActType, ActTypeAfter DEF Moved
  <2>2. \A y \in Actors : KillInv(y)'
    BY <1>0, <1>1 DEF BaseInv, KillInv, Killing, Moved
  <2>3. \A h \in Launches : StartedInv(h)'
    BY <1>0, <1>1 DEF BaseInv, StartedInv, Killing, Moved
  <2>. QED
    BY <2>1, <2>2, <2>3 DEF BaseInv
<1>3. SUFFICES ASSUME ~raced' PROVE SerialInv'
  BY <1>2 DEF DuplexInv
<1>4. SerialInv /\ ~raced
  BY <1>1, <1>3 DEF DuplexInv
<1>5. OneBusy'
  BY <1>1, <1>4 DEF SerialInv, OneBusy, Busy, Ended, Moved
<1>6. SlotInv'
  BY <1>1, <1>4 DEF SerialInv, SlotInv, Moved
<1>7. \A h \in Launches : ReaderInv(h)' /\ SpawnedInv(h)'
  <2>1. \A h \in Launches : ReaderInv(h)'
    BY <1>0, <1>1, <1>4 DEF SerialInv, ReaderInv, Active, Moved
  <2>2. \A h \in Launches : SpawnedInv(h)'
    BY <1>0, <1>1, <1>4 DEF SerialInv, SpawnedInv, Moved
  <2>. QED
    BY <2>1, <2>2
<1>8. NoOrphanChild'
  BY <1>1, <1>4 DEF SerialInv, NoOrphanChild, BeingKilled, Running, Moved
<1>9. RowInv'
  BY <1>1, <1>4 DEF SerialInv, RowInv
<1>10. DoomInv'
  BY <1>0, <1>1, <1>4 DEF SerialInv, DoomInv, Moved
<1>. QED
  BY <1>5, <1>6, <1>7, <1>8, <1>9, <1>10 DEF SerialInv

\* The kill closes the row and returns.
LEMMA CloseKilledKeeps ==
    ASSUME DuplexInv, NEW x \in Actors, CloseKilled(x)
    PROVE  DuplexInv'
<1>0. /\ BaseInv /\ TypeOK /\ act \in [Actors -> ActRecs] /\ None \notin Launches
      /\ Main \notin Launches /\ Main \in Actors /\ Launches \subseteq Actors
  BY ActType, MainApart DEF DuplexInv, BaseInv
<1>1. /\ act[x].pc = "close"
      /\ Moved(x, act[x].next, None, None, "none")
      /\ row' = IF row = "absent" THEN row ELSE "closed"
      /\ UNCHANGED <<ledger, slot, child, reader, doomed, raced>>
  BY <1>0, ReturnMoves DEF CloseKilled, SetRow, KillInv, Killing, BaseInv
<1>2. BaseInv'
  <2>1. TypeOK'
    BY <1>0, <1>1, ActType, ActTypeAfter DEF Moved
  <2>2. \A y \in Actors : KillInv(y)'
    BY <1>0, <1>1 DEF BaseInv, KillInv, Killing, Moved
  <2>3. \A h \in Launches : StartedInv(h)'
    BY <1>0, <1>1 DEF BaseInv, StartedInv, Killing, Moved
  <2>. QED
    BY <2>1, <2>2, <2>3 DEF BaseInv
<1>3. SUFFICES ASSUME ~raced' PROVE SerialInv'
  BY <1>2 DEF DuplexInv
<1>4. SerialInv /\ ~raced
  BY <1>1, <1>3 DEF DuplexInv
<1>5. OneBusy'
  BY <1>1, <1>4 DEF SerialInv, OneBusy, Busy, Ended, Moved
<1>6. SlotInv'
  BY <1>1, <1>4 DEF SerialInv, SlotInv, Moved
<1>7. \A h \in Launches : ReaderInv(h)' /\ SpawnedInv(h)'
  <2>1. act[x].next \notin {"reader", "drop", "attach", "joinown"}
    BY <1>0 DEF ActRecs
  <2>2. \A h \in Launches : ReaderInv(h)'
    BY <1>0, <1>1, <1>4 DEF SerialInv, ReaderInv, Moved
  <2>3. \A h \in Launches : SpawnedInv(h)'
    BY <1>0, <1>1, <1>4, <2>1 DEF SerialInv, SpawnedInv, Moved
  <2>. QED
    BY <2>2, <2>3
<1>8. NoOrphanChild'
  BY <1>1, <1>4 DEF SerialInv, NoOrphanChild, BeingKilled, Running, Moved
<1>9. RowInv'
  BY <1>1, <1>4 DEF SerialInv, RowInv
<1>10. DoomInv'
  BY <1>0, <1>1, <1>4 DEF SerialInv, DoomInv, Moved
<1>. QED
  BY <1>5, <1>6, <1>7, <1>8, <1>9, <1>10 DEF SerialInv

\* A launch begins.
LEMMA BeginLaunchKeeps ==
    ASSUME DuplexInv, NEW g \in Launches, BeginLaunch(g)
    PROVE  DuplexInv'
<1>0. /\ BaseInv /\ TypeOK /\ act \in [Actors -> ActRecs] /\ None \notin Launches
      /\ Main \notin Launches /\ Main \in Actors /\ Launches \subseteq Actors
  BY ActType, MainApart DEF DuplexInv, BaseInv
<1>1. /\ act[g].pc = "idle"
      /\ Moved(g, "fence", act[g].victim, act[g].handle, act[g].next)
      /\ row' = "launch_pending"
      /\ raced' = (raced \/ \E x \in Actors : Busy(x))
      /\ UNCHANGED <<ledger, slot, child, reader, doomed>>
  BY <1>0, GotoMoves DEF BeginLaunch, NoteRace, Busy, Pcs
<1>2. BaseInv'
  <2>1. TypeOK'
    BY <1>0, <1>1, ActType, ActTypeAfter DEF Moved
  <2>2. \A y \in Actors : KillInv(y)'
    BY <1>0, <1>1 DEF BaseInv, KillInv, Killing, Moved
  <2>3. \A h \in Launches : StartedInv(h)'
    BY <1>0, <1>1 DEF BaseInv, StartedInv, Killing, Moved
  <2>. QED
    BY <2>1, <2>2, <2>3 DEF BaseInv
<1>3. SUFFICES ASSUME ~raced' PROVE SerialInv'
  BY <1>2 DEF DuplexInv
<1>4. SerialInv /\ ~raced
  BY <1>1, <1>3 DEF DuplexInv
<1>5. OneBusy'
  BY <1>1, <1>3, <1>4 DEF SerialInv, OneBusy, Busy, Ended, Moved
<1>6. SlotInv'
  BY <1>0, <1>1, <1>4 DEF SerialInv, SlotInv, Moved
<1>7. \A h \in Launches : ReaderInv(h)' /\ SpawnedInv(h)'
  BY <1>0, <1>1, <1>4 DEF SerialInv, ReaderInv, SpawnedInv, Moved
<1>8. NoOrphanChild'
  BY <1>1, <1>4 DEF SerialInv, NoOrphanChild, BeingKilled, Running, Moved
<1>9. RowInv'
  BY <1>1, <1>4 DEF SerialInv, RowInv
<1>10. DoomInv'
  BY <1>0, <1>1, <1>4 DEF SerialInv, DoomInv, Moved
<1>. QED
  BY <1>5, <1>6, <1>7, <1>8, <1>9, <1>10 DEF SerialInv

\* The fence begins to stop the predecessor.
LEMMA FenceKeeps ==
    ASSUME DuplexInv, NEW g \in Launches, fence_stale_orchestrator(g)
    PROVE  DuplexInv'
<1>0. /\ BaseInv /\ TypeOK /\ act \in [Actors -> ActRecs] /\ None \notin Launches
      /\ Main \notin Launches /\ Main \in Actors /\ Launches \subseteq Actors
  BY ActType, MainApart DEF DuplexInv, BaseInv
<1>1. /\ act[g].pc = "fence"
      /\ \/ Moved(g, "kill", act[g].victim, act[g].handle, "unledger")
         \/ Moved(g, "unledger", act[g].victim, act[g].handle, act[g].next)
      /\ UNCHANGED <<row, ledger, slot, child, reader, doomed, raced>>
  BY <1>0, GotoMoves, KillMoves DEF fence_stale_orchestrator, StopProcessOnly, Pcs
<1>2. BaseInv'
  <2>1. TypeOK'
    BY <1>0, <1>1, ActType, ActTypeAfter DEF Moved
  <2>2. \A y \in Actors : KillInv(y)'
    BY <1>0, <1>1 DEF BaseInv, KillInv, Killing, Moved
  <2>3. \A h \in Launches : StartedInv(h)'
    BY <1>0, <1>1 DEF BaseInv, StartedInv, Killing, Moved
  <2>. QED
    BY <2>1, <2>2, <2>3 DEF BaseInv
<1>3. SUFFICES ASSUME ~raced' PROVE SerialInv'
  BY <1>2 DEF DuplexInv
<1>4. SerialInv /\ ~raced
  BY <1>1, <1>3 DEF DuplexInv
<1>5. OneBusy'
  BY <1>1, <1>4 DEF SerialInv, OneBusy, Busy, Ended, Moved
<1>6. SlotInv'
  BY <1>0, <1>1, <1>4 DEF SerialInv, SlotInv, Moved
<1>7. \A h \in Launches : ReaderInv(h)' /\ SpawnedInv(h)'
  BY <1>0, <1>1, <1>4 DEF SerialInv, ReaderInv, SpawnedInv, Moved
<1>8. NoOrphanChild'
  BY <1>1, <1>4 DEF SerialInv, NoOrphanChild, BeingKilled, Running, Moved
<1>9. RowInv'
  BY <1>1, <1>4 DEF SerialInv, RowInv
<1>10. DoomInv'
  BY <1>0, <1>1, <1>4 DEF SerialInv, DoomInv, Moved
<1>. QED
  BY <1>5, <1>6, <1>7, <1>8, <1>9, <1>10 DEF SerialInv

\* The ledger entry is dropped.
LEMMA RemoveLedgerKeeps ==
    ASSUME DuplexInv, NEW x \in Actors, RemoveLedgerEntry(x)
    PROVE  DuplexInv'
<1>0. /\ BaseInv /\ TypeOK /\ act \in [Actors -> ActRecs] /\ None \notin Launches
      /\ Main \notin Launches /\ Main \in Actors /\ Launches \subseteq Actors
  BY ActType, MainApart DEF DuplexInv, BaseInv
<1>1. /\ act[x].pc = "unledger"
      /\ Moved(x, IF x = Main THEN "stopped" ELSE "clean", act[x].victim, act[x].handle,
               act[x].next)
      /\ ledger' = FALSE
      /\ UNCHANGED <<row, slot, child, reader, doomed, raced>>
  BY <1>0, GotoMoves DEF RemoveLedgerEntry, Pcs
<1>2. BaseInv'
  <2>1. TypeOK'
    BY <1>0, <1>1, ActType, ActTypeAfter DEF Moved
  <2>2. \A y \in Actors : KillInv(y)'
    BY <1>0, <1>1 DEF BaseInv, KillInv, Killing, Moved
  <2>3. \A h \in Launches : StartedInv(h)'
    BY <1>0, <1>1 DEF BaseInv, StartedInv, Killing, Moved
  <2>. QED
    BY <2>1, <2>2, <2>3 DEF BaseInv
<1>3. SUFFICES ASSUME ~raced' PROVE SerialInv'
  BY <1>2 DEF DuplexInv
<1>4. SerialInv /\ ~raced
  BY <1>1, <1>3 DEF DuplexInv
<1>5. OneBusy'
  BY <1>1, <1>4 DEF SerialInv, OneBusy, Busy, Ended, Moved
<1>6. SlotInv'
  BY <1>0, <1>1, <1>4 DEF SerialInv, SlotInv, Moved
<1>7. \A h \in Launches : ReaderInv(h)' /\ SpawnedInv(h)'
  BY <1>0, <1>1, <1>4 DEF SerialInv, ReaderInv, SpawnedInv, Moved
<1>8. NoOrphanChild'
  BY <1>1, <1>4 DEF SerialInv, NoOrphanChild, BeingKilled, Running, Moved
<1>9. RowInv'
  BY <1>1, <1>4 DEF SerialInv, RowInv
<1>10. DoomInv'
  BY <1>0, <1>1, <1>4 DEF SerialInv, DoomInv, Moved
<1>. QED
  BY <1>5, <1>6, <1>7, <1>8, <1>9, <1>10 DEF SerialInv

\* The spawn begins with a kill.
LEMMA CleanRelaunchKeeps ==
    ASSUME DuplexInv, NEW g \in Launches, CleanRelaunch(g)
    PROVE  DuplexInv'
<1>0. /\ BaseInv /\ TypeOK /\ act \in [Actors -> ActRecs] /\ None \notin Launches
      /\ Main \notin Launches /\ Main \in Actors /\ Launches \subseteq Actors
  BY ActType, MainApart DEF DuplexInv, BaseInv
<1>1. /\ act[g].pc = "clean"
      /\ Moved(g, "kill", act[g].victim, act[g].handle, "spawn")
      /\ UNCHANGED <<row, ledger, slot, child, reader, doomed, raced>>
  BY <1>0, KillMoves DEF CleanRelaunch
<1>2. BaseInv'
  <2>1. TypeOK'
    BY <1>0, <1>1, ActType, ActTypeAfter DEF Moved
  <2>2. \A y \in Actors : KillInv(y)'
    BY <1>0, <1>1 DEF BaseInv, KillInv, Killing, Moved
  <2>3. \A h \in Launches : StartedInv(h)'
    BY <1>0, <1>1 DEF BaseInv, StartedInv, Killing, Moved
  <2>. QED
    BY <2>1, <2>2, <2>3 DEF BaseInv
<1>3. SUFFICES ASSUME ~raced' PROVE SerialInv'
  BY <1>2 DEF DuplexInv
<1>4. SerialInv /\ ~raced
  BY <1>1, <1>3 DEF DuplexInv
<1>5. OneBusy'
  BY <1>1, <1>4 DEF SerialInv, OneBusy, Busy, Ended, Moved
<1>6. SlotInv'
  BY <1>0, <1>1, <1>4 DEF SerialInv, SlotInv, Moved
<1>7. \A h \in Launches : ReaderInv(h)' /\ SpawnedInv(h)'
  BY <1>0, <1>1, <1>4 DEF SerialInv, ReaderInv, SpawnedInv, Moved
<1>8. NoOrphanChild'
  BY <1>1, <1>4 DEF SerialInv, NoOrphanChild, BeingKilled, Running, Moved
<1>9. RowInv'
  BY <1>1, <1>4 DEF SerialInv, RowInv
<1>10. DoomInv'
  BY <1>0, <1>1, <1>4 DEF SerialInv, DoomInv, Moved
<1>. QED
  BY <1>5, <1>6, <1>7, <1>8, <1>9, <1>10 DEF SerialInv

\* The child is spawned and registered.
LEMMA SpawnKeeps ==
    ASSUME DuplexInv, NEW g \in Launches, SpawnChild(g), Goto(g, "reader")
    PROVE  DuplexInv'
<1>0. /\ BaseInv /\ TypeOK /\ act \in [Actors -> ActRecs] /\ None \notin Launches
      /\ Main \notin Launches /\ Main \in Actors /\ Launches \subseteq Actors
  BY ActType, MainApart DEF DuplexInv, BaseInv
<1>1. /\ act[g].pc = "spawn"
      /\ Moved(g, "reader", act[g].victim, act[g].handle, act[g].next)
      /\ child' = [child EXCEPT ![g] = "alive"]
      /\ slot' = [gen |-> g, handle |-> None]
      /\ UNCHANGED <<row, ledger, reader, doomed, raced>>
  BY <1>0, GotoMoves DEF SpawnChild, Pcs, Moved
<1>2. BaseInv'
  <2>1. TypeOK'
    BY <1>0, <1>1, ActType, ActTypeAfter DEF Moved
  <2>2. \A y \in Actors : KillInv(y)'
    BY <1>0, <1>1 DEF BaseInv, KillInv, Killing, Moved
  <2>3. \A h \in Launches : StartedInv(h)'
    BY <1>0, <1>1 DEF BaseInv, StartedInv, Killing, Moved
  <2>. QED
    BY <2>1, <2>2, <2>3 DEF BaseInv
<1>3. SUFFICES ASSUME ~raced' PROVE SerialInv'
  BY <1>2 DEF DuplexInv
<1>4. SerialInv /\ ~raced
  BY <1>1, <1>3 DEF DuplexInv
<1>5. OneBusy'
  BY <1>1, <1>4 DEF SerialInv, OneBusy, Busy, Ended, Moved
<1>6. SlotInv'
  BY <1>0, <1>1, <1>4 DEF SerialInv, OneBusy, Busy, Ended, SlotInv, Moved
<1>7. \A h \in Launches : ReaderInv(h)' /\ SpawnedInv(h)'
  <2>1. /\ reader[g] = "none" /\ slot = Empty
        /\ \A y \in Actors : act[y].pc \notin {"reap", "join", "attach", "joinown", "reader", "drop"}
    BY <1>0, <1>1, <1>4 DEF SerialInv, SlotInv, OneBusy, Busy, Ended, BaseInv, StartedInv,
       Killing
  <2>2. \A h \in Launches : reader[h] \notin Active
    BY <1>0, <1>4, <2>1 DEF SerialInv, ReaderInv, Empty
  <2>. QED
    BY <1>0, <1>1, <2>1, <2>2 DEF ReaderInv, SpawnedInv, Moved
<1>8. NoOrphanChild'
  <2>1. slot = Empty /\ \A y \in Actors : act[y].pc # "reap"
    BY <1>0, <1>1, <1>4 DEF SerialInv, SlotInv, OneBusy, Busy, Ended
  <2>2. \A h \in Launches : ~Running(h)
    BY <1>0, <1>4, <2>1 DEF SerialInv, NoOrphanChild, BeingKilled, Running, Empty
  <2>. QED
    BY <1>0, <1>1, <2>2 DEF NoOrphanChild, Running, TypeOK
<1>9. RowInv'
  BY <1>1, <1>4 DEF SerialInv, RowInv
<1>10. DoomInv'
  <2>1. act[Main].pc \notin {"join", "close", "unledger", "stopped"}
    BY <1>0, <1>1, <1>4 DEF SerialInv, OneBusy, Busy, Ended
  <2>. QED
    BY <1>0, <1>1, <1>4, <2>1 DEF SerialInv, DoomInv, Moved
<1>. QED
  BY <1>5, <1>6, <1>7, <1>8, <1>9, <1>10 DEF SerialInv

\* The spawn fails.
LEMMA SpawnFailsKeeps ==
    ASSUME DuplexInv, NEW g \in Launches, SpawnChild(g), Goto(g, "failed")
    PROVE  DuplexInv'
<1>0. /\ BaseInv /\ TypeOK /\ act \in [Actors -> ActRecs] /\ None \notin Launches
      /\ Main \notin Launches /\ Main \in Actors /\ Launches \subseteq Actors
  BY ActType, MainApart DEF DuplexInv, BaseInv
<1>1. /\ act[g].pc = "spawn"
      /\ Moved(g, "failed", act[g].victim, act[g].handle, act[g].next)
      /\ UNCHANGED <<row, ledger, slot, child, reader, doomed, raced>>
  BY <1>0, GotoMoves DEF SpawnChild, Pcs, Moved
<1>2. BaseInv'
  <2>1. TypeOK'
    BY <1>0, <1>1, ActType, ActTypeAfter DEF Moved
  <2>2. \A y \in Actors : KillInv(y)'
    BY <1>0, <1>1 DEF BaseInv, KillInv, Killing, Moved
  <2>3. \A h \in Launches : StartedInv(h)'
    BY <1>0, <1>1 DEF BaseInv, StartedInv, Killing, Moved
  <2>. QED
    BY <2>1, <2>2, <2>3 DEF BaseInv
<1>3. SUFFICES ASSUME ~raced' PROVE SerialInv'
  BY <1>2 DEF DuplexInv
<1>4. SerialInv /\ ~raced
  BY <1>1, <1>3 DEF DuplexInv
<1>5. OneBusy'
  BY <1>1, <1>4 DEF SerialInv, OneBusy, Busy, Ended, Moved
<1>6. SlotInv'
  BY <1>0, <1>1, <1>4 DEF SerialInv, SlotInv, Moved
<1>7. \A h \in Launches : ReaderInv(h)' /\ SpawnedInv(h)'
  BY <1>0, <1>1, <1>4 DEF SerialInv, OneBusy, Busy, Ended, ReaderInv, SpawnedInv, Moved
<1>8. NoOrphanChild'
  BY <1>1, <1>4 DEF SerialInv, NoOrphanChild, BeingKilled, Running, Moved
<1>9. RowInv'
  BY <1>1, <1>4 DEF SerialInv, RowInv
<1>10. DoomInv'
  BY <1>0, <1>1, <1>4 DEF SerialInv, DoomInv, Moved
<1>. QED
  BY <1>5, <1>6, <1>7, <1>8, <1>9, <1>10 DEF SerialInv

\* The reader thread starts.
LEMMA StartReaderKeeps ==
    ASSUME DuplexInv, NEW g \in Launches, StartReader(g), Goto(g, "attach")
    PROVE  DuplexInv'
<1>0. /\ BaseInv /\ TypeOK /\ act \in [Actors -> ActRecs] /\ None \notin Launches
      /\ Main \notin Launches /\ Main \in Actors /\ Launches \subseteq Actors
  BY ActType, MainApart DEF DuplexInv, BaseInv
<1>1. /\ act[g].pc = "reader"
      /\ Moved(g, "attach", act[g].victim, act[g].handle, act[g].next)
      /\ reader' = [reader EXCEPT ![g] = "reading"]
      /\ UNCHANGED <<row, ledger, slot, child, doomed, raced>>
  BY <1>0, GotoMoves DEF StartReader, Pcs, Moved
<1>2. BaseInv'
  <2>1. TypeOK'
    BY <1>0, <1>1, ActType, ActTypeAfter DEF Moved
  <2>2. \A y \in Actors : KillInv(y)'
    BY <1>0, <1>1 DEF BaseInv, KillInv, Killing, Moved
  <2>3. \A h \in Launches : StartedInv(h)'
    BY <1>0, <1>1 DEF BaseInv, StartedInv, Killing, TypeOK, Moved
  <2>. QED
    BY <2>1, <2>2, <2>3 DEF BaseInv
<1>3. SUFFICES ASSUME ~raced' PROVE SerialInv'
  BY <1>2 DEF DuplexInv
<1>4. SerialInv /\ ~raced
  BY <1>1, <1>3 DEF DuplexInv
<1>5. OneBusy'
  BY <1>1, <1>4 DEF SerialInv, OneBusy, Busy, Ended, Moved
<1>6. SlotInv'
  <2>1. slot.gen = g /\ slot # Empty
    BY <1>0, <1>1, <1>4 DEF SerialInv, SpawnedInv, Empty
  <2>2. reader'[g] = "reading" /\ act'[g].pc = "attach"
    BY <1>0, <1>1 DEF TypeOK, Moved
  <2>3. \A y \in Actors : act'[y].pc \notin {"reap", "join", "close", "spawn"}
    BY <1>1, <1>4, <2>1 DEF SerialInv, SlotInv, Moved
  <2>. QED
    BY <1>1, <2>1, <2>2, <2>3 DEF SlotInv, Active
<1>7. \A h \in Launches : ReaderInv(h)' /\ SpawnedInv(h)'
  <2>1. /\ slot.gen = g /\ reader'[g] = "reading"
        /\ \A h \in Launches : h # g => reader'[h] = reader[h]
    BY <1>0, <1>1, <1>4 DEF SerialInv, SpawnedInv, TypeOK
  <2>2. \A h \in Launches : ReaderInv(h)'
    BY <1>0, <1>1, <1>4, <2>1 DEF SerialInv, ReaderInv, Moved
  <2>3. \A h \in Launches : SpawnedInv(h)'
    BY <1>0, <1>1, <1>4, <2>1 DEF SerialInv, OneBusy, Busy, Ended, SpawnedInv, Moved
  <2>. QED
    BY <2>2, <2>3
<1>8. NoOrphanChild'
  BY <1>1, <1>4 DEF SerialInv, NoOrphanChild, BeingKilled, Running, Moved
<1>9. RowInv'
  BY <1>0, <1>1, <1>4 DEF SerialInv, RowInv, Active, TypeOK
<1>10. DoomInv'
  BY <1>0, <1>1, <1>4 DEF SerialInv, DoomInv, Moved
<1>. QED
  BY <1>5, <1>6, <1>7, <1>8, <1>9, <1>10 DEF SerialInv

\* The reader thread cannot start: the child is killed.
LEMMA ReaderFailsKeeps ==
    ASSUME DuplexInv, NEW g \in Launches, StartReader(g), Goto(g, "drop")
    PROVE  DuplexInv'
<1>0. /\ BaseInv /\ TypeOK /\ act \in [Actors -> ActRecs] /\ None \notin Launches
      /\ Main \notin Launches /\ Main \in Actors /\ Launches \subseteq Actors
  BY ActType, MainApart DEF DuplexInv, BaseInv
<1>1. /\ act[g].pc = "reader"
      /\ Moved(g, "drop", act[g].victim, act[g].handle, act[g].next)
      /\ child' = [child EXCEPT ![g] = "dead"]
      /\ UNCHANGED <<row, ledger, slot, reader, doomed, raced>>
  BY <1>0, GotoMoves DEF StartReader, Pcs, Moved
<1>2. BaseInv'
  <2>1. TypeOK'
    BY <1>0, <1>1, ActType, ActTypeAfter DEF Empty, Moved
  <2>2. \A y \in Actors : KillInv(y)'
    BY <1>0, <1>1 DEF BaseInv, KillInv, Killing, Moved
  <2>3. \A h \in Launches : StartedInv(h)'
    BY <1>0, <1>1 DEF BaseInv, StartedInv, Killing, TypeOK, Moved
  <2>. QED
    BY <2>1, <2>2, <2>3 DEF BaseInv
<1>3. SUFFICES ASSUME ~raced' PROVE SerialInv'
  BY <1>2 DEF DuplexInv
<1>4. SerialInv /\ ~raced
  BY <1>1, <1>3 DEF DuplexInv
<1>5. OneBusy'
  BY <1>1, <1>4 DEF SerialInv, OneBusy, Busy, Ended, Moved
<1>6. SlotInv'
  BY <1>0, <1>1, <1>4 DEF SerialInv, SlotInv, Active, TypeOK, Moved
<1>7. \A h \in Launches : ReaderInv(h)' /\ SpawnedInv(h)'
  <2>1. \A h \in Launches : child'[h] \in {child[h], "dead"} /\ child'[g] = "dead"
    BY <1>0, <1>1 DEF TypeOK
  <2>2. \A h \in Launches : ReaderInv(h)'
    BY <1>0, <1>1, <1>4 DEF SerialInv, ReaderInv, Moved
  <2>3. \A h \in Launches : SpawnedInv(h)'
    BY <1>0, <1>1, <1>4, <2>1 DEF SerialInv, SpawnedInv, Moved
  <2>. QED
    BY <2>2, <2>3
<1>8. NoOrphanChild'
  BY <1>0, <1>1, <1>4 DEF SerialInv, NoOrphanChild, BeingKilled, Running, TypeOK, Moved
<1>9. RowInv'
  BY <1>0, <1>1, <1>4 DEF SerialInv, RowInv, Active, TypeOK
<1>10. DoomInv'
  BY <1>0, <1>1, <1>4 DEF SerialInv, DoomInv, TypeOK, Moved
<1>. QED
  BY <1>5, <1>6, <1>7, <1>8, <1>9, <1>10 DEF SerialInv

\* The launch without a reader takes its session out of the map and fails.
LEMMA DropSessionKeeps ==
    ASSUME DuplexInv, NEW g \in Launches, DropSession(g)
    PROVE  DuplexInv'
<1>0. /\ BaseInv /\ TypeOK /\ act \in [Actors -> ActRecs] /\ None \notin Launches
      /\ Main \notin Launches /\ Main \in Actors /\ Launches \subseteq Actors
  BY ActType, MainApart DEF DuplexInv, BaseInv
<1>1. /\ act[g].pc = "drop"
      /\ Moved(g, "failed", act[g].victim, act[g].handle, act[g].next)
      /\ slot' = Empty
      /\ UNCHANGED <<row, ledger, child, reader, doomed, raced>>
  BY <1>0, GotoMoves DEF DropSession, Pcs
<1>2. BaseInv'
  <2>1. TypeOK'
    BY <1>0, <1>1, ActType, ActTypeAfter DEF Empty, Moved
  <2>2. \A y \in Actors : KillInv(y)'
    BY <1>0, <1>1 DEF BaseInv, KillInv, Killing, Moved
  <2>3. \A h \in Launches : StartedInv(h)'
    BY <1>0, <1>1 DEF BaseInv, StartedInv, Killing, TypeOK, Moved
  <2>. QED
    BY <2>1, <2>2, <2>3 DEF BaseInv
<1>3. SUFFICES ASSUME ~raced' PROVE SerialInv'
  BY <1>2 DEF DuplexInv
<1>4. SerialInv /\ ~raced
  BY <1>1, <1>3 DEF DuplexInv
<1>5. OneBusy'
  BY <1>1, <1>4 DEF SerialInv, OneBusy, Busy, Ended, Moved
<1>6. SlotInv'
  BY <1>0, <1>1, <1>4 DEF SerialInv, SlotInv, Active, TypeOK, Moved
<1>7. \A h \in Launches : ReaderInv(h)' /\ SpawnedInv(h)'
  <2>1. slot.gen = g /\ reader[g] = "none"
    BY <1>1, <1>4 DEF SerialInv, SpawnedInv
  <2>2. \A h \in Launches : ReaderInv(h)'
    BY <1>0, <1>1, <1>4, <2>1 DEF SerialInv, ReaderInv, Active, Moved
  <2>3. \A h \in Launches : SpawnedInv(h)'
    BY <1>0, <1>1, <1>4, <2>1 DEF SerialInv, OneBusy, Busy, Ended, SpawnedInv, Moved
  <2>. QED
    BY <2>2, <2>3
<1>8. NoOrphanChild'
  <2>1. slot.gen = g /\ child[g] = "dead"
    BY <1>1, <1>4 DEF SerialInv, SpawnedInv
  <2>. QED
    BY <1>0, <1>1, <1>4, <2>1 DEF SerialInv, NoOrphanChild, BeingKilled, Running, Moved
<1>9. RowInv'
  BY <1>0, <1>1, <1>4 DEF SerialInv, RowInv, Active, TypeOK
<1>10. DoomInv'
  BY <1>0, <1>1, <1>4 DEF SerialInv, DoomInv, TypeOK, Moved
<1>. QED
  BY <1>5, <1>6, <1>7, <1>8, <1>9, <1>10 DEF SerialInv

\* The reader is attached to the session in the map.
LEMMA AttachKeeps ==
    ASSUME DuplexInv, NEW g \in Launches, AttachReader(g), slot # Empty
    PROVE  DuplexInv'
<1>0. /\ BaseInv /\ TypeOK /\ act \in [Actors -> ActRecs] /\ None \notin Launches
      /\ Main \notin Launches /\ Main \in Actors /\ Launches \subseteq Actors
  BY ActType, MainApart DEF DuplexInv, BaseInv
<1>1. /\ act[g].pc = "attach"
      /\ Moved(g, "ledger", act[g].victim, act[g].handle, act[g].next)
      /\ slot' = [slot EXCEPT !.handle = g]
      /\ row' = IF row = "absent" THEN row ELSE "active"
      /\ UNCHANGED <<ledger, child, reader, doomed, raced>>
  BY <1>0, GotoMoves DEF AttachReader, SetRow, Pcs
<1>2. BaseInv'
  <2>1. TypeOK'
    BY <1>0, <1>1, ActType, ActTypeAfter DEF Moved
  <2>2. \A y \in Actors : KillInv(y)'
    BY <1>0, <1>1 DEF BaseInv, KillInv, Killing, Moved
  <2>3. \A h \in Launches : StartedInv(h)'
    BY <1>0, <1>1 DEF BaseInv, StartedInv, Killing, Moved
  <2>. QED
    BY <2>1, <2>2, <2>3 DEF BaseInv
<1>3. SUFFICES ASSUME ~raced' PROVE SerialInv'
  BY <1>2 DEF DuplexInv
<1>4. SerialInv /\ ~raced
  BY <1>1, <1>3 DEF DuplexInv
<1>5. OneBusy'
  BY <1>1, <1>4 DEF SerialInv, OneBusy, Busy, Ended, Moved
<1>6. SlotInv'
  BY <1>1, <1>4 DEF SerialInv, SlotInv, SpawnedInv, Moved
<1>7. \A h \in Launches : ReaderInv(h)' /\ SpawnedInv(h)'
  BY <1>0, <1>1, <1>4 DEF SerialInv, ReaderInv, SpawnedInv, Moved
<1>8. NoOrphanChild'
  BY <1>1, <1>4 DEF SerialInv, NoOrphanChild, BeingKilled, Running, Moved
<1>9. RowInv'
  BY <1>1, <1>4 DEF SerialInv, SlotInv, SpawnedInv, RowInv
<1>10. DoomInv'
  BY <1>0, <1>1, <1>4 DEF SerialInv, DoomInv, Moved
<1>. QED
  BY <1>5, <1>6, <1>7, <1>8, <1>9, <1>10 DEF SerialInv

\* The session is gone before its reader is attached.
LEMMA AttachNothingKeeps ==
    ASSUME DuplexInv, NEW g \in Launches, AttachReader(g), slot = Empty
    PROVE  DuplexInv'
<1>0. /\ BaseInv /\ TypeOK /\ act \in [Actors -> ActRecs] /\ None \notin Launches
      /\ Main \notin Launches /\ Main \in Actors /\ Launches \subseteq Actors
  BY ActType, MainApart DEF DuplexInv, BaseInv
<1>1. /\ act[g].pc = "attach"
      /\ Moved(g, "joinown", act[g].victim, act[g].handle, act[g].next)
      /\ UNCHANGED <<row, slot, ledger, child, reader, doomed, raced>>
  BY <1>0, GotoMoves DEF AttachReader, Pcs
<1>2. BaseInv'
  <2>1. TypeOK'
    BY <1>0, <1>1, ActType, ActTypeAfter DEF Moved
  <2>2. \A y \in Actors : KillInv(y)'
    BY <1>0, <1>1 DEF BaseInv, KillInv, Killing, Moved
  <2>3. \A h \in Launches : StartedInv(h)'
    BY <1>0, <1>1 DEF BaseInv, StartedInv, Killing, Moved
  <2>. QED
    BY <2>1, <2>2, <2>3 DEF BaseInv
<1>3. SUFFICES ASSUME ~raced' PROVE SerialInv'
  BY <1>2 DEF DuplexInv
<1>4. SerialInv /\ ~raced
  BY <1>1, <1>3 DEF DuplexInv
<1>5. OneBusy'
  BY <1>1, <1>4 DEF SerialInv, OneBusy, Busy, Ended, Moved
<1>6. SlotInv'
  BY <1>1, <1>4 DEF SerialInv, SlotInv, Moved
<1>7. \A h \in Launches : ReaderInv(h)' /\ SpawnedInv(h)'
  <2>1. \A y \in Actors : act[y].pc \notin {"reap", "join"}
    BY <1>0, <1>1, <1>4 DEF SerialInv, OneBusy, Busy, Ended
  <2>2. reader[g] \in {"closing", "done"}
    BY <1>0, <1>1, <1>4, <2>1 DEF SerialInv, ReaderInv, SpawnedInv, Active, Empty, TypeOK
  <2>3. \A h \in Launches : ReaderInv(h)'
    BY <1>0, <1>1, <1>4 DEF SerialInv, ReaderInv, Moved
  <2>4. \A h \in Launches : SpawnedInv(h)'
    BY <1>0, <1>1, <1>4, <2>2 DEF SerialInv, SpawnedInv, Moved
  <2>. QED
    BY <2>3, <2>4
<1>8. NoOrphanChild'
  BY <1>1, <1>4 DEF SerialInv, NoOrphanChild, BeingKilled, Running, Moved
<1>9. RowInv'
  BY <1>1, <1>4 DEF SerialInv, RowInv
<1>10. DoomInv'
  BY <1>0, <1>1, <1>4 DEF SerialInv, DoomInv, Moved
<1>. QED
  BY <1>5, <1>6, <1>7, <1>8, <1>9, <1>10 DEF SerialInv

\* The launch joins its own reader and fails.
LEMMA JoinOwnKeeps ==
    ASSUME DuplexInv, NEW g \in Launches, JoinOwnReader(g)
    PROVE  DuplexInv'
<1>0. /\ BaseInv /\ TypeOK /\ act \in [Actors -> ActRecs] /\ None \notin Launches
      /\ Main \notin Launches /\ Main \in Actors /\ Launches \subseteq Actors
  BY ActType, MainApart DEF DuplexInv, BaseInv
<1>1. /\ act[g].pc = "joinown"
      /\ Moved(g, "failed", act[g].victim, act[g].handle, act[g].next)
      /\ UNCHANGED <<row, slot, ledger, child, reader, doomed, raced>>
  BY <1>0, GotoMoves DEF JoinOwnReader, Pcs
<1>2. BaseInv'
  <2>1. TypeOK'
    BY <1>0, <1>1, ActType, ActTypeAfter DEF Moved
  <2>2. \A y \in Actors : KillInv(y)'
    BY <1>0, <1>1 DEF BaseInv, KillInv, Killing, Moved
  <2>3. \A h \in Launches : StartedInv(h)'
    BY <1>0, <1>1 DEF BaseInv, StartedInv, Killing, Moved
  <2>. QED
    BY <2>1, <2>2, <2>3 DEF BaseInv
<1>3. SUFFICES ASSUME ~raced' PROVE SerialInv'
  BY <1>2 DEF DuplexInv
<1>4. SerialInv /\ ~raced
  BY <1>1, <1>3 DEF DuplexInv
<1>5. OneBusy'
  BY <1>1, <1>4 DEF SerialInv, OneBusy, Busy, Ended, Moved
<1>6. SlotInv'
  BY <1>0, <1>1, <1>4 DEF SerialInv, SlotInv, Moved
<1>7. \A h \in Launches : ReaderInv(h)' /\ SpawnedInv(h)'
  BY <1>0, <1>1, <1>4 DEF SerialInv, ReaderInv, SpawnedInv, Moved
<1>8. NoOrphanChild'
  BY <1>1, <1>4 DEF SerialInv, NoOrphanChild, BeingKilled, Running, Moved
<1>9. RowInv'
  BY <1>1, <1>4 DEF SerialInv, RowInv
<1>10. DoomInv'
  BY <1>0, <1>1, <1>4 DEF SerialInv, DoomInv, Moved
<1>. QED
  BY <1>5, <1>6, <1>7, <1>8, <1>9, <1>10 DEF SerialInv

\* The launch is recorded in the ledger, or killed again.
LEMMA RecordLaunchKeeps ==
    ASSUME DuplexInv, NEW g \in Launches, record_agent_launch(g)
    PROVE  DuplexInv'
<1>0. /\ BaseInv /\ TypeOK /\ act \in [Actors -> ActRecs] /\ None \notin Launches
      /\ Main \notin Launches /\ Main \in Actors /\ Launches \subseteq Actors
  BY ActType, MainApart DEF DuplexInv, BaseInv
<1>1. /\ act[g].pc = "ledger"
      /\ \/ Moved(g, "done", act[g].victim, act[g].handle, act[g].next)
         \/ Moved(g, "kill", act[g].victim, act[g].handle, "failed")
      /\ ledger' \in BOOLEAN
      /\ UNCHANGED <<row, slot, child, reader, doomed, raced>>
  BY <1>0, ActType, GotoMoves, KillMoves DEF record_agent_launch, Pcs
<1>2. BaseInv'
  <2>1. TypeOK'
    BY <1>0, <1>1, ActType, ActTypeAfter DEF Moved
  <2>2. \A y \in Actors : KillInv(y)'
    BY <1>0, <1>1 DEF BaseInv, KillInv, Killing, Moved
  <2>3. \A h \in Launches : StartedInv(h)'
    BY <1>0, <1>1 DEF BaseInv, StartedInv, Killing, Moved
  <2>. QED
    BY <2>1, <2>2, <2>3 DEF BaseInv
<1>3. SUFFICES ASSUME ~raced' PROVE SerialInv'
  BY <1>2 DEF DuplexInv
<1>4. SerialInv /\ ~raced
  BY <1>1, <1>3 DEF DuplexInv
<1>5. OneBusy'
  BY <1>1, <1>4 DEF SerialInv, OneBusy, Busy, Ended, Moved
<1>6. SlotInv'
  BY <1>0, <1>1, <1>4 DEF SerialInv, SlotInv, Moved
<1>7. \A h \in Launches : ReaderInv(h)' /\ SpawnedInv(h)'
  BY <1>0, <1>1, <1>4 DEF SerialInv, OneBusy, Busy, Ended, ReaderInv, SpawnedInv, Moved
<1>8. NoOrphanChild'
  BY <1>1, <1>4 DEF SerialInv, NoOrphanChild, BeingKilled, Running, Moved
<1>9. RowInv'
  BY <1>1, <1>4 DEF SerialInv, RowInv
<1>10. DoomInv'
  BY <1>0, <1>1, <1>4 DEF SerialInv, DoomInv, Moved
<1>. QED
  BY <1>5, <1>6, <1>7, <1>8, <1>9, <1>10 DEF SerialInv

\* The child exits.
LEMMA ChildExitsKeeps ==
    ASSUME DuplexInv, NEW g \in Launches, ChildExits(g)
    PROVE  DuplexInv'
<1>0. /\ BaseInv /\ TypeOK /\ act \in [Actors -> ActRecs] /\ None \notin Launches
      /\ Main \notin Launches /\ Main \in Actors /\ Launches \subseteq Actors
  BY ActType, MainApart DEF DuplexInv, BaseInv
<1>1. /\ child' = [child EXCEPT ![g] = "dead"]
      /\ Running(g)
      /\ UNCHANGED <<row, ledger, slot, reader, act, doomed, raced>>
  BY <1>0 DEF ChildExits
<1>2. BaseInv'
  <2>1. TypeOK'
    BY <1>0, <1>1, ActType, ActTypeAfter
  <2>2. \A y \in Actors : KillInv(y)'
    BY <1>0, <1>1 DEF BaseInv, KillInv, Killing
  <2>3. \A h \in Launches : StartedInv(h)'
    BY <1>0, <1>1 DEF BaseInv, StartedInv, Killing
  <2>. QED
    BY <2>1, <2>2, <2>3 DEF BaseInv
<1>3. SUFFICES ASSUME ~raced' PROVE SerialInv'
  BY <1>2 DEF DuplexInv
<1>4. SerialInv /\ ~raced
  BY <1>1, <1>3 DEF DuplexInv
<1>5. OneBusy'
  BY <1>1, <1>4 DEF SerialInv, OneBusy, Busy, Ended
<1>6. SlotInv'
  BY <1>1, <1>4 DEF SerialInv, SlotInv
<1>7. \A h \in Launches : ReaderInv(h)' /\ SpawnedInv(h)'
  BY <1>1, <1>4 DEF SerialInv, ReaderInv, SpawnedInv
<1>8. NoOrphanChild'
  BY <1>0, <1>1, <1>4 DEF SerialInv, NoOrphanChild, BeingKilled, Running, TypeOK
<1>9. RowInv'
  BY <1>1, <1>4 DEF SerialInv, RowInv
<1>10. DoomInv'
  BY <1>0, <1>1, <1>4 DEF SerialInv, DoomInv, TypeOK
<1>. QED
  BY <1>5, <1>6, <1>7, <1>8, <1>9, <1>10 DEF SerialInv

\* The child closes its output and runs on.
LEMMA ChildClosesKeeps ==
    ASSUME DuplexInv, NEW g \in Launches, ChildCloses(g)
    PROVE  DuplexInv'
<1>0. /\ BaseInv /\ TypeOK /\ act \in [Actors -> ActRecs] /\ None \notin Launches
      /\ Main \notin Launches /\ Main \in Actors /\ Launches \subseteq Actors
  BY ActType, MainApart DEF DuplexInv, BaseInv
<1>1. /\ child' = [child EXCEPT ![g] = "mute"]
      /\ child[g] = "alive"
      /\ UNCHANGED <<row, ledger, slot, reader, act, doomed, raced>>
  BY <1>0 DEF ChildCloses
<1>2. BaseInv'
  <2>1. TypeOK'
    BY <1>0, <1>1, ActType, ActTypeAfter DEF Empty
  <2>2. \A y \in Actors : KillInv(y)'
    BY <1>0, <1>1 DEF BaseInv, KillInv, Killing
  <2>3. \A h \in Launches : StartedInv(h)'
    BY <1>0, <1>1 DEF BaseInv, StartedInv, Killing, TypeOK
  <2>. QED
    BY <2>1, <2>2, <2>3 DEF BaseInv
<1>3. SUFFICES ASSUME ~raced' PROVE SerialInv'
  BY <1>2 DEF DuplexInv
<1>4. SerialInv /\ ~raced
  BY <1>1, <1>3 DEF DuplexInv
<1>5. OneBusy'
  BY <1>1, <1>4 DEF SerialInv, OneBusy, Busy, Ended
<1>6. SlotInv'
  BY <1>0, <1>1, <1>4 DEF SerialInv, SlotInv, Active, TypeOK
<1>7. \A h \in Launches : ReaderInv(h)' /\ SpawnedInv(h)'
  BY <1>0, <1>1, <1>4 DEF SerialInv, ReaderInv, SpawnedInv, Active, TypeOK
<1>8. NoOrphanChild'
  BY <1>0, <1>1, <1>4 DEF SerialInv, NoOrphanChild, BeingKilled, Running, TypeOK
<1>9. RowInv'
  BY <1>0, <1>1, <1>4 DEF SerialInv, RowInv, Active, TypeOK
<1>10. DoomInv'
  <2>1. act[Main].pc \in {"join", "close", "unledger", "stopped"} => g \notin doomed
    BY <1>1, <1>4 DEF SerialInv, DoomInv
  <2>. QED
    BY <1>0, <1>1, <1>4, <2>1 DEF SerialInv, DoomInv, TypeOK
<1>. QED
  BY <1>5, <1>6, <1>7, <1>8, <1>9, <1>10 DEF SerialInv

\* The reader reaches the end of the output.
LEMMA ReaderEofKeeps ==
    ASSUME DuplexInv, NEW g \in Launches, ReaderEof(g)
    PROVE  DuplexInv'
<1>0. /\ BaseInv /\ TypeOK /\ act \in [Actors -> ActRecs] /\ None \notin Launches
      /\ Main \notin Launches /\ Main \in Actors /\ Launches \subseteq Actors
  BY ActType, MainApart DEF DuplexInv, BaseInv
<1>1. /\ reader[g] = "reading" /\ child[g] # "alive"
      /\ reader' = [reader EXCEPT ![g] = IF child[g] = "dead" THEN "eof" ELSE "reaping"]
      /\ UNCHANGED <<row, ledger, slot, child, act, doomed, raced>>
  BY <1>0 DEF ReaderEof
<1>2. BaseInv'
  <2>1. TypeOK'
    BY <1>0, <1>1, ActType, ActTypeAfter DEF Empty
  <2>2. \A y \in Actors : KillInv(y)'
    BY <1>0, <1>1 DEF BaseInv, KillInv, Killing
  <2>3. \A h \in Launches : StartedInv(h)'
    BY <1>0, <1>1 DEF BaseInv, StartedInv, Killing, TypeOK
  <2>. QED
    BY <2>1, <2>2, <2>3 DEF BaseInv
<1>3. SUFFICES ASSUME ~raced' PROVE SerialInv'
  BY <1>2 DEF DuplexInv
<1>4. SerialInv /\ ~raced
  BY <1>1, <1>3 DEF DuplexInv
<1>5. OneBusy'
  BY <1>1, <1>4 DEF SerialInv, OneBusy, Busy, Ended
<1>6. SlotInv'
  BY <1>0, <1>1, <1>4 DEF SerialInv, SlotInv, Active, TypeOK
<1>7. \A h \in Launches : ReaderInv(h)' /\ SpawnedInv(h)'
  BY <1>0, <1>1, <1>4 DEF SerialInv, ReaderInv, SpawnedInv, Active, TypeOK
<1>8. NoOrphanChild'
  BY <1>0, <1>1, <1>4 DEF SerialInv, NoOrphanChild, BeingKilled, Running, TypeOK
<1>9. RowInv'
  BY <1>0, <1>1, <1>4 DEF SerialInv, RowInv, Active, TypeOK
<1>10. DoomInv'
  BY <1>0, <1>1, <1>4 DEF SerialInv, DoomInv, TypeOK
<1>. QED
  BY <1>5, <1>6, <1>7, <1>8, <1>9, <1>10 DEF SerialInv

\* The reader has seen its child exit.
LEMMA ReaderReapsKeeps ==
    ASSUME DuplexInv, NEW g \in Launches, ReaderReaps(g)
    PROVE  DuplexInv'
<1>0. /\ BaseInv /\ TypeOK /\ act \in [Actors -> ActRecs] /\ None \notin Launches
      /\ Main \notin Launches /\ Main \in Actors /\ Launches \subseteq Actors
  BY ActType, MainApart DEF DuplexInv, BaseInv
<1>1. /\ reader[g] = "reaping" /\ child[g] = "dead"
      /\ reader' = [reader EXCEPT ![g] = "eof"]
      /\ UNCHANGED <<row, ledger, slot, child, act, doomed, raced>>
  BY <1>0 DEF ReaderReaps
<1>2. BaseInv'
  <2>1. TypeOK'
    BY <1>0, <1>1, ActType, ActTypeAfter DEF Empty
  <2>2. \A y \in Actors : KillInv(y)'
    BY <1>0, <1>1 DEF BaseInv, KillInv, Killing
  <2>3. \A h \in Launches : StartedInv(h)'
    BY <1>0, <1>1 DEF BaseInv, StartedInv, Killing, TypeOK
  <2>. QED
    BY <2>1, <2>2, <2>3 DEF BaseInv
<1>3. SUFFICES ASSUME ~raced' PROVE SerialInv'
  BY <1>2 DEF DuplexInv
<1>4. SerialInv /\ ~raced
  BY <1>1, <1>3 DEF DuplexInv
<1>5. OneBusy'
  BY <1>1, <1>4 DEF SerialInv, OneBusy, Busy, Ended
<1>6. SlotInv'
  BY <1>0, <1>1, <1>4 DEF SerialInv, SlotInv, Active, TypeOK
<1>7. \A h \in Launches : ReaderInv(h)' /\ SpawnedInv(h)'
  BY <1>0, <1>1, <1>4 DEF SerialInv, ReaderInv, SpawnedInv, Active, TypeOK
<1>8. NoOrphanChild'
  BY <1>0, <1>1, <1>4 DEF SerialInv, NoOrphanChild, BeingKilled, Running, TypeOK
<1>9. RowInv'
  BY <1>0, <1>1, <1>4 DEF SerialInv, RowInv, Active, TypeOK
<1>10. DoomInv'
  BY <1>0, <1>1, <1>4 DEF SerialInv, DoomInv, TypeOK
<1>. QED
  BY <1>5, <1>6, <1>7, <1>8, <1>9, <1>10 DEF SerialInv

\* The reader empties the map.
LEMMA ReaderRemovesKeeps ==
    ASSUME DuplexInv, NEW g \in Launches, ReaderRemoves(g)
    PROVE  DuplexInv'
<1>0. /\ BaseInv /\ TypeOK /\ act \in [Actors -> ActRecs] /\ None \notin Launches
      /\ Main \notin Launches /\ Main \in Actors /\ Launches \subseteq Actors
  BY ActType, MainApart DEF DuplexInv, BaseInv
<1>1. /\ reader' = [reader EXCEPT ![g] = "closing"]
      /\ reader[g] = "eof" /\ child[g] = "dead"
      /\ slot' = Empty
      /\ UNCHANGED <<row, ledger, child, act, doomed, raced>>
  BY <1>0 DEF ReaderRemoves, BaseInv, StartedInv
<1>2. BaseInv'
  <2>1. TypeOK'
    BY <1>0, <1>1, ActType, ActTypeAfter DEF Empty
  <2>2. \A y \in Actors : KillInv(y)'
    BY <1>0, <1>1 DEF BaseInv, KillInv, Killing
  <2>3. \A h \in Launches : StartedInv(h)'
    BY <1>0, <1>1 DEF BaseInv, StartedInv, Killing, TypeOK
  <2>. QED
    BY <2>1, <2>2, <2>3 DEF BaseInv
<1>3. SUFFICES ASSUME ~raced' PROVE SerialInv'
  BY <1>2 DEF DuplexInv
<1>4. SerialInv /\ ~raced
  BY <1>1, <1>3 DEF DuplexInv
<1>5. OneBusy'
  BY <1>1, <1>4 DEF SerialInv, OneBusy, Busy, Ended
<1>6. SlotInv'
  BY <1>0, <1>1, <1>4 DEF SerialInv, SlotInv, Active, TypeOK
<1>7. \A h \in Launches : ReaderInv(h)' /\ SpawnedInv(h)'
  BY <1>0, <1>1, <1>4 DEF SerialInv, SlotInv, Active, TypeOK, ReaderInv, SpawnedInv
<1>8. NoOrphanChild'
  BY <1>1, <1>4 DEF SerialInv, SlotInv, NoOrphanChild, BeingKilled, Running, ReaderInv, Active
<1>9. RowInv'
  BY <1>0, <1>1, <1>4 DEF SerialInv, RowInv, Active, TypeOK
<1>10. DoomInv'
  BY <1>1, <1>4 DEF SerialInv, DoomInv
<1>. QED
  BY <1>5, <1>6, <1>7, <1>8, <1>9, <1>10 DEF SerialInv

\* The reader closes the row.
LEMMA ReaderClosesKeeps ==
    ASSUME DuplexInv, NEW g \in Launches, ReaderCloses(g)
    PROVE  DuplexInv'
<1>0. /\ BaseInv /\ TypeOK /\ act \in [Actors -> ActRecs] /\ None \notin Launches
      /\ Main \notin Launches /\ Main \in Actors /\ Launches \subseteq Actors
  BY ActType, MainApart DEF DuplexInv, BaseInv
<1>1. /\ reader' = [reader EXCEPT ![g] = "done"]
      /\ reader[g] = "closing"
      /\ row' = IF row = "absent" THEN row ELSE "closed"
      /\ UNCHANGED <<ledger, slot, child, act, doomed, raced>>
  BY <1>0 DEF ReaderCloses, SetRow
<1>2. BaseInv'
  <2>1. TypeOK'
    BY <1>0, <1>1, ActType, ActTypeAfter
  <2>2. \A y \in Actors : KillInv(y)'
    BY <1>0, <1>1 DEF BaseInv, KillInv, Killing
  <2>3. \A h \in Launches : StartedInv(h)'
    BY <1>0, <1>1 DEF BaseInv, StartedInv, Killing, TypeOK
  <2>. QED
    BY <2>1, <2>2, <2>3 DEF BaseInv
<1>3. SUFFICES ASSUME ~raced' PROVE SerialInv'
  BY <1>2 DEF DuplexInv
<1>4. SerialInv /\ ~raced
  BY <1>1, <1>3 DEF DuplexInv
<1>5. OneBusy'
  BY <1>1, <1>4 DEF SerialInv, OneBusy, Busy, Ended
<1>6. SlotInv'
  BY <1>0, <1>1, <1>4 DEF SerialInv, SlotInv, Active, TypeOK
<1>7. \A h \in Launches : ReaderInv(h)' /\ SpawnedInv(h)'
  BY <1>0, <1>1, <1>4 DEF SerialInv, ReaderInv, SpawnedInv, Active, TypeOK
<1>8. NoOrphanChild'
  BY <1>1, <1>4 DEF SerialInv, NoOrphanChild, BeingKilled, Running
<1>9. RowInv'
  BY <1>0, <1>1, <1>4 DEF SerialInv, RowInv, Active, TypeOK
<1>10. DoomInv'
  BY <1>1, <1>4 DEF SerialInv, DoomInv
<1>. QED
  BY <1>5, <1>6, <1>7, <1>8, <1>9, <1>10 DEF SerialInv

\* A stop begins.
LEMMA StopAgentKeeps ==
    ASSUME DuplexInv, stop_agent
    PROVE  DuplexInv'
<1>0. /\ BaseInv /\ TypeOK /\ act \in [Actors -> ActRecs] /\ None \notin Launches
      /\ Main \notin Launches /\ Main \in Actors /\ Launches \subseteq Actors
  BY ActType, MainApart DEF DuplexInv, BaseInv
<1>1. /\ act[Main].pc = "idle"
      /\ \/ ledger /\ Moved(Main, "kill", act[Main].victim, act[Main].handle, "unledger")
         \/ ~ledger /\ Moved(Main, "unledger", act[Main].victim, act[Main].handle, act[Main].next)
      /\ raced' = (raced \/ \E x \in Actors : Busy(x))
      /\ doomed' = {g \in Launches : ledger /\ act[g].pc = "done" /\ Running(g)}
      /\ UNCHANGED <<row, ledger, slot, child, reader>>
  BY <1>0, GotoMoves, KillMoves DEF stop_agent, StopProcessOnly, NoteRace, Busy, Pcs
<1>2. BaseInv'
  <2>1. TypeOK'
    BY <1>0, <1>1, ActType, ActTypeAfter DEF Moved
  <2>2. \A y \in Actors : KillInv(y)'
    BY <1>0, <1>1 DEF BaseInv, KillInv, Killing, Moved
  <2>3. \A h \in Launches : StartedInv(h)'
    BY <1>0, <1>1 DEF BaseInv, StartedInv, Killing, Moved
  <2>. QED
    BY <2>1, <2>2, <2>3 DEF BaseInv
<1>3. SUFFICES ASSUME ~raced' PROVE SerialInv'
  BY <1>2 DEF DuplexInv
<1>4. SerialInv /\ ~raced
  BY <1>1, <1>3 DEF DuplexInv
<1>5. OneBusy'
  BY <1>1, <1>3, <1>4 DEF SerialInv, OneBusy, Busy, Ended, Moved
<1>6. SlotInv'
  BY <1>0, <1>1, <1>4 DEF SerialInv, SlotInv, Moved
<1>7. \A h \in Launches : ReaderInv(h)' /\ SpawnedInv(h)'
  BY <1>0, <1>1, <1>4 DEF SerialInv, ReaderInv, SpawnedInv, Moved
<1>8. NoOrphanChild'
  BY <1>1, <1>4 DEF SerialInv, NoOrphanChild, BeingKilled, Running, Moved
<1>9. RowInv'
  BY <1>1, <1>4 DEF SerialInv, RowInv
<1>10. DoomInv'
  BY <1>1, <1>4 DEF SerialInv, DoomInv, Running, Moved
<1>. QED
  BY <1>5, <1>6, <1>7, <1>8, <1>9, <1>10 DEF SerialInv

\* A send finds no session.
LEMMA SendFailsKeeps ==
    ASSUME DuplexInv, SendFindsNoSession
    PROVE  DuplexInv'
<1>0. /\ BaseInv /\ TypeOK /\ act \in [Actors -> ActRecs] /\ None \notin Launches
      /\ Main \notin Launches /\ Main \in Actors /\ Launches \subseteq Actors
  BY ActType, MainApart DEF DuplexInv, BaseInv
<1>1. /\ act[Main].pc = "idle"
      /\ Moved(Main, "heal", act[Main].victim, act[Main].handle, act[Main].next)
      /\ UNCHANGED <<row, ledger, slot, child, reader, doomed, raced>>
  BY <1>0, GotoMoves DEF SendFindsNoSession, Pcs
<1>2. BaseInv'
  <2>1. TypeOK'
    BY <1>0, <1>1, ActType, ActTypeAfter DEF Moved
  <2>2. \A y \in Actors : KillInv(y)'
    BY <1>0, <1>1 DEF BaseInv, KillInv, Killing, Moved
  <2>3. \A h \in Launches : StartedInv(h)'
    BY <1>0, <1>1 DEF BaseInv, StartedInv, Killing, Moved
  <2>. QED
    BY <2>1, <2>2, <2>3 DEF BaseInv
<1>3. SUFFICES ASSUME ~raced' PROVE SerialInv'
  BY <1>2 DEF DuplexInv
<1>4. SerialInv /\ ~raced
  BY <1>1, <1>3 DEF DuplexInv
<1>5. OneBusy'
  BY <1>1, <1>4 DEF SerialInv, OneBusy, Busy, Ended, Moved
<1>6. SlotInv'
  BY <1>0, <1>1, <1>4 DEF SerialInv, SlotInv, Moved
<1>7. \A h \in Launches : ReaderInv(h)' /\ SpawnedInv(h)'
  BY <1>0, <1>1, <1>4 DEF SerialInv, OneBusy, Busy, Ended, ReaderInv, SpawnedInv, Moved
<1>8. NoOrphanChild'
  BY <1>1, <1>4 DEF SerialInv, NoOrphanChild, BeingKilled, Running, Moved
<1>9. RowInv'
  BY <1>1, <1>4 DEF SerialInv, RowInv
<1>10. DoomInv'
  BY <1>1, <1>4 DEF SerialInv, DoomInv, Moved
<1>. QED
  BY <1>5, <1>6, <1>7, <1>8, <1>9, <1>10 DEF SerialInv

\* A stop or a heal closes the row and ends.
LEMMA MainIdlesKeeps ==
    ASSUME DuplexInv, CloseStopped \/ SelfHeal
    PROVE  DuplexInv'
<1>0. /\ BaseInv /\ TypeOK /\ act \in [Actors -> ActRecs] /\ None \notin Launches
      /\ Main \notin Launches /\ Main \in Actors /\ Launches \subseteq Actors
  BY ActType, MainApart DEF DuplexInv, BaseInv
<1>1. /\ act[Main].pc \in {"stopped", "heal"}
      /\ Moved(Main, "idle", None, None, "none")
      /\ row' = IF row = "absent" THEN row ELSE "closed"
      /\ UNCHANGED <<ledger, slot, child, reader, doomed, raced>>
  BY <1>0, IdleMoves DEF CloseStopped, SelfHeal, SetRow
<1>2. BaseInv'
  <2>1. TypeOK'
    BY <1>0, <1>1, ActType, ActTypeAfter DEF Moved
  <2>2. \A y \in Actors : KillInv(y)'
    BY <1>0, <1>1 DEF BaseInv, KillInv, Killing, Moved
  <2>3. \A h \in Launches : StartedInv(h)'
    BY <1>0, <1>1 DEF BaseInv, StartedInv, Killing, Moved
  <2>. QED
    BY <2>1, <2>2, <2>3 DEF BaseInv
<1>3. SUFFICES ASSUME ~raced' PROVE SerialInv'
  BY <1>2 DEF DuplexInv
<1>4. SerialInv /\ ~raced
  BY <1>1, <1>3 DEF DuplexInv
<1>5. OneBusy'
  BY <1>1, <1>4 DEF SerialInv, OneBusy, Busy, Ended, Moved
<1>6. SlotInv'
  BY <1>0, <1>1, <1>4 DEF SerialInv, SlotInv, Moved
<1>7. \A h \in Launches : ReaderInv(h)' /\ SpawnedInv(h)'
  BY <1>0, <1>1, <1>4 DEF SerialInv, ReaderInv, SpawnedInv, Moved
<1>8. NoOrphanChild'
  BY <1>1, <1>4 DEF SerialInv, NoOrphanChild, BeingKilled, Running, Moved
<1>9. RowInv'
  BY <1>1, <1>4 DEF SerialInv, RowInv
<1>10. DoomInv'
  BY <1>1, <1>4 DEF SerialInv, DoomInv, Moved
<1>. QED
  BY <1>5, <1>6, <1>7, <1>8, <1>9, <1>10 DEF SerialInv

\* The live-state refresh drops the ledger entry or closes the row.
LEMMA RefreshKeeps ==
    ASSUME DuplexInv, PruneLedger \/ ReapStale
    PROVE  DuplexInv'
<1>0. /\ BaseInv /\ TypeOK /\ act \in [Actors -> ActRecs] /\ None \notin Launches
      /\ Main \notin Launches /\ Main \in Actors /\ Launches \subseteq Actors
  BY ActType, MainApart DEF DuplexInv, BaseInv
<1>1. /\ ledger' \in BOOLEAN
      /\ row' \in {row, "closed"}
      /\ UNCHANGED <<slot, child, reader, act, doomed, raced>>
  BY <1>0, ActType DEF PruneLedger, ReapStale
<1>2. BaseInv'
  <2>1. TypeOK'
    BY <1>0, <1>1, ActType, ActTypeAfter
  <2>2. \A y \in Actors : KillInv(y)'
    BY <1>0, <1>1 DEF BaseInv, KillInv, Killing
  <2>3. \A h \in Launches : StartedInv(h)'
    BY <1>0, <1>1 DEF BaseInv, StartedInv, Killing
  <2>. QED
    BY <2>1, <2>2, <2>3 DEF BaseInv
<1>3. SUFFICES ASSUME ~raced' PROVE SerialInv'
  BY <1>2 DEF DuplexInv
<1>4. SerialInv /\ ~raced
  BY <1>1, <1>3 DEF DuplexInv
<1>5. OneBusy'
  BY <1>1, <1>4 DEF SerialInv, OneBusy, Busy, Ended
<1>6. SlotInv'
  BY <1>1, <1>4 DEF SerialInv, SlotInv
<1>7. \A h \in Launches : ReaderInv(h)' /\ SpawnedInv(h)'
  BY <1>1, <1>4 DEF SerialInv, ReaderInv, SpawnedInv
<1>8. NoOrphanChild'
  BY <1>1, <1>4 DEF SerialInv, NoOrphanChild, BeingKilled, Running
<1>9. RowInv'
  BY <1>1, <1>4 DEF SerialInv, RowInv
<1>10. DoomInv'
  BY <1>1, <1>4 DEF SerialInv, DoomInv
<1>. QED
  BY <1>5, <1>6, <1>7, <1>8, <1>9, <1>10 DEF SerialInv

-----------------------------------------------------------------------------
(***************************************************************************)
(* The invariant and what follows from it.                                 *)
(***************************************************************************)

\* Nothing is in the map, nobody runs and nothing is closed at the start.
LEMMA DuplexInitInv == Init => DuplexInv
<1>. SUFFICES ASSUME Init PROVE DuplexInv
  OBVIOUS
<1>1. TypeOK
  BY ActType DEF Init, Empty, IdleAct, ActRecs, Pcs
<1>2. \A x \in Actors : act[x].pc = "idle"
  BY DEF Init, IdleAct
<1>3. BaseInv
  BY <1>1, <1>2 DEF Init, BaseInv, KillInv, StartedInv, Killing
<1>4. OneBusy /\ SlotInv /\ RowInv
  BY <1>2 DEF Init, OneBusy, Busy, Ended, SlotInv, RowInv
<1>5. \A g \in Launches : ReaderInv(g) /\ SpawnedInv(g)
  BY <1>2, MainApart DEF Init, ReaderInv, SpawnedInv, Active
<1>6. NoOrphanChild /\ DoomInv
  BY <1>2, MainApart DEF Init, NoOrphanChild, Running, DoomInv
<1>. QED
  BY <1>3, <1>4, <1>5, <1>6 DEF DuplexInv, SerialInv

\* A step of a kill, whoever kills.
LEMMA KillStepKeeps ==
    ASSUME DuplexInv, NEW x \in Actors, KillStep(x)
    PROVE  DuplexInv'
BY TakeNothingKeeps, TakeFoundKeeps, ReapChildKeeps, JoinReaderKeeps, CloseKilledKeeps, Zenon
   DEF KillStep

\* A step of a launch.
LEMMA LaunchStepKeeps ==
    ASSUME DuplexInv, NEW g \in Launches, LaunchStep(g)
    PROVE  DuplexInv'
<1>0. g \in Actors
  BY MainApart
<1>1. CASE SpawnChild(g)
  <2>1. Goto(g, "reader") \/ Goto(g, "failed")
    BY <1>1 DEF SpawnChild
  <2>. QED
    BY <1>1, <2>1, SpawnKeeps, SpawnFailsKeeps
<1>2. CASE AttachReader(g)
  BY <1>2, AttachKeeps, AttachNothingKeeps
<1>3. CASE StartReader(g)
  <2>1. Goto(g, "attach") \/ Goto(g, "drop")
    BY <1>3 DEF StartReader
  <2>. QED
    BY <1>3, <2>1, StartReaderKeeps, ReaderFailsKeeps
<1>. QED
  BY <1>0, <1>1, <1>2, <1>3, FenceKeeps, RemoveLedgerKeeps, CleanRelaunchKeeps,
     DropSessionKeeps, JoinOwnKeeps, RecordLaunchKeeps, KillStepKeeps, Zenon DEF LaunchStep

\* Every step keeps the invariant.
LEMMA DuplexStepInv == DuplexInv /\ [Next]_vars => DuplexInv'
<1>. SUFFICES ASSUME DuplexInv, [Next]_vars PROVE DuplexInv'
  OBVIOUS
<1>1. CASE UNCHANGED vars
  BY <1>1 DEF vars, DuplexInv, BaseInv, TypeOK, KillInv, StartedInv, SerialInv, OneBusy, Busy,
     SlotInv, ReaderInv, SpawnedInv, NoOrphanChild, BeingKilled, Running, RowInv, DoomInv
<1>2. ASSUME NEW g \in Launches,
             \/ BeginLaunch(g) \/ LaunchStep(g)
             \/ ChildExits(g) \/ ChildCloses(g) \/ ReaderStep(g)
      PROVE  DuplexInv'
  BY <1>2, BeginLaunchKeeps, LaunchStepKeeps, ChildExitsKeeps, ChildClosesKeeps,
     ReaderEofKeeps, ReaderReapsKeeps, ReaderRemovesKeeps, ReaderClosesKeeps, Zenon DEF ReaderStep
<1>3. CASE stop_agent \/ SendFindsNoSession \/ PruneLedger \/ ReapStale
  BY <1>3, StopAgentKeeps, SendFailsKeeps, RefreshKeeps, Zenon
<1>4. CASE MainStep
  BY <1>4, MainApart, RemoveLedgerKeeps, KillStepKeeps, MainIdlesKeeps, Zenon DEF MainStep
<1>. QED
  BY <1>1, <1>2, <1>3, <1>4 DEF Next

\* The invariant holds in every behaviour of the life cycle, fair or not.
THEOREM DuplexInvariant == Spec => []DuplexInv
BY DuplexInitInv, DuplexStepInv, PTL DEF Spec

\* As long as launches and stops do not meet, every running child is the one in the map
\* or is being killed, for any number of relaunches: kill_cloud_duplex before the spawn
\* and the removal by a late reader lose none.
THEOREM DuplexNoOrphan == Spec => []SerialNoOrphan
<1>1. DuplexInv => SerialNoOrphan
  BY DEF DuplexInv, SerialInv, SerialNoOrphan
<1>. QED
  BY <1>1, DuplexInvariant, PTL

\* As long as launches and stops do not meet, a row that says active has a reader that
\* will still close it.
THEOREM DuplexNoGhostRow == Spec => []SerialNoGhostRow
<1>1. DuplexInv => SerialNoGhostRow
  BY DEF DuplexInv, SerialInv, RowInv, Active, SerialNoGhostRow
<1>. QED
  BY <1>1, DuplexInvariant, PTL

\* As long as launches and stops do not meet, no launch joins, with the session map's mutex
\* held, a reader that has yet to take that mutex.
THEOREM DuplexNoMapDeadlock == Spec => [](raced \/ ~MapDeadlock)
<1>1. DuplexInv => raced \/ ~MapDeadlock
  BY DEF DuplexInv, SerialInv, SpawnedInv, MapDeadlock
<1>. QED
  BY <1>1, DuplexInvariant, PTL

\* A stop that met no launch ends with the children it found in the ledger dead.
THEOREM DuplexStopKills == Spec => SerialStopKills
<1>1. DuplexInv => (act[Main].pc = "stopped" => raced \/ \A g \in doomed : child[g] = "dead")
  BY DEF DuplexInv, SerialInv, DoomInv
<1>2. DuplexInv /\ [Next]_vars
        => [act[Main].pc = "stopped" /\ act'[Main].pc = "idle"
               => raced \/ \A g \in doomed : child[g] = "dead"]_act
  BY <1>1
<1>. QED
  BY <1>2, DuplexInvariant, PTL DEF Spec, SerialStopKills
=============================================================================
