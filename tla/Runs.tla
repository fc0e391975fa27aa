-------------------------------- MODULE Runs --------------------------------
(***************************************************************************)
(* The engine's map of runs across its critical sections: admission and    *)
(* StartRun, handlers with the snapshot each ends with, GetRun, crash and  *)
(* restart (internal/engine/engine.go, internal/snapshot/store.go).        *)
(*                                                                         *)
(* What a handler decides is module Engine's; here it appends events.  A   *)
(* state is what was applied to it.  It has three parts, in the order in   *)
(* which Save encodes them: the run's own fields (head), LastSeq, and the  *)
(* nodes with the timers.  StartRun saves outside the engine's lock, so a  *)
(* handler may move the state between one part and the next.               *)
(***************************************************************************)
EXTENDS Integers, FiniteSets, Sequences, SequencesExt

CONSTANTS
    Runs, Readers, \* runs to be started; concurrent GetRun calls
    MaxActive,     \* Config.MaxActiveRuns
    Absent,        \* no entry in the engine's map, or an error in its place
    NoSnapshot, Broken, \* a missing file; one that does not decode
    NoRun,         \* nobody holds the engine's lock
    MaxEvents,     \* bound: events of a run
    MaxCrashes,    \* bound: process crashes
    MaxFaults      \* bound: reads and writes that fail

(* The parts of a state are the events applied to them.                    *)
States == [head : Seq(Nat), seq : Nat, nodes : Seq(Nat)]

ASSUME RunsAssumption ==
    /\ IsFiniteSet(Runs) /\ NoRun \notin Runs
    /\ MaxActive \in Nat \ {0}
    /\ {MaxEvents, MaxCrashes, MaxFaults} \subseteq Nat
    /\ \A null \in {Absent, NoSnapshot, Broken} : null \notin States
    /\ NoSnapshot # Broken

VARIABLES
    log,      \* log[r]: the number of events in the run's log
    ended,    \* ended[r]: the event that ended the run, or 0
    memory,   \* memory[r]: the state in the engine's map, or Absent
    snapshot, \* snapshot[r]: the run's snapshot file
    lock,     \* the run whose handler holds the engine's lock, or NoRun
    starter,  \* starter[r]: the StartRun call that creates the run
    reader,   \* reader[i]: a GetRun call
    up, crashes, faults,
    spoiled   \* history: runs that crashed with a mixed snapshot on disk

vars == <<log, ended, memory, snapshot, lock, starter, reader, up, crashes, faults, spoiled>>

-----------------------------------------------------------------------------
(* States and their snapshots *)

Fold(n) == LET all == [i \in 1 .. n |-> i] IN [head |-> all, seq |-> n, nodes |-> all]

Apply(s, event) == [head |-> Append(s.head, event), seq |-> event, nodes |-> Append(s.nodes, event)]

Coherent(s) == s = Fold(s.seq)

(* The events after LastSeq are applied to what the snapshot has.          *)
Replay(s, n) ==
    LET delta == [i \in 1 .. n - s.seq |-> s.seq + i]
    IN  IF n <= s.seq THEN s
        ELSE [head |-> s.head \o delta, seq |-> n, nodes |-> s.nodes \o delta]

(* Mutation: the snapshot alone.                                           *)
SnapshotAlone(file, n) ==
    IF file = Broken THEN {Absent}
    ELSE IF file = NoSnapshot THEN {Fold(n)} ELSE {file}

(* What rehydrate may return for a snapshot and the first n events.  A     *)
(* snapshot that does not decode is an error; events that meet a state     *)
(* they do not fit may be one.                                             *)
Rehydrated(file, n) ==
    IF file = Broken THEN {Absent}
    ELSE IF file = NoSnapshot THEN {Fold(n)}
    ELSE {Replay(file, n)} \cup (IF Coherent(file) THEN {} ELSE {Absent})

Loaded(r) == memory[r] # Absent

Active == {r \in Runs : Loaded(r) /\ (ended[r] = 0 \/ ended[r] \notin Range(memory[r].head))}

(* Save holds the snapshot store's mutex from its first part on.           *)
StoreFree == \A r \in Runs : starter[r].pc \notin {"head", "seq"}

(* Workers and clients know of a run when it is in the map.                *)
Known(r) == log[r] > 0 /\ starter[r].pc \notin {"admitted", "logged"}

NotStarted == [pc |-> "idle", head |-> << >>, seq |-> 0]
NotReading == [pc |-> "idle", run |-> NoRun, events |-> 0, state |-> Absent]

Init ==
    /\ log = [r \in Runs |-> 0]
    /\ ended = [r \in Runs |-> 0]
    /\ memory = [r \in Runs |-> Absent]
    /\ snapshot = [r \in Runs |-> NoSnapshot]
    /\ lock = NoRun
    /\ starter = [r \in Runs |-> NotStarted]
    /\ reader = [i \in Readers |-> NotReading]
    /\ up = TRUE
    /\ crashes = 0 /\ faults = 0
    /\ spoiled = {}

-----------------------------------------------------------------------------
(* StartRun *)

Step(r, from, to) ==
    /\ up
    /\ starter[r].pc = from
    /\ starter' = [starter EXCEPT ![r].pc = to]

(* The limit is looked at under the read lock, which is then released.     *)
StartCheck(r) ==
    /\ Step(r, "idle", "admitted")
    /\ lock = NoRun
    /\ Cardinality(Active) < MaxActive
    /\ UNCHANGED <<log, ended, memory, snapshot, lock, reader, up, crashes, faults, spoiled>>

StartAppend(r) ==
    /\ Step(r, "admitted", "logged")
    /\ log' = [log EXCEPT ![r] = 1]
    /\ UNCHANGED <<ended, memory, snapshot, lock, reader, up, crashes, faults, spoiled>>

StartAppendFails(r) ==
    /\ Step(r, "admitted", "idle")
    /\ faults < MaxFaults
    /\ faults' = faults + 1
    /\ UNCHANGED <<log, ended, memory, snapshot, lock, reader, up, crashes, spoiled>>

StartPublish(r) ==
    /\ Step(r, "logged", "published")
    /\ lock = NoRun
    /\ memory' = [memory EXCEPT ![r] = Fold(1)]
    /\ UNCHANGED <<log, ended, snapshot, lock, reader, up, crashes, faults, spoiled>>

(* Save of the state that is by now in the map, part by part.  No GetRun   *)
(* replaces the entry meanwhile: none found it missing.                    *)
StartSaveHead(r) ==
    /\ up
    /\ starter[r].pc = "published"
    /\ StoreFree
    /\ starter' = [starter EXCEPT ![r] = [pc |-> "head", head |-> memory[r].head, seq |-> 0]]
    /\ UNCHANGED <<log, ended, memory, snapshot, lock, reader, up, crashes, faults, spoiled>>

StartSaveSeq(r) ==
    /\ up
    /\ starter[r].pc = "head"
    /\ starter' = [starter EXCEPT ![r] = [@ EXCEPT !.pc = "seq", !.seq = memory[r].seq]]
    /\ UNCHANGED <<log, ended, memory, snapshot, lock, reader, up, crashes, faults, spoiled>>

Returned == [NotStarted EXCEPT !.pc = "returned"]

(* Mutation: the engine's lock is asked for inside the store's mutex.      *)
StartSaveWriteLocked(r) ==
    /\ up
    /\ starter[r].pc = "seq"
    /\ lock = NoRun
    /\ snapshot' = [snapshot EXCEPT ![r] =
            [head |-> starter[r].head, seq |-> starter[r].seq, nodes |-> memory[r].nodes]]
    /\ starter' = [starter EXCEPT ![r] = Returned]
    /\ UNCHANGED <<log, ended, memory, lock, reader, up, crashes, faults, spoiled>>

StartSaveWrite(r) ==
    /\ up
    /\ starter[r].pc = "seq"
    /\ snapshot' = [snapshot EXCEPT ![r] =
            [head |-> starter[r].head, seq |-> starter[r].seq, nodes |-> memory[r].nodes]]
    /\ starter' = [starter EXCEPT ![r] = Returned]
    /\ UNCHANGED <<log, ended, memory, lock, reader, up, crashes, faults, spoiled>>

(* StartRun ignores the error.                                             *)
StartSaveFails(r) ==
    /\ up
    /\ starter[r].pc = "seq"
    /\ faults < MaxFaults
    /\ faults' = faults + 1
    /\ \E file \in {snapshot[r], Broken} : snapshot' = [snapshot EXCEPT ![r] = file]
    /\ starter' = [starter EXCEPT ![r] = Returned]
    /\ UNCHANGED <<log, ended, memory, lock, reader, up, crashes, spoiled>>

StartRun(r) ==
    \/ StartCheck(r) \/ StartAppend(r) \/ StartAppendFails(r) \/ StartPublish(r)
    \/ StartSaveHead(r) \/ StartSaveSeq(r) \/ StartSaveWrite(r) \/ StartSaveFails(r)

-----------------------------------------------------------------------------
(* Handlers and monitors, under the engine's lock *)

(* loadStateLocked: a handler finds the run missing and rehydrates it.     *)
LoadRun(r) ==
    /\ up
    /\ lock = NoRun
    /\ ~Loaded(r) /\ Known(r)
    /\ \E s \in Rehydrated(snapshot[r], log[r]) : memory' = [memory EXCEPT ![r] = s]
    /\ UNCHANGED <<log, ended, snapshot, lock, starter, reader, up, crashes, faults, spoiled>>

(* Mutation: an append that fails is not noticed.                          *)
HandlerAppendUnlogged(r) ==
    /\ up
    /\ lock \in {NoRun, r}
    /\ Loaded(r)
    /\ log[r] < MaxEvents
    /\ lock' = r
    /\ memory' = [memory EXCEPT ![r] = Apply(@, log[r] + 1)]
    /\ UNCHANGED <<log, ended, snapshot, starter, reader, up, crashes, faults, spoiled>>

(* The log numbers the event, the handler applies it to the state it has.  *)
HandlerAppend(r) ==
    /\ up
    /\ lock \in {NoRun, r}
    /\ Loaded(r)
    /\ log[r] < MaxEvents
    /\ lock' = r
    /\ log' = [log EXCEPT ![r] = @ + 1]
    /\ memory' = [memory EXCEPT ![r] = Apply(@, log[r] + 1)]
    /\ \E ends \in BOOLEAN :
        ended' = IF ends /\ ended[r] = 0 THEN [ended EXCEPT ![r] = log[r] + 1] ELSE ended
    /\ UNCHANGED <<snapshot, starter, reader, up, crashes, faults, spoiled>>

(* Mutation: handlers save without the store's mutex.                      *)
HandlerSaveUnguarded(r) ==
    /\ up
    /\ lock = r
    /\ snapshot' = [snapshot EXCEPT ![r] = memory[r]]
    /\ lock' = NoRun
    /\ UNCHANGED <<log, ended, memory, starter, reader, up, crashes, faults, spoiled>>

HandlerSave(r) ==
    /\ up
    /\ lock = r
    /\ StoreFree
    /\ snapshot' = [snapshot EXCEPT ![r] = memory[r]]
    /\ lock' = NoRun
    /\ UNCHANGED <<log, ended, memory, starter, reader, up, crashes, faults, spoiled>>

(* An append fails, and the handler leaves without saving; or the save     *)
(* fails, before or after the file was truncated.                          *)
HandlerFails(r) ==
    /\ up
    /\ lock = r
    /\ faults < MaxFaults
    /\ faults' = faults + 1
    /\ lock' = NoRun
    /\ \/ UNCHANGED snapshot
       \/ StoreFree /\ snapshot' = [snapshot EXCEPT ![r] = Broken]
    /\ UNCHANGED <<log, ended, memory, starter, reader, up, crashes, spoiled>>

-----------------------------------------------------------------------------
(* GetRun: look up, list, rehydrate, put into the map; each in a critical  *)
(* section of its own.                                                     *)

ReadLookup(i, r) ==
    /\ up
    /\ reader[i].pc = "idle"
    /\ lock = NoRun
    /\ ~Loaded(r) /\ Known(r)
    /\ reader' = [reader EXCEPT ![i] = [@ EXCEPT !.pc = "absent", !.run = r]]
    /\ UNCHANGED <<log, ended, memory, snapshot, lock, starter, up, crashes, faults, spoiled>>

ReadList(i) ==
    /\ up
    /\ reader[i].pc = "absent"
    /\ reader' = [reader EXCEPT ![i] = [@ EXCEPT !.pc = "listed", !.events = log[reader[i].run]]]
    /\ UNCHANGED <<log, ended, memory, snapshot, lock, starter, up, crashes, faults, spoiled>>

ReadSnapshot(i) ==
    /\ up
    /\ reader[i].pc = "listed"
    /\ StoreFree
    /\ \E s \in Rehydrated(snapshot[reader[i].run], reader[i].events) :
        reader' = [reader EXCEPT ![i] =
                     IF s = Absent THEN NotReading
                                   ELSE [@ EXCEPT !.pc = "rehydrated", !.state = s]]
    /\ UNCHANGED <<log, ended, memory, snapshot, lock, starter, up, crashes, faults, spoiled>>

ReadPublish(i) ==
    /\ up
    /\ reader[i].pc = "rehydrated"
    /\ lock = NoRun
    /\ memory' = [memory EXCEPT ![reader[i].run] = reader[i].state]
    /\ reader' = [reader EXCEPT ![i] = NotReading]
    /\ UNCHANGED <<log, ended, snapshot, lock, starter, up, crashes, faults, spoiled>>

GetRun(i) ==
    \/ \E r \in Runs : ReadLookup(i, r)
    \/ ReadList(i) \/ ReadSnapshot(i) \/ ReadPublish(i)

-----------------------------------------------------------------------------
(* Crash and loadPersistedRuns *)

(* The run whose file is being written.                                    *)
Saving == {r \in Runs : (lock = r /\ StoreFree) \/ starter[r].pc = "seq"}

Mixed == {r \in Runs : snapshot[r] \notin {NoSnapshot, Broken} /\ ~Coherent(snapshot[r])}

Crash ==
    /\ up
    /\ crashes < MaxCrashes
    /\ crashes' = crashes + 1
    /\ up' = FALSE
    /\ memory' = [r \in Runs |-> Absent]
    /\ \/ UNCHANGED snapshot
       \/ \E r \in Saving : snapshot' = [snapshot EXCEPT ![r] = Broken]
    /\ spoiled' = spoiled \cup Mixed
    /\ lock' = NoRun
    /\ starter' = [r \in Runs |-> IF log[r] > 0 THEN Returned ELSE NotStarted]
    /\ reader' = [i \in Readers |-> NotReading]
    /\ UNCHANGED <<log, ended, faults>>

(* Every run with a log is rehydrated, and reconciled with an event that   *)
(* no snapshot follows.  A run whose files cannot be read is skipped.      *)
Restart ==
    /\ ~up
    /\ up' = TRUE
    /\ \E unread \in SUBSET Runs, reconciled \in SUBSET {r \in Runs : log[r] \in 1 .. MaxEvents - 1} :
        /\ faults + Cardinality(unread) <= MaxFaults
        /\ faults' = faults + Cardinality(unread)
        /\ \E state \in [Runs -> {Absent} \cup
                                 UNION {Rehydrated(snapshot[r], log[r]) : r \in Runs}] :
            /\ \A r \in Runs :
                 IF log[r] = 0 \/ r \in unread THEN state[r] = Absent
                                               ELSE state[r] \in Rehydrated(snapshot[r], log[r])
            /\ \A r \in reconciled : state[r] # Absent /\ ended[r] = 0
            /\ memory' = [r \in Runs |-> IF r \in reconciled THEN Apply(state[r], log[r] + 1)
                                                             ELSE state[r]]
        /\ log' = [r \in Runs |-> IF r \in reconciled THEN log[r] + 1 ELSE log[r]]
        /\ ended' = [r \in Runs |-> IF r \in reconciled THEN log[r] + 1 ELSE ended[r]]
    /\ UNCHANGED <<snapshot, lock, starter, reader, crashes, spoiled>>

-----------------------------------------------------------------------------
Next ==
    \/ \E r \in Runs :
        StartRun(r) \/ LoadRun(r) \/ HandlerAppend(r) \/ HandlerSave(r) \/ HandlerFails(r)
    \/ \E i \in Readers : GetRun(i)
    \/ Crash
    \/ Restart

Spec == Init /\ [][Next]_vars

StartRunGoesOn(r) ==
    \/ StartAppend(r) \/ StartPublish(r)
    \/ StartSaveHead(r) \/ StartSaveSeq(r) \/ StartSaveWrite(r)

(* StartRun calls and handlers in progress are scheduled.  Weak fairness   *)
(* is enough where events are bounded; beyond, it is Go's mutex, which     *)
(* hands over to a waiter, that lets StartRun have the locks.              *)
FairSpec ==
    /\ Spec
    /\ \A r \in Runs : WF_vars(StartRunGoesOn(r)) /\ WF_vars(HandlerSave(r))

-----------------------------------------------------------------------------
(* Properties *)

(* A state in memory or in a snapshot never knows an event the log has not *)
(* (store.go: snapshots "never replace the WAL as the durable source of    *)
(* truth"), whatever fails and whoever replaced it.                        *)
LogComesFirst ==
    \A r \in Runs :
        \A s \in {memory[r], snapshot[r]} \ {Absent, NoSnapshot, Broken} :
            Range(s.head) \cup Range(s.nodes) \cup {s.seq} \subseteq 1 .. log[r]

(* Handlers decide on the replay of the whole log, each event once, and so *)
(* does a run that was rehydrated from a snapshot: while reads and writes  *)
(* succeed, only a crash that left a mixed snapshot can make it otherwise  *)
(* (rehydrate, loadPersistedRuns, loadStateLocked, GetRun).                *)
MemoryIsReplay ==
    faults = 0 => \A r \in Runs \ spoiled : Loaded(r) => memory[r] = Fold(log[r])

(* A snapshot StartRun mixes with a handler's changes does not last: the   *)
(* handler that raced with it has still to save (StartRun's Save outside   *)
(* the lock, the store's mutex).                                           *)
MixedSnapshotsHeal ==
    faults = 0 /\ up => \A r \in Mixed \ spoiled : lock = r

(* The two locks do not wait for each other: a StartRun call returns,      *)
(* whatever handlers do, unless the process stops.                         *)
StartRunReturns ==
    \A r \in Runs : (starter[r].pc = "admitted") ~> (starter[r].pc \in {"returned", "idle"} \/ ~up)

=============================================================================
