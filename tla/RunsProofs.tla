----------------------------- MODULE RunsProofs -----------------------------
(***************************************************************************)
(* Theorems about Runs, for every set of runs and GetRun calls, every      *)
(* limit and bound.                                                        *)
(***************************************************************************)
EXTENDS Runs, FiniteSetTheorems, SequenceTheorems, TLAPS

(* A state knows none but the first n events.                              *)
KnowsOnly(s, n) == Range(s.head) \cup Range(s.nodes) \cup {s.seq} \subseteq 1 .. n

Typed ==
    /\ log \in [Runs -> Nat]
    /\ memory \in [Runs -> States \cup {Absent}]
    /\ snapshot \in [Runs -> States \cup {NoSnapshot, Broken}]
    /\ lock \in Runs \cup {NoRun}
    /\ starter \in [Runs -> [pc   : {"idle", "admitted", "logged", "published", "head", "seq",
                                     "returned"},
                             head : Seq(Nat),
                             seq  : Nat]]
    /\ reader \in [Readers -> [pc     : {"idle", "absent", "listed", "rehydrated"},
                               run    : Runs \cup {NoRun},
                               events : Nat,
                               state  : States \cup {Absent}]]
    /\ up \in BOOLEAN
    /\ faults \in Nat

(* What is kept of a run, in memory, on disk and in a save in progress,    *)
(* knows only events of its log, which exists once StartRun wrote to it.   *)
RunWithin(r) ==
    /\ log[r] = 0 <=> starter[r].pc \in {"idle", "admitted"}
    /\ Loaded(r) => KnowsOnly(memory[r], log[r])
    /\ snapshot[r] \in States => KnowsOnly(snapshot[r], log[r])
    /\ lock = r \/ starter[r].pc \in {"published", "head", "seq"} => Loaded(r)
    /\ lock = r \/ starter[r].pc \notin {"idle", "returned"} => up
    /\ starter[r].pc \in {"head", "seq"} => Range(starter[r].head) \subseteq 1 .. log[r]
    /\ starter[r].pc = "seq" => starter[r].seq \in 1 .. log[r]

(* So does what a GetRun call carries from one critical section to the     *)
(* next.                                                                   *)
ReaderWithin(i) ==
    reader[i].pc # "idle" =>
        /\ up
        /\ reader[i].run \in Runs
        /\ log[reader[i].run] > 0
        /\ reader[i].pc # "absent" => reader[i].events \in 1 .. log[reader[i].run]
        /\ reader[i].pc = "rehydrated" => /\ reader[i].state \in States
                                          /\ KnowsOnly(reader[i].state, log[reader[i].run])

WithinLog == Typed /\ (\A r \in Runs : RunWithin(r)) /\ (\A i \in Readers : ReaderWithin(i))

(* While reads and writes succeed, a run that did not crash with a mixed   *)
(* snapshot on disk is whole: in memory it is its replay, and its snapshot *)
(* is one of a moment unless a handler that has still to save raced with   *)
(* StartRun's.  A run known but missing is one whose snapshot was cut by a *)
(* crash, so a GetRun call that found it missing gets no further.          *)
Whole(r) ==
    /\ Loaded(r) => memory[r] = Fold(log[r])
    /\ snapshot[r] \in {NoSnapshot, Broken} \/ Coherent(snapshot[r]) \/ lock = r
    /\ starter[r].pc \in {"head", "seq"} /\ lock # r => starter[r].head = memory[r].head
    /\ starter[r].pc = "seq" /\ lock # r => starter[r].seq = memory[r].seq
    /\ starter[r].pc = "logged" => log[r] = 1
    /\ IF starter[r].pc \in {"idle", "admitted", "logged"}
         THEN ~Loaded(r) /\ snapshot[r] = NoSnapshot
         ELSE up /\ ~Loaded(r) => snapshot[r] = Broken

(* Nobody has got anything of a run it could publish.                      *)
Unread(r) ==
    \A i \in Readers :
        reader[i].pc # "idle" /\ reader[i].run = r =>
            reader[i].pc # "rehydrated" /\ ~Loaded(r) /\ snapshot[r] = Broken

WholeRuns == faults = 0 => \A r \in Runs \ spoiled : Whole(r) /\ Unread(r)

-----------------------------------------------------------------------------
(* What replaying, applying and folding make of events.                    *)
LEMMA StatesOfEvents ==
  ASSUME NEW n \in Nat
  PROVE  /\ n > 0 => Fold(n) \in States /\ KnowsOnly(Fold(n), n)
         /\ Fold(n).seq = n
         /\ Apply(Fold(n), n + 1) = Fold(n + 1)
         /\ \A k \in 1 .. n : Replay(Fold(k), n) = Fold(n)
         /\ \A s \in States :
              /\ \A m \in Nat : KnowsOnly(s, m) /\ m <= n => KnowsOnly(s, n)
              /\ KnowsOnly(s, n) =>
                   /\ Apply(s, n + 1) \in States /\ KnowsOnly(Apply(s, n + 1), n + 1)
                   /\ \A m \in 0 .. n : Replay(s, m) \in States /\ KnowsOnly(Replay(s, m), n)
<1>1. \A q \in Seq(Nat), m \in Nat :
        /\ Len(q) \in Nat
        /\ Range(q) \subseteq 1 .. m <=> \A i \in 1 .. Len(q) : q[i] \in 1 .. m
  BY LenProperties DEF Range
<1>2. ASSUME NEW m \in Nat
      PROVE  LET all == [i \in 1 .. m |-> i]
             IN  all \in Seq(Nat) /\ Len(all) = m /\ Range(all) = 1 .. m /\ DOMAIN all = 1 .. m
  <2> DEFINE all == [i \in 1 .. m |-> i]
  <2>1. all \in [1 .. m -> Nat]
    OBVIOUS
  <2>2. all \in Seq(Nat) /\ Len(all) = m
    BY <2>1, SeqDef, LenProperties
  <2> QED BY <2>2 DEF Range
<1>3. Fold(n) = [head |-> [i \in 1 .. n |-> i], seq |-> n, nodes |-> [i \in 1 .. n |-> i]]
  BY DEF Fold
<1>4. n > 0 => Fold(n) \in States /\ KnowsOnly(Fold(n), n)
  BY <1>2, <1>3 DEF States, KnowsOnly
<1>5. [i \in 1 .. n + 1 |-> i] = Append([i \in 1 .. n |-> i], n + 1)
  <2> DEFINE all == [i \in 1 .. n |-> i]
             more == [i \in 1 .. n + 1 |-> i]
  <2>1. all \in Seq(Nat) /\ Len(all) = n /\ more \in Seq(Nat) /\ Len(more) = n + 1
    BY <1>2
  <2>2. /\ Append(all, n + 1) \in Seq(Nat) /\ Len(Append(all, n + 1)) = n + 1
        /\ \A i \in 1 .. n : Append(all, n + 1)[i] = all[i]
        /\ Append(all, n + 1)[n + 1] = n + 1
    <3> HIDE DEF all
    <3> QED BY <2>1, AppendProperties
  <2>3. \A i \in 1 .. Len(more) : more[i] = Append(all, n + 1)[i]
    BY <2>1, <2>2
  <2> HIDE DEF all, more
  <2>4. more = Append(all, n + 1)
    BY <2>1, <2>2, <2>3, SeqEqual
  <2> QED BY <2>4 DEF all, more
<1>6. Apply(Fold(n), n + 1) = Fold(n + 1)
  BY <1>5 DEF Apply, Fold
<1>7. ASSUME NEW k \in 1 .. n PROVE Replay(Fold(k), n) = Fold(n)
  <2> DEFINE first == [i \in 1 .. k |-> i]
             delta == [i \in 1 .. n - k |-> k + i]
             all   == [i \in 1 .. n |-> i]
  <2>1. first \in Seq(Nat) /\ Len(first) = k /\ all \in Seq(Nat) /\ Len(all) = n
    BY <1>2
  <2>2. delta \in Seq(Nat) /\ Len(delta) = n - k
    <3>1. delta \in [1 .. n - k -> Nat] /\ n - k \in Nat
      OBVIOUS
    <3> QED BY <3>1, SeqDef, LenProperties
  <2>3. /\ first \o delta \in Seq(Nat) /\ Len(first \o delta) = n
        /\ \A i \in 1 .. n : (first \o delta)[i] = IF i <= k THEN first[i] ELSE delta[i - k]
    <3> HIDE DEF first, delta
    <3> QED BY <2>1, <2>2, ConcatProperties
  <2>4. \A i \in 1 .. n : (first \o delta)[i] = all[i]
    <3>1. \A i \in 1 .. n : i <= k => first[i] = i
      OBVIOUS
    <3>2. \A i \in 1 .. n : ~(i <= k) => delta[i - k] = i
      OBVIOUS
    <3>3. \A i \in 1 .. n : all[i] = i
      OBVIOUS
    <3> HIDE DEF first, delta, all
    <3> QED BY <2>3, <3>1, <3>2, <3>3
  <2>5. first \o delta = all
    <3> HIDE DEF first, delta, all
    <3> QED BY <2>1, <2>3, <2>4, SeqEqual
  <2>6. n <= k => k = n
    OBVIOUS
  <2> QED BY <2>5, <2>6 DEF Replay, Fold
<1>8. ASSUME NEW s \in States
      PROVE  /\ \A m \in Nat : KnowsOnly(s, m) /\ m <= n => KnowsOnly(s, n)
             /\ KnowsOnly(s, n) =>
                   /\ Apply(s, n + 1) \in States /\ KnowsOnly(Apply(s, n + 1), n + 1)
                   /\ \A m \in 0 .. n : Replay(s, m) \in States /\ KnowsOnly(Replay(s, m), n)
  <2>1. s.head \in Seq(Nat) /\ s.nodes \in Seq(Nat) /\ s.seq \in Nat
    BY DEF States
  <2>2. \A m \in Nat : KnowsOnly(s, m) /\ m <= n => KnowsOnly(s, n)
    BY DEF KnowsOnly
  <2>3. ASSUME NEW q \in Seq(Nat), Range(q) \subseteq 1 .. n
        PROVE  Append(q, n + 1) \in Seq(Nat) /\ Range(Append(q, n + 1)) \subseteq 1 .. n + 1
    <3>1. /\ Append(q, n + 1) \in Seq(Nat) /\ Len(Append(q, n + 1)) = Len(q) + 1
          /\ \A i \in 1 .. Len(q) : Append(q, n + 1)[i] = q[i]
          /\ Append(q, n + 1)[Len(q) + 1] = n + 1
      BY AppendProperties
    <3>2. \A i \in 1 .. Len(q) : q[i] \in 1 .. n
      BY <1>1, <2>3
    <3>3. \A i \in 1 .. Len(q) + 1 : Append(q, n + 1)[i] \in 1 .. n + 1
      BY <1>1, <3>1, <3>2
    <3>4. n + 1 \in Nat
      OBVIOUS
    <3> QED BY <1>1, <3>1, <3>3, <3>4
  <2>4. KnowsOnly(s, n) => Apply(s, n + 1) \in States /\ KnowsOnly(Apply(s, n + 1), n + 1)
    <3> SUFFICES ASSUME KnowsOnly(s, n)
                 PROVE  Apply(s, n + 1) \in States /\ KnowsOnly(Apply(s, n + 1), n + 1)
      OBVIOUS
    <3>1. Range(s.head) \subseteq 1 .. n /\ Range(s.nodes) \subseteq 1 .. n
      BY DEF KnowsOnly
    <3> DEFINE head == Append(s.head, n + 1)
               nodes == Append(s.nodes, n + 1)
    <3>2. Apply(s, n + 1) = [head |-> head, seq |-> n + 1, nodes |-> nodes]
      BY DEF Apply
    <3>3. /\ head \in Seq(Nat) /\ Range(head) \subseteq 1 .. n + 1
          /\ nodes \in Seq(Nat) /\ Range(nodes) \subseteq 1 .. n + 1
      BY <2>1, <2>3, <3>1
    <3> HIDE DEF head, nodes
    <3> QED BY <3>2, <3>3 DEF States, KnowsOnly
  <2>5. ASSUME KnowsOnly(s, n), NEW m \in 0 .. n
        PROVE  Replay(s, m) \in States /\ KnowsOnly(Replay(s, m), n)
    <3> DEFINE delta == [i \in 1 .. m - s.seq |-> s.seq + i]
    <3>1. CASE m <= s.seq
      BY <2>5, <3>1 DEF Replay
    <3>2. CASE ~(m <= s.seq)
      <4>1. delta \in Seq(Nat) /\ Len(delta) = m - s.seq
        <5>1. delta \in [1 .. m - s.seq -> Nat] /\ m - s.seq \in Nat
          BY <2>1, <3>2
        <5> QED BY <5>1, SeqDef, LenProperties
      <4>2. \A i \in 1 .. Len(delta) : delta[i] \in 1 .. n
        <5>1. \A i \in 1 .. m - s.seq : delta[i] = s.seq + i
          OBVIOUS
        <5>2. \A i \in 1 .. m - s.seq : s.seq + i \in 1 .. n
          BY <2>1
        <5> QED BY <4>1, <5>1, <5>2
      <4> HIDE DEF delta
      <4>3. ASSUME NEW q \in Seq(Nat), Range(q) \subseteq 1 .. n
            PROVE  q \o delta \in Seq(Nat) /\ Range(q \o delta) \subseteq 1 .. n
        <5>1. /\ q \o delta \in Seq(Nat) /\ Len(q \o delta) = Len(q) + Len(delta)
              /\ \A i \in 1 .. Len(q) + Len(delta) :
                   (q \o delta)[i] = IF i <= Len(q) THEN q[i] ELSE delta[i - Len(q)]
          BY <4>1, ConcatProperties
        <5>2. \A i \in 1 .. Len(q) : q[i] \in 1 .. n
          BY <1>1, <4>3
        <5>3. \A i \in 1 .. Len(q) + Len(delta) : (q \o delta)[i] \in 1 .. n
          BY <1>1, <4>1, <4>2, <5>1, <5>2
        <5> QED BY <1>1, <5>1, <5>3
      <4>4. Range(s.head) \subseteq 1 .. n /\ Range(s.nodes) \subseteq 1 .. n /\ m \in 1 .. n
        BY <2>1, <2>5, <3>2 DEF KnowsOnly
      <4>5. Replay(s, m) = [head |-> s.head \o delta, seq |-> m, nodes |-> s.nodes \o delta]
        BY <3>2 DEF Replay, delta
      <4> QED BY <2>1, <4>3, <4>4, <4>5 DEF States, KnowsOnly
    <3> QED BY <3>1, <3>2
  <2> QED BY <2>2, <2>4, <2>5
<1>9. Fold(n).seq = n
  BY DEF Fold
<1> QED
  BY <1>4, <1>6, <1>7, <1>8, <1>9

-----------------------------------------------------------------------------
(* A state in memory or in a snapshot never knows an event the log has not,*)
(* whatever fails, whoever put it there, and whatever order critical       *)
(* sections come in: each handler appends before it applies, and each save *)
(* takes its parts from what is in memory.  What processes hold on to      *)
(* between two critical sections stays within the log too.                 *)
THEOREM LogsComeFirst == Spec => [](WithinLog /\ LogComesFirst)
<1> DEFINE Saves == [pc   : {"idle", "admitted", "logged", "published", "head", "seq", "returned"},
                     head : Seq(Nat),
                     seq  : Nat]
           Calls == [pc     : {"idle", "absent", "listed", "rehydrated"},
                     run    : Runs \cup {NoRun},
                     events : Nat,
                     state  : States \cup {Absent}]
<1>1. NotStarted \in Saves /\ Returned \in Saves /\ NotReading \in Calls
  BY EmptySeq DEF NotStarted, Returned, NotReading
<1>2. \A s : (s \in States => s # Absent /\ s # NoSnapshot /\ s # Broken)
  BY RunsAssumption
<1>3. Init => WithinLog
  <2> SUFFICES ASSUME Init PROVE WithinLog
    OBVIOUS
  <2>0. \A r \in Runs : lock # r
    BY RunsAssumption DEF Init
  <2>1. Typed
    <3>1. up \in BOOLEAN
      BY Zenon DEF Init
    <3> QED BY <1>1, <3>1 DEF Init, Typed
  <2> QED BY <1>2, <2>0, <2>1 DEF Init, WithinLog, RunWithin, ReaderWithin, NotStarted, NotReading, Loaded
<1>4. ASSUME WithinLog, [Next]_vars PROVE WithinLog'
  <2>1. /\ Typed
        /\ \A r \in Runs : /\ RunWithin(r)
                           /\ log[r] \in Nat /\ starter[r] \in Saves
                           /\ memory[r] \in States \cup {Absent}
                           /\ snapshot[r] \in States \cup {NoSnapshot, Broken}
        /\ \A i \in Readers : ReaderWithin(i) /\ reader[i] \in Calls
    BY <1>4 DEF WithinLog, Typed
  <2>2. \A m, n \in Nat : m <= n => \A s \in States : KnowsOnly(s, m) => KnowsOnly(s, n)
    BY StatesOfEvents
  <2>3. ASSUME NEW i \in Readers, reader'[i] = reader[i], up' = up,
               reader[i].pc # "idle" =>
                  /\ log'[reader[i].run] \in Nat
                  /\ log[reader[i].run] <= log'[reader[i].run]
        PROVE  ReaderWithin(i)'
    <3> SUFFICES ASSUME reader[i].pc # "idle" PROVE ReaderWithin(i)'
      BY <2>3 DEF ReaderWithin
    <3>1. ReaderWithin(i)
      BY <2>1
    <3>2. /\ reader[i].run \in Runs /\ log[reader[i].run] \in Nat /\ log'[reader[i].run] \in Nat
          /\ log[reader[i].run] <= log'[reader[i].run]
      BY <2>1, <2>3, <3>1 DEF ReaderWithin
    <3>3. KnowsOnly(reader[i].state, log[reader[i].run]) /\ reader[i].state \in States
            => KnowsOnly(reader[i].state, log'[reader[i].run])
      BY <2>2, <3>2
    <3> QED BY <2>3, <3>1, <3>2, <3>3 DEF ReaderWithin, KnowsOnly
  <2>4. ASSUME NEW r \in Runs, Typed', RunWithin(r)', log[r] <= log'[r], lock' \in {lock, r, NoRun}, up' = up,
               \A q \in Runs \ {r} : /\ log'[q] = log[q] /\ memory'[q] = memory[q]
                                     /\ snapshot'[q] = snapshot[q] /\ starter'[q] = starter[q],
               \A i \in Readers : reader'[i] = reader[i] \/ reader'[i].pc = "idle"
        PROVE  WithinLog'
    <3>1. \A q \in Runs \ {r} : RunWithin(q)'
      BY <2>1, <2>4, RunsAssumption DEF RunWithin, Loaded
    <3>2. ASSUME NEW i \in Readers PROVE ReaderWithin(i)'
      <4>1. CASE reader'[i].pc = "idle"
        BY <4>1 DEF ReaderWithin
      <4>2. CASE reader'[i] = reader[i]
        <5>1. ReaderWithin(i)
          BY <2>1
        <5>2. ASSUME reader[i].pc # "idle"
              PROVE  /\ log'[reader[i].run] \in Nat
                     /\ log[reader[i].run] <= log'[reader[i].run]
          <6>1. reader[i].run \in Runs
            BY <5>1, <5>2 DEF ReaderWithin
          <6>2. log'[reader[i].run] \in Nat /\ log[reader[i].run] \in Nat
            BY <2>1, <2>4, <6>1 DEF Typed
          <6> QED BY <2>4, <6>1, <6>2
        <5> QED BY <2>3, <2>4, <4>2, <5>2
      <4> QED BY <2>4, <4>1, <4>2
    <3> QED BY <2>4, <3>1, <3>2 DEF WithinLog
  <2>5. ASSUME NEW r \in Runs, NEW n \in 1 .. log[r], NEW s \in Rehydrated(snapshot[r], n)
        PROVE  s \in States \cup {Absent} /\ (s # Absent => s \in States /\ KnowsOnly(s, log[r]))
    <3>1. Fold(n) \in States /\ KnowsOnly(Fold(n), log[r])
      <4>1. log[r] \in Nat /\ n \in Nat /\ n > 0 /\ n <= log[r]
        BY <2>1
      <4> QED BY <2>2, <4>1, StatesOfEvents
    <3>2. snapshot[r] \in States =>
            Replay(snapshot[r], n) \in States /\ KnowsOnly(Replay(snapshot[r], n), log[r])
      <4>1. log[r] \in Nat /\ n \in 0 .. log[r]
        BY <2>1
      <4>2. snapshot[r] \in States => KnowsOnly(snapshot[r], log[r])
        BY <2>1 DEF RunWithin
      <4> QED BY <4>1, <4>2, StatesOfEvents
    <3>3. \/ s \in {Absent, Fold(n)}
          \/ snapshot[r] \notin {NoSnapshot, Broken} /\ s \in {Absent, Replay(snapshot[r], n)}
      BY DEF Rehydrated
    <3> QED BY <2>1, <3>1, <3>2, <3>3
  <2>6. ASSUME NEW r \in Runs, StartRun(r) PROVE WithinLog'
    <3>1. \A x \in Saves, pc \in {"admitted", "logged", "idle", "published"} :
            [x EXCEPT !.pc = pc] \in Saves /\ [x EXCEPT !.pc = pc].pc = pc
      OBVIOUS
    <3>2. starter[r] \in Saves /\ RunWithin(r) /\ log[r] \in Nat
      BY <2>1
    <3>3. ASSUME NEW pc \in {"admitted", "logged", "idle", "published"},
                 starter' = [starter EXCEPT ![r].pc = pc]
          PROVE  /\ starter' \in [Runs -> Saves] /\ starter'[r].pc = pc
                 /\ \A q \in Runs \ {r} : starter'[q] = starter[q]
      <4>1. starter' = [starter EXCEPT ![r] = [starter[r] EXCEPT !.pc = pc]]
        BY <2>1, <3>3 DEF Typed
      <4>2. starter \in [Runs -> Saves]
        BY <2>1 DEF Typed
      <4> QED BY <3>1, <3>2, <4>1, <4>2
    <3>4. ASSUME NEW x \in Saves, starter' = [starter EXCEPT ![r] = x]
          PROVE  /\ starter' \in [Runs -> Saves] /\ starter'[r] = x
                 /\ \A q \in Runs \ {r} : starter'[q] = starter[q]
      BY <2>1, <3>4 DEF Typed
    <3>5. CASE StartCheck(r)
      <4>1. /\ starter[r].pc = "idle" /\ starter' = [starter EXCEPT ![r].pc = "admitted"] /\ up
            /\ UNCHANGED <<log, memory, snapshot, lock, reader, up, faults>>
        BY <3>5 DEF StartCheck, Step
      <4>2. Typed'
        BY <2>1, <3>3, <4>1 DEF Typed
      <4>3. RunWithin(r)'
        BY <3>2, <3>3, <4>1 DEF RunWithin, Loaded
      <4> QED BY <2>4, <3>2, <3>3, <4>1, <4>2, <4>3
    <3>6. CASE StartAppend(r)
      <4>1. /\ starter[r].pc = "admitted" /\ starter' = [starter EXCEPT ![r].pc = "logged"]
            /\ log' = [log EXCEPT ![r] = 1]
            /\ UNCHANGED <<memory, snapshot, lock, reader, up, faults>>
        BY <3>6 DEF StartAppend, Step
      <4>2. log[r] = 0 /\ log'[r] = 1 /\ log' \in [Runs -> Nat]
            /\ \A q \in Runs \ {r} : log'[q] = log[q]
        BY <2>1, <3>2, <4>1 DEF RunWithin, Typed
      <4>3. RunWithin(r)'
        <5>1. \A s \in States : KnowsOnly(s, 0) => KnowsOnly(s, 1)
          BY <2>2
        <5> QED BY <2>1, <3>2, <3>3, <4>1, <4>2, <5>1 DEF RunWithin, Loaded
      <4>4. Typed'
        BY <2>1, <3>3, <4>1, <4>2 DEF Typed
      <4> QED BY <2>4, <3>3, <4>1, <4>2, <4>3, <4>4
    <3>7. CASE StartAppendFails(r)
      <4>1. /\ starter[r].pc = "admitted" /\ starter' = [starter EXCEPT ![r].pc = "idle"]
            /\ UNCHANGED <<log, memory, snapshot, lock, reader, up>>
            /\ faults' = faults + 1
        BY <3>7 DEF StartAppendFails, Step
      <4>2. Typed'
        BY <2>1, <3>3, <4>1 DEF Typed
      <4>3. RunWithin(r)'
        BY <3>2, <3>3, <4>1 DEF RunWithin, Loaded
      <4> QED BY <2>4, <3>2, <3>3, <4>1, <4>2, <4>3
    <3>8. CASE StartPublish(r)
      <4>1. /\ starter[r].pc = "logged" /\ starter' = [starter EXCEPT ![r].pc = "published"]
            /\ memory' = [memory EXCEPT ![r] = Fold(1)]
            /\ UNCHANGED <<log, snapshot, lock, reader, up, faults>>
        BY <3>8 DEF StartPublish, Step
      <4>2. log[r] > 0
        BY <3>2, <4>1 DEF RunWithin
      <4>3. Fold(1) \in States /\ KnowsOnly(Fold(1), log[r])
        <5>1. 1 \in Nat /\ 1 > 0 /\ 1 <= log[r]
          BY <3>2, <4>2
        <5>2. Fold(1) \in States /\ KnowsOnly(Fold(1), 1)
          BY <5>1, StatesOfEvents
        <5> QED BY <2>2, <3>2, <5>1, <5>2
      <4>4. memory'[r] = Fold(1) /\ memory' \in [Runs -> States \cup {Absent}]
            /\ \A q \in Runs \ {r} : memory'[q] = memory[q]
        BY <2>1, <4>1, <4>3 DEF Typed
      <4>5. RunWithin(r)'
        BY <1>2, <3>2, <3>3, <4>1, <4>2, <4>3, <4>4 DEF RunWithin, Loaded
      <4>6. Typed'
        BY <2>1, <3>3, <4>1, <4>4 DEF Typed
      <4> QED BY <2>4, <3>2, <3>3, <4>1, <4>4, <4>5, <4>6
    <3>9. CASE StartSaveHead(r) \/ StartSaveSeq(r)
      <4> DEFINE x == IF StartSaveHead(r) THEN [pc |-> "head", head |-> memory[r].head, seq |-> 0]
                                          ELSE [starter[r] EXCEPT !.pc = "seq", !.seq = memory[r].seq]
      <4>1. starter' = [starter EXCEPT ![r] = x]
        <5>1. CASE StartSaveHead(r)
          BY <5>1 DEF StartSaveHead
        <5>2. CASE ~StartSaveHead(r)
          <6>1. starter' = [starter EXCEPT ![r] = [@ EXCEPT !.pc = "seq", !.seq = memory[r].seq]]
            BY <3>9, <5>2 DEF StartSaveSeq
          <6> QED BY <2>1, <5>2, <6>1 DEF Typed
        <5> QED BY <5>1, <5>2
      <4>2. /\ starter[r].pc \in {"published", "head"}
            /\ ~StartSaveHead(r) => starter[r].pc = "head"
            /\ UNCHANGED <<log, memory, snapshot, lock, reader, up, faults>>
        BY <3>9 DEF StartSaveHead, StartSaveSeq
      <4>3. memory[r] \in States /\ KnowsOnly(memory[r], log[r]) /\ Loaded(r)
        BY <2>1, <3>2, <4>2 DEF RunWithin, Loaded
      <4>4. /\ x \in Saves /\ x.pc \in {"head", "seq"} /\ Range(x.head) \subseteq 1 .. log[r]
            /\ x.pc = "seq" => x.seq \in 1 .. log[r]
        BY <3>2, <4>2, <4>3 DEF KnowsOnly, States, RunWithin
      <4> HIDE DEF x
      <4>5. /\ starter' \in [Runs -> Saves] /\ starter'[r] = x
            /\ \A q \in Runs \ {r} : starter'[q] = starter[q]
        BY <3>4, <4>1, <4>4
      <4>6. Typed'
        BY <2>1, <4>2, <4>5 DEF Typed
      <4>7. RunWithin(r)'
        BY <3>2, <4>2, <4>3, <4>4, <4>5 DEF RunWithin, Loaded
      <4> QED BY <2>4, <3>2, <4>2, <4>5, <4>6, <4>7
    <3>10. CASE StartSaveWrite(r) \/ StartSaveFails(r)
      <4> DEFINE file == [head |-> starter[r].head, seq |-> starter[r].seq, nodes |-> memory[r].nodes]
      <4>1. /\ starter[r].pc = "seq" /\ starter' = [starter EXCEPT ![r] = Returned]
            /\ UNCHANGED <<log, memory, lock, reader, up>> /\ faults' \in {faults, faults + 1}
            /\ \/ snapshot' = [snapshot EXCEPT ![r] = file]
               \/ snapshot' = [snapshot EXCEPT ![r] = snapshot[r]]
               \/ snapshot' = [snapshot EXCEPT ![r] = Broken]
        BY <3>10 DEF StartSaveWrite, StartSaveFails
      <4>2. file \in States /\ KnowsOnly(file, log[r])
        BY <2>1, <3>2, <4>1 DEF RunWithin, Loaded, KnowsOnly, States
      <4>3. Returned.pc = "returned"
        BY DEF Returned, NotStarted
      <4> HIDE DEF file
      <4>4. /\ snapshot' \in [Runs -> States \cup {NoSnapshot, Broken}]
            /\ \A q \in Runs \ {r} : snapshot'[q] = snapshot[q]
            /\ snapshot'[r] \in {file, snapshot[r], Broken}
        <5>1. snapshot \in [Runs -> States \cup {NoSnapshot, Broken}]
          BY <2>1 DEF Typed
        <5> QED BY <4>1, <4>2, <5>1
      <4>5. RunWithin(r)'
        BY <1>1, <1>2, <3>2, <3>4, <4>1, <4>2, <4>3, <4>4 DEF RunWithin, Loaded
      <4>6. Typed'
        BY <1>1, <2>1, <3>4, <4>1, <4>4 DEF Typed
      <4>7. \A q \in Runs \ {r} : starter'[q] = starter[q]
        BY <1>1, <3>4, <4>1
      <4> QED BY <2>4, <3>2, <4>1, <4>4, <4>5, <4>6, <4>7
    <3> QED BY <2>6, <3>5, <3>6, <3>7, <3>8, <3>9, <3>10 DEF StartRun
  <2>7. ASSUME NEW r \in Runs, NEW s \in States \cup {Absent}, s # Absent => KnowsOnly(s, log[r]),
               memory' = [memory EXCEPT ![r] = s],
               lock = NoRun, starter[r].pc \in {"published", "head", "seq"} => s # Absent,
               UNCHANGED <<log, snapshot, lock, starter, up, faults>>,
               reader' \in [Readers -> Calls],
               \A i \in Readers : reader'[i] = reader[i] \/ reader'[i].pc = "idle"
        PROVE  WithinLog'
    <3>1. /\ memory' \in [Runs -> States \cup {Absent}] /\ memory'[r] = s
          /\ \A q \in Runs \ {r} : memory'[q] = memory[q]
      BY <2>1, <2>7 DEF Typed
    <3>2. Typed'
      BY <2>1, <2>7, <3>1 DEF Typed
    <3>3. RunWithin(r)'
      BY <2>1, <2>7, <3>1, RunsAssumption DEF RunWithin, Loaded
    <3> QED BY <2>1, <2>4, <2>7, <3>1, <3>2, <3>3
  <2>8. ASSUME NEW r \in Runs, LoadRun(r) PROVE WithinLog'
    <3>1. PICK s \in Rehydrated(snapshot[r], log[r]) : memory' = [memory EXCEPT ![r] = s]
      BY <2>8 DEF LoadRun
    <3>2. log[r] \in 1 .. log[r] /\ ~Loaded(r)
      BY <2>1, <2>8 DEF LoadRun, Known
    <3>3. /\ s \in States \cup {Absent} /\ (s # Absent => KnowsOnly(s, log[r]))
          /\ starter[r].pc \notin {"published", "head", "seq"}
      BY <2>1, <2>5, <3>2 DEF RunWithin
    <3>4. /\ UNCHANGED <<log, snapshot, lock, starter, reader, up, faults>>
          /\ lock = NoRun /\ reader \in [Readers -> Calls]
      BY <2>1, <2>8 DEF LoadRun, Typed
    <3> QED BY <2>7, <3>1, <3>3, <3>4
  <2>9. ASSUME NEW r \in Runs, HandlerAppend(r) PROVE WithinLog'
    <3> DEFINE n == log[r] + 1
    <3>1. /\ up /\ Loaded(r) /\ lock' = r
          /\ log' = [log EXCEPT ![r] = n] /\ memory' = [memory EXCEPT ![r] = Apply(memory[r], n)]
          /\ UNCHANGED <<snapshot, starter, reader, up, faults>>
      BY <2>1, <2>9 DEF HandlerAppend, Typed
    <3>2. /\ memory[r] \in States /\ log[r] \in Nat /\ n \in Nat /\ log[r] <= n /\ n > 0
          /\ KnowsOnly(memory[r], log[r])
      BY <2>1, <3>1 DEF Loaded, RunWithin
    <3>3. Apply(memory[r], n) \in States /\ KnowsOnly(Apply(memory[r], n), n)
      BY <3>2, StatesOfEvents
    <3>4. snapshot[r] \in States => KnowsOnly(snapshot[r], n)
      BY <2>1, <2>2, <3>2 DEF RunWithin
    <3>5. log[r] # 0
      <4>1. memory[r].seq \in 1 .. log[r]
        BY <3>2 DEF KnowsOnly
      <4> QED BY <4>1
    <3>6. starter[r].pc = "seq" => starter[r].seq \in 1 .. n
      <4>1. starter[r].pc = "seq" => starter[r].seq \in 1 .. log[r]
        BY <2>1 DEF RunWithin
      <4> QED BY <3>2, <4>1
    <3>7. starter[r].pc \in {"head", "seq"} => Range(starter[r].head) \subseteq 1 .. n
      <4>1. starter[r].pc \in {"head", "seq"} => Range(starter[r].head) \subseteq 1 .. log[r]
        BY <2>1 DEF RunWithin
      <4>2. 1 .. log[r] \subseteq 1 .. n
        BY <3>2
      <4> HIDE DEF n
      <4> QED BY <4>1, <4>2
    <3> HIDE DEF n
    <3>8. /\ log' \in [Runs -> Nat] /\ log'[r] = n /\ \A q \in Runs \ {r} : log'[q] = log[q]
      BY <2>1, <3>1, <3>2 DEF Typed
    <3>9. /\ memory' \in [Runs -> States \cup {Absent}] /\ memory'[r] = Apply(memory[r], n)
          /\ \A q \in Runs \ {r} : memory'[q] = memory[q]
      BY <2>1, <3>1, <3>3 DEF Typed
    <3>10. Typed'
      BY <2>1, <3>1, <3>8, <3>9 DEF Typed
    <3>11. RunWithin(r)'
      BY <1>2, <2>1, <3>1, <3>2, <3>3, <3>4, <3>5, <3>6, <3>7, <3>8, <3>9 DEF RunWithin, Loaded
    <3> QED BY <2>4, <3>1, <3>2, <3>8, <3>9, <3>10, <3>11
  <2>10. ASSUME NEW r \in Runs, HandlerSave(r) \/ HandlerFails(r) PROVE WithinLog'
    <3>1. /\ lock = r /\ lock' = NoRun /\ faults' \in {faults, faults + 1}
          /\ UNCHANGED <<log, memory, starter, reader, up>>
          /\ \E file \in {snapshot[r], memory[r], Broken} : snapshot' = [snapshot EXCEPT ![r] = file]
      BY <2>1, <2>10 DEF HandlerSave, HandlerFails, Typed
    <3>2. memory[r] \in States /\ KnowsOnly(memory[r], log[r])
      BY <2>1, <3>1 DEF RunWithin, Loaded
    <3>3. /\ snapshot' \in [Runs -> States \cup {NoSnapshot, Broken}]
          /\ snapshot'[r] \in {snapshot[r], memory[r], Broken}
          /\ \A q \in Runs \ {r} : snapshot'[q] = snapshot[q]
      BY <2>1, <3>1, <3>2 DEF Typed
    <3>4. Typed'
      BY <2>1, <3>1, <3>3 DEF Typed
    <3>5. RunWithin(r)'
      BY <1>2, <2>1, <3>1, <3>2, <3>3, RunsAssumption DEF RunWithin, Loaded
    <3> QED BY <2>1, <2>4, <3>1, <3>3, <3>4, <3>5
  <2>11. ASSUME NEW i \in Readers, GetRun(i) PROVE WithinLog'
    <3>1. ReaderWithin(i) /\ reader[i] \in Calls /\ up
      BY <2>1, <2>11 DEF GetRun, ReadLookup, ReadList, ReadSnapshot, ReadPublish
    <3>2. ASSUME NEW x \in Calls, reader' = [reader EXCEPT ![i] = x],
                 UNCHANGED <<log, memory, snapshot, lock, starter, up, faults>>,
                 x.pc # "idle" =>
                     /\ up /\ x.run \in Runs
                     /\ log[x.run] > 0
                     /\ x.pc # "absent" => x.events \in 1 .. log[x.run]
                     /\ x.pc = "rehydrated" => x.state \in States /\ KnowsOnly(x.state, log[x.run])
          PROVE  WithinLog'
      <4>1. /\ reader' \in [Readers -> Calls] /\ reader'[i] = x
            /\ \A j \in Readers \ {i} : reader'[j] = reader[j]
        BY <2>1, <3>2 DEF Typed
      <4>2. Typed'
        BY <2>1, <3>2, <4>1 DEF Typed
      <4>3. \A r \in Runs : RunWithin(r)'
        BY <2>1, <3>2 DEF RunWithin, Loaded
      <4>4. ReaderWithin(i)'
        BY <3>2, <4>1 DEF ReaderWithin, KnowsOnly
      <4>5. \A j \in Readers \ {i} : ReaderWithin(j)'
        BY <2>1, <3>2, <4>1 DEF ReaderWithin, KnowsOnly
      <4> QED BY <4>2, <4>3, <4>4, <4>5 DEF WithinLog
    <3>3. ASSUME NEW r \in Runs, ReadLookup(i, r) PROVE WithinLog'
      <4> DEFINE x == [reader[i] EXCEPT !.pc = "absent", !.run = r]
      <4>1. /\ reader' = [reader EXCEPT ![i] = x] /\ log[r] > 0
            /\ UNCHANGED <<log, memory, snapshot, lock, starter, up, faults>>
        BY <2>1, <3>3 DEF ReadLookup, Known, Typed
      <4>2. x \in Calls /\ x.run = r /\ x.pc = "absent"
        BY <3>1
      <4> HIDE DEF x
      <4> QED BY <3>1, <3>2, <4>1, <4>2
    <3>4. CASE ReadList(i)
      <4> DEFINE n == log[reader[i].run]
                 x == [reader[i] EXCEPT !.pc = "listed", !.events = n]
      <4>1. /\ reader[i].pc = "absent" /\ reader' = [reader EXCEPT ![i] = x]
            /\ UNCHANGED <<log, memory, snapshot, lock, starter, up, faults>>
        BY <2>1, <3>4 DEF ReadList, Typed
      <4>2. reader[i].run \in Runs /\ n \in Nat /\ n > 0
        BY <2>1, <3>1, <4>1 DEF ReaderWithin
      <4> HIDE DEF n
      <4>3. x \in Calls /\ x.run = reader[i].run /\ x.pc = "listed" /\ x.events = n
        BY <3>1, <4>2
      <4>4. n \in 1 .. n
        BY <4>2
      <4> HIDE DEF x
      <4> QED BY <3>1, <3>2, <4>1, <4>2, <4>3, <4>4 DEF n
    <3>5. CASE ReadSnapshot(i)
      <4> DEFINE r == reader[i].run
      <4>1. PICK s \in Rehydrated(snapshot[r], reader[i].events) :
                reader' = [reader EXCEPT ![i] =
                     IF s = Absent THEN NotReading
                                   ELSE [@ EXCEPT !.pc = "rehydrated", !.state = s]]
        BY <3>5 DEF ReadSnapshot
      <4>2. /\ reader[i].pc = "listed"
            /\ UNCHANGED <<log, memory, snapshot, lock, starter, up, faults>>
        BY <3>5 DEF ReadSnapshot
      <4>3. r \in Runs /\ reader[i].events \in 1 .. log[r] /\ log[r] > 0
        BY <3>1, <4>2 DEF ReaderWithin
      <4>4. s \in States \cup {Absent} /\ (s # Absent => s \in States /\ KnowsOnly(s, log[r]))
        BY <2>5, <4>3
      <4> DEFINE x == IF s = Absent THEN NotReading
                                    ELSE [reader[i] EXCEPT !.pc = "rehydrated", !.state = s]
      <4>5. reader' = [reader EXCEPT ![i] = x]
        BY <2>1, <4>1 DEF Typed
      <4>6. x \in Calls /\ (x.pc # "idle" =>
                /\ x.run = r /\ x.events = reader[i].events /\ x.state = s /\ s # Absent)
        BY <1>1, <3>1, <4>4 DEF NotReading
      <4> HIDE DEF x
      <4> QED BY <3>1, <3>2, <4>2, <4>3, <4>4, <4>5, <4>6
    <3>6. CASE ReadPublish(i)
      <4> DEFINE r == reader[i].run
      <4>1. /\ reader[i].pc = "rehydrated" /\ lock = NoRun
            /\ memory' = [memory EXCEPT ![r] = reader[i].state]
            /\ reader' = [reader EXCEPT ![i] = NotReading]
            /\ UNCHANGED <<log, snapshot, lock, starter, up, faults>>
        BY <3>6 DEF ReadPublish
      <4>2. /\ r \in Runs /\ reader[i].state \in States /\ reader[i].state # Absent
            /\ KnowsOnly(reader[i].state, log[r])
        BY <1>2, <3>1, <4>1 DEF ReaderWithin
      <4>3. /\ reader' \in [Readers -> Calls]
            /\ \A j \in Readers : reader'[j] = reader[j] \/ reader'[j].pc = "idle"
        BY <1>1, <2>1, <4>1 DEF Typed, NotReading
      <4> QED BY <2>7, <4>1, <4>2, <4>3
    <3> QED BY <2>11, <3>3, <3>4, <3>5, <3>6 DEF GetRun
  <2>12. CASE Crash
    <3>1. /\ up' = FALSE /\ lock' = NoRun /\ log' = log /\ faults' = faults
          /\ memory' = [r \in Runs |-> Absent]
          /\ \/ snapshot' = snapshot
             \/ \E r \in Runs : snapshot' = [snapshot EXCEPT ![r] = Broken]
          /\ starter' = [r \in Runs |-> IF log[r] > 0 THEN Returned ELSE NotStarted]
          /\ reader' = [i \in Readers |-> NotReading]
      BY <2>12 DEF Crash, Saving
    <3>2. /\ snapshot' \in [Runs -> States \cup {NoSnapshot, Broken}]
          /\ \A r \in Runs : snapshot'[r] \in {snapshot[r], Broken}
      BY <2>1, <3>1 DEF Typed
    <3>3. Typed'
      <4>1. up' \in BOOLEAN
        BY <3>1, Zenon
      <4>2. starter' \in [Runs -> Saves] /\ reader' \in [Readers -> Calls]
        BY <1>1, <3>1
      <4> QED BY <2>1, <3>1, <3>2, <4>1, <4>2 DEF Typed
    <3>4. ASSUME NEW r \in Runs PROVE RunWithin(r)'
      <4>1. /\ memory'[r] = Absent /\ lock' # r
            /\ starter'[r].pc = IF log[r] > 0 THEN "returned" ELSE "idle"
        BY <3>1, RunsAssumption DEF Returned, NotStarted
      <4>2. log[r] = 0 <=> ~(log[r] > 0)
        BY <2>1
      <4> QED BY <1>2, <2>1, <3>1, <3>2, <4>1, <4>2 DEF RunWithin, Loaded
    <3>5. \A i \in Readers : ReaderWithin(i)'
      BY <3>1 DEF ReaderWithin, NotReading
    <3> QED BY <3>3, <3>4, <3>5 DEF WithinLog
  <2>13. CASE Restart
    <3>1. PICK unread \in SUBSET Runs, reconciled \in SUBSET {r \in Runs : log[r] \in 1 .. MaxEvents - 1},
               state \in [Runs -> {Absent} \cup
                                  UNION {Rehydrated(snapshot[r], log[r]) : r \in Runs}] :
            /\ faults' = faults + Cardinality(unread)
            /\ \A r \in Runs :
                 IF log[r] = 0 \/ r \in unread THEN state[r] = Absent
                                               ELSE state[r] \in Rehydrated(snapshot[r], log[r])
            /\ \A r \in reconciled : state[r] # Absent
            /\ memory' = [r \in Runs |-> IF r \in reconciled THEN Apply(state[r], log[r] + 1)
                                                             ELSE state[r]]
            /\ log' = [r \in Runs |-> IF r \in reconciled THEN log[r] + 1 ELSE log[r]]
      BY <2>13, SMTT(60) DEF Restart
    <3>2. up' = TRUE /\ UNCHANGED <<snapshot, lock, starter, reader>>
      BY <2>13 DEF Restart
    <3>3. faults' \in Nat
      <4>1. IsFiniteSet(unread)
        BY RunsAssumption, FS_Subset
      <4> QED BY <2>1, <3>1, <4>1, FS_CardinalityType DEF Typed
    <3>4. ASSUME NEW r \in Runs
          PROVE  /\ log'[r] \in Nat /\ log[r] <= log'[r] /\ (log[r] = 0 => log'[r] = 0)
                 /\ memory'[r] \in States \cup {Absent}
                 /\ memory'[r] # Absent => KnowsOnly(memory'[r], log'[r])
      <4>1. log[r] \in Nat /\ (r \in reconciled => log[r] # 0)
        BY <2>1
      <4>2. state[r] \in States \cup {Absent} /\ (state[r] # Absent => KnowsOnly(state[r], log[r]))
        <5>1. CASE log[r] = 0 \/ r \in unread
          BY <3>1, <5>1
        <5>2. CASE ~(log[r] = 0 \/ r \in unread)
          <6>1. log[r] \in 1 .. log[r] /\ state[r] \in Rehydrated(snapshot[r], log[r])
            BY <3>1, <4>1, <5>2
          <6> QED BY <2>5, <6>1
        <5> QED BY <5>1, <5>2
      <4>3. CASE r \in reconciled
        <5>1. state[r] \in States /\ KnowsOnly(state[r], log[r])
          BY <3>1, <4>2, <4>3
        <5>2. /\ Apply(state[r], log[r] + 1) \in States
              /\ KnowsOnly(Apply(state[r], log[r] + 1), log[r] + 1)
          BY <4>1, <5>1, StatesOfEvents
        <5>3. log'[r] = log[r] + 1 /\ memory'[r] = Apply(state[r], log[r] + 1)
          BY <3>1, <4>3
        <5> QED BY <4>1, <4>3, <5>2, <5>3
      <4>4. CASE r \notin reconciled
        <5>1. log'[r] = log[r] /\ memory'[r] = state[r]
          BY <3>1, <4>4
        <5> QED BY <4>1, <4>2, <5>1
      <4> QED BY <4>3, <4>4
    <3>5. Typed'
      <4>1. log' \in [Runs -> Nat] /\ memory' \in [Runs -> States \cup {Absent}]
        <5>1. /\ log' = [r \in Runs |-> log'[r]] /\ memory' = [r \in Runs |-> memory'[r]]
          BY <3>1
        <5> QED BY <3>4, <5>1
      <4>2. up' \in BOOLEAN
        BY <3>2, Zenon
      <4> QED BY <2>1, <3>2, <3>3, <4>1, <4>2 DEF Typed
    <3>6. ASSUME NEW r \in Runs PROVE RunWithin(r)'
      <4>1. starter[r].pc \in {"idle", "returned"} /\ lock # r
        BY <2>1, <2>13 DEF RunWithin, Restart
      <4>2. snapshot[r] \in States => KnowsOnly(snapshot[r], log'[r])
        BY <2>1, <2>2, <3>4 DEF RunWithin
      <4>3. log'[r] = 0 <=> log[r] = 0
        BY <2>1, <3>4
      <4> QED BY <2>1, <3>2, <3>4, <4>1, <4>2, <4>3 DEF RunWithin, Loaded
    <3>7. \A i \in Readers : ReaderWithin(i)'
      BY <2>1, <2>13, <3>2 DEF ReaderWithin, Restart
    <3> QED BY <3>5, <3>6, <3>7 DEF WithinLog
  <2>14. CASE UNCHANGED vars
    <3>1. UNCHANGED <<log, memory, snapshot, lock, starter, reader, up, faults>>
      BY <2>14 DEF vars
    <3>2. Typed' /\ \A r \in Runs : RunWithin(r)'
      BY <2>1, <3>1 DEF Typed, RunWithin, Loaded
    <3>3. \A i \in Readers : ReaderWithin(i)'
      BY <2>1, <3>1 DEF ReaderWithin
    <3> QED BY <3>2, <3>3 DEF WithinLog
  <2> QED
    BY <1>4, <2>6, <2>8, <2>9, <2>10, <2>11, <2>12, <2>13, <2>14 DEF Next
<1>5. WithinLog => LogComesFirst
  <2> SUFFICES ASSUME WithinLog, NEW r \in Runs,
                      NEW s \in {memory[r], snapshot[r]} \ {Absent, NoSnapshot, Broken}
               PROVE  Range(s.head) \cup Range(s.nodes) \cup {s.seq} \subseteq 1 .. log[r]
    BY DEF LogComesFirst
  <2>1. /\ RunWithin(r) /\ memory[r] \in States \cup {Absent}
        /\ snapshot[r] \in States \cup {NoSnapshot, Broken}
    BY DEF WithinLog, Typed
  <2> QED BY <2>1 DEF RunWithin, Loaded, KnowsOnly
<1> QED
  BY <1>3, <1>4, <1>5, PTL DEF Spec

-----------------------------------------------------------------------------
(* As long as reads and writes succeed, what handlers decide on is the     *)
(* replay of the whole log, each event once, unless the run crashed with a *)
(* mixed snapshot: however StartRun, handlers, GetRun calls, crashes and   *)
(* restarts interleave.  For that the runs stay whole, and with them what  *)
(* an interrupted StartRun, handler or GetRun has still to write.          *)
THEOREM MemoryIsTheReplay == Spec => [](WholeRuns /\ MemoryIsReplay)
<1>1. Init => WholeRuns
  <2> SUFFICES ASSUME Init, NEW r \in Runs PROVE Whole(r) /\ Unread(r)
    BY DEF WholeRuns
  <2> QED BY DEF Init, Whole, Unread, NotStarted, NotReading, Loaded
<1>2. ASSUME WithinLog, WholeRuns, [Next]_vars, faults' = 0, NEW r \in Runs \ spoiled'
      PROVE  Whole(r)' /\ Unread(r)'
  <2>1. faults = 0 /\ r \notin spoiled
    <3>1. faults \in Nat
      BY <1>2 DEF WithinLog, Typed
    <3>2. CASE Restart
      <4>1. PICK unread \in SUBSET Runs : faults' = faults + Cardinality(unread)
        BY <3>2 DEF Restart
      <4>2. Cardinality(unread) \in Nat
        BY RunsAssumption, FS_Subset, FS_CardinalityType
      <4> QED BY <1>2, <3>1, <3>2, <4>1, <4>2 DEF Restart
    <3>3. CASE Crash
      BY <1>2, <3>3 DEF Crash
    <3>4. CASE UNCHANGED vars
      BY <1>2, <3>4 DEF vars
    <3>5. ASSUME NEW q \in Runs,
                 StartRun(q) \/ LoadRun(q) \/ HandlerAppend(q) \/ HandlerSave(q) \/ HandlerFails(q)
          PROVE  faults' \in {faults, faults + 1} /\ spoiled' = spoiled
      BY <3>5
      DEF StartRun, StartCheck, StartAppend, StartAppendFails, StartPublish, StartSaveHead,
          StartSaveSeq, StartSaveWrite, StartSaveFails, LoadRun, HandlerAppend, HandlerSave,
          HandlerFails
    <3>6. ASSUME NEW i \in Readers, GetRun(i) PROVE faults' = faults /\ spoiled' = spoiled
      BY <3>6 DEF GetRun, ReadLookup, ReadList, ReadSnapshot, ReadPublish
    <3> QED BY <1>2, <3>1, <3>2, <3>3, <3>4, <3>5, <3>6 DEF Next
  <2>2. /\ Whole(r) /\ Unread(r) /\ RunWithin(r) /\ r \in Runs /\ r # NoRun
        /\ \A i \in Readers : ReaderWithin(i)
        /\ log[r] \in Nat /\ memory[r] \in States \cup {Absent}
        /\ snapshot[r] \in States \cup {NoSnapshot, Broken}
    BY <1>2, <2>1, RunsAssumption DEF WholeRuns, WithinLog, Typed
  <2>3. Typed
    BY <1>2 DEF WithinLog
  <2>4. \A n \in Nat : n > 0 => /\ Fold(n) \in States /\ Fold(n) # Absent /\ Fold(n).seq = n
                                /\ Coherent(Fold(n))
    BY StatesOfEvents, RunsAssumption DEF Coherent
  <2>5. ASSUME lock # r, log[r] > 0, NEW s \in Rehydrated(snapshot[r], log[r])
        PROVE  IF snapshot[r] = Broken THEN s = Absent ELSE s = Fold(log[r])
    <3>1. CASE snapshot[r] \in {NoSnapshot, Broken}
      BY <2>5, <3>1, RunsAssumption DEF Rehydrated
    <3>2. CASE snapshot[r] \notin {NoSnapshot, Broken}
      <4>1. Coherent(snapshot[r]) /\ snapshot[r].seq \in 1 .. log[r]
        BY <2>2, <2>5, <3>2 DEF Whole, RunWithin, KnowsOnly
      <4>2. Replay(snapshot[r], log[r]) = Fold(log[r])
        BY <2>2, <4>1, StatesOfEvents DEF Coherent
      <4> QED BY <2>5, <3>2, <4>1, <4>2 DEF Rehydrated
    <3> QED BY <3>1, <3>2
  <2>6. ASSUME log'[r] = log[r], memory'[r] = memory[r], snapshot'[r] = snapshot[r],
               starter'[r] = starter[r], up' = up, lock' = lock \/ (lock # r /\ lock' # r),
               \A i \in Readers : reader'[i].pc # "idle" /\ reader'[i].run = r =>
                                    reader'[i] = reader[i]
        PROVE  Whole(r)' /\ Unread(r)'
    <3>1. Whole(r)'
      BY <2>2, <2>6 DEF Whole, Loaded, Coherent
    <3>2. Unread(r)'
      BY <2>2, <2>6 DEF Unread, Loaded
    <3> QED BY <3>1, <3>2
  <2>7. ASSUME StartRun(r) PROVE Whole(r)' /\ Unread(r)'
    <3>1. UNCHANGED <<lock, reader, up>> /\ up
      BY <2>7
      DEF StartRun, StartCheck, StartAppend, StartAppendFails, StartPublish, StartSaveHead,
          StartSaveSeq, StartSaveWrite, StartSaveFails, Step
    <3>2. ASSUME memory'[r] = memory[r] \/ (~Loaded(r) /\ snapshot[r] = NoSnapshot),
                 snapshot'[r] = snapshot[r] \/ (Loaded(r) /\ memory' = memory)
          PROVE  Unread(r)'
      BY <2>2, <3>1, <3>2, RunsAssumption DEF Unread, Loaded
    <3>3. CASE StartCheck(r) \/ StartAppendFails(r)
      <4>1. /\ starter[r].pc \in {"idle", "admitted"} /\ starter'[r].pc \in {"idle", "admitted"}
            /\ UNCHANGED <<log, memory, snapshot>>
        BY <2>3, <3>3 DEF StartCheck, StartAppendFails, Step, Typed
      <4> QED BY <2>2, <3>2, <4>1 DEF Whole, Loaded
    <3>4. CASE StartAppend(r)
      <4>1. /\ starter[r].pc = "admitted" /\ starter'[r].pc = "logged" /\ log'[r] = 1
            /\ UNCHANGED <<memory, snapshot>>
        BY <2>3, <3>4 DEF StartAppend, Step, Typed
      <4> QED BY <2>2, <3>2, <4>1 DEF Whole, Loaded
    <3>5. CASE StartPublish(r)
      <4>1. /\ starter[r].pc = "logged" /\ starter'[r].pc = "published" /\ memory'[r] = Fold(1)
            /\ UNCHANGED <<log, snapshot>>
        BY <2>3, <3>5 DEF StartPublish, Step, Typed
      <4>2. Fold(1) # Absent
        BY <2>4
      <4>3. Unread(r)'
        BY <2>2, <3>1, <4>1, RunsAssumption DEF Whole, Unread, Loaded
      <4>4. log[r] = 1 /\ snapshot[r] = NoSnapshot
        BY <2>2, <4>1 DEF Whole
      <4>5. Whole(r)'
        BY <4>1, <4>2, <4>4 DEF Whole, Loaded
      <4> QED BY <4>3, <4>5
    <3>6. CASE StartSaveHead(r)
      <4>1. /\ starter[r].pc = "published" /\ UNCHANGED <<log, memory, snapshot>>
            /\ starter'[r].pc = "head" /\ starter'[r].head = memory[r].head
        BY <2>3, <3>6 DEF StartSaveHead, Typed
      <4>2. Unread(r)'
        BY <2>2, <3>1, <4>1 DEF Unread, Loaded
      <4>3. Whole(r)'
        BY <2>2, <3>1, <4>1 DEF Whole, Loaded, Coherent
      <4> QED BY <4>2, <4>3
    <3>7. CASE StartSaveSeq(r)
      <4>1. /\ starter[r].pc = "head" /\ UNCHANGED <<log, memory, snapshot>>
            /\ starter'[r].pc = "seq" /\ starter'[r].seq = memory[r].seq
            /\ starter'[r].head = starter[r].head
        BY <2>3, <3>7 DEF StartSaveSeq, Typed
      <4>2. Unread(r)'
        BY <2>2, <3>1, <4>1 DEF Unread, Loaded
      <4>3. Whole(r)'
        BY <2>2, <3>1, <4>1 DEF Whole, Loaded, Coherent
      <4> QED BY <4>2, <4>3
    <3>8. CASE StartSaveWrite(r) \/ StartSaveFails(r)
      <4> DEFINE file == [head |-> starter[r].head, seq |-> starter[r].seq, nodes |-> memory[r].nodes]
      <4>1. /\ starter[r].pc = "seq" /\ UNCHANGED <<log, memory>>
            /\ starter'[r].pc = "returned" /\ snapshot'[r] = file
        BY <1>2, <2>1, <2>3, <3>8 DEF StartSaveWrite, StartSaveFails, Typed, Returned, NotStarted
      <4>2. Loaded(r) /\ memory[r] = Fold(log[r]) /\ log[r] > 0 /\ memory[r] \in States
        BY <2>2, <4>1 DEF Whole, RunWithin, Loaded
      <4>3. lock # r => file = memory[r]
        BY <2>2, <4>1, <4>2 DEF Whole, States
      <4> HIDE DEF file
      <4>4. Coherent(file) \/ lock = r
        BY <2>2, <2>4, <4>2, <4>3
      <4>5. Unread(r)'
        BY <2>2, <3>1, <4>1, <4>2 DEF Unread, Loaded
      <4>6. Whole(r)'
        BY <3>1, <4>1, <4>2, <4>4 DEF Whole, Loaded, Coherent
      <4> QED BY <4>5, <4>6
    <3> QED BY <2>7, <3>3, <3>4, <3>5, <3>6, <3>7, <3>8 DEF StartRun
  <2>8. ASSUME NEW s \in Rehydrated(snapshot[r], log[r]), lock # r, ~Loaded(r), Known(r), up,
               memory'[r] = s,
               UNCHANGED <<log, snapshot, lock, starter, reader, up>>
        PROVE  Whole(r)' /\ Unread(r)'
    <3>1. snapshot[r] = Broken /\ s = Absent
      BY <2>2, <2>5, <2>8 DEF Whole, RunWithin, Known
    <3>2. memory'[r] = memory[r]
      BY <2>8, <3>1 DEF Loaded
    <3> QED BY <2>6, <2>8, <3>2
  <2>9. ASSUME HandlerAppend(r) \/ HandlerSave(r) PROVE Whole(r)' /\ Unread(r)'
    <3>1. UNCHANGED <<starter, reader, up>> /\ Loaded(r)
      BY <2>2, <2>9 DEF HandlerAppend, HandlerSave, RunWithin
    <3>2. memory[r] = Fold(log[r]) /\ log[r] > 0 /\ starter[r].pc \notin {"idle", "admitted", "logged"}
      BY <2>2, <3>1 DEF Whole, RunWithin
    <3>3. \A i \in Readers : ~(reader[i].pc # "idle" /\ reader[i].run = r)
      BY <2>2, <3>1 DEF Unread
    <3>4. CASE HandlerAppend(r)
      <4>1. /\ lock' = r /\ log'[r] = log[r] + 1 /\ memory'[r] = Apply(memory[r], log[r] + 1)
            /\ snapshot' = snapshot
        BY <2>3, <3>4 DEF HandlerAppend, Typed
      <4>2. memory'[r] = Fold(log'[r]) /\ memory'[r] # Absent
        <5>1. log[r] + 1 \in Nat /\ log[r] + 1 > 0
          BY <2>2
        <5> QED BY <2>2, <2>4, <3>2, <4>1, <5>1, StatesOfEvents
      <4> QED BY <3>1, <3>2, <3>3, <4>1, <4>2 DEF Whole, Unread, Loaded
    <3>5. CASE HandlerSave(r)
      <4>1. /\ lock = r /\ snapshot'[r] = memory[r] /\ UNCHANGED <<log, memory>>
            /\ starter[r].pc \notin {"head", "seq"}
        BY <2>2, <2>3, <3>5 DEF HandlerSave, StoreFree, Typed
      <4>2. Coherent(memory[r])
        BY <2>2, <2>4, <3>2
      <4> QED BY <3>1, <3>2, <3>3, <4>1, <4>2 DEF Whole, Unread, Loaded, Coherent
    <3> QED BY <2>9, <3>4, <3>5
  <2>10. ASSUME NEW q \in Runs \ {r},
                StartRun(q) \/ LoadRun(q) \/ HandlerAppend(q) \/ HandlerSave(q) \/ HandlerFails(q)
         PROVE  Whole(r)' /\ Unread(r)'
    <3>1. /\ reader' = reader /\ up' = up
          /\ lock' = lock \/ (lock # r /\ lock' # r)
          /\ log'[r] = log[r] /\ memory'[r] = memory[r] /\ snapshot'[r] = snapshot[r]
          /\ starter'[r] = starter[r]
      <4>1. CASE StartRun(q)
        BY <2>2, <2>3, <4>1
        DEF StartRun, StartCheck, StartAppend, StartAppendFails, StartPublish, StartSaveHead,
            StartSaveSeq, StartSaveWrite, StartSaveFails, Step, Typed
      <4>2. CASE LoadRun(q)
        BY <2>2, <2>3, <4>2 DEF LoadRun, Typed
      <4>3. CASE HandlerAppend(q) \/ HandlerSave(q) \/ HandlerFails(q)
        BY <2>2, <2>3, <4>3 DEF HandlerAppend, HandlerSave, HandlerFails, Typed
      <4> QED BY <2>10, <4>1, <4>2, <4>3
    <3> QED BY <2>6, <3>1
  <2>11. ASSUME NEW q \in Runs,
                StartRun(q) \/ LoadRun(q) \/ HandlerAppend(q) \/ HandlerSave(q) \/ HandlerFails(q)
         PROVE  Whole(r)' /\ Unread(r)'
    <3>1. CASE q # r
      BY <2>10, <2>11, <3>1
    <3>2. ASSUME LoadRun(r) PROVE Whole(r)' /\ Unread(r)'
      <4>1. PICK s \in Rehydrated(snapshot[r], log[r]) : memory' = [memory EXCEPT ![r] = s]
        BY <3>2 DEF LoadRun
      <4>2. memory'[r] = s
        BY <2>2, <2>3, <4>1 DEF Typed
      <4> QED BY <2>2, <2>8, <3>2, <4>2 DEF LoadRun
    <3>3. ~HandlerFails(r)
      <4>1. faults' = 0 /\ faults = 0
        BY <1>2, <2>1
      <4> QED BY <4>1 DEF HandlerFails
    <3> QED BY <2>7, <2>9, <2>11, <3>1, <3>2, <3>3
  <2>12. ASSUME NEW i \in Readers, GetRun(i) PROVE Whole(r)' /\ Unread(r)'
    <3>1. UNCHANGED <<log, snapshot, lock, starter, up>> /\ up
      BY <2>12 DEF GetRun, ReadLookup, ReadList, ReadSnapshot, ReadPublish
    <3>2. /\ reader[i].pc # "idle" /\ reader[i].run = r =>
                reader[i].pc # "rehydrated" /\ ~Loaded(r) /\ snapshot[r] = Broken
          /\ \A j \in Readers \ {i} : reader'[j] = reader[j]
      BY <2>2, <2>3, <2>12
      DEF Unread, GetRun, ReadLookup, ReadList, ReadSnapshot, ReadPublish, Typed
    <3>3. ASSUME memory'[r] = memory[r],
                 \/ reader'[i].pc = "idle" \/ reader'[i].run # r
                 \/ reader'[i].pc # "rehydrated" /\ ~Loaded(r) /\ snapshot[r] = Broken
          PROVE  Whole(r)' /\ Unread(r)'
      <4>1. Whole(r)'
        BY <2>2, <3>1, <3>3 DEF Whole, Loaded, Coherent
      <4>2. Unread(r)'
        BY <2>2, <3>1, <3>2, <3>3 DEF Unread, Loaded
      <4> QED BY <4>1, <4>2
    <3>4. ASSUME NEW q \in Runs, ReadLookup(i, q) PROVE Whole(r)' /\ Unread(r)'
      <4>1. /\ reader'[i].pc = "absent" /\ reader'[i].run = q /\ memory' = memory
            /\ ~Loaded(q) /\ Known(q)
        BY <2>3, <3>4 DEF ReadLookup, Typed
      <4>2. q = r => snapshot[r] = Broken
        BY <2>2, <3>1, <4>1 DEF Whole, RunWithin, Known
      <4> QED BY <3>3, <4>1, <4>2
    <3>5. CASE ReadList(i)
      <4>1. /\ reader[i].pc = "absent" /\ memory' = memory
            /\ reader'[i].pc = "listed" /\ reader'[i].run = reader[i].run
        BY <2>3, <3>5 DEF ReadList, Typed
      <4> QED BY <3>2, <3>3, <4>1
    <3>6. CASE ReadSnapshot(i)
      <4>1. /\ reader[i].pc = "listed" /\ memory' = memory
            /\ \/ reader'[i].pc = "idle"
               \/ /\ reader'[i].run = reader[i].run
                  /\ \E s \in Rehydrated(snapshot[reader[i].run], reader[i].events) : s # Absent
        BY <2>3, <3>6 DEF ReadSnapshot, NotReading, Typed
      <4>2. reader[i].run = r => \A s \in Rehydrated(snapshot[r], reader[i].events) : s = Absent
        BY <3>2, <4>1 DEF Rehydrated
      <4> QED BY <3>3, <4>1, <4>2
    <3>7. CASE ReadPublish(i)
      <4>1. /\ reader[i].pc = "rehydrated" /\ reader'[i].pc = "idle"
            /\ memory' = [memory EXCEPT ![reader[i].run] = reader[i].state]
        BY <2>3, <3>7 DEF ReadPublish, NotReading, Typed
      <4>2. memory'[r] = memory[r]
        BY <2>2, <2>3, <3>2, <4>1 DEF Typed
      <4> QED BY <3>3, <4>1, <4>2
    <3> QED BY <2>12, <3>4, <3>5, <3>6, <3>7 DEF GetRun
  <2>13. CASE Crash
    <3>1. /\ up' = FALSE /\ log' = log /\ lock' = NoRun /\ memory'[r] = Absent
          /\ starter'[r].pc = IF log[r] > 0 THEN "returned" ELSE "idle"
          /\ \A i \in Readers : reader'[i].pc = "idle"
      BY <2>2, <2>13 DEF Crash, Returned, NotStarted, NotReading
    <3>2. snapshot[r] \in {NoSnapshot, Broken} \/ Coherent(snapshot[r])
      <4>1. r \notin Mixed
        BY <1>2, <2>13 DEF Crash
      <4> QED BY <2>2, <4>1 DEF Mixed
    <3>3. snapshot'[r] = snapshot[r] \/ (snapshot'[r] = Broken /\ r \in Saving)
      BY <2>2, <2>3, <2>13 DEF Crash, Typed
    <3>4. log[r] > 0 \/ (log[r] = 0 /\ starter[r].pc \in {"idle", "admitted"})
      BY <2>2 DEF RunWithin
    <3>5. log[r] = 0 => snapshot'[r] = NoSnapshot
      <4>1. log[r] = 0 => snapshot[r] = NoSnapshot /\ ~Loaded(r)
        BY <2>2, <3>4 DEF Whole
      <4>2. log[r] = 0 => r \notin Saving
        BY <2>2, <3>4, <4>1 DEF Saving, RunWithin
      <4> QED BY <3>3, <4>1, <4>2
    <3>6. snapshot'[r] \in {NoSnapshot, Broken} \/ Coherent(snapshot[r])'
      BY <3>2, <3>3 DEF Coherent
    <3>7. Whole(r)'
      BY <2>2, <3>1, <3>4, <3>5, <3>6 DEF Whole, Loaded
    <3>8. Unread(r)'
      BY <3>1 DEF Unread
    <3> QED BY <3>7, <3>8
  <2>14. CASE Restart
    <3>1. /\ ~up /\ lock # r /\ starter[r].pc \in {"idle", "returned"}
          /\ UNCHANGED <<snapshot, lock, starter, reader>>
          /\ \A i \in Readers : reader[i].pc = "idle"
      BY <2>2, <2>14 DEF Restart, RunWithin, ReaderWithin
    <3>2. PICK unread \in SUBSET Runs, reconciled \in SUBSET {q \in Runs : log[q] \in 1 .. MaxEvents - 1},
               state \in [Runs -> {Absent} \cup
                                  UNION {Rehydrated(snapshot[q], log[q]) : q \in Runs}] :
            /\ faults' = faults + Cardinality(unread)
            /\ \A q \in Runs :
                 IF log[q] = 0 \/ q \in unread THEN state[q] = Absent
                                               ELSE state[q] \in Rehydrated(snapshot[q], log[q])
            /\ \A q \in reconciled : state[q] # Absent
            /\ memory' = [q \in Runs |-> IF q \in reconciled THEN Apply(state[q], log[q] + 1)
                                                             ELSE state[q]]
            /\ log' = [q \in Runs |-> IF q \in reconciled THEN log[q] + 1 ELSE log[q]]
      BY <2>14, SMTT(60) DEF Restart
    <3>3. unread = {}
      <4>1. IsFiniteSet(unread)
        BY RunsAssumption, FS_Subset
      <4>2. Cardinality(unread) = 0
        BY <1>2, <2>1, <3>2, <4>1, FS_CardinalityType
      <4> QED BY <4>1, <4>2, FS_EmptySet
    <3>4. CASE log[r] = 0
      <4>1. memory'[r] = Absent /\ log'[r] = 0 /\ starter[r].pc = "idle"
        BY <2>2, <3>1, <3>2, <3>4 DEF RunWithin
      <4> QED BY <2>2, <3>1, <4>1 DEF Whole, Unread, Loaded
    <3>5. CASE log[r] # 0
      <4>1. log[r] > 0 /\ starter[r].pc = "returned"
        BY <2>2, <3>1, <3>5 DEF RunWithin
      <4>2. IF snapshot[r] = Broken THEN state[r] = Absent ELSE state[r] = Fold(log[r])
        BY <2>2, <2>5, <3>1, <3>2, <3>3, <4>1
      <4>3. Fold(log[r]) # Absent /\ Apply(Fold(log[r]), log[r] + 1) = Fold(log[r] + 1)
        BY <2>2, <2>4, <4>1, StatesOfEvents
      <4>4. IF snapshot[r] = Broken THEN memory'[r] = Absent
                                    ELSE memory'[r] = Fold(log'[r])
        BY <2>2, <3>2, <4>2, <4>3
      <4>5. memory'[r] # Absent => memory'[r] = Fold(log'[r])
        BY <4>4
      <4>6. memory'[r] = Absent => snapshot[r] = Broken
        <5>1. log'[r] \in Nat /\ log'[r] > 0
          BY <2>2, <3>2, <4>1
        <5> QED BY <2>4, <4>4, <5>1
      <4>7. snapshot[r] \in {NoSnapshot, Broken} \/ Coherent(snapshot[r])
        BY <2>2, <3>1 DEF Whole
      <4>8. Whole(r)'
        BY <3>1, <4>1, <4>5, <4>6, <4>7 DEF Whole, Loaded, Coherent
      <4> QED BY <3>1, <4>8 DEF Unread
    <3> QED BY <3>4, <3>5
  <2>15. CASE UNCHANGED vars
    BY <2>6, <2>15 DEF vars
  <2> QED BY <1>2, <2>11, <2>12, <2>13, <2>14, <2>15 DEF Next
<1>3. WithinLog /\ WholeRuns /\ [Next]_vars => WholeRuns'
  BY <1>2 DEF WholeRuns
<1>4. WholeRuns => MemoryIsReplay
  BY DEF WholeRuns, MemoryIsReplay, Whole
<1> QED
  BY <1>1, <1>3, <1>4, LogsComeFirst, PTL DEF Spec

(* A snapshot that StartRun mixes with a handler's changes is overwritten  *)
(* by the save the handler has still to make: it holds the engine's lock.  *)
THEOREM MixedSnapshotsAreHealed == Spec => []MixedSnapshotsHeal
<1>1. WholeRuns => MixedSnapshotsHeal
  BY DEF WholeRuns, MixedSnapshotsHeal, Mixed, Whole
<1> QED
  BY <1>1, MemoryIsTheReplay, PTL

=============================================================================
