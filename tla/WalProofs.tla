------------------------------ MODULE WalProofs ------------------------------
(***************************************************************************)
(* Theorems about Wal, for every number of appends, torn writes, crashes   *)
(* and subscribers.                                                        *)
(***************************************************************************)
EXTENDS Wal, NaturalLemmas, SequenceTheorems, TLAPS

(* The scan stops after k lines of the file.                               *)
StopsAfter(file, k) ==
    /\ k \in 0 .. Len(file)
    /\ \A i \in 1 .. k : file[i].kind = "good"
    /\ k < Len(file) => file[k + 1].kind # "good"

-----------------------------------------------------------------------------
(* What the scan finds *)

(* The scan stops somewhere, at one place only, and there the valid length *)
(* is.                                                                     *)
LEMMA ScanStops ==
  ASSUME NEW file \in Lines
  PROVE  /\ StopsAfter(file, ValidLengthOf(file))
         /\ \A k : StopsAfter(file, k) => ValidLengthOf(file) = k
<1>1. Len(file) \in Nat
  BY LenProperties DEF Lines
<1>2. \E k \in 0 .. Len(file) : StopsAfter(file, k)
  <2> DEFINE Bad == {i \in 1 .. Len(file) : file[i].kind # "good"}
  <2>1. CASE Bad = {}
    <3>1. StopsAfter(file, Len(file))
      BY <1>1, <2>1 DEF StopsAfter
    <3> QED BY <1>1, <3>1
  <2>2. CASE Bad # {}
    <3>1. PICK b \in Bad : \A y \in Bad : b <= y
      <4>1. Bad \in SUBSET Nat
        BY <1>1
      <4> HIDE DEF Bad
      <4> QED BY <2>2, <4>1, SetInduction
    <3>2. b - 1 \in 0 .. Len(file) /\ StopsAfter(file, b - 1)
      BY <1>1, <3>1 DEF StopsAfter
    <3> QED BY <3>2
  <2> QED BY <2>1, <2>2
<1>3. ValidLengthOf(file) = CHOOSE k \in 0 .. Len(file) :
            /\ \A i \in 1 .. k : file[i].kind = "good"
            /\ k < Len(file) => file[k + 1].kind # "good"
  BY DEF ValidLengthOf
<1>4. StopsAfter(file, ValidLengthOf(file))
  BY <1>2, <1>3 DEF StopsAfter
<1>5. ASSUME NEW i \in 0 .. Len(file), NEW j \in 0 .. Len(file),
             StopsAfter(file, i), StopsAfter(file, j), i < j
      PROVE  FALSE
  BY <1>1, <1>5 DEF StopsAfter
<1>6. ASSUME NEW k, StopsAfter(file, k) PROVE ValidLengthOf(file) = k
  <2>1. k \in 0 .. Len(file) /\ ValidLengthOf(file) \in 0 .. Len(file)
    BY <1>4, <1>6 DEF StopsAfter
  <2>2. ~(k < ValidLengthOf(file)) /\ ~(ValidLengthOf(file) < k)
    BY <1>4, <1>5, <1>6, <2>1
  <2> QED BY <1>1, <2>1, <2>2
<1> QED
  BY <1>4, <1>6

(* What a write does to the file.                                          *)
LEMMA WriteEffect ==
  ASSUME lines \in Lines, ~terminated => lines # << >>,
         NEW event \in Events, NEW kind \in Kinds, Write(event, kind)
  PROVE  /\ lines' \in Lines /\ lines' # << >>
         /\ terminated => /\ Len(lines') = Len(lines) + 1
                          /\ lines'[Len(lines) + 1] = [event |-> event, kind |-> kind]
                          /\ \A i \in 1 .. Len(lines) : lines'[i] = lines[i]
                          /\ ValidLength' = IF ValidLength = Len(lines) /\ kind = "good"
                                              THEN Len(lines) + 1 ELSE ValidLength
         /\ ~terminated => /\ Len(lines') = Len(lines)
                           /\ \A i \in 1 .. Len(lines) - 1 : lines'[i] = lines[i]
                           /\ ValidLength' = IF ValidLength = Len(lines)
                                               THEN Len(lines) - 1 ELSE ValidLength
<1>1. Len(lines) \in Nat
  BY LenProperties DEF Lines
<1>2. StopsAfter(lines, ValidLength)
  BY ScanStops DEF ValidLength
<1>3. CASE terminated
  <2> DEFINE line == [event |-> event, kind |-> kind]
  <2>1. lines' = Append(lines, line)
    BY <1>3 DEF Write
  <2>2. line \in [event : Events, kind : Kinds] /\ line.event = event /\ line.kind = kind
    OBVIOUS
  <2> HIDE DEF line
  <2>3. /\ Len(lines') = Len(lines) + 1
        /\ lines'[Len(lines) + 1] = line
        /\ \A i \in 1 .. Len(lines) : lines'[i] = lines[i]
    BY <2>1, <2>2, AppendProperties DEF Lines
  <2>4. lines' \in Lines
    BY <2>1, <2>2, AppendProperties DEF Lines
  <2> DEFINE k == IF ValidLength = Len(lines) /\ kind = "good" THEN Len(lines) + 1 ELSE ValidLength
  <2>5. StopsAfter(lines', k)
    BY <1>1, <1>2, <2>2, <2>3 DEF StopsAfter
  <2>6. ValidLength' = k
    <3> HIDE DEF k
    <3> QED BY <2>4, <2>5, ScanStops DEF ValidLength
  <2>7. lines' # << >>
    BY <1>1, <2>3, EmptySeq
  <2> QED BY <1>3, <2>2, <2>3, <2>4, <2>6, <2>7
<1>4. CASE ~terminated
  <2>1. /\ lines' = [lines EXCEPT ![Len(lines)].kind = kind]
        /\ lines # << >> /\ kind # "good"
    BY <1>4 DEF Write
  <2>2. Len(lines) > 0 /\ DOMAIN lines = 1 .. Len(lines)
    BY <1>1, <2>1, EmptySeq, LenProperties DEF Lines
  <2>3. \A i \in 1 .. Len(lines) : lines[i] \in [event : Events, kind : Kinds]
    BY ElementOfSeq DEF Lines
  <2>4. lines' \in [1 .. Len(lines) -> [event : Events, kind : Kinds]]
    BY <1>1, <2>1, <2>2, <2>3
  <2>5. lines' \in Lines /\ Len(lines') = Len(lines)
    BY <1>1, <2>4, SeqDef, LenProperties DEF Lines
  <2>6. /\ \A i \in 1 .. Len(lines) - 1 : lines'[i] = lines[i]
        /\ lines'[Len(lines)].kind # "good"
    BY <1>1, <2>1, <2>2, <2>3
  <2> DEFINE k == IF ValidLength = Len(lines) THEN Len(lines) - 1 ELSE ValidLength
  <2>7. StopsAfter(lines', k)
    <3>1. ValidLength \in 0 .. Len(lines) /\ k \in 0 .. Len(lines) - 1
      <4>1. ValidLength \in 0 .. Len(lines)
        BY <1>2 DEF StopsAfter
      <4>2. Len(lines) - 1 \in 0 .. Len(lines) - 1
        BY <1>1, <2>2
      <4>3. ValidLength # Len(lines) => ValidLength \in 0 .. Len(lines) - 1
        BY <1>1, <4>1
      <4> QED BY <4>1, <4>2, <4>3
    <3>2. \A i \in 1 .. k : lines'[i].kind = "good"
      <4>1. \A i \in 1 .. k : i \in 1 .. ValidLength /\ i \in 1 .. Len(lines) - 1
        BY <1>1, <3>1
      <4> HIDE DEF k
      <4> QED BY <1>2, <2>6, <4>1 DEF StopsAfter
    <3>3. lines'[k + 1].kind # "good"
      <4>1. CASE k = Len(lines) - 1
        BY <1>1, <2>6, <4>1
      <4>2. CASE k # Len(lines) - 1
        <5>1. k = ValidLength /\ k < Len(lines) /\ k + 1 \in 1 .. Len(lines) - 1
          BY <1>1, <3>1, <4>2
        <5> HIDE DEF k
        <5> QED BY <1>2, <2>6, <5>1 DEF StopsAfter
      <4> QED BY <4>1, <4>2
    <3> HIDE DEF k
    <3> QED BY <1>1, <2>5, <3>1, <3>2, <3>3 DEF StopsAfter
  <2>8. ValidLength' = k
    <3> HIDE DEF k
    <3> QED BY <2>5, <2>7, ScanStops DEF ValidLength
  <2>9. lines' # << >>
    BY <2>2, <2>5, EmptySeq
  <2> QED BY <1>4, <2>5, <2>6, <2>8, <2>9
<1> QED
  BY <1>3, <1>4

-----------------------------------------------------------------------------
(* The inductive invariant *)

(* Every valid line that is complete was applied in memory.                *)
CompleteLinesApplied ==
    \A i \in 1 .. ValidLength :
        terminated \/ i < Len(lines) => i <= Len(memory) /\ memory[i] = lines[i].event

(* While the whole file decodes, it has everything the memory ever had.    *)
CleanLogHasMemory ==
    ~Incomplete => /\ Len(memory) <= Len(lines)
                   /\ \A i \in 1 .. Len(memory) : memory[i] = lines[i].event

(* Without torn writes the file is the memory, and only its last line can  *)
(* be one the scanner does not take.                                       *)
UntornLogIsMemory ==
    tears = 0 =>
        /\ terminated
        /\ Len(memory) = Len(lines)
        /\ \A i \in 1 .. Len(lines) : memory[i] = lines[i].event
        /\ ~Incomplete \/ (ValidLength = Len(lines) - 1 /\ lines[Len(lines)].kind = "long")

(* What lacks its newline is a line.                                       *)
LineToContinue == ~terminated => lines # << >>

LogInvariant ==
    /\ LogTypeOK
    /\ CompleteLinesApplied
    /\ CleanLogHasMemory
    /\ UntornLogIsMemory
    /\ LineToContinue

(* The lengths the invariant speaks of are naturals in order; the prefix   *)
(* is the events of the valid lines.                                       *)
LEMMA LogProperties ==
  ASSUME LogTypeOK
  PROVE  /\ lines \in Lines
         /\ Len(lines) \in Nat /\ Len(memory) \in Nat
         /\ ValidLength \in Nat /\ ValidLength <= Len(lines)
         /\ Prefix \in Seq(Events)
         /\ Len(Prefix) = IF Unreadable THEN 0 ELSE ValidLength
         /\ \A i \in 1 .. Len(Prefix) : Prefix[i] = lines[i].event
<1>1. lines \in Lines
  BY DEF LogTypeOK, Lines
<1>2. Len(lines) \in Nat /\ Len(memory) \in Nat
  BY LenProperties DEF LogTypeOK
<1>3. ValidLength \in 0 .. Len(lines)
  BY <1>1, ScanStops DEF ValidLength, StopsAfter
<1>4. \A i \in 1 .. ValidLength : lines[i].event \in Events
  <2>1. \A i \in 1 .. Len(lines) : lines[i] \in [event : Events, kind : Kinds]
    BY <1>1, ElementOfSeq DEF Lines
  <2> QED BY <1>2, <1>3, <2>1
<1> DEFINE n == IF Unreadable THEN 0 ELSE ValidLength
<1>5. n \in Nat /\ n <= ValidLength
  BY <1>2, <1>3
<1>6. Prefix = [i \in 1 .. n |-> lines[i].event]
  BY DEF Prefix
<1> HIDE DEF n
<1>7. Prefix \in [1 .. n -> Events]
  BY <1>2, <1>3, <1>4, <1>5, <1>6
<1>8. Prefix \in Seq(Events) /\ Len(Prefix) = n
  BY <1>5, <1>7, SeqDef, LenProperties
<1>9. \A i \in 1 .. Len(Prefix) : Prefix[i] = lines[i].event
  BY <1>6, <1>8
<1> QED
  BY <1>1, <1>2, <1>3, <1>8, <1>9 DEF n

(* What replays is the beginning of the memory, and without torn writes,   *)
(* while it can be read, the memory.  A restart that loads the run reads a *)
(* log that decodes to its end, which starts with everything the memory    *)
(* had.                                                                    *)
LEMMA LogIsMemory ==
  ASSUME LogInvariant
  PROVE  /\ terminated => IsPrefix(Prefix, memory)
         /\ tears = 0 => memory = [i \in 1 .. Len(lines) |-> lines[i].event]
         /\ tears = 0 => memory = Prefix \/ (Unreadable /\ ValidLength = Len(lines) - 1)
         /\ tears = 0 /\ ~Unreadable => memory = Prefix
         /\ Restart /\ loaded' =>
              /\ ValidLength = Len(lines)
              /\ memory' = Prefix /\ memory' \in Seq(Events) /\ Len(memory') = Len(lines)
              /\ \A i \in 1 .. Len(lines) : memory'[i] = lines[i].event
              /\ Len(memory) <= Len(memory')
              /\ \A i \in 1 .. Len(memory) : memory'[i] = memory[i]
<1>1. /\ LogTypeOK /\ CompleteLinesApplied /\ CleanLogHasMemory
      /\ UntornLogIsMemory /\ LineToContinue
  BY DEF LogInvariant
<1>2. /\ lines \in Lines
      /\ Len(lines) \in Nat /\ Len(memory) \in Nat
      /\ ValidLength \in Nat /\ ValidLength <= Len(lines)
  BY <1>1, LogProperties
<1>3. /\ Prefix \in Seq(Events) /\ Len(Prefix) = IF Unreadable THEN 0 ELSE ValidLength
      /\ \A i \in 1 .. Len(Prefix) : Prefix[i] = lines[i].event
  BY <1>1, LogProperties
<1>4. /\ Len(Prefix) \in Nat /\ Len(Prefix) <= ValidLength
      /\ DOMAIN Prefix = 1 .. Len(Prefix)
  BY <1>2, <1>3, LenProperties
<1>5. memory \in Seq(Events)
  BY <1>1 DEF LogTypeOK
<1> HIDE DEF Prefix
<1>6. ASSUME terminated PROVE IsPrefix(Prefix, memory)
  <2>1. \A i \in 1 .. ValidLength : i <= Len(memory) /\ memory[i] = lines[i].event
    BY <1>1, <1>6 DEF CompleteLinesApplied
  <2>2. Len(Prefix) <= Len(memory)
    BY <1>2, <1>4, <2>1
  <2>3. \A i \in 1 .. Len(Prefix) : Prefix[i] = memory[i]
    BY <1>2, <1>3, <1>4, <2>1
  <2> QED BY <1>4, <2>2, <2>3 DEF IsPrefix
<1>7. ASSUME tears = 0
      PROVE  /\ Len(memory) = Len(lines)
             /\ \A i \in 1 .. Len(lines) : memory[i] = lines[i].event
             /\ ~Incomplete \/ (ValidLength = Len(lines) - 1 /\ lines[Len(lines)].kind = "long")
  BY <1>1, <1>7 DEF UntornLogIsMemory
<1>8. ASSUME tears = 0 PROVE memory = [i \in 1 .. Len(lines) |-> lines[i].event]
  <2>1. DOMAIN memory = 1 .. Len(lines) /\ memory = [i \in DOMAIN memory |-> memory[i]]
    BY <1>5, <1>7, <1>8, LenProperties
  <2> QED BY <1>7, <1>8, <2>1
<1>9. ASSUME tears = 0, ~Unreadable PROVE memory = Prefix
  <2>1. ~Incomplete
    <3>1. ASSUME Incomplete, ValidLength = Len(lines) - 1, lines[Len(lines)].kind = "long"
          PROVE  Unreadable
      <4>1. ValidLength + 1 = Len(lines)
        BY <1>2, <3>1
      <4> QED BY <3>1, <4>1 DEF Unreadable
    <3> QED BY <1>7, <1>9, <3>1
  <2>2. Len(Prefix) = Len(lines)
    BY <1>2, <1>3, <1>9, <2>1 DEF Incomplete
  <2>3. \A i \in 1 .. Len(memory) : memory[i] = Prefix[i]
    BY <1>3, <1>7, <1>9, <2>2
  <2> QED BY <1>3, <1>5, <1>7, <1>9, <2>2, <2>3, SeqEqual
<1>10. ASSUME tears = 0, Unreadable PROVE ValidLength = Len(lines) - 1
  BY <1>7, <1>10 DEF Unreadable
<1>11. ASSUME Restart, loaded'
      PROVE  /\ ValidLength = Len(lines)
             /\ memory' = Prefix /\ memory' \in Seq(Events) /\ Len(memory') = Len(lines)
             /\ \A i \in 1 .. Len(lines) : memory'[i] = lines[i].event
             /\ Len(memory) <= Len(memory')
             /\ \A i \in 1 .. Len(memory) : memory'[i] = memory[i]
  <2>1. ~Incomplete /\ memory' = Prefix
    BY <1>11 DEF Restart
  <2>2. ValidLength = Len(lines) /\ ~Unreadable
    BY <1>2, <2>1 DEF Incomplete, Unreadable
  <2>3. Len(memory) <= Len(lines) /\ \A i \in 1 .. Len(memory) : memory[i] = lines[i].event
    BY <1>1, <2>1 DEF CleanLogHasMemory
  <2>4. \A i \in 1 .. Len(memory) : memory'[i] = memory[i]
    BY <1>2, <1>3, <2>1, <2>2, <2>3
  <2> QED BY <1>2, <1>3, <2>1, <2>2, <2>3, <2>4
<1> QED
  BY <1>6, <1>8, <1>9, <1>10, <1>11

(* The history a subscription starts with is a sequence of events and, of  *)
(* a log whose events are numbered in their order, all after the one       *)
(* named.  What the loop has picked when it is at an event exists, and is  *)
(* what it should be, by induction on that event's place.                  *)
LEMMA HistoryPicks ==
  ASSUME NEW after \in Nat, Prefix \in Seq(Events)
  PROVE  /\ History(after) \in Seq(Events)
         /\ (\A k \in 1 .. Len(Prefix) : Prefix[k].seq = k) /\ after <= Len(Prefix)
                => History(after) = SubSeq(Prefix, after + 1, Len(Prefix))
<1> DEFINE N == Len(Prefix)
           Pick(f, k) == IF k = 0 THEN << >>
                         ELSE IF Prefix[k].seq <= after THEN f[k - 1]
                         ELSE Append(f[k - 1], Prefix[k])
           Picks(f, n) == f = [k \in 0 .. n |-> Pick(f, k)]
           Picked == {n \in Nat : \E f : Picks(f, n)}
<1>1. N \in Nat /\ \A k \in 1 .. N : Prefix[k] \in Events
  BY LenProperties, ElementOfSeq
<1>2. 0 \in Picked
  <2> DEFINE f == [k \in 0 .. 0 |-> << >>]
  <2>1. \A k \in 0 .. 0 : k = 0
    OBVIOUS
  <2>2. Picks(f, 0)
    BY <2>1
  <2> QED BY <2>2
<1>3. ASSUME NEW n \in Picked PROVE n + 1 \in Picked
  <2>1. PICK f : Picks(f, n)
    OBVIOUS
  <2> DEFINE last == IF Prefix[n + 1].seq <= after THEN f[n] ELSE Append(f[n], Prefix[n + 1])
             g == [k \in 0 .. n + 1 |-> IF k <= n THEN f[k] ELSE last]
  <2>2. \A k \in 0 .. n : f[k] = Pick(f, k)
    BY <2>1, Zenon
  <2>3. ASSUME NEW k \in 0 .. n + 1 PROVE g[k] = Pick(g, k)
    <3>1. CASE k = 0
      BY <2>2, <3>1
    <3>2. CASE k \in 1 .. n
      <4>1. k - 1 \in 0 .. n /\ k \in 0 .. n /\ g[k] = f[k] /\ g[k - 1] = f[k - 1]
        BY <3>2
      <4> QED BY <2>2, <3>2, <4>1
    <3>3. CASE k = n + 1
      <4>1. g[k] = last /\ g[k - 1] = f[n] /\ k # 0
        BY <3>3
      <4> QED BY <3>3, <4>1
    <3> QED BY <3>1, <3>2, <3>3
  <2>4. Picks(g, n + 1)
    <3>1. g = [k \in 0 .. n + 1 |-> g[k]]
      OBVIOUS
    <3> HIDE DEF g
    <3>2. [k \in 0 .. n + 1 |-> g[k]] = [k \in 0 .. n + 1 |-> Pick(g, k)]
      BY <2>3, Zenon
    <3> QED BY <3>1, <3>2
  <2> HIDE DEF g, Picks
  <2> QED BY <2>4
<1>4. Picked = Nat
  <2>1. Picked \in SUBSET Nat
    OBVIOUS
  <2> HIDE DEF Picked
  <2> QED BY <1>2, <1>3, <2>1, SetInduction
<1>5. PICK picked : Picks(picked, N) /\ History(after) = picked[N]
  <2> DEFINE picked == CHOOSE f : Picks(f, N)
  <2>1. \E f : Picks(f, N)
    <3> HIDE DEF Picks
    <3> QED BY <1>1, <1>4
  <2>2. Picks(picked, N)
    BY <2>1, Zenon
  <2>3. History(after) = picked[N]
    BY DEF History
  <2> HIDE DEF picked
  <2> QED BY <2>2, <2>3
<1>6. \A k \in 0 .. N : picked[k] = Pick(picked, k)
  BY <1>5, Zenon
<1> DEFINE Numbered == \A k \in 1 .. N : Prefix[k].seq = k
           Right == {n \in Nat : n <= N =>
                        /\ picked[n] \in Seq(Events)
                        /\ Numbered => picked[n] = SubSeq(Prefix, after + 1, n)}
<1>7. 0 \in Right
  <2>1. picked[0] = << >>
    BY <1>1, <1>6
  <2>2. SubSeq(Prefix, after + 1, 0) = << >>
    BY SubSeqEmpty
  <2> QED BY <2>1, <2>2, EmptySeq
<1>8. ASSUME NEW n \in Right PROVE n + 1 \in Right
  <2>1. SUFFICES ASSUME n + 1 <= N
                 PROVE  /\ picked[n + 1] \in Seq(Events)
                        /\ Numbered => picked[n + 1] = SubSeq(Prefix, after + 1, n + 1)
    OBVIOUS
  <2>2. n + 1 \in 0 .. N /\ n + 1 # 0 /\ (n + 1) - 1 = n /\ Prefix[n + 1] \in Events
    BY <1>1, <2>1
  <2>3. picked[n] \in Seq(Events) /\ (Numbered => picked[n] = SubSeq(Prefix, after + 1, n))
    <3>1. n \in Nat /\ n \in Right
      OBVIOUS
    <3>2. n <= N
      BY <1>1, <2>1, <3>1
    <3> HIDE DEF Numbered, N
    <3> QED BY <3>1, <3>2
  <2>4. picked[n + 1] = IF Prefix[n + 1].seq <= after THEN picked[n]
                                                      ELSE Append(picked[n], Prefix[n + 1])
    BY <1>6, <2>2
  <2>5. ASSUME Numbered PROVE picked[n + 1] = SubSeq(Prefix, after + 1, n + 1)
    <3>1. Prefix[n + 1].seq = n + 1
      BY <1>1, <2>1, <2>5
    <3>2. CASE n + 1 <= after
      BY <2>3, <2>4, <2>5, <3>1, <3>2, SubSeqEmpty
    <3>3. CASE ~(n + 1 <= after)
      <4>1. after + 1 \in 1 .. Len(Prefix) /\ n + 1 \in after + 1 .. Len(Prefix)
        BY <1>1, <2>1, <3>3
      <4>2. SubSeq(Prefix, after + 1, n + 1) = SubSeq(Prefix, after + 1, n) \o <<Prefix[n + 1]>>
        BY <2>2, <4>1, SubSeqRecursiveSecond
      <4>3. Append(picked[n], Prefix[n + 1]) = picked[n] \o <<Prefix[n + 1]>>
        BY <2>2, <2>3, AppendIsConcat
      <4> QED BY <2>3, <2>4, <2>5, <3>1, <3>3, <4>2, <4>3
    <3> QED BY <3>2, <3>3
  <2> HIDE DEF Numbered
  <2> QED BY <2>2, <2>3, <2>4, <2>5, AppendProperties, SMTT(30)
<1>9. Right = Nat
  <2>1. Right \in SUBSET Nat
    OBVIOUS
  <2> HIDE DEF Right
  <2> QED BY <1>7, <1>8, <2>1, SetInduction
<1>10. picked[N] \in Seq(Events) /\ (Numbered => picked[N] = SubSeq(Prefix, after + 1, N))
  <2> HIDE DEF Numbered, N
  <2> QED BY <1>1, <1>9
<1> QED
  BY <1>5, <1>10

-----------------------------------------------------------------------------
(* Theorems *)

(* The invariant holds of every reachable state.                           *)
THEOREM LogIsSound == Spec => []LogInvariant
<1>1. Init => LogInvariant
  <2> SUFFICES ASSUME Init PROVE LogInvariant
    OBVIOUS
  <2>1. /\ lines = << >> /\ memory = << >>
        /\ terminated = TRUE /\ loaded = FALSE /\ up = TRUE
        /\ appends = 0 /\ tears = 0 /\ crashes = 0
    BY DEF Init
  <2>2. LogTypeOK
    <3>1. lines \in Seq([event : Events, kind : Kinds]) /\ memory \in Seq(Events)
      BY <2>1, EmptySeq
    <3>2. terminated \in BOOLEAN /\ loaded \in BOOLEAN /\ up \in BOOLEAN
      BY <2>1, Zenon
    <3>3. appends \in 0 .. MaxAppends /\ tears \in 0 .. MaxTears /\ crashes \in 0 .. MaxCrashes
      BY <2>1, WalAssumption
    <3> QED BY <3>1, <3>2, <3>3 DEF LogTypeOK, Lines
  <2>3. Len(lines) = 0 /\ Len(memory) = 0 /\ ValidLength = 0
    <3>1. Len(lines) = 0 /\ Len(memory) = 0
      BY <2>1, EmptySeq
    <3> QED BY <2>2, <3>1, LogProperties
  <2>4. CompleteLinesApplied /\ CleanLogHasMemory
    BY <2>3 DEF CompleteLinesApplied, CleanLogHasMemory
  <2>5. UntornLogIsMemory /\ LineToContinue
    <3>1. terminated /\ ~Incomplete
      BY <2>1, <2>3 DEF Incomplete
    <3> QED BY <2>3, <3>1 DEF UntornLogIsMemory, LineToContinue
  <2> QED
    BY <2>2, <2>4, <2>5 DEF LogInvariant
<1>2. LogInvariant /\ [Next]_vars => LogInvariant'
  <2> SUFFICES ASSUME LogInvariant, [Next]_vars PROVE LogInvariant'
    OBVIOUS
  <2>1. LogTypeOK
    BY DEF LogInvariant
  <2>2. ASSUME UNCHANGED <<lines, terminated, memory, appends, tears>>,
               loaded' \in BOOLEAN, up' \in BOOLEAN, crashes' \in 0 .. MaxCrashes
        PROVE  LogInvariant'
    <3>1. /\ LogTypeOK /\ CompleteLinesApplied /\ CleanLogHasMemory
        /\ UntornLogIsMemory /\ LineToContinue
      BY DEF LogInvariant
    <3>2. LogTypeOK'
      BY <2>2, <3>1 DEF LogTypeOK
    <3>3. ValidLength' = ValidLength /\ (Incomplete' <=> Incomplete)
      BY <2>2 DEF ValidLength, Incomplete
    <3>4. CompleteLinesApplied'
      BY <2>2, <3>1, <3>3 DEF CompleteLinesApplied
    <3>5. CleanLogHasMemory'
      BY <2>2, <3>1, <3>3 DEF CleanLogHasMemory
    <3>6. UntornLogIsMemory' /\ LineToContinue'
      BY <2>2, <3>1, <3>3, Zenon DEF UntornLogIsMemory, LineToContinue
    <3> QED
      BY <3>2, <3>4, <3>5, <3>6 DEF LogInvariant
  <2>3. CASE AppendEvent
    (* Behind a clean log the event is the next line, behind damage it is  *)
    (* in memory alone.                                                    *)
    <3> USE <2>3
    <3>1. /\ LogTypeOK /\ CompleteLinesApplied /\ CleanLogHasMemory
        /\ UntornLogIsMemory /\ LineToContinue
      BY DEF LogInvariant
    <3>2. /\ lines \in Lines
          /\ Len(lines) \in Nat /\ Len(memory) \in Nat
          /\ ValidLength \in Nat /\ ValidLength <= Len(lines)
      BY <3>1, LogProperties
    <3>3. NextEvent \in Events
      BY <3>1, <3>2, WalAssumption DEF NextEvent, Events, LogTypeOK
    <3>4. /\ memory' \in Seq(Events) /\ Len(memory') = Len(memory) + 1
          /\ \A i \in 1 .. Len(memory) : memory'[i] = memory[i]
          /\ memory'[Len(memory) + 1] = NextEvent
      BY <3>1, <3>3, AppendProperties DEF AppendEvent, LogTypeOK
    <3>5. terminated' /\ tears' = tears
      BY DEF AppendEvent
    <3> HIDE DEF NextEvent
    <3>6. PICK kind \in Kinds : (terminated => kind # "bad") /\ Write(NextEvent, kind)
      BY DEF AppendEvent
    <3>7. /\ lines' \in Lines /\ lines' # << >>
          /\ terminated => /\ Len(lines') = Len(lines) + 1
                           /\ lines'[Len(lines) + 1] = [event |-> NextEvent, kind |-> kind]
                           /\ \A i \in 1 .. Len(lines) : lines'[i] = lines[i]
                           /\ ValidLength' = IF ValidLength = Len(lines) /\ kind = "good"
                                               THEN Len(lines) + 1 ELSE ValidLength
          /\ ~terminated => /\ Len(lines') = Len(lines)
                            /\ \A i \in 1 .. Len(lines) - 1 : lines'[i] = lines[i]
                            /\ ValidLength' = IF ValidLength = Len(lines)
                                                THEN Len(lines) - 1 ELSE ValidLength
      BY <3>1, <3>2, <3>3, <3>6, WriteEffect DEF LineToContinue
    <3>8. LogTypeOK'
      <4>1. lines' \in Seq([event : Events, kind : Kinds]) /\ memory' \in Seq(Events)
        BY <3>4, <3>7 DEF Lines
      <4>2. terminated' \in BOOLEAN /\ loaded' \in BOOLEAN /\ up' \in BOOLEAN
        BY <3>1, Zenon DEF AppendEvent, LogTypeOK
      <4>3. appends' \in 0 .. MaxAppends /\ tears' \in 0 .. MaxTears /\ crashes' \in 0 .. MaxCrashes
        <5>1. appends < MaxAppends /\ appends' = appends + 1 /\ tears' = tears /\ crashes' = crashes
          BY DEF AppendEvent, MayAppend
        <5> QED BY <3>1, <5>1, WalAssumption DEF LogTypeOK
      <4> QED BY <4>1, <4>2, <4>3 DEF LogTypeOK, Lines
    <3>9. ASSUME terminated, ValidLength = Len(lines) PROVE LogInvariant'
      <4>1. Len(memory) = Len(lines) /\ \A i \in 1 .. Len(lines) : memory[i] = lines[i].event
        <5>1. \A i \in 1 .. Len(lines) : i <= Len(memory) /\ memory[i] = lines[i].event
          BY <3>1, <3>9 DEF CompleteLinesApplied
        <5>2. Len(memory) <= Len(lines)
          BY <3>1, <3>2, <3>9 DEF CleanLogHasMemory, Incomplete
        <5>3. Len(lines) <= Len(memory)
          BY <3>2, <5>1
        <5> QED BY <3>2, <5>1, <5>2, <5>3
      <4>2. /\ Len(lines') = Len(lines) + 1
            /\ \A i \in 1 .. Len(lines) + 1 : memory'[i] = lines'[i].event
        BY <3>2, <3>4, <3>7, <3>9, <4>1
      <4>3. \/ ValidLength' = Len(lines')
            \/ ValidLength' = Len(lines') - 1 /\ lines'[Len(lines')].kind = "long"
        <5>1. kind = "good" \/ kind = "long"
          BY <3>6, <3>9 DEF Kinds
        <5>2. lines'[Len(lines')].kind = kind
          BY <3>7, <3>9
        <5>3. kind = "good" => ValidLength' = Len(lines')
          BY <3>7, <3>9
        <5>4. kind # "good" => ValidLength' = Len(lines') - 1
          BY <3>2, <3>7, <3>9
        <5> QED BY <5>1, <5>2, <5>3, <5>4
      <4>4. ValidLength' \in Nat /\ ValidLength' <= Len(lines')
        BY <3>2, <4>2, <4>3
      <4>5. CompleteLinesApplied' /\ CleanLogHasMemory'
        BY <3>2, <3>4, <4>1, <4>2, <4>4 DEF CompleteLinesApplied, CleanLogHasMemory
      <4>6. UntornLogIsMemory' /\ LineToContinue'
        BY <3>2, <3>4, <3>5, <3>7, <4>1, <4>2, <4>3
        DEF UntornLogIsMemory, LineToContinue, Incomplete
      <4> QED BY <3>8, <4>5, <4>6 DEF LogInvariant
    <3>10. ASSUME ~(terminated /\ ValidLength = Len(lines)) PROVE LogInvariant'
      <4>1. /\ ValidLength' \in Nat /\ ValidLength' <= ValidLength
            /\ ValidLength' < Len(lines')
            /\ \A i \in 1 .. ValidLength' : /\ lines'[i] = lines[i]
                                            /\ terminated \/ i < Len(lines)
        <5>1. CASE terminated
          BY <3>2, <3>7, <3>10, <5>1
        <5>2. CASE ~terminated
          <6>1. Len(lines) > 0
            BY <3>1, <3>2, <5>2, EmptySeq DEF LineToContinue, Lines
          <6> QED BY <3>2, <3>7, <5>2, <6>1
        <5> QED BY <5>1, <5>2
      <4>2. CompleteLinesApplied'
        <5> SUFFICES ASSUME NEW i \in 1 .. ValidLength'
                     PROVE  i <= Len(memory') /\ memory'[i] = lines'[i].event
          BY DEF CompleteLinesApplied
        <5>1. i \in 1 .. ValidLength /\ lines'[i] = lines[i] /\ (terminated \/ i < Len(lines))
          BY <3>2, <4>1
        <5>2. i <= Len(memory) /\ memory[i] = lines[i].event
          BY <3>1, <5>1 DEF CompleteLinesApplied
        <5> QED BY <3>2, <3>4, <5>1, <5>2
      <4>3. Incomplete'
        BY <4>1 DEF Incomplete
      <4>4. tears # 0
        (* An untorn file that stops early is unreadable, and not written. *)
        <5>1. ASSUME tears = 0 PROVE FALSE
          <6>1. Incomplete /\ ValidLength = Len(lines) - 1 /\ lines[Len(lines)].kind = "long"
            BY <3>1, <3>2, <3>10, <5>1 DEF UntornLogIsMemory, Incomplete
          <6>2. Unreadable
            BY <3>2, <6>1 DEF Unreadable
          <6> QED BY <6>2 DEF AppendEvent, MayAppend
        <5> QED BY <5>1
      <4>5. CleanLogHasMemory' /\ UntornLogIsMemory' /\ LineToContinue'
        BY <3>5, <3>7, <4>3, <4>4 DEF CleanLogHasMemory, UntornLogIsMemory, LineToContinue
      <4> QED BY <3>8, <4>2, <4>5 DEF LogInvariant
    <3> QED
      BY <3>9, <3>10
  <2>4. CASE TornAppend
    (* What a torn write leaves is not complete.                           *)
    <3> USE <2>4
    <3>1. /\ LogTypeOK /\ CompleteLinesApplied /\ CleanLogHasMemory
        /\ UntornLogIsMemory /\ LineToContinue
      BY DEF LogInvariant
    <3>2. /\ lines \in Lines
          /\ Len(lines) \in Nat /\ Len(memory) \in Nat
          /\ ValidLength \in Nat /\ ValidLength <= Len(lines)
      BY <3>1, LogProperties
    <3>3. NextEvent \in Events
      BY <3>1, <3>2, WalAssumption DEF NextEvent, Events, LogTypeOK
    <3>4. memory' = memory
      BY DEF TornAppend
    <3>5. ~terminated' /\ tears' = tears + 1
      BY DEF TornAppend
    <3> HIDE DEF NextEvent
    <3>6. PICK kind \in Kinds : Write(NextEvent, kind)
      BY DEF TornAppend
    <3>7. /\ lines' \in Lines /\ lines' # << >>
          /\ terminated => /\ Len(lines') = Len(lines) + 1
                           /\ lines'[Len(lines) + 1] = [event |-> NextEvent, kind |-> kind]
                           /\ \A i \in 1 .. Len(lines) : lines'[i] = lines[i]
                           /\ ValidLength' = IF ValidLength = Len(lines) /\ kind = "good"
                                               THEN Len(lines) + 1 ELSE ValidLength
          /\ ~terminated => /\ Len(lines') = Len(lines)
                            /\ \A i \in 1 .. Len(lines) - 1 : lines'[i] = lines[i]
                            /\ ValidLength' = IF ValidLength = Len(lines)
                                                THEN Len(lines) - 1 ELSE ValidLength
      BY <3>1, <3>2, <3>3, <3>6, WriteEffect DEF LineToContinue
    <3>8. LogTypeOK'
      <4>1. lines' \in Seq([event : Events, kind : Kinds]) /\ memory' \in Seq(Events)
        BY <3>1, <3>4, <3>7 DEF Lines, LogTypeOK
      <4>2. terminated' \in BOOLEAN /\ loaded' \in BOOLEAN /\ up' \in BOOLEAN
        BY <3>1, Zenon DEF TornAppend, LogTypeOK
      <4>3. appends' \in 0 .. MaxAppends /\ tears' \in 0 .. MaxTears /\ crashes' \in 0 .. MaxCrashes
        <5>1. /\ appends < MaxAppends /\ appends' = appends + 1
              /\ tears < MaxTears /\ tears' = tears + 1
              /\ crashes' = crashes \/ (crashes < MaxCrashes /\ crashes' = crashes + 1)
          BY DEF TornAppend, MayAppend
        <5> QED BY <3>1, <5>1, WalAssumption DEF LogTypeOK
      <4> QED BY <4>1, <4>2, <4>3 DEF LogTypeOK, Lines
    <3>9. Len(lines') \in Nat /\ ValidLength' \in Nat
      BY <3>2, <3>7, <3>8, LogProperties, LenProperties DEF Lines
    <3>10. \A i \in 1 .. ValidLength' : i < Len(lines') =>
                /\ i \in 1 .. ValidLength
                /\ lines'[i] = lines[i]
                /\ terminated \/ i < Len(lines)
      BY <3>2, <3>7, <3>9
    <3>11. CompleteLinesApplied'
      <4> SUFFICES ASSUME NEW i \in 1 .. ValidLength', i < Len(lines')
                   PROVE  i <= Len(memory) /\ memory[i] = lines'[i].event
        BY <3>4, <3>5 DEF CompleteLinesApplied
      <4> QED BY <3>1, <3>10 DEF CompleteLinesApplied
    <3>12. CleanLogHasMemory'
      <4> SUFFICES ASSUME ~(ValidLength' < Len(lines'))
                   PROVE  /\ Len(memory) <= Len(lines')
                          /\ \A i \in 1 .. Len(memory) : memory[i] = lines'[i].event
        BY <3>4 DEF CleanLogHasMemory, Incomplete
      <4>1. terminated /\ ValidLength = Len(lines)
        <5>1. CASE ~terminated
          <6>1. Len(lines) > 0
            BY <3>1, <3>2, <5>1, EmptySeq DEF LineToContinue, Lines
          <6> QED BY <3>2, <3>7, <5>1, <6>1
        <5> QED BY <3>2, <3>7, <5>1
      <4>2. Len(memory) <= Len(lines) /\ \A i \in 1 .. Len(memory) : memory[i] = lines[i].event
        BY <3>1, <3>2, <4>1 DEF CleanLogHasMemory, Incomplete
      <4> QED BY <3>2, <3>7, <4>1, <4>2
    <3>13. UntornLogIsMemory' /\ LineToContinue'
      <4>1. tears' # 0
        BY <3>1, <3>5 DEF LogTypeOK
      <4> QED BY <3>7, <4>1 DEF UntornLogIsMemory, LineToContinue
    <3> QED
      BY <3>8, <3>11, <3>12, <3>13 DEF LogInvariant
  <2>5. ASSUME UNCHANGED <<log, memory, loaded, up, faults>>
        PROVE  LogInvariant'
    <3>1. UNCHANGED <<lines, terminated, memory, loaded, up, appends, tears, crashes>>
      BY <2>5 DEF log, faults
    <3>2. loaded' \in BOOLEAN /\ up' \in BOOLEAN /\ crashes' \in 0 .. MaxCrashes
      BY <2>1, <3>1 DEF LogTypeOK
    <3> QED BY <3>1, <3>2, <2>2
  <2>6. CASE \E i \in Streams : \/ \E after \in 0 .. MaxAppends : Subscribe(i, after)
                                \/ TakeNext(i) \/ Deliver(i) \/ Cancel(i) \/ Leave(i)
    <3>1. UNCHANGED <<log, memory, loaded, up, faults>>
      BY <2>6 DEF Subscribe, TakeNext, Deliver, Cancel, Leave
    <3> QED BY <2>5, <3>1
  <2>7. CASE Crash
    <3>1. UNCHANGED <<lines, terminated, memory, appends, tears>>
      BY <2>7 DEF Crash, log
    <3>2. loaded' \in BOOLEAN /\ up' \in BOOLEAN
      BY <2>7, Zenon DEF Crash
    <3>3. crashes' \in 0 .. MaxCrashes
      <4>1. crashes < MaxCrashes /\ crashes' = crashes + 1
        BY <2>7 DEF Crash
      <4> QED BY <2>1, <4>1, WalAssumption DEF LogTypeOK
    <3> QED BY <3>1, <3>2, <3>3, <2>2
  <2>8. CASE Restart
    <3>1. /\ LogTypeOK /\ CompleteLinesApplied /\ CleanLogHasMemory
        /\ UntornLogIsMemory /\ LineToContinue
      BY DEF LogInvariant
    <3>2. UNCHANGED <<lines, terminated, appends, tears, crashes>>
      BY <2>8 DEF Restart, log, faults
    <3>3. loaded' \in BOOLEAN /\ up' \in BOOLEAN
      <4>1. up' = TRUE /\ loaded' = (~Incomplete /\ Prefix # << >>)
        BY <2>8 DEF Restart
      <4> QED BY <4>1, Zenon
    <3>4. CASE loaded'
      <4>1. /\ lines \in Lines /\ Len(lines) \in Nat
            /\ ValidLength = Len(lines) /\ memory' \in Seq(Events) /\ Len(memory') = Len(lines)
            /\ \A i \in 1 .. Len(lines) : memory'[i] = lines[i].event
        BY <2>8, <3>1, <3>4, LogProperties, LogIsMemory
      <4>2. ValidLength' = ValidLength /\ (Incomplete' <=> Incomplete)
        BY <3>2 DEF ValidLength, Incomplete
      <4>3. LogTypeOK'
        BY <3>1, <3>2, <3>3, <4>1 DEF LogTypeOK
      <4>4. CompleteLinesApplied' /\ CleanLogHasMemory'
        BY <3>2, <4>1, <4>2 DEF CompleteLinesApplied, CleanLogHasMemory
      <4>5. UntornLogIsMemory' /\ LineToContinue'
        <5>1. Len(memory') = Len(lines') /\ \A i \in 1 .. Len(lines') : memory'[i] = lines'[i].event
          BY <3>2, <4>1
        <5>2. ~Incomplete'
          BY <4>1, <4>2 DEF Incomplete
        <5>3. tears' = 0 => terminated'
          BY <3>1, <3>2 DEF UntornLogIsMemory
        <5>4. LineToContinue'
          BY <3>1, <3>2 DEF LineToContinue
        <5> QED BY <5>1, <5>2, <5>3, <5>4 DEF UntornLogIsMemory
      <4> QED BY <4>3, <4>4, <4>5 DEF LogInvariant
    <3>5. CASE ~loaded'
      <4>1. memory' = memory
        BY <2>8, <3>5, Zenon DEF Restart
      <4>2. crashes' \in 0 .. MaxCrashes
        BY <3>1, <3>2 DEF LogTypeOK
      <4> QED BY <3>2, <3>3, <4>1, <4>2, <2>2
    <3> QED
      BY <3>4, <3>5
  <2>9. CASE UNCHANGED vars
    <3>1. UNCHANGED <<log, memory, loaded, up, faults>>
      BY <2>9 DEF vars, log, faults
    <3> QED BY <2>5, <3>1
  <2> QED
    BY <2>3, <2>4, <2>6, <2>7, <2>8, <2>9 DEF Next
<1> QED
  BY <1>1, <1>2, PTL DEF Spec

(* Replaying a run's log never yields an event the handlers do not know.   *)
(* Without torn writes the file is the memory, and replaying it yields the *)
(* memory unless its last event is a line the scanner does not take: then  *)
(* it yields nothing, and nothing was appended since.                      *)
THEOREM MemoryCovers == Spec => []MemoryCoversLog
<1>1. LogInvariant => MemoryCoversLog
  BY LogIsMemory DEF MemoryCoversLog
<1> QED
  BY <1>1, LogIsSound, PTL

(* A run that becomes loaded again has everything its memory ever had.     *)
THEOREM RestartForgets == Spec => RestartForgetsNothing
<1>1. ASSUME LogInvariant, [Next]_vars, ~loaded, loaded'
      PROVE  IsPrefix(memory, memory')
  <2>1. LogTypeOK /\ CleanLogHasMemory
    BY <1>1 DEF LogInvariant
  <2>2. /\ lines \in Lines
        /\ Len(lines) \in Nat /\ Len(memory) \in Nat
        /\ ValidLength \in Nat /\ ValidLength <= Len(lines)
    BY <2>1, LogProperties
  <2>3. DOMAIN memory = 1 .. Len(memory)
    BY <2>1, LenProperties DEF LogTypeOK
  <2>4. CASE AppendEvent
    <3>1. Len(lines) = 0
      BY <1>1, <2>4, EmptySeq DEF AppendEvent, MayAppend
    <3>2. Len(memory) = 0
      BY <2>1, <2>2, <3>1 DEF CleanLogHasMemory, Incomplete
    <3>3. Len(memory') \in Nat
      <4>1. NextEvent \in Events
        BY <2>1, <2>2, WalAssumption DEF NextEvent, Events, LogTypeOK
      <4>2. memory' = Append(memory, NextEvent)
        BY <2>4 DEF AppendEvent
      <4> QED BY <2>1, <4>1, <4>2, AppendProperties, LenProperties DEF LogTypeOK
    <3> QED BY <2>3, <3>2, <3>3 DEF IsPrefix
  <2>5. CASE Restart
    <3>1. Len(memory) <= Len(memory') /\ \A i \in 1 .. Len(memory) : memory'[i] = memory[i]
      BY <1>1, <2>5, LogIsMemory
    <3> QED BY <2>3, <3>1 DEF IsPrefix
  <2>6. AppendEvent \/ Restart
    <3>1. ASSUME TornAppend \/ Crash PROVE FALSE
      BY <1>1, <3>1 DEF TornAppend, Crash
    <3>2. ASSUME NEW i \in Streams, \/ \E after \in 0 .. MaxAppends : Subscribe(i, after)
                                    \/ TakeNext(i) \/ Deliver(i) \/ Cancel(i) \/ Leave(i)
          PROVE  FALSE
      BY <1>1, <3>2 DEF Subscribe, TakeNext, Deliver, Cancel, Leave
    <3>3. ASSUME UNCHANGED vars PROVE FALSE
      BY <1>1, <3>3 DEF vars
    <3> QED BY <1>1, <3>1, <3>2, <3>3 DEF Next
  <2> QED BY <2>4, <2>5, <2>6
<1>2. LogInvariant /\ [Next]_vars => [~loaded /\ loaded' => IsPrefix(memory, memory')]_vars
  BY <1>1
<1> QED
  BY <1>2, LogIsSound, PTL DEF Spec, RestartForgetsNothing

-----------------------------------------------------------------------------
(* Subscribers *)

(* Everything is well typed: a subscriber queues and hands over events.    *)
THEOREM WalTypeCorrect == Spec => []TypeOK
<1> DEFINE Typed == stream \in [Streams -> StreamRecords]
<1>1. Idle \in StreamRecords
  BY EmptySeq DEF Idle, StreamRecords
<1>2. Init => Typed
  BY <1>1 DEF Init
<1>3. ASSUME LogInvariant, Typed, [Next]_vars PROVE Typed'
  <2>1. LogTypeOK /\ ValidLength \in Nat /\ lines \in Lines
    BY <1>3, LogProperties DEF LogInvariant
  <2>2. CASE AppendEvent
    <3> DEFINE event == NextEvent
    <3>1. event \in Events
      BY <2>1, WalAssumption DEF NextEvent, Events, LogTypeOK
    <3>2. stream' = Broadcast(event)
      BY <2>2 DEF AppendEvent
    <3> HIDE DEF event
    <3>3. ASSUME NEW i \in Streams
          PROVE  [stream[i] EXCEPT !.pending = Append(@, event)] \in StreamRecords
      <4>1. stream[i] \in StreamRecords
        BY <1>3
      <4>2. Append(stream[i].pending, event) \in Seq(Events)
        BY <3>1, <4>1, AppendProperties DEF StreamRecords
      <4> QED BY <4>1, <4>2 DEF StreamRecords
    <3> QED BY <1>3, <3>2, <3>3 DEF Broadcast
  <2>3. CASE TornAppend \/ Crash
    <3>1. stream' = stream \/ stream' = [i \in Streams |-> Idle]
      BY <2>3 DEF TornAppend, Crash
    <3> QED BY <1>1, <1>3, <3>1
  <2>4. ASSUME NEW i \in Streams, NEW after \in 0 .. MaxAppends, Subscribe(i, after) PROVE Typed'
    <3>1. after \in Nat
      BY <2>4, WalAssumption
    <3>2. History(after) \in Seq(Events)
      BY <2>1, <3>1, LogProperties, HistoryPicks
    <3>3. stream' = [stream EXCEPT ![i] =
              [Idle EXCEPT !.state = "open", !.after = after, !.pending = History(after)]]
      BY <2>4 DEF Subscribe
    <3>4. [Idle EXCEPT !.state = "open", !.after = after, !.pending = History(after)]
            \in StreamRecords
      BY <1>1, <3>1, <3>2 DEF StreamRecords
    <3> QED BY <1>3, <3>3, <3>4
  <2>5. ASSUME NEW i \in Streams, TakeNext(i) \/ Deliver(i) \/ Cancel(i) \/ Leave(i) PROVE Typed'
    <3> DEFINE sub == stream[i]
    <3>1. sub \in StreamRecords
      BY <1>3
    <3>2. CASE TakeNext(i)
      <4>1. /\ sub.pending # << >> /\ sub.pending \in Seq(Events)
            /\ stream' = [stream EXCEPT ![i] =
                            [sub EXCEPT !.hand = Head(sub.pending), !.pending = Tail(sub.pending)]]
        BY <1>3, <3>1, <3>2 DEF TakeNext, StreamRecords
      <4>2. Head(sub.pending) \in Events /\ Tail(sub.pending) \in Seq(Events)
        BY <4>1, HeadTailProperties
      <4>3. [sub EXCEPT !.hand = Head(sub.pending), !.pending = Tail(sub.pending)] \in StreamRecords
        BY <3>1, <4>2 DEF StreamRecords
      <4> HIDE DEF sub
      <4> QED BY <1>3, <4>1, <4>3
    <3>3. CASE Deliver(i)
      <4>1. /\ sub.hand \in Events /\ sub.received \in Seq(Events)
            /\ stream' = [stream EXCEPT ![i] =
                        [sub EXCEPT !.hand = NoEvent, !.received = Append(sub.received, sub.hand)]]
        BY <1>3, <3>1, <3>3 DEF Deliver, StreamRecords
      <4>2. Append(sub.received, sub.hand) \in Seq(Events)
        BY <4>1, AppendProperties
      <4>3. [sub EXCEPT !.hand = NoEvent, !.received = Append(sub.received, sub.hand)]
              \in StreamRecords
        BY <3>1, <4>2 DEF StreamRecords
      <4> HIDE DEF sub
      <4> QED BY <1>3, <4>1, <4>3
    <3>4. CASE Cancel(i)
      <4>1. stream' = [stream EXCEPT ![i] = [sub EXCEPT !.state = "closed"]]
        BY <1>3, <3>4 DEF Cancel
      <4>2. [sub EXCEPT !.state = "closed"] \in StreamRecords
        BY <3>1 DEF StreamRecords
      <4> HIDE DEF sub
      <4> QED BY <1>3, <4>1, <4>2
    <3>5. CASE Leave(i)
      BY <1>1, <1>3, <3>5 DEF Leave
    <3> QED BY <2>5, <3>2, <3>3, <3>4, <3>5
  <2>6. CASE Restart \/ UNCHANGED vars
    BY <1>3, <2>6 DEF Restart, vars
  <2> QED BY <1>3, <2>2, <2>3, <2>4, <2>5, <2>6 DEF Next
<1>4. LogInvariant /\ Typed => TypeOK
  BY DEF LogInvariant, TypeOK
<1> HIDE DEF Typed
<1> QED
  BY <1>2, <1>3, <1>4, LogIsSound, PTL DEF Spec

(* The event in the goroutine's hand, if any.                              *)
Held(sub) == IF sub.hand = NoEvent THEN << >> ELSE <<sub.hand>>

(* What a subscriber got, will get or still waits for, in order.           *)
Taken(sub) == sub.received \o Held(sub) \o sub.pending

(* The events are numbered in the order they were applied, and an open     *)
(* subscriber has those after the one it named.                            *)
StreamsHold ==
    tears = 0 =>
        /\ \A k \in 1 .. Len(memory) : memory[k].seq = k
        /\ \A i \in Streams : stream[i].state = "open" =>
                /\ stream[i].after <= Len(memory)
                /\ Taken(stream[i]) = SubSeq(memory, stream[i].after + 1, Len(memory))

(* A subscriber gets every event after the one it named, once and in       *)
(* order, as long as no write was torn.  Append keeps this because the     *)
(* live event goes behind the queue, Subscribe because the log is then the *)
(* memory, numbered from 1.                                                *)
THEOREM StreamsAreContiguous == Spec => []StreamIsContiguous
<1>1. Init => StreamsHold
  <2> SUFFICES ASSUME Init PROVE StreamsHold
    OBVIOUS
  <2>1. memory = << >> /\ stream = [i \in Streams |-> Idle]
    BY DEF Init
  <2> QED BY <2>1 DEF StreamsHold, Idle
<1>2. ASSUME StreamsHold, TypeOK, TypeOK', LogInvariant, [Next]_vars, tears' = 0 PROVE StreamsHold'
  <2>1. tears = 0 /\ ~TornAppend
    <3>1. tears \in Nat
      BY <1>2, WalAssumption DEF TypeOK, LogTypeOK
    <3>2. ~TornAppend
      BY <1>2, <3>1 DEF TornAppend
    <3> QED
      BY <1>2, <3>2
      DEF Next, AppendEvent, Subscribe, TakeNext, Deliver, Cancel, Leave, Crash, Restart,
          vars, faults
  <2>2. /\ memory \in Seq(Events) /\ Len(memory) \in Nat
        /\ ~Unreadable => memory = Prefix /\ Len(memory) = ValidLength
        /\ Unreadable => Prefix = << >>
    <3>1. LogTypeOK /\ lines \in Lines /\ Len(memory) \in Nat
      BY <1>2, LogProperties DEF LogInvariant
    <3>2. Prefix \in Seq(Events) /\ Len(Prefix) = IF Unreadable THEN 0 ELSE ValidLength
      BY <3>1, LogProperties
    <3>3. ~Unreadable => memory = Prefix
      BY <1>2, <2>1, LogIsMemory
    <3>4. Unreadable => Prefix = << >>
      BY <3>2, EmptySeq
    <3> QED BY <3>1, <3>2, <3>3, <3>4 DEF LogTypeOK
  <2>3. /\ \A k \in 1 .. Len(memory) : memory[k].seq = k
        /\ \A i \in Streams : stream[i].state = "open" =>
                /\ stream[i].after <= Len(memory)
                /\ Taken(stream[i]) = SubSeq(memory, stream[i].after + 1, Len(memory))
    BY <1>2, <2>1 DEF StreamsHold
  <2>4. \A i \in Streams : stream[i] \in StreamRecords
    BY <1>2 DEF TypeOK
  <2>5. \A sub \in StreamRecords :
          /\ sub.received \in Seq(Events) /\ Held(sub) \in Seq(Events)
          /\ sub.pending \in Seq(Events) /\ sub.after \in Nat
    BY EmptySeq DEF StreamRecords, Held
  <2>6. \A q, r, s \in Seq(Events) : (q \o r) \o s = q \o (r \o s)
    BY ConcatAssociative
  <2>7. CASE AppendEvent
    <3> DEFINE event == NextEvent
    <3>1. event \in Events /\ event.seq = Len(memory) + 1
      <4>1. ~Unreadable
        BY <2>7 DEF AppendEvent, MayAppend
      <4>2. ValidLength = Len(memory) /\ ValidLength \in Nat /\ appends \in Nat
        BY <1>2, <2>2, <4>1 DEF TypeOK, LogTypeOK
      <4> QED BY <4>2, WalAssumption DEF NextEvent, Events
    <3>2. memory' = Append(memory, event) /\ stream' = Broadcast(event)
      BY <2>7 DEF AppendEvent
    <3> HIDE DEF event
    <3>3. /\ memory' \in Seq(Events) /\ Len(memory') = Len(memory) + 1
          /\ \A k \in 1 .. Len(memory) : memory'[k] = memory[k]
          /\ memory'[Len(memory) + 1] = event
      BY <2>2, <3>1, <3>2, AppendProperties
    <3>4. \A k \in 1 .. Len(memory') : memory'[k].seq = k
      BY <2>2, <2>3, <3>1, <3>3
    <3>5. ASSUME NEW i \in Streams, stream'[i].state = "open"
          PROVE  /\ stream'[i].after <= Len(memory')
                 /\ Taken(stream'[i]) = SubSeq(memory', stream'[i].after + 1, Len(memory'))
      <4> DEFINE sub == stream[i]
                 x   == [sub EXCEPT !.pending = Append(sub.pending, event)]
      <4>1. sub.state = "open" /\ stream'[i] = x
        BY <1>2, <3>2, <3>5 DEF Broadcast
      <4>2. sub \in StreamRecords /\ sub.after <= Len(memory)
            /\ Taken(sub) = SubSeq(memory, sub.after + 1, Len(memory))
        BY <2>3, <2>4, <4>1
      <4>3. /\ x.after = sub.after /\ x.received = sub.received /\ x.hand = sub.hand
            /\ x.pending = Append(sub.pending, event)
        BY <4>2 DEF StreamRecords
      <4> HIDE DEF sub, x
      <4>4. /\ sub.received \in Seq(Events) /\ Held(sub) \in Seq(Events)
            /\ sub.pending \in Seq(Events) /\ sub.after \in Nat /\ Held(x) = Held(sub)
        BY <2>5, <4>2, <4>3 DEF Held
      <4>5. Taken(x) = Taken(sub) \o <<event>>
        <5>1. x.pending = sub.pending \o <<event>> /\ <<event>> \in Seq(Events)
          BY <3>1, <4>3, <4>4, AppendIsConcat
        <5>2. sub.received \o Held(sub) \in Seq(Events)
          BY <4>4, ConcatProperties
        <5>3. (sub.received \o Held(sub)) \o (sub.pending \o <<event>>)
                = ((sub.received \o Held(sub)) \o sub.pending) \o <<event>>
          BY <4>4, <5>1, <5>2, <2>6
        <5> QED BY <4>3, <4>4, <5>1, <5>3 DEF Taken
      <4>6. SubSeq(memory', sub.after + 1, Len(memory) + 1)
              = SubSeq(memory', sub.after + 1, Len(memory)) \o <<event>>
        <5>1. /\ sub.after + 1 \in 1 .. Len(memory')
              /\ Len(memory) + 1 \in sub.after + 1 .. Len(memory')
          BY <2>2, <3>3, <4>2, <4>4
        <5>2. (Len(memory) + 1) - 1 = Len(memory)
          BY <2>2
        <5> QED BY <3>3, <5>1, <5>2, SubSeqRecursiveSecond
      <4>7. SubSeq(memory', sub.after + 1, Len(memory)) = SubSeq(memory, sub.after + 1, Len(memory))
        <5> DEFINE old == SubSeq(memory, sub.after + 1, Len(memory))
                   new == SubSeq(memory', sub.after + 1, Len(memory))
                   l   == Len(memory)
                   m   == sub.after + 1
        <5>1. /\ m \in Int /\ l \in Int
              /\ \A k \in m .. l : memory[k] \in Events /\ memory'[k] = memory[k]
          BY <2>2, <3>3, <4>4, ElementOfSeq
        <5>2. /\ old \in Seq(Events) /\ Len(old) = IF m <= l THEN l - m + 1 ELSE 0
              /\ \A k \in 1 .. l - m + 1 : old[k] = memory[m + k - 1]
          <6> HIDE DEF l, m
          <6> QED BY <5>1, SubSeqProperties DEF l, m
        <5>3. /\ new \in Seq(Events) /\ Len(new) = IF m <= l THEN l - m + 1 ELSE 0
              /\ \A k \in 1 .. l - m + 1 : new[k] = memory'[m + k - 1]
          BY <5>1, SubSeqProperties
        <5> HIDE DEF old, new, l, m
        <5>4. \A k \in 1 .. Len(old) : k \in 1 .. l - m + 1 /\ m + k - 1 \in m .. l
          BY <5>1, <5>2
        <5>5. \A k \in 1 .. Len(old) : old[k] = new[k]
          BY <5>1, <5>2, <5>3, <5>4
        <5>6. old = new
          BY <5>2, <5>3, <5>5, SeqEqual
        <5> QED BY <5>6 DEF old, new, l, m
      <4>8. Taken(x) = SubSeq(memory', x.after + 1, Len(memory'))
        BY <3>3, <4>2, <4>3, <4>5, <4>6, <4>7
      <4> QED BY <2>2, <3>3, <4>1, <4>2, <4>3, <4>4, <4>8
    <3> QED BY <3>4, <3>5 DEF StreamsHold
  <2>8. ASSUME memory' = memory, NEW i \in Streams,
               \A j \in Streams \ {i} : stream'[j] = stream[j],
               stream'[i].state = "open" =>
                   /\ stream'[i].after <= Len(memory)
                   /\ Taken(stream'[i]) = SubSeq(memory, stream'[i].after + 1, Len(memory))
        PROVE  StreamsHold'
    BY <2>3, <2>8 DEF StreamsHold
  <2>9. ASSUME NEW i \in Streams, NEW after \in 0 .. MaxAppends, Subscribe(i, after)
        PROVE  StreamsHold'
    <3> DEFINE x == [Idle EXCEPT !.state = "open", !.after = after, !.pending = History(after)]
    <3>1. /\ stream' = [stream EXCEPT ![i] = x] /\ memory' = memory
          /\ memory = Prefix /\ after <= Len(memory)
      BY <2>2, <2>9 DEF Subscribe
    <3>2. stream'[i] = x /\ \A j \in Streams \ {i} : stream'[j] = stream[j]
      BY <1>2, <3>1 DEF TypeOK
    <3>3. after \in Nat
      BY <2>9, WalAssumption
    <3>4. /\ History(after) \in Seq(Events)
          /\ History(after) = SubSeq(memory, after + 1, Len(memory))
      BY <2>2, <2>3, <3>1, <3>3, HistoryPicks
    <3>5. /\ x.received = << >> /\ x.hand = NoEvent /\ x.after = after
          /\ x.pending = History(after)
      BY DEF Idle
    <3> HIDE DEF x
    <3>6. Taken(x) = (<< >> \o << >>) \o History(after)
      BY <3>5 DEF Taken, Held
    <3>7. << >> \o << >> = << >> /\ << >> \o History(after) = History(after)
      BY <3>4, EmptySeq, ConcatEmptySeq
    <3> QED BY <2>8, <3>1, <3>2, <3>4, <3>5, <3>6, <3>7
  <2>10. ASSUME NEW i \in Streams, TakeNext(i) PROVE StreamsHold'
    <3> DEFINE sub == stream[i]
               x   == [sub EXCEPT !.hand = Head(sub.pending), !.pending = Tail(sub.pending)]
    <3>1. /\ sub.hand = NoEvent /\ sub.pending # << >>
          /\ stream' = [stream EXCEPT ![i] = x] /\ memory' = memory
      BY <2>10 DEF TakeNext
    <3>2. stream'[i] = x /\ \A j \in Streams \ {i} : stream'[j] = stream[j]
      BY <1>2, <3>1 DEF TypeOK
    <3>3. sub \in StreamRecords
      BY <2>4
    <3>4. /\ x.state = sub.state /\ x.after = sub.after /\ x.received = sub.received
          /\ x.hand = Head(sub.pending) /\ x.pending = Tail(sub.pending)
      BY <3>3 DEF StreamRecords
    <3>5. sub.state = "open" => sub.after <= Len(memory)
                                /\ Taken(sub) = SubSeq(memory, sub.after + 1, Len(memory))
      BY <2>3
    <3> HIDE DEF sub, x
    <3>6. sub.received \in Seq(Events) /\ sub.pending \in Seq(Events)
      BY <2>5, <3>3
    <3>7. x.hand \in Events /\ x.pending \in Seq(Events) /\ sub.pending = <<x.hand>> \o x.pending
      <4>1. Len(sub.pending) \in Nat \ {0} /\ Head(sub.pending) = sub.pending[1]
        BY <3>1, <3>6, EmptySeq
      <4>2. SubSeq(sub.pending, 1, Len(sub.pending))
              = <<sub.pending[1]>> \o SubSeq(sub.pending, 1 + 1, Len(sub.pending))
        BY <3>6, <4>1, SubSeqRecursiveFirst
      <4> QED BY <3>1, <3>4, <3>6, <4>1, <4>2, HeadTailProperties, TailIsSubSeq, SubSeqFull
    <3>8. Held(sub) = << >> /\ Held(x) = <<x.hand>>
      <4>1. x.hand # NoEvent
        <5>1. DOMAIN << >> = {}
          OBVIOUS
        <5>2. "seq" \in DOMAIN x.hand
          BY <3>7 DEF Events
        <5> QED BY <5>1, <5>2 DEF NoEvent
      <4> QED BY <3>1, <4>1 DEF Held
    <3>9. Taken(x) = Taken(sub)
      <4>1. <<x.hand>> \in Seq(Events) /\ sub.received \o << >> = sub.received
        BY <3>6, <3>7, ConcatEmptySeq
      <4>2. (sub.received \o <<x.hand>>) \o x.pending = sub.received \o (<<x.hand>> \o x.pending)
        BY <3>6, <3>7, <4>1, <2>6
      <4> QED BY <3>4, <3>7, <3>8, <4>1, <4>2 DEF Taken
    <3> QED BY <2>8, <3>1, <3>2, <3>4, <3>5, <3>9
  <2>11. ASSUME NEW i \in Streams, Deliver(i) PROVE StreamsHold'
    <3> DEFINE sub == stream[i]
               x   == [sub EXCEPT !.hand = NoEvent, !.received = Append(sub.received, sub.hand)]
    <3>1. /\ sub.hand # NoEvent
          /\ stream' = [stream EXCEPT ![i] = x] /\ memory' = memory
      BY <2>11 DEF Deliver
    <3>2. stream'[i] = x /\ \A j \in Streams \ {i} : stream'[j] = stream[j]
      BY <1>2, <3>1 DEF TypeOK
    <3>3. sub \in StreamRecords
      BY <2>4
    <3>4. /\ x.state = sub.state /\ x.after = sub.after /\ x.pending = sub.pending
          /\ x.hand = NoEvent /\ x.received = Append(sub.received, sub.hand)
          /\ sub.hand \in Events
      BY <3>1, <3>3 DEF StreamRecords
    <3>5. sub.state = "open" => sub.after <= Len(memory)
                                /\ Taken(sub) = SubSeq(memory, sub.after + 1, Len(memory))
      BY <2>3
    <3> HIDE DEF sub, x
    <3>6. Taken(x) = Taken(sub)
      <4>1. Held(sub) = <<sub.hand>> /\ Held(x) = << >> /\ sub.received \in Seq(Events)
        BY <2>5, <3>1, <3>3, <3>4 DEF Held
      <4>2. x.received = sub.received \o <<sub.hand>> /\ x.received \in Seq(Events)
        BY <3>4, <4>1, AppendIsConcat, AppendProperties
      <4>3. x.received \o << >> = x.received
        BY <4>2, ConcatEmptySeq
      <4> QED BY <3>4, <4>1, <4>2, <4>3 DEF Taken
    <3> QED BY <2>8, <3>1, <3>2, <3>4, <3>5, <3>6
  <2>12. ASSUME NEW i \in Streams, Cancel(i) \/ Leave(i) PROVE StreamsHold'
    <3>1. /\ memory' = memory /\ stream'[i].state # "open"
          /\ \A j \in Streams \ {i} : stream'[j] = stream[j]
      BY <1>2, <2>4, <2>12 DEF Cancel, Leave, Idle, TypeOK, StreamRecords
    <3> QED BY <2>8, <3>1
  <2>13. CASE Crash
    BY <2>3, <2>13 DEF Crash, StreamsHold, Idle
  <2>14. CASE Restart
    <3>1. stream' = stream /\ (memory' = memory \/ (~Incomplete /\ memory' = Prefix))
      BY <2>14 DEF Restart
    <3>2. memory' = memory
      BY <2>2, <3>1 DEF Unreadable
    <3> QED BY <2>3, <3>1, <3>2 DEF StreamsHold
  <2>15. CASE UNCHANGED vars
    BY <2>3, <2>15 DEF vars, StreamsHold
  <2> QED
    BY <1>2, <2>1, <2>7, <2>9, <2>10, <2>11, <2>12, <2>13, <2>14, <2>15 DEF Next
<1>3. StreamsHold /\ TypeOK /\ TypeOK' /\ LogInvariant /\ [Next]_vars => StreamsHold'
  BY <1>2 DEF StreamsHold
<1>4. StreamsHold => StreamIsContiguous
  BY DEF StreamsHold, StreamIsContiguous, Taken, Held
<1> QED
  BY <1>1, <1>3, <1>4, WalTypeCorrect, LogIsSound, PTL DEF Spec
=============================================================================
