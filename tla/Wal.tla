-------------------------------- MODULE Wal --------------------------------
(***************************************************************************)
(* The write-ahead log of one run (internal/wal/wal.go), the subscribers   *)
(* to it, and the engine's use of it: the events applied in memory and the *)
(* reload at startup.                                                      *)
(*                                                                         *)
(* The file is a sequence of lines.  A line decodes, does not decode, or   *)
(* is longer than the scanner takes (bufio.Scanner, 64 KiB), which Append  *)
(* does not look at when it writes.  The last line may lack its newline,   *)
(* because a write failed or the process died part of the way, and the     *)
(* next write then goes on in the same line.  Nothing repairs or truncates *)
(* the file.  An event is its sequence number and an identity; the         *)
(* encoding, checksums and the directory are left out.                     *)
(***************************************************************************)
EXTENDS Naturals, Sequences

CONSTANTS
    Streams,     \* subscriptions a client may open
    MaxAppends,  \* bound: appends
    MaxTears,    \* bound: writes that end part of the way
    MaxCrashes,  \* bound: process crashes
    LongLines    \* a line may be longer than the scanner takes

ASSUME WalAssumption ==
    /\ {MaxAppends, MaxTears, MaxCrashes} \subseteq Nat
    /\ LongLines \in BOOLEAN

VARIABLES
    lines,       \* the file: [event, kind]
    terminated,  \* the last line ends in a newline
    memory,      \* the events applied to the run in memory, or, while it is
                 \* not loaded, those it last had
    loaded,      \* the run is in the engine's map
    up,          \* the process is running
    stream,      \* stream[i]: the subscriber, its client's side included
    appends, tears, crashes

log == <<lines, terminated>>
faults == <<appends, tears, crashes>>
vars == <<lines, terminated, memory, loaded, up, stream, appends, tears, crashes>>

Events == [seq : Nat \ {0}, id : Nat]

(* A line is good when its checksum is right and its payload decodes to    *)
(* the type its event names.                                               *)
Kinds == {"good", "bad"} \cup IF LongLines THEN {"long"} ELSE {}

Lines == Seq([event : Events, kind : Kinds])

-----------------------------------------------------------------------------
(* scanLocked.  It reads up to the first line that is not good.            *)

ValidLengthOf(file) ==
    CHOOSE k \in 0 .. Len(file) :
        /\ \A i \in 1 .. k : file[i].kind = "good"
        /\ k < Len(file) => file[k + 1].kind # "good"

ValidLength == ValidLengthOf(lines)

(* It reports an error: ErrCorruptTail, or the scanner's own.              *)
Incomplete == ValidLength < Len(lines)

(* The scanner's own error, which its callers do not get past.             *)
Unreadable == Incomplete /\ lines[ValidLength + 1].kind = "long"

(* What it returns: beside the scanner's error nothing.                    *)
Prefix == [i \in 1 .. IF Unreadable THEN 0 ELSE ValidLength |-> lines[i].event]

-----------------------------------------------------------------------------
(* Subscribers.  The queue is unbounded; one goroutine takes its head and  *)
(* hands it to the reader, or leaves when the subscription was cancelled.  *)

NoEvent == << >>

Idle == [state |-> "idle", after |-> 0, pending |-> << >>, hand |-> NoEvent, received |-> << >>]

Subscribed(i) == stream[i].state # "idle"

(* Mutation: a subscriber with a backlog misses the live event.            *)
BroadcastToEmpty(event) ==
    [i \in Streams |->
        IF stream[i].state = "open" /\ stream[i].pending = << >>
          THEN [stream[i] EXCEPT !.pending = Append(@, event)]
          ELSE stream[i]]

Broadcast(event) ==
    [i \in Streams |->
        IF stream[i].state = "open"
          THEN [stream[i] EXCEPT !.pending = Append(@, event)]
          ELSE stream[i]]

Init ==
    /\ lines = << >>
    /\ terminated = TRUE
    /\ memory = << >>
    /\ loaded = FALSE
    /\ up = TRUE
    /\ stream = [i \in Streams |-> Idle]
    /\ appends = 0 /\ tears = 0 /\ crashes = 0

-----------------------------------------------------------------------------
(* Append *)

(* Only the first event of a run, or one for a run in memory, is appended, *)
(* and only to a log the scanner reads; otherwise Append returns an error. *)
MayAppend ==
    /\ up
    /\ ~Unreadable
    /\ loaded \/ lines = << >>
    /\ appends < MaxAppends

(* Mutation: numbered from 0.                                              *)
NextEventFromZero == [seq |-> ValidLength, id |-> appends]

(* Numbered from the valid prefix, wherever the bytes will land.           *)
NextEvent == [seq |-> ValidLength + 1, id |-> appends]

(* Mutation: the file is first cut where it stops decoding.                *)
WriteTruncating(event, kind) ==
    lines' = Append(SubSeq(lines, 1, ValidLength), [event |-> event, kind |-> kind])

(* The bytes continue a line that lacks its newline: it no longer decodes, *)
(* and may become too long.                                                *)
Write(event, kind) ==
    \/ /\ terminated
       /\ lines' = Append(lines, [event |-> event, kind |-> kind])
    \/ /\ ~terminated
       /\ kind \in IF lines[Len(lines)].kind = "long" THEN {"long"} ELSE Kinds \ {"good"}
       /\ lines' = [lines EXCEPT ![Len(lines)].kind = kind]

(* A whole line of its own decodes, unless it is too long: that is not     *)
(* noticed, and Append reports success.                                    *)
AppendEvent ==
    /\ MayAppend
    /\ \E kind \in Kinds : (terminated => kind # "bad") /\ Write(NextEvent, kind)
    /\ terminated' = TRUE
    /\ memory' = Append(memory, NextEvent)
    /\ loaded' = TRUE
    /\ stream' = Broadcast(NextEvent)
    /\ appends' = appends + 1
    /\ UNCHANGED <<up, tears, crashes>>

(* The write stops inside the line, or just before its newline; the        *)
(* handler sees an error, or the process is gone.                          *)
TornAppend ==
    /\ MayAppend
    /\ tears < MaxTears
    /\ \E kind \in Kinds : Write(NextEvent, kind)
    /\ terminated' = FALSE
    /\ appends' = appends + 1
    /\ tears' = tears + 1
    /\ \/ UNCHANGED <<memory, loaded, up, stream, crashes>>
       \/ /\ crashes < MaxCrashes
          /\ crashes' = crashes + 1
          /\ up' = FALSE
          /\ loaded' = FALSE
          /\ stream' = [i \in Streams |-> Idle]
          /\ UNCHANGED memory

-----------------------------------------------------------------------------
(* Subscribe, the subscriber's goroutine, cancellation.  The engine's      *)
(* goroutine that forwards to the client is part of the reader: it cancels *)
(* when the client's context is done.                                      *)

(* The replayed events after "after", picked one by one.                   *)
History(after) ==
    LET picked[k \in 0 .. Len(Prefix)] ==
            IF k = 0 THEN << >>
            ELSE IF Prefix[k].seq <= after THEN picked[k - 1]
            ELSE Append(picked[k - 1], Prefix[k])
    IN  picked[Len(Prefix)]

(* History and registration for live events in one critical section; the   *)
(* client names an event it has seen, or 0.  Without an event the scan     *)
(* could read it returns an error.                                         *)
Subscribe(i, after) ==
    /\ up
    /\ Prefix # << >>
    /\ ~Subscribed(i)
    /\ after <= Len(Prefix)
    /\ stream' = [stream EXCEPT ![i] =
            [Idle EXCEPT !.state = "open", !.after = after, !.pending = History(after)]]
    /\ UNCHANGED <<log, memory, loaded, up, faults>>

(* Mutation: the goroutine is woken by the second event.                   *)
TakeNextOfTwo(i) ==
    /\ Subscribed(i)
    /\ stream[i].hand = NoEvent
    /\ Len(stream[i].pending) > 1
    /\ stream' = [stream EXCEPT ![i].hand = Head(stream[i].pending), ![i].pending = Tail(@)]
    /\ UNCHANGED <<log, memory, loaded, up, faults>>

TakeNext(i) ==
    /\ Subscribed(i)
    /\ stream[i].hand = NoEvent
    /\ stream[i].pending # << >>
    /\ stream' = [stream EXCEPT ![i].hand = Head(stream[i].pending), ![i].pending = Tail(@)]
    /\ UNCHANGED <<log, memory, loaded, up, faults>>

(* The reader is there as long as the client has not cancelled.            *)
Deliver(i) ==
    /\ stream[i].state = "open"
    /\ stream[i].hand # NoEvent
    /\ stream' = [stream EXCEPT ![i].hand = NoEvent, ![i].received = Append(@, stream[i].hand)]
    /\ UNCHANGED <<log, memory, loaded, up, faults>>

Cancel(i) ==
    /\ stream[i].state = "open"
    /\ stream' = [stream EXCEPT ![i].state = "closed"]
    /\ UNCHANGED <<log, memory, loaded, up, faults>>

(* Mutation: only the empty queue ends the goroutine.                      *)
LeaveWhenDrained(i) ==
    /\ stream[i].state = "closed"
    /\ stream[i].hand = NoEvent /\ stream[i].pending = << >>
    /\ stream' = [stream EXCEPT ![i] = Idle]
    /\ UNCHANGED <<log, memory, loaded, up, faults>>

(* With an event in hand closeCh ends the goroutine, without one the empty *)
(* queue does.                                                             *)
Leave(i) ==
    /\ stream[i].state = "closed"
    /\ stream[i].hand # NoEvent \/ stream[i].pending = << >>
    /\ stream' = [stream EXCEPT ![i] = Idle]
    /\ UNCHANGED <<log, memory, loaded, up, faults>>

-----------------------------------------------------------------------------
(* Crash, and loadPersistedRuns: a run whose log cannot be read to its end *)
(* is skipped.                                                             *)

Crash ==
    /\ up
    /\ crashes < MaxCrashes
    /\ crashes' = crashes + 1
    /\ up' = FALSE
    /\ loaded' = FALSE
    /\ stream' = [i \in Streams |-> Idle]
    /\ UNCHANGED <<log, memory, appends, tears>>

(* Mutation: the valid prefix is loaded whatever comes after it.           *)
RestartFromPrefix ==
    /\ ~up
    /\ up' = TRUE
    /\ loaded' = (Prefix # << >>)
    /\ memory' = Prefix
    /\ UNCHANGED <<log, stream, faults>>

Restart ==
    /\ ~up
    /\ up' = TRUE
    /\ loaded' = (~Incomplete /\ Prefix # << >>)
    /\ memory' = IF loaded' THEN Prefix ELSE memory
    /\ UNCHANGED <<log, stream, faults>>

-----------------------------------------------------------------------------
Next ==
    \/ AppendEvent
    \/ TornAppend
    \/ \E i \in Streams :
        \/ \E after \in 0 .. MaxAppends : Subscribe(i, after)
        \/ TakeNext(i)
        \/ Deliver(i)
        \/ Cancel(i)
        \/ Leave(i)
    \/ Crash
    \/ Restart

Spec == Init /\ [][Next]_vars

(* The subscriber's goroutine runs and its client reads or cancels.        *)
FairSpec ==
    /\ Spec
    /\ \A i \in Streams : WF_vars(TakeNext(i)) /\ WF_vars(Deliver(i)) /\ WF_vars(Leave(i))

-----------------------------------------------------------------------------
(* Properties *)

StreamRecords ==
    [state : {"idle", "open", "closed"}, after : Nat, pending : Seq(Events),
     hand : Events \cup {NoEvent}, received : Seq(Events)]

LogTypeOK ==
    /\ lines \in Lines
    /\ memory \in Seq(Events)
    /\ terminated \in BOOLEAN /\ loaded \in BOOLEAN /\ up \in BOOLEAN
    /\ appends \in 0 .. MaxAppends /\ tears \in 0 .. MaxTears /\ crashes \in 0 .. MaxCrashes

(* The type invariant of the log, the memory and the subscribers.          *)
TypeOK == LogTypeOK /\ stream \in [Streams -> StreamRecords]

IsPrefix(q, r) == Len(q) <= Len(r) /\ \A i \in DOMAIN q : q[i] = r[i]

(* A loaded run's memory has everything its log replays to: never does the *)
(* log tell an event the handlers do not know, unless its last write just  *)
(* missed the newline.  While no write was torn the log is the memory and  *)
(* replays to it, on which module Engine rests (state.go, "Apply is the    *)
(* only legal way"), unless the very last event has made it unreadable.    *)
MemoryCoversLog ==
    up /\ loaded =>
        /\ terminated => IsPrefix(Prefix, memory)
        /\ tears = 0 =>
             /\ memory = [i \in 1 .. Len(lines) |-> lines[i].event]
             /\ memory = Prefix \/ (Unreadable /\ ValidLength = Len(lines) - 1)

(* A restart loads a run with every event its memory ever had, through any *)
(* number of torn writes, lines over the scanner's limit and crashes, or   *)
(* does not load it at all (loadPersistedRuns, Append's O_APPEND after a   *)
(* torn line).                                                             *)
RestartForgetsNothing == [][~loaded /\ loaded' => IsPrefix(memory, memory')]_vars

(* What a subscriber got, has in hand and has queued is the history after  *)
(* the event it named, without gap or repetition, also when events are     *)
(* appended while it subscribes or reads (Subscribe, broadcastLocked).     *)
StreamIsContiguous ==
    tears = 0 =>
        \A i \in Streams : stream[i].state = "open" =>
            LET sub == stream[i]
            IN  sub.received \o (IF sub.hand = NoEvent THEN << >> ELSE <<sub.hand>>) \o sub.pending
                    = SubSeq(memory, sub.after + 1, Len(memory))

Behind(i) ==
    stream[i].state = "open" /\ (stream[i].hand # NoEvent \/ stream[i].pending # << >>)

(* A reader catches up with what was appended.                             *)
StreamCatchesUp == \A i \in Streams : Behind(i) ~> ~Behind(i)

(* The goroutine of a cancelled subscription ends, with events queued or   *)
(* in hand (subscriber.run, close).                                        *)
CancelledStreamEnds == \A i \in Streams : (stream[i].state = "closed") ~> (stream[i].state = "idle")

(* What Append returned as persisted is read back by List (wal.go: "Append *)
(* persists exactly one event at the next durable sequence number"); an    *)
(* event appended after a torn line is behind the end of what decodes.     *)
AppendedIsReadBack == up /\ loaded => IsPrefix(memory, Prefix)

=============================================================================
