--------------------------- MODULE VinstrBackend ---------------------------
(***************************************************************************)
(* The vinstr back-end of the profiler: a client of the counter reader of  *)
(* the Mali driver, with its sessions and its queue of requests, and of    *)
(* the reader as much as the client relies on: counters that saturate, are *)
(* set to zero by clear and dump, and a ring of buffers, each in use from  *)
(* the dump that fills it until the client puts it back.                   *)
(*                                                                         *)
(* Time is the driver's monotonic clock; the clock of the session is the   *)
(* real-time clock, which is "ahead" of it.                                *)
(***************************************************************************)
EXTENDS Integers, Sequences

CONSTANTS
    BUFFERS,        \* buffers of the reader, 32
    WORD,           \* number of values of a counter, 2^32
    Cells,          \* the counters: pairs of a slice and an offset
    Ahead,          \* how far the real-time clock may be ahead
    MaxDumps,       \* bound: samples requested
    MaxTime         \* bound: the driver's clock

ASSUME BackendAssumption ==
    /\ BUFFERS \in Nat \ {0}
    /\ WORD \in Nat \ {0}
    /\ Ahead \subseteq Nat
    /\ MaxDumps \in Nat /\ MaxTime \in Nat

VARIABLES
    now,            \* the driver's clock
    ahead,          \* real-time clock minus driver's clock
    counting,       \* values of the counters since the last dump or clear
    unread,         \* filled buffers in the order of their dumps
    dumps,          \* dumps so far
    active_,        \* the back-end takes requests
    sessions_,      \* the start times of its sessions
    push_idx,       \* of the queue of request data; pops go to a copy
    place,          \* where sample_now is
    held,           \* the sample it has fetched
    exited,         \* why the process has exited, or "no"
    stops           \* history: calls of stop, each of which dumps

backendVars == <<now, ahead, counting, unread, dumps, active_, sessions_,
                 push_idx, place, held, exited, stops>>

Values == 0..(WORD - 1)
NoTraffic == [cell \in Cells |-> 0]
Sample == [nr : 1..MaxDumps, timestamp : 0..MaxTime, values : [Cells -> Values]]
NoSample == [nr |-> 0, timestamp |-> 0, values |-> NoTraffic]

BackendInit ==
    /\ now = 0 /\ ahead \in Ahead
    /\ counting = NoTraffic /\ unread = <<>> /\ dumps = 0
    /\ active_ = FALSE /\ sessions_ = <<>> /\ push_idx = 0
    /\ place = "idle" /\ held = NoSample
    /\ exited = "no" /\ stops = 0

-----------------------------------------------------------------------------
(* The GPU and the clock.                                                  *)

Traffic(cell, amount) ==
    /\ counting' = [counting EXCEPT ![cell] =
                       IF @ + amount < WORD THEN @ + amount ELSE WORD - 1]
    /\ UNCHANGED <<now, ahead, unread, dumps, active_, sessions_, push_idx,
                   place, held, exited, stops>>

Tick ==
    /\ exited = "no" /\ now < MaxTime
    /\ now' = now + 1
    /\ UNCHANGED <<ahead, counting, unread, dumps, active_, sessions_,
                   push_idx, place, held, exited, stops>>

-----------------------------------------------------------------------------
(* The client.                                                             *)

Exit(reason) ==
    /\ exited' = reason
    /\ UNCHANGED <<now, ahead, counting, unread, dumps, active_, sessions_,
                   push_idx, place, held, stops>>

(* A refused clear, dump, get or put of the reader ends the process. *)
ReaderRefuses == exited = "no" /\ Exit("refused")

(* Variant: every start begins a session. *)
StartsAnew ==
    /\ exited = "no" /\ place = "idle"
    /\ counting' = NoTraffic
    /\ sessions_' = Append(sessions_, now + ahead)
    /\ active_' = TRUE
    /\ UNCHANGED <<now, ahead, unread, dumps, push_idx, place, held, exited,
                   stops>>

(* vinstr_backend__start: clear, and a session unless there is one.        *)
Start ==
    /\ exited = "no" /\ place = "idle"
    /\ counting' = NoTraffic
    /\ sessions_' = IF active_ THEN sessions_
                    ELSE Append(sessions_, now + ahead)
    /\ active_' = TRUE
    /\ UNCHANGED <<now, ahead, unread, dumps, push_idx, place, held, exited,
                   stops>>

InUse == Len(unread) + (IF place = "fetched" THEN 1 ELSE 0)

(* Variant: the position in the queue of requests never wraps. *)
Unwrapped(idx) == idx + 1

NextPosition(idx) == (idx + 1) % (BUFFERS + 1)

(* vinstr_backend__request_sample_no_lock, from "idle" to "next"; a reader *)
(* without a free buffer refuses.                                          *)
Dump(next) ==
    IF InUse < BUFFERS
    THEN /\ dumps < MaxDumps
         /\ unread' = Append(unread, [nr |-> dumps + 1, timestamp |-> now,
                                      values |-> counting])
         /\ dumps' = dumps + 1
         /\ counting' = NoTraffic
         /\ push_idx' = NextPosition(push_idx)
         /\ place' = next
         /\ stops' = IF next = "idle" THEN stops + 1 ELSE stops
         /\ UNCHANGED <<now, ahead, active_, sessions_, held, exited>>
    ELSE Exit("full")

(* Stopping only requests a last sample, which nobody fetches; the session *)
(* stays, and the back-end active.                                         *)
Stop ==
    /\ exited = "no" /\ place = "idle"
    /\ IF active_ THEN Dump("idle") ELSE UNCHANGED backendVars

RequestSample ==
    /\ exited = "no" /\ place = "idle"
    /\ IF active_ THEN Dump("requested") ELSE Exit("inactive")

(* Variant: a sample that was left behind is skipped. *)
GetsNewest ==
    /\ exited = "no" /\ place = "requested" /\ unread # <<>>
    /\ held' = unread[Len(unread)]
    /\ unread' = <<>>
    /\ place' = "fetched"
    /\ UNCHANGED <<now, ahead, counting, dumps, active_, sessions_, push_idx,
                   exited, stops>>

(* Variant: the comparison of the clocks is the other way round. *)
ClockCheckSwapped(start, timestamp) == start > timestamp

ClockCheckExits(start, timestamp) == start < timestamp

(* vinstr_backend__get_sample: waits for a filled buffer without time      *)
(* limit and gets the oldest.  Everything it does to the session and the   *)
(* queues it does to a copy of them that is dropped; so a sample is always *)
(* taken to begin at the session's start.                                  *)
GetSample ==
    /\ exited = "no" /\ place = "requested" /\ unread # <<>>
    /\ IF ClockCheckExits(sessions_[1], unread[1].timestamp)
       THEN Exit("clock")
       ELSE /\ held' = unread[1]
            /\ unread' = Tail(unread)
            /\ place' = "fetched"
            /\ UNCHANGED <<now, ahead, counting, dumps, active_, sessions_,
                           push_idx, exited, stops>>

PutSample ==
    /\ exited = "no" /\ place = "fetched"
    /\ place' = "idle" /\ held' = NoSample
    /\ UNCHANGED <<now, ahead, counting, unread, dumps, active_, sessions_,
                   push_idx, exited, stops>>

(* What ends the process without a call of the back-end. *)
ClientExits ==
    /\ exited = "no"
    /\ \E reason \in {"not started", "unknown counter", "crashed"} : Exit(reason)

BackendNext ==
    \/ \E cell \in Cells, amount \in Values : Traffic(cell, amount)
    \/ Tick \/ Start \/ Stop \/ RequestSample \/ GetSample \/ PutSample
    \/ ReaderRefuses \/ ClientExits

BackendSpec == BackendInit /\ [][BackendNext]_backendVars

-----------------------------------------------------------------------------
(* Properties.                                                             *)

(* The last three are the sampler's. *)
Exits == {"no", "refused", "full", "inactive", "clock",
          "not started", "unknown counter", "crashed"}

BackendTypeOK ==
    /\ now \in 0..MaxTime /\ ahead \in Ahead
    /\ counting \in [Cells -> Values]
    /\ unread \in Seq(Sample) /\ dumps \in 0..MaxDumps
    /\ active_ \in BOOLEAN /\ sessions_ \in Seq(Nat)
    /\ push_idx \in 0..BUFFERS
    /\ place \in {"idle", "requested", "fetched"}
    /\ held = NoSample \/ held \in Sample
    /\ exited \in Exits /\ stops \in Nat

(* Every stop leaves a filled buffer behind for good; nothing else does.   *)
(* So sample_now never waits for a sample, the one it fetches was requested*)
(* "stops" requests ago, its own only if the back-end was never stopped,   *)
(* and the reader is full for it only after as many stops as it has        *)
(* buffers.                                                                *)
UnreadAreStops ==
    /\ Len(unread) = stops + (IF place = "requested" THEN 1 ELSE 0)
    /\ place = "fetched" => held.nr = dumps - stops
    /\ exited = "full" => stops >= BUFFERS

(* There is one session, from the first start on: the queue of sessions    *)
(* never overflows and get_sample always finds one, however often the      *)
(* back-end is started and stopped.                                        *)
OneSession == Len(sessions_) = IF active_ THEN 1 ELSE 0

(* Once started and never stopped, the back-end neither finds the reader   *)
(* full nor itself inactive, and its check of the clocks, which is the     *)
(* wrong way round, does not end the process before it has been sampling   *)
(* for longer than the real-time clock is ahead of the driver's.           *)
OnlyRefusalsEnd ==
    (sessions_ # <<>> /\ stops = 0 /\ now <= sessions_[1]) =>
        exited \notin {"full", "inactive", "clock"}
=============================================================================
