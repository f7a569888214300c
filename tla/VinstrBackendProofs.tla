------------------------ MODULE VinstrBackendProofs ------------------------
(* Proofs about the vinstr back-end, for any number of buffers, any counter*)
(* width, any clock offset and any number of samples and stops.            *)
EXTENDS VinstrBackend, TLAPS

(* The filled buffers are the last requests, in their order, and none of   *)
(* them is from the future.                                                *)
UnreadInOrder ==
    /\ Len(unread) = stops + (IF place = "requested" THEN 1 ELSE 0)
    /\ \A i \in 1..Len(unread) :
          /\ unread[i].nr = dumps - Len(unread) + i
          /\ unread[i].timestamp <= now

(* Why the process has ended, in terms of the state it ended in. *)
ExitsExplained ==
    /\ exited = "full" => stops >= BUFFERS
    /\ exited = "inactive" => ~active_
    /\ exited = "clock" => active_ /\ sessions_[1] < now

BackendInv ==
    /\ BackendTypeOK
    /\ UnreadInOrder
    /\ place = "fetched" => held.nr = dumps - stops
    /\ place # "idle" => active_
    /\ OneSession
    /\ ExitsExplained

-----------------------------------------------------------------------------

LEMMA BackendInitInv == BackendInit => BackendInv
<1> SUFFICES ASSUME BackendInit PROVE BackendInv
  OBVIOUS
<1> USE BackendAssumption DEF BackendInit
<1>1. NoTraffic \in [Cells -> Values]
  BY DEF NoTraffic, Values
<1>2. BackendTypeOK
  <2>1. unread \in Seq(Sample) /\ sessions_ \in Seq(Nat)
    OBVIOUS
  <2>2. /\ now \in 0..MaxTime /\ ahead \in Ahead /\ dumps \in 0..MaxDumps
        /\ push_idx \in 0..BUFFERS /\ stops \in Nat
    OBVIOUS
  <2>3. exited \in Exits
    BY DEF Exits
  <2> QED
    BY <1>1, <2>1, <2>2, <2>3 DEF BackendTypeOK
<1>3. UnreadInOrder
  BY DEF UnreadInOrder
<1>4. OneSession /\ ExitsExplained
  BY DEF OneSession, ExitsExplained
<1> QED
  BY <1>2, <1>3, <1>4 DEF BackendInv

(* An exit keeps everything else; its reason must be explained. *)
LEMMA ExitInv ==
    ASSUME BackendInv, NEW reason \in Exits, Exit(reason),
           reason = "full" => stops >= BUFFERS,
           reason = "inactive" => ~active_,
           reason = "clock" => active_ /\ sessions_[1] < now
    PROVE  BackendInv'
<1>1. BackendTypeOK'
  BY DEF BackendInv, BackendTypeOK, Exit
<1>2. UnreadInOrder'
  BY DEF BackendInv, UnreadInOrder, Exit
<1>3. OneSession' /\ ExitsExplained'
  BY DEF BackendInv, OneSession, ExitsExplained, Exit
<1> QED
  BY <1>1, <1>2, <1>3 DEF BackendInv, Exit

(* A dump appends the newest request, or finds the reader full of samples  *)
(* that stops have left.                                                   *)
LEMMA DumpInv ==
    ASSUME BackendInv, exited = "no", place = "idle", active_,
           NEW next \in {"idle", "requested"}, Dump(next)
    PROVE  BackendInv'
<1> USE BackendAssumption
<1>1. CASE InUse < BUFFERS
  <2>0. dumps \in Nat /\ stops \in Nat /\ Len(unread) \in Nat /\ unread \in Seq(Sample)
    BY DEF BackendInv, BackendTypeOK
  <2> DEFINE new == [nr |-> dumps + 1, timestamp |-> now, values |-> counting]
  <2>1. /\ dumps < MaxDumps /\ unread' = Append(unread, new)
        /\ dumps' = dumps + 1 /\ counting' = NoTraffic
        /\ push_idx' = NextPosition(push_idx) /\ place' = next
        /\ stops' = (IF next = "idle" THEN stops + 1 ELSE stops)
        /\ UNCHANGED <<now, ahead, active_, sessions_, held, exited>>
    BY <1>1 DEF Dump
  <2>2. new \in Sample
    BY <2>1 DEF BackendInv, BackendTypeOK, Sample
  <2>3. NoTraffic \in [Cells -> Values]
    BY DEF NoTraffic, Values
  <2>4. NextPosition(push_idx) \in 0..BUFFERS
    BY DEF BackendInv, BackendTypeOK, NextPosition
  <2>5. BackendTypeOK'
    <3>1. unread' \in Seq(Sample)
      BY <2>0, <2>1, <2>2
    <3>2. dumps' \in 0..MaxDumps
      BY <2>0, <2>1
    <3> QED
      BY <2>0, <2>1, <2>3, <2>4, <3>1, <3>2 DEF BackendInv, BackendTypeOK
  <2>6. UnreadInOrder'
    <3> HIDE DEF new
    <3>1. Len(unread') = Len(unread) + 1
      BY <2>0, <2>1, <2>2
    <3>2. ASSUME NEW i \in 1..Len(unread')
          PROVE  /\ unread'[i].nr = dumps' - Len(unread') + i
                 /\ unread'[i].timestamp <= now'
      <4>1. CASE i <= Len(unread)
        <5>1. unread'[i] = unread[i]
          BY <2>0, <2>1, <2>2, <3>1, <4>1
        <5> QED
          BY <2>0, <2>1, <3>1, <4>1, <5>1 DEF BackendInv, UnreadInOrder
      <4>2. CASE i = Len(unread) + 1
        <5>1. unread'[i] = new
          BY <2>0, <2>1, <2>2, <3>1, <4>2
        <5>2. now \in Nat
          BY DEF BackendInv, BackendTypeOK
        <5> QED
          BY <2>0, <2>1, <3>1, <4>2, <5>1, <5>2 DEF new
      <4> QED
        BY <2>0, <3>1, <4>1, <4>2
    <3> QED
      BY <2>0, <2>1, <3>1, <3>2 DEF BackendInv, UnreadInOrder
  <2>7. OneSession' /\ ExitsExplained'
    BY <2>1 DEF BackendInv, OneSession, ExitsExplained
  <2> QED
    BY <2>1, <2>5, <2>6, <2>7 DEF BackendInv
<1>2. CASE ~(InUse < BUFFERS)
  <2>1. stops >= BUFFERS
    BY <1>2 DEF InUse, BackendInv, BackendTypeOK, UnreadInOrder
  <2> QED
    BY <1>2, <2>1, ExitInv DEF Dump, Exits
<1> QED
  BY <1>1, <1>2

-----------------------------------------------------------------------------

LEMMA StutterInv == BackendInv /\ UNCHANGED backendVars => BackendInv'
<1> SUFFICES ASSUME BackendInv, UNCHANGED backendVars PROVE BackendInv'
  OBVIOUS
<1> USE DEF backendVars
<1>1. BackendTypeOK'
  BY DEF BackendInv, BackendTypeOK
<1>2. UnreadInOrder'
  BY DEF BackendInv, UnreadInOrder
<1>3. OneSession' /\ ExitsExplained'
  BY DEF BackendInv, OneSession, ExitsExplained
<1> QED
  BY <1>1, <1>2, <1>3 DEF BackendInv

LEMMA BackendStepInv == BackendInv /\ [BackendNext]_backendVars => BackendInv'
<1> SUFFICES ASSUME BackendInv, [BackendNext]_backendVars PROVE BackendInv'
  OBVIOUS
<1> USE BackendAssumption
<1>1. ASSUME NEW cell \in Cells, NEW amount \in Values, Traffic(cell, amount)
      PROVE  BackendInv'
  <2>1. counting' \in [Cells -> Values]
    BY <1>1 DEF Traffic, BackendInv, BackendTypeOK, Values
  <2>2. BackendTypeOK'
    BY <1>1, <2>1 DEF Traffic, BackendInv, BackendTypeOK
  <2> QED
    BY <1>1, <2>2 DEF Traffic, BackendInv, UnreadInOrder, OneSession,
                      ExitsExplained
<1>2. ASSUME Tick PROVE BackendInv'
  <2>1. now' = now + 1 /\ now \in Nat
    BY <1>2 DEF Tick, BackendInv, BackendTypeOK
  <2>2. BackendTypeOK'
    BY <1>2, <2>1 DEF Tick, BackendInv, BackendTypeOK
  <2>3. UnreadInOrder'
    <3>1. \A i \in 1..Len(unread) : unread[i] \in Sample
      BY DEF BackendInv, BackendTypeOK
    <3>2. \A i \in 1..Len(unread) : unread[i].timestamp \in Nat
      BY <3>1 DEF Sample
    <3> QED
      BY <1>2, <2>1, <3>2 DEF Tick, BackendInv, UnreadInOrder
  <2> QED
    BY <1>2, <2>2, <2>3 DEF Tick, BackendInv, OneSession, ExitsExplained
<1>3. ASSUME Start PROVE BackendInv'
  <2>0. now + ahead \in Nat /\ sessions_ \in Seq(Nat)
    BY DEF BackendInv, BackendTypeOK
  <2>1. NoTraffic \in [Cells -> Values]
    BY DEF NoTraffic, Values
  <2>2. sessions_' \in Seq(Nat) /\ Len(sessions_') = 1
    BY <1>3, <2>0 DEF Start, BackendInv, OneSession
  <2>3. BackendTypeOK'
    BY <1>3, <2>1, <2>2 DEF Start, BackendInv, BackendTypeOK
  <2> QED
    BY <1>3, <2>2, <2>3 DEF Start, BackendInv, UnreadInOrder, OneSession,
                            ExitsExplained
<1>4. ASSUME Stop PROVE BackendInv'
  <2>1. CASE active_
    BY <1>4, <2>1, DumpInv DEF Stop
  <2>2. CASE ~active_
    BY <1>4, <2>2, StutterInv DEF Stop
  <2> QED
    BY <2>1, <2>2
<1>5. ASSUME RequestSample PROVE BackendInv'
  <2>1. CASE active_
    BY <1>5, <2>1, DumpInv DEF RequestSample
  <2>2. CASE ~active_
    BY <1>5, <2>2, ExitInv DEF RequestSample, Exits
  <2> QED
    BY <2>1, <2>2
<1>6. ASSUME GetSample PROVE BackendInv'
  <2>0. /\ place = "requested" /\ unread # <<>> /\ unread \in Seq(Sample)
        /\ stops \in Nat /\ dumps \in Nat /\ now \in Nat /\ active_
    BY <1>6 DEF GetSample, BackendInv, BackendTypeOK
  <2>1. Len(unread) \in Nat /\ Len(unread) >= 1 /\ unread[1] \in Sample
    BY <2>0
  <2>2. CASE ClockCheckExits(sessions_[1], unread[1].timestamp)
    <3>1. Len(sessions_) = 1 /\ sessions_ \in Seq(Nat)
      BY <2>0 DEF BackendInv, BackendTypeOK, OneSession
    <3>2. sessions_[1] \in Nat /\ unread[1].timestamp \in Nat
      <4>1. sessions_[1] \in Nat
        BY <3>1
      <4>2. unread[1].timestamp \in 0..MaxTime
        BY <2>1 DEF Sample
      <4> QED
        BY <4>1, <4>2
    <3>3. unread[1].timestamp <= now
      BY <2>0, <2>1 DEF BackendInv, UnreadInOrder
    <3>4. sessions_[1] < now
      BY <2>0, <2>2, <3>2, <3>3 DEF ClockCheckExits
    <3> QED
      BY <1>6, <2>0, <2>2, <3>4, ExitInv DEF GetSample, Exits
  <2>3. CASE ~ClockCheckExits(sessions_[1], unread[1].timestamp)
    <3>1. /\ held' = unread[1] /\ unread' = Tail(unread) /\ place' = "fetched"
          /\ UNCHANGED <<now, ahead, counting, dumps, active_, sessions_,
                         push_idx, exited, stops>>
      BY <1>6, <2>3 DEF GetSample
    <3>2. /\ Tail(unread) \in Seq(Sample)
          /\ Len(Tail(unread)) = Len(unread) - 1
          /\ \A i \in 1..Len(Tail(unread)) : Tail(unread)[i] = unread[i + 1]
      BY <2>0, <2>1
    <3>3. BackendTypeOK'
      BY <2>1, <3>1, <3>2 DEF BackendInv, BackendTypeOK
    <3>4. UnreadInOrder'
      <4>1. ASSUME NEW i \in 1..Len(unread')
            PROVE  /\ unread'[i].nr = dumps' - Len(unread') + i
                   /\ unread'[i].timestamp <= now'
        <5>1. i + 1 \in 1..Len(unread) /\ unread'[i] = unread[i + 1]
          BY <2>1, <3>1, <3>2
        <5>2. /\ unread[i + 1].nr = dumps - Len(unread) + (i + 1)
              /\ unread[i + 1].timestamp <= now
          BY <5>1 DEF BackendInv, UnreadInOrder
        <5> QED
          BY <2>0, <2>1, <3>1, <3>2, <5>1, <5>2
      <4> QED
        BY <2>0, <2>1, <3>1, <3>2, <4>1 DEF BackendInv, UnreadInOrder
    <3>5. held'.nr = dumps' - stops'
      <4>1. unread[1].nr = dumps - Len(unread) + 1 /\ Len(unread) = stops + 1
        BY <2>0, <2>1 DEF BackendInv, UnreadInOrder
      <4> QED
        BY <2>0, <3>1, <4>1
    <3> QED
      BY <2>0, <3>1, <3>3, <3>4, <3>5 DEF BackendInv, OneSession,
                                          ExitsExplained
  <2> QED
    BY <2>2, <2>3
<1>7. ASSUME PutSample PROVE BackendInv'
  BY <1>7 DEF PutSample, BackendInv, BackendTypeOK, UnreadInOrder, OneSession,
              ExitsExplained
<1>8. ASSUME ReaderRefuses PROVE BackendInv'
  BY <1>8, ExitInv DEF ReaderRefuses, Exits
<1>9. ASSUME ClientExits PROVE BackendInv'
  BY <1>9, ExitInv DEF ClientExits, Exits
<1>10. ASSUME UNCHANGED backendVars PROVE BackendInv'
  BY <1>10, StutterInv
<1> QED
  BY <1>1, <1>2, <1>3, <1>4, <1>5, <1>6, <1>7, <1>8, <1>9, <1>10
  DEF BackendNext

(* The inductive invariant of the back-end. *)
THEOREM BackendInvariant == BackendSpec => []BackendInv
  BY BackendInitInv, BackendStepInv, PTL DEF BackendSpec

(* What the invariant says of the properties of VinstrBackend. *)
LEMMA BackendInvProperties ==
    BackendInv => UnreadAreStops /\ OneSession /\ OnlyRefusalsEnd
<1> SUFFICES ASSUME BackendInv
             PROVE  UnreadAreStops /\ OneSession /\ OnlyRefusalsEnd
  OBVIOUS
<1>1. UnreadAreStops
  BY DEF BackendInv, UnreadInOrder, UnreadAreStops, ExitsExplained
<1>2. ASSUME sessions_ # <<>>, stops = 0, now <= sessions_[1]
      PROVE  exited \notin {"full", "inactive", "clock"}
  <2>1. active_ /\ Len(sessions_) = 1 /\ sessions_[1] \in Nat /\ now \in Nat
    BY <1>2 DEF BackendInv, BackendTypeOK, OneSession
  <2> QED
    BY <1>2, <2>1, BackendAssumption DEF BackendInv, ExitsExplained
<1> QED
  BY <1>1, <1>2 DEF BackendInv, OnlyRefusalsEnd

(* Every stop leaves one filled buffer behind, and every sample fetched    *)
(* after it is one request older: vinstr_backend__stop, get_sample.        *)
THEOREM StopsLeaveSamples == BackendSpec => []UnreadAreStops
  BY BackendInvariant, BackendInvProperties, PTL

(* vinstr_backend__start makes one session in the life of a back-end.      *)
THEOREM OneSessionEver == BackendSpec => []OneSession
  BY BackendInvariant, BackendInvProperties, PTL

(* Once started and never stopped, only a refused call or the clock check  *)
(* of a session older than the clocks are apart ends the sampling.         *)
THEOREM SamplingGoesOn == BackendSpec => []OnlyRefusalsEnd
  BY BackendInvariant, BackendInvProperties, PTL
=============================================================================
