-------------------------- MODULE ModuleLoadProofs --------------------------
(***************************************************************************)
(* Proofs about cl_mem_reg_init, for any parameters, any cores and any     *)
(* profilers that terminate meanwhile: the election at the end starts from *)
(* the state LeaderElection assumes, a load that reaches the end is        *)
(* complete, and a pointer to a profiler that exited is kept only if the   *)
(* profiler was through before the module looked it up.                    *)
(***************************************************************************)
EXTENDS ModuleLoad, BasicFacts

-----------------------------------------------------------------------------
(* The election: for every set of online cores and every interleaving of   *)
(* their stores.                                                           *)

(* A core that published its start is distinguishable from one that has    *)
(* none, and only such a core is ever on its way to become the leader.     *)
CandidatesStarted ==
    /\ \A c \in Online :
          /\ armed_at[c] < KTIME_MAX \/ phase[c] = "called"
          /\ phase[c] \notin {"called", "publish"} => g_hrtimer_start[c] < KTIME_MAX
          /\ phase[c] \in {"store", "lead"} => g_hrtimer_start[cpu[c]] < KTIME_MAX
    /\ \A i \in min_cpu..max_cpu : g_hrtimer_start[i] < KTIME_MAX => i \in Online
    /\ now < KTIME_MAX

(* The loop starts at the cluster's first core, so a core past its own     *)
(* index has compared itself.  Such a core leaves a start time behind, and     *)
(* whoever stored the first one is, or is about to become, the leader.     *)
LeaderOnItsWay ==
    /\ \A c \in Online : phase[c] \in {"called", "publish"} => cpu[c] = min_cpu
    /\ \A c \in Online :
          (phase[c] \in {"lead", "done"} \/ (phase[c] \in {"compare", "store"} /\ cpu[c] > c))
              => leader_hrtimer_start < KTIME_MAX
    /\ leader_hrtimer_start < KTIME_MAX
          => leader_core \in Online \/ \E c \in Online : phase[c] = "lead"

Inv == TypeOK /\ CandidatesStarted /\ LeaderOnItsWay

-----------------------------------------------------------------------------

LEMMA InitInv == Init => Inv
BY ElectionAssumption
   DEF Init, Inv, TypeOK, CandidatesStarted, LeaderOnItsWay, Phases, NoLeader

(* What the end of a round of the loop does to core c and to no other. *)
RoundOver(c) ==
    /\ phase' \in [Online -> Phases]
    /\ cpu' \in [Online -> min_cpu..max_cpu]
    /\ \A d \in Online \ {c} : phase'[d] = phase[d] /\ cpu'[d] = cpu[d]
    /\ \/ phase'[c] = "compare" /\ cpu'[c] = cpu[c] + 1
       \/ phase'[c] = "done" /\ cpu'[c] = cpu[c] /\ cpu[c] = max_cpu

LEMMA RoundEnds ==
    ASSUME TypeOK, NEW c \in Online, NextRound(c)
    PROVE  RoundOver(c)
<1>. USE ElectionAssumption DEF TypeOK, Phases
<1>1. cpu[c] \in min_cpu..max_cpu
  OBVIOUS
<1>2. CASE cpu[c] < max_cpu
  <2>1. cpu[c] + 1 \in min_cpu..max_cpu
    <3> HIDE DEF TypeOK
    <3>1. min_cpu \in Int /\ max_cpu \in Int /\ cpu[c] \in Int
      BY <1>1, ElectionAssumption
    <3> QED
      BY <1>1, <1>2, <3>1
  <2>2. /\ cpu' = [cpu EXCEPT ![c] = @ + 1]
        /\ phase' = [phase EXCEPT ![c] = "compare"]
    BY <1>2 DEF NextRound
  <2>3. cpu' \in [Online -> min_cpu..max_cpu] /\ phase' \in [Online -> Phases]
    BY <2>1, <2>2
  <2>4. \A d \in Online \ {c} : phase'[d] = phase[d] /\ cpu'[d] = cpu[d]
    BY <2>2
  <2>5. phase'[c] = "compare" /\ cpu'[c] = cpu[c] + 1
    BY <2>2
  <2>. QED
    BY <2>3, <2>4, <2>5, Zenon DEF RoundOver
<1>3. CASE ~(cpu[c] < max_cpu)
  <2>1. phase' = [phase EXCEPT ![c] = "done"] /\ cpu' = cpu
    BY <1>3 DEF NextRound
  <2>2. cpu[c] = max_cpu
    BY <1>1, <1>3
  <2>3. phase' \in [Online -> Phases] /\ phase'[c] = "done"
    BY <2>1
  <2>4. \A d \in Online \ {c} : phase'[d] = phase[d]
    BY <2>1
  <2>. QED
    BY <2>1, <2>2, <2>3, <2>4, Zenon DEF RoundOver
<1>. QED
  BY <1>2, <1>3

LEMMA StepInv == Inv /\ [Next]_vars => Inv'
<1>. SUFFICES ASSUME Inv, [Next]_vars PROVE Inv'
  OBVIOUS
<1>. USE ElectionAssumption DEF Inv, TypeOK, Phases
<1>1. CASE Tick
  <2>1. TypeOK' /\ now' < KTIME_MAX
    BY <1>1 DEF Tick
  <2>2. CandidatesStarted'
    BY <1>1, <2>1 DEF Tick, CandidatesStarted
  <2>3. LeaderOnItsWay'
    BY <1>1 DEF Tick, LeaderOnItsWay
  <2>. QED
    BY <2>1, <2>2, <2>3
<1>2. ASSUME NEW c \in Online, ArmTimer(c) PROVE Inv'
  BY <1>2 DEF ArmTimer, CandidatesStarted, LeaderOnItsWay
<1>3. ASSUME NEW c \in Online, Publish(c) PROVE Inv'
  <2>1. c \in min_cpu..max_cpu /\ armed_at[c] \in 0..KTIME_MAX /\ armed_at[c] < KTIME_MAX
    BY <1>3 DEF Publish, CandidatesStarted
  <2>2. TypeOK'
    BY <1>3, <2>1 DEF Publish
  <2>3. CandidatesStarted'
    BY <1>3, <2>1 DEF Publish, CandidatesStarted
  <2>4. cpu[c] = min_cpu
    BY <1>3 DEF Publish, LeaderOnItsWay
  <2>5. LeaderOnItsWay'
    BY <1>3, <2>1, <2>4 DEF Publish, LeaderOnItsWay
  <2>. QED
    BY <2>2, <2>3, <2>5
<1>4. ASSUME NEW c \in Online, Compare(c) PROVE Inv'
  <2>1. UNCHANGED <<now, armed_at, g_hrtimer_start, leader_hrtimer_start, leader_core>>
    BY <1>4 DEF Compare
  <2>2. phase[c] = "compare"
    BY <1>4 DEF Compare
  <2>3. CASE StartedEarlier(cpu[c])
    <3>1. phase' = [phase EXCEPT ![c] = "store"] /\ UNCHANGED cpu
      BY <1>4, <2>3 DEF Compare
    <3>2. g_hrtimer_start[cpu[c]] < KTIME_MAX
      BY <2>3 DEF StartedEarlier
    <3>3. TypeOK'
      BY <2>1, <3>1 DEF RoundOver
    <3>4. CandidatesStarted'
      BY <2>1, <2>2, <3>1, <3>2 DEF CandidatesStarted
    <3>5. LeaderOnItsWay'
      BY <2>1, <2>2, <3>1 DEF LeaderOnItsWay
    <3>. QED
      BY <3>3, <3>4, <3>5
  <2>4. CASE ~StartedEarlier(cpu[c])
    <3>1. RoundOver(c)
      BY <1>4, <2>4, RoundEnds DEF Compare
    <3>2. leader_hrtimer_start <= g_hrtimer_start[cpu[c]]
      BY <2>4 DEF StartedEarlier
    <3>3. TypeOK'
      BY <2>1, <3>1 DEF RoundOver
    <3>4. CandidatesStarted'
      BY <2>1, <2>2, <3>1 DEF RoundOver, CandidatesStarted
    <3>5. cpu[c] >= c => leader_hrtimer_start < KTIME_MAX
      <4>1. CASE cpu[c] = c
        BY <2>2, <3>2, <4>1 DEF CandidatesStarted
      <4>2. CASE cpu[c] > c
        BY <2>2, <4>2 DEF LeaderOnItsWay
      <4>. QED
        BY <4>1, <4>2
    <3>6. LeaderOnItsWay'
      <4>1. ASSUME NEW d \in Online
            PROVE  /\ phase'[d] \in {"called", "publish"} => cpu'[d] = min_cpu
                   /\ (phase'[d] \in {"lead", "done"} \/ (phase'[d] \in {"compare", "store"} /\ cpu'[d] > d))
                          => leader_hrtimer_start < KTIME_MAX
        <5>1. CASE d = c
          <6>1. c \in Int /\ cpu[c] \in Int /\ max_cpu \in Int /\ c <= max_cpu
            OBVIOUS
          <6>2. CASE phase'[c] = "compare" /\ cpu'[c] = cpu[c] + 1
            BY <3>5, <5>1, <6>1, <6>2
          <6>3. CASE phase'[c] = "done" /\ cpu'[c] = cpu[c] /\ cpu[c] = max_cpu
            BY <3>5, <5>1, <6>1, <6>3
          <6>. QED
            BY <3>1, <6>2, <6>3 DEF RoundOver
        <5>2. CASE d # c
          BY <3>1, <5>2 DEF RoundOver, LeaderOnItsWay
        <5>. QED
          BY <5>1, <5>2
      <4>2. (\E d \in Online : phase[d] = "lead") => \E d \in Online : phase'[d] = "lead"
        BY <2>2, <3>1 DEF RoundOver
      <4>. QED
        BY <2>1, <4>1, <4>2 DEF LeaderOnItsWay
    <3>. QED
      BY <3>3, <3>4, <3>6
  <2>. QED
    BY <2>3, <2>4
<1>5. ASSUME NEW c \in Online, StoreStart(c) PROVE Inv'
  <2>1. g_hrtimer_start[cpu[c]] < KTIME_MAX
    BY <1>5 DEF StoreStart, CandidatesStarted
  <2>2. TypeOK'
    BY <1>5 DEF StoreStart
  <2>3. CandidatesStarted'
    BY <1>5 DEF StoreStart, CandidatesStarted
  <2>4. LeaderOnItsWay'
    BY <1>5, <2>1 DEF StoreStart, LeaderOnItsWay
  <2>. QED
    BY <2>2, <2>3, <2>4
<1>6. ASSUME NEW c \in Online, StoreLeader(c) PROVE Inv'
  <2>1. RoundOver(c)
    BY <1>6, RoundEnds DEF StoreLeader
  <2>2. /\ UNCHANGED <<now, armed_at, g_hrtimer_start, leader_hrtimer_start>>
        /\ leader_core' = cpu[c]
        /\ phase[c] = "lead"
    BY <1>6 DEF StoreLeader
  <2>3. cpu[c] \in Online
    BY <2>2 DEF CandidatesStarted
  <2>4. TypeOK'
    BY <2>1, <2>2, <2>3 DEF RoundOver
  <2>5. leader_hrtimer_start < KTIME_MAX
    BY <2>2 DEF LeaderOnItsWay
  <2>6. CandidatesStarted'
    BY <2>1, <2>2 DEF RoundOver, CandidatesStarted
  <2>7. LeaderOnItsWay'
    BY <2>1, <2>2, <2>3, <2>5 DEF RoundOver, LeaderOnItsWay
  <2>. QED
    BY <2>4, <2>6, <2>7
<1>7. CASE UNCHANGED vars
  BY <1>7 DEF vars, CandidatesStarted, LeaderOnItsWay
<1>. QED
  BY <1>1, <1>2, <1>3, <1>4, <1>5, <1>6, <1>7 DEF Next, StartCounter

LEMMA InvElects == Inv => TypeOK /\ LeaderElected
<1>. SUFFICES ASSUME Inv, Online # {}, \A c \in Online : Started(c)
              PROVE  leader_core \in Online
  BY DEF Inv, LeaderElected
<1>1. leader_hrtimer_start < KTIME_MAX
  BY DEF Inv, LeaderOnItsWay, Started
<1>2. ~ \E c \in Online : phase[c] = "lead"
  BY DEF Started
<1>. QED
  BY <1>1, <1>2 DEF Inv, LeaderOnItsWay

(* The unlocked election always ends with an online core of the cluster as *)
(* its leader, whatever the number of cores.                               *)
THEOREM ElectionElects == Spec => [](TypeOK /\ LeaderElected)
  BY InitInv, StepInv, InvElects, PTL DEF Spec

-----------------------------------------------------------------------------
(* The acquisitions in order.                                              *)

Acquisition == Clusters \X {Resources[i] : i \in 1..7}

(* Nothing is acquired twice. *)
Distinct(s) == \A i, j \in 1..Len(s) : s[i] = s[j] => i = j

Occurs(s, x) == \E i \in 1..Len(s) : s[i] = x

(* A cluster's device file comes after its mailbox. *)
MailboxFirst(s) ==
    \A k \in Clusters : \A i, j \in 1..Len(s) :
        s[i] = <<k, "memory">> /\ s[j] = <<k, "chrdev">> => i < j

LEMMA ResourceCount ==
    /\ DOMAIN Resources = 1..7
    /\ \A i, j \in 1..7 : Resources[i] = Resources[j] => i = j
  BY DEF Resources

LEMMA AcquisitionsOfOne ==
    ASSUME NEW k \in Clusters
    PROVE  /\ AcquisitionsFor(k) \in Seq({k} \X {Resources[i] : i \in 1..7})
           /\ Distinct(AcquisitionsFor(k))
           /\ Profiled(k) => \A i \in 1..7 :
                                 Occurs(AcquisitionsFor(k), <<k, Resources[i]>>)
           /\ \A x : Occurs(AcquisitionsFor(k), x) => Profiled(k)
<1>1. CASE Profiled(k)
  <2>1. AcquisitionsFor(k) = [i \in 1..7 |-> <<k, Resources[i]>>]
    BY <1>1, ResourceCount DEF AcquisitionsFor
  <2>2. AcquisitionsFor(k) \in Seq({k} \X {Resources[i] : i \in 1..7})
    BY <2>1
  <2>3. Len(AcquisitionsFor(k)) = 7
    BY <2>1
  <2>4. Distinct(AcquisitionsFor(k))
    BY <2>1, <2>3, ResourceCount DEF Distinct
  <2>5. \A i \in 1..7 : Occurs(AcquisitionsFor(k), <<k, Resources[i]>>)
    BY <2>1, <2>3 DEF Occurs
  <2> QED
    BY <1>1, <2>2, <2>4, <2>5, Zenon
<1>2. CASE ~Profiled(k)
  <2>1. AcquisitionsFor(k) = <<>>
    BY <1>2 DEF AcquisitionsFor
  <2>2. AcquisitionsFor(k) \in Seq({k} \X {Resources[i] : i \in 1..7})
    BY <2>1
  <2>3. 1..Len(AcquisitionsFor(k)) = {}
    BY <2>1
  <2> QED
    BY <1>2, <2>2, <2>3 DEF Distinct, Occurs
<1> QED
  BY <1>1, <1>2

LEMMA MailboxOfOne ==
    ASSUME NEW k \in Clusters PROVE MailboxFirst(AcquisitionsFor(k))
<1>1. CASE Profiled(k)
  <2>1. AcquisitionsFor(k) = [i \in 1..7 |-> <<k, Resources[i]>>]
    BY <1>1, ResourceCount DEF AcquisitionsFor
  <2>2. Len(AcquisitionsFor(k)) = 7
    BY <2>1
  <2>3. \A i \in 1..7 : Resources[i] = "memory" => i = 4
    BY DEF Resources
  <2>4. \A i \in 1..7 : Resources[i] = "chrdev" => i = 5
    BY DEF Resources
  <2> QED
    <3> SUFFICES ASSUME NEW l \in Clusters, NEW i \in 1..7, NEW j \in 1..7,
                        AcquisitionsFor(k)[i] = <<l, "memory">>,
                        AcquisitionsFor(k)[j] = <<l, "chrdev">>
                 PROVE  i < j
      BY <2>2 DEF MailboxFirst
    <3>1. Resources[i] = "memory" /\ Resources[j] = "chrdev"
      BY <2>1
    <3>2. i = 4 /\ j = 5
      BY <2>3, <2>4, <3>1
    <3> QED
      BY <3>2
<1>2. CASE ~Profiled(k)
  BY <1>2 DEF AcquisitionsFor, MailboxFirst
<1> QED
  BY <1>1, <1>2

LEMMA AcquisitionsOfBoth ==
    ASSUME NEW s, s = AcquisitionsFor("cl1") \o AcquisitionsFor("cl2")
    PROVE  /\ s \in Seq(Acquisition)
           /\ Distinct(s)
           /\ MailboxFirst(s)
           /\ \A x \in Acquisition : Occurs(s, x) <=> Profiled(x[1])
<1> DEFINE R == {Resources[i] : i \in 1..7}
           s1 == AcquisitionsFor("cl1")
           s2 == AcquisitionsFor("cl2")
<1>1. /\ s1 \in Seq({"cl1"} \X R) /\ Distinct(s1)
      /\ s2 \in Seq({"cl2"} \X R) /\ Distinct(s2)
      /\ Profiled("cl1") => \A i \in 1..7 : Occurs(s1, <<"cl1", Resources[i]>>)
      /\ Profiled("cl2") => \A i \in 1..7 : Occurs(s2, <<"cl2", Resources[i]>>)
      /\ \A x : Occurs(s1, x) => Profiled("cl1")
      /\ \A x : Occurs(s2, x) => Profiled("cl2")
  BY AcquisitionsOfOne DEF Clusters
<1> HIDE DEF R, s1, s2
<1>2. s1 \in Seq(Acquisition) /\ s2 \in Seq(Acquisition)
  BY <1>1 DEF Acquisition, Clusters, R
<1>3. s \in Seq(Acquisition)
  BY <1>2 DEF s1, s2
<1>4. /\ Len(s) = Len(s1) + Len(s2)
      /\ \A i \in 1..Len(s) : s[i] = IF i <= Len(s1) THEN s1[i] ELSE s2[i - Len(s1)]
      /\ Len(s1) \in Nat /\ Len(s2) \in Nat
  <2>1. s = s1 \o s2
    BY DEF s1, s2
  <2>2. Len(s1) \in Nat /\ Len(s2) \in Nat
    BY <1>2
  <2>3. /\ Len(s) = Len(s1) + Len(s2)
        /\ \A i \in 1..(Len(s1) + Len(s2)) :
              s[i] = IF i <= Len(s1) THEN s1[i] ELSE s2[i - Len(s1)]
    <3>1. \A a, b \in Seq(Acquisition) :
             /\ Len(a \o b) = Len(a) + Len(b)
             /\ \A i \in 1..(Len(a) + Len(b)) :
                   (a \o b)[i] = IF i <= Len(a) THEN a[i] ELSE b[i - Len(a)]
      BY ConcatProperties, Zenon
    <3> QED
      BY <1>2, <2>1, <3>1, Zenon
  <2> QED
    BY <2>2, <2>3
<1>5. ASSUME NEW i \in 1..Len(s)
      PROVE  \/ i \in 1..Len(s1) /\ s[i] = s1[i] /\ s[i][1] = "cl1"
             \/ i - Len(s1) \in 1..Len(s2) /\ s[i] = s2[i - Len(s1)] /\ s[i][1] = "cl2"
  <2>1. /\ \A j \in 1..Len(s1) : s1[j] \in {"cl1"} \X R
        /\ \A j \in 1..Len(s2) : s2[j] \in {"cl2"} \X R
    BY <1>1
  <2>2. CASE i <= Len(s1)
    <3>1. i \in 1..Len(s1) /\ s[i] = s1[i]
      BY <1>4, <2>2
    <3> QED
      BY <2>1, <3>1
  <2>3. CASE ~(i <= Len(s1))
    <3>1. i - Len(s1) \in 1..Len(s2) /\ s[i] = s2[i - Len(s1)]
      BY <1>4, <2>3
    <3> QED
      BY <2>1, <3>1
  <2> QED
    BY <2>2, <2>3
<1>6. Distinct(s)
  <2> SUFFICES ASSUME NEW i \in 1..Len(s), NEW j \in 1..Len(s), s[i] = s[j]
               PROVE  i = j
    BY DEF Distinct
  <2>1. CASE s[i][1] = "cl1"
    <3>1. /\ i \in 1..Len(s1) /\ s[i] = s1[i]
          /\ j \in 1..Len(s1) /\ s[j] = s1[j]
      BY <1>5, <2>1
    <3> QED
      BY <1>1, <3>1 DEF Distinct
  <2>2. CASE s[i][1] # "cl1"
    <3>1. /\ i - Len(s1) \in 1..Len(s2) /\ s[i] = s2[i - Len(s1)]
          /\ j - Len(s1) \in 1..Len(s2) /\ s[j] = s2[j - Len(s1)]
      BY <1>5, <2>2
    <3>2. i - Len(s1) = j - Len(s1)
      BY <1>1, <3>1 DEF Distinct
    <3> QED
      BY <1>4, <3>2
  <2> QED
    BY <2>1, <2>2
<1>7. ASSUME NEW x, Occurs(s1, x) PROVE Occurs(s, x)
  <2>1. PICK i \in 1..Len(s1) : s1[i] = x
    BY <1>7 DEF Occurs
  <2>2. i \in 1..Len(s) /\ i <= Len(s1)
    BY <1>4
  <2>3. s[i] = x
    BY <1>4, <2>1, <2>2
  <2> QED
    BY <2>2, <2>3 DEF Occurs
<1>8. ASSUME NEW x, Occurs(s2, x) PROVE Occurs(s, x)
  <2>1. PICK i \in 1..Len(s2) : s2[i] = x
    BY <1>8 DEF Occurs
  <2>2. Len(s1) + i \in 1..Len(s) /\ s[Len(s1) + i] = x
    <3>1. /\ Len(s1) + i \in 1..Len(s) /\ ~(Len(s1) + i <= Len(s1))
          /\ (Len(s1) + i) - Len(s1) = i
      BY <1>4
    <3> QED
      BY <1>4, <2>1, <3>1
  <2> QED
    BY <2>2 DEF Occurs
<1>9. MailboxFirst(s)
  <2> SUFFICES ASSUME NEW k \in Clusters, NEW i \in 1..Len(s), NEW j \in 1..Len(s),
                      s[i] = <<k, "memory">>, s[j] = <<k, "chrdev">>
               PROVE  i < j
    BY DEF MailboxFirst
  <2>0. /\ MailboxFirst(s1) /\ MailboxFirst(s2)
        /\ s[i][1] = k /\ s[j][1] = k
    BY MailboxOfOne DEF s1, s2, Clusters
  <2>1. CASE k = "cl1"
    <3>1. /\ i \in 1..Len(s1) /\ s[i] = s1[i]
          /\ j \in 1..Len(s1) /\ s[j] = s1[j]
      BY <1>5, <2>0, <2>1
    <3> QED
      BY <2>0, <3>1 DEF MailboxFirst
  <2>2. CASE k # "cl1"
    <3>1. /\ i - Len(s1) \in 1..Len(s2) /\ s[i] = s2[i - Len(s1)]
          /\ j - Len(s1) \in 1..Len(s2) /\ s[j] = s2[j - Len(s1)]
      BY <1>5, <2>0, <2>2
    <3>2. i - Len(s1) < j - Len(s1)
      BY <2>0, <3>1 DEF MailboxFirst
    <3> QED
      BY <1>4, <3>2
  <2> QED
    BY <2>1, <2>2
<1>10. ASSUME NEW x \in Acquisition PROVE Occurs(s, x) <=> Profiled(x[1])
  <2>1. PICK k \in Clusters, i \in 1..7 : x = <<k, Resources[i]>> /\ x[1] = k
    BY DEF Acquisition
  <2>2. Profiled(k) => Occurs(s, x)
    BY <1>1, <1>7, <1>8, <2>1 DEF Clusters
  <2>3. ASSUME Occurs(s, x) PROVE Profiled(k)
    <3>1. PICK j \in 1..Len(s) : s[j] = x
      BY <2>3 DEF Occurs
    <3>2. CASE k = "cl1"
      <4>1. j \in 1..Len(s1) /\ s1[j] = x
        BY <1>5, <2>1, <3>1, <3>2
      <4>2. Occurs(s1, x)
        BY <4>1 DEF Occurs
      <4> QED
        BY <1>1, <3>2, <4>2
    <3>3. CASE k # "cl1"
      <4>1. k = "cl2"
        BY <3>3 DEF Clusters
      <4>2. j - Len(s1) \in 1..Len(s2) /\ s2[j - Len(s1)] = x
        BY <1>5, <2>1, <3>1, <4>1
      <4>3. Occurs(s2, x)
        BY <4>2 DEF Occurs
      <4> QED
        BY <1>1, <4>1, <4>3
    <3> QED
      BY <3>2, <3>3
  <2> QED
    BY <2>1, <2>2, <2>3
<1> QED
  BY <1>3, <1>6, <1>9, <1>10

(* Taking the first acquisition off the list. *)
LEMMA NextAcquisition ==
    ASSUME NEW s \in Seq(Acquisition), s # <<>>, Distinct(s), MailboxFirst(s)
    PROVE  /\ Head(s) \in Acquisition
           /\ Tail(s) \in Seq(Acquisition)
           /\ Distinct(Tail(s)) /\ MailboxFirst(Tail(s))
           /\ \A k \in Clusters :
                 Head(s) = <<k, "chrdev">> => ~Occurs(s, <<k, "memory">>)
           /\ Occurs(s, Head(s)) /\ ~Occurs(Tail(s), Head(s))
           /\ \A x : Occurs(Tail(s), x) => Occurs(s, x)
           /\ \A x : Occurs(s, x) => x = Head(s) \/ Occurs(Tail(s), x)
<1>1. /\ Len(s) \in Nat \ {0} /\ Len(Tail(s)) = Len(s) - 1 /\ Head(s) = s[1]
      /\ \A i \in 1..Len(Tail(s)) : Tail(s)[i] = s[i + 1]
  OBVIOUS
<1>2. Head(s) \in Acquisition /\ Tail(s) \in Seq(Acquisition)
  OBVIOUS
<1>3. Distinct(Tail(s)) /\ Occurs(s, Head(s)) /\ ~Occurs(Tail(s), Head(s))
  BY <1>1 DEF Distinct, Occurs
<1>4. \A x : Occurs(Tail(s), x) => Occurs(s, x)
  BY <1>1 DEF Occurs
<1>5. ASSUME NEW x, Occurs(s, x) PROVE x = Head(s) \/ Occurs(Tail(s), x)
  <2>1. PICK i \in 1..Len(s) : s[i] = x
    BY <1>5 DEF Occurs
  <2>2. CASE i = 1
    BY <1>1, <2>1, <2>2
  <2>3. CASE i # 1
    BY <1>1, <2>1, <2>3, i - 1 \in 1..Len(Tail(s)) DEF Occurs
  <2> QED
    BY <2>2, <2>3
<1>6. MailboxFirst(Tail(s))
  BY <1>1 DEF MailboxFirst
<1>7. ASSUME NEW k \in Clusters, Head(s) = <<k, "chrdev">>
      PROVE  ~Occurs(s, <<k, "memory">>)
  BY <1>1, <1>7 DEF MailboxFirst, Occurs
<1> QED
  BY <1>2, <1>3, <1>4, <1>5, <1>6, <1>7

-----------------------------------------------------------------------------
(* What __start_counter finds.                                             *)

AfterInterval == {"clusters", "acquire", "cores", "workqueue", "files"}
AfterClusters == AfterInterval \ {"clusters"}

(* No core runs __start_counter before the end of the load; what it reads  *)
(* is set one after the other.                                             *)
StartInv ==
    /\ stage # "started" =>
          /\ now = 0
          /\ phase = [c \in Online |-> "called"]
          /\ armed_at = [c \in Online |-> 0]
          /\ cpu = [c \in Online |-> min_cpu]
    /\ stage \in AfterInterval =>
          g_hrtimer_start = [c \in min_cpu..max_cpu |-> KTIME_MAX]
    /\ stage \in AfterClusters => leader_core = NoLeader
    /\ stage = "started" => Inv

LEMMA StartInvInit == LoadInit => StartInv
  BY DEF LoadInit, StartInv, AfterInterval, AfterClusters

LEMMA FreshElection ==
    ASSUME StartInv, stage # "started", [LoadNext]_loadVars, stage' = "started"
    PROVE  Init'
<1> USE DEF paramVars, resourceVars, profilerVars, threadVars, logVars, startVars,
        electionVars
<1>1. StartCounters
  BY DEF LoadNext, Load, TerminateProfiler, Elect, loadVars, moduleVars,
     CheckParameters, ComputeInterval, InitClusters, Acquire, AcquireFails,
     AcquiredAll, InitCore, NoCounter, NullDereferenced, InitedCores,
     CreateWorkqueue, WorkqueueFails, HandleTerm, StoreSysfs, Exit
<1>2. /\ stage = "files"
      /\ leader_hrtimer_start' = KTIME_MAX
      /\ UNCHANGED <<startVars, g_hrtimer_start, leader_core>>
  BY <1>1 DEF StartCounters, ResetLeaderStart
<1> QED
  BY <1>2 DEF StartInv, AfterInterval, AfterClusters, Init

LEMMA StartInvStep == StartInv /\ [LoadNext]_loadVars => StartInv'
<1> SUFFICES ASSUME StartInv, [LoadNext]_loadVars PROVE StartInv'
  OBVIOUS
<1> USE DEF paramVars, resourceVars, profilerVars, threadVars, logVars, startVars,
        electionVars, AfterInterval, AfterClusters
<1>1. CASE Elect
  <2>1. stage = "started" /\ stage' = "started" /\ [Next]_vars
    BY <1>1 DEF Elect, moduleVars
  <2>2. Inv'
    BY <2>1, StepInv DEF StartInv
  <2> QED
    BY <2>1, <2>2 DEF StartInv
<1>2. CASE StartCounters
  <2>1. stage # "started" /\ stage' = "started"
    BY <1>2 DEF StartCounters
  <2>2. Init'
    BY <2>1, FreshElection
  <2>3. Init' => Inv'
    BY InitInv, PTL
  <2> QED
    BY <2>1, <2>2, <2>3 DEF StartInv
<1>3. CASE ComputeInterval
  BY <1>3 DEF ComputeInterval, StartInv
<1>4. CASE InitClusters
  BY <1>4 DEF InitClusters, StartInv
<1>5. CASE CheckParameters \/ Acquire \/ AcquireFails \/ AcquiredAll
  BY <1>5 DEF CheckParameters, Acquire, AcquireFails, AcquiredAll, StartInv
<1>6. CASE InitCore \/ NoCounter \/ InitedCores \/ CreateWorkqueue \/ WorkqueueFails
  BY <1>6 DEF InitCore, NoCounter, NullDereferenced, InitedCores, CreateWorkqueue,
              WorkqueueFails, StartInv
<1>7. CASE \E k \in Clusters : TerminateProfiler(k)
  <2>1. UNCHANGED <<stage, startVars, electionVars>> /\ stage # "started"
    BY <1>7 DEF TerminateProfiler, HandleTerm, StoreSysfs, Exit, Loading
  <2> QED
    BY <2>1 DEF StartInv
<1>8. CASE UNCHANGED loadVars
  <2>1. UNCHANGED vars /\ UNCHANGED stage
    BY <1>8 DEF loadVars, moduleVars, vars
  <2>2. Inv => Inv'
    BY <2>1, StepInv
  <2> QED
    BY <2>1, <2>2 DEF StartInv, vars
<1> QED
  BY <1>1, <1>2, <1>3, <1>4, <1>5, <1>6, <1>7, <1>8 DEF LoadNext, Load

LEMMA StartInvariance == LoadSpec => []StartInv
  BY StartInvInit, StartInvStep, PTL DEF LoadSpec

(* on_each_cpu(__start_counter) is called in LeaderElection's initial      *)
(* state, whatever the statics held and whoever terminated meanwhile: the  *)
(* composition of the load with the election, as ElectionStartsFresh.      *)
THEOREM StartsFresh == LoadSpec => ElectionStartsFresh
<1>1. StartInv /\ [LoadNext]_loadVars =>
          [stage # "started" /\ stage' = "started" => Election!Init']_loadVars
  <2>1. Election!Init' <=> Init'
    BY DEF Election!Init, Init, Election!NoLeader, NoLeader
  <2> QED
    BY <2>1, FreshElection
<1> QED
  BY <1>1, StartInvariance, PTL DEF LoadSpec, ElectionStartsFresh

(* Hence the election after a load ends with an online leader.             *)
THEOREM LoadElectsLeader == LoadSpec => []LeaderElected
<1>1. StartInv => LeaderElected
  <2> SUFFICES ASSUME StartInv PROVE LeaderElected
    OBVIOUS
  <2>1. CASE stage = "started"
    <3>1. Inv
      BY <2>1 DEF StartInv
    <3> QED
      BY <3>1, InvElects
  <2>2. CASE stage # "started"
    BY <2>2 DEF StartInv, LeaderElected, Started
  <2> QED
    BY <2>1, <2>2
<1> QED
  BY <1>1, StartInvariance, PTL

-----------------------------------------------------------------------------
(* What the load holds.                                                    *)

ResourceNames == {Resources[i] : i \in 1..7}

Acquired(k, r) == r \in held[k]

(* What lies ahead is not held yet, and what a profiled cluster does not   *)
(* hold lies ahead.                                                        *)
TodoInv ==
    /\ todo \in Seq(Acquisition)
    /\ Distinct(todo)
    /\ MailboxFirst(todo)
    /\ \A x \in Acquisition :
          Occurs(todo, x) => Profiled(x[1]) /\ ~Acquired(x[1], x[2])
    /\ \A x \in Acquisition :
          Profiled(x[1]) => Occurs(todo, x) \/ Acquired(x[1], x[2])

HeldInv ==
    /\ held \in [Clusters -> SUBSET ResourceNames]
    /\ stage \in {"check", "interval", "clusters"} =>
          \A x \in Acquisition : ~Acquired(x[1], x[2])
    /\ stage = "acquire" => TodoInv
    /\ stage \in {"cores", "workqueue", "files", "started"} =>
          \A x \in Acquisition : Profiled(x[1]) => Acquired(x[1], x[2])
    /\ stage # "failed" => \A k \in Clusters :
          Acquired(k, "chrdev") => Acquired(k, "memory")

LEMMA HeldInvInit == LoadInit => HeldInv
  BY DEF LoadInit, HeldInv, Acquisition, Acquired

LEMMA AcquisitionPairs ==
    /\ \A k \in Clusters, r \in ResourceNames : <<k, r>> \in Acquisition
    /\ \A x \in Acquisition : /\ x = <<x[1], x[2]>>
                             /\ x[1] \in Clusters /\ x[2] \in ResourceNames
    /\ "memory" \in ResourceNames /\ "chrdev" \in ResourceNames
<1>1. Resources[4] = "memory" /\ Resources[5] = "chrdev"
  BY DEF Resources
<1> QED
  BY <1>1 DEF Acquisition, ResourceNames

LEMMA AcquireHeldInv == HeldInv /\ Acquire => HeldInv'
<1> SUFFICES ASSUME HeldInv, Acquire PROVE HeldInv'
  OBVIOUS
<1> DEFINE h == Head(todo)
<1>1. /\ stage = "acquire" /\ stage' = "acquire" /\ todo # <<>>
      /\ held' = [held EXCEPT ![h[1]] = @ \union {h[2]}]
      /\ todo' = Tail(todo) /\ UNCHANGED param
  BY DEF Acquire, paramVars
<1>2. TodoInv
  BY <1>1 DEF HeldInv
<1>3. /\ h \in Acquisition /\ h = <<h[1], h[2]>>
      /\ h[1] \in Clusters /\ h[2] \in ResourceNames
  BY <1>1, <1>2, NextAcquisition, AcquisitionPairs DEF TodoInv
<1>4. /\ todo' \in Seq(Acquisition) /\ Distinct(todo') /\ MailboxFirst(todo')
      /\ Occurs(todo, h) /\ ~Occurs(todo', h)
      /\ \A x : Occurs(todo', x) => Occurs(todo, x)
      /\ \A x : Occurs(todo, x) => x = h \/ Occurs(todo', x)
      /\ \A k \in Clusters : h = <<k, "chrdev">> => ~Occurs(todo, <<k, "memory">>)
  BY <1>1, <1>2, NextAcquisition DEF TodoInv
<1> HIDE DEF h
<1>5. held' \in [Clusters -> SUBSET ResourceNames]
  BY <1>1, <1>3 DEF HeldInv
<1>6. ASSUME NEW x \in Acquisition
      PROVE  Acquired(x[1], x[2])' <=> Acquired(x[1], x[2]) \/ x = h
  <2>1. x[1] \in Clusters /\ x = <<x[1], x[2]>>
    BY AcquisitionPairs
  <2>2. held \in [Clusters -> SUBSET ResourceNames]
    BY DEF HeldInv
  <2>3. CASE x[1] = h[1]
    BY <1>1, <1>3, <2>1, <2>2, <2>3 DEF Acquired
  <2>4. CASE x[1] # h[1]
    BY <1>1, <1>3, <2>1, <2>2, <2>4 DEF Acquired
  <2> QED
    BY <2>3, <2>4
<1>7. TodoInv'
  <2>1. ASSUME NEW x \in Acquisition, Occurs(todo', x)
        PROVE  Profiled(x[1])' /\ ~Acquired(x[1], x[2])'
    <3>1. Occurs(todo, x) /\ x # h
      BY <1>4, <2>1
    <3>2. Profiled(x[1]) /\ ~Acquired(x[1], x[2])
      BY <1>2, <3>1 DEF TodoInv
    <3> QED
      BY <1>1, <1>6, <3>1, <3>2 DEF Profiled
  <2>2. ASSUME NEW x \in Acquisition, Profiled(x[1])'
        PROVE  Occurs(todo', x) \/ Acquired(x[1], x[2])'
    <3>1. Occurs(todo, x) \/ Acquired(x[1], x[2])
      BY <1>1, <1>2, <2>2 DEF TodoInv, Profiled
    <3> QED
      BY <1>4, <1>6, <3>1
  <2> QED
    BY <1>4, <2>1, <2>2 DEF TodoInv, Occurs
<1>8. ASSUME NEW k \in Clusters, Acquired(k, "chrdev")'
      PROVE  Acquired(k, "memory")'
  <2> DEFINE m == <<k, "memory">>
             d == <<k, "chrdev">>
  <2>1. /\ m \in Acquisition /\ m[1] = k /\ m[2] = "memory"
        /\ d \in Acquisition /\ d[1] = k /\ d[2] = "chrdev"
    BY AcquisitionPairs
  <2>2. CASE d = h
    <3>1. Profiled(k)
      BY <1>2, <1>4, <2>1, <2>2 DEF TodoInv
    <3>2. ~Occurs(todo, m)
      BY <1>4, <2>2
    <3>3. Acquired(k, "memory")
      BY <1>2, <2>1, <3>1, <3>2 DEF TodoInv
    <3> QED
      BY <1>6, <2>1, <3>3
  <2>3. CASE d # h
    <3>1. Acquired(k, "chrdev")
      BY <1>6, <1>8, <2>1, <2>3
    <3>2. Acquired(k, "memory")
      BY <1>1, <3>1 DEF HeldInv
    <3> QED
      BY <1>6, <2>1, <3>2
  <2> QED
    BY <2>2, <2>3
<1> QED
  BY <1>1, <1>5, <1>7, <1>8 DEF HeldInv

(* An error return gives back, so a failed load may hold less. *)
LEMMA HeldInvStep == HeldInv /\ [LoadNext]_loadVars => HeldInv'
<1> SUFFICES ASSUME HeldInv, [LoadNext]_loadVars PROVE HeldInv'
  OBVIOUS
<1> USE DEF paramVars, resourceVars, profilerVars, threadVars, logVars, startVars,
        electionVars
<1>1. CASE Acquire
  BY <1>1, AcquireHeldInv
<1>2. CASE InitClusters
  <2>1. TodoInv' /\ UNCHANGED held
    <3>1. /\ todo' = AcquisitionsFor("cl1") \o AcquisitionsFor("cl2")
          /\ stage = "clusters" /\ UNCHANGED <<held, param>>
      BY <1>2 DEF InitClusters
    <3>2. /\ todo' \in Seq(Acquisition) /\ Distinct(todo') /\ MailboxFirst(todo')
          /\ \A x \in Acquisition : Occurs(todo', x) <=> Profiled(x[1])
      BY <3>1, AcquisitionsOfBoth
    <3>3. \A x \in Acquisition : ~Acquired(x[1], x[2])'
      BY <3>1 DEF HeldInv, Acquired
    <3> QED
      BY <3>1, <3>2, <3>3 DEF TodoInv, Profiled
  <2>2. stage = "clusters" /\ stage' \in {"acquire", "oops"}
    BY <1>2 DEF InitClusters
  <2> QED
    BY <2>1, <2>2 DEF HeldInv, Acquired
<1>3. CASE AcquiredAll
  <2>1. /\ stage = "acquire" /\ todo = <<>> /\ stage' = "cores"
        /\ UNCHANGED <<held, param>>
    BY <1>3 DEF AcquiredAll
  <2>2. \A x : ~Occurs(todo, x)
    BY <2>1 DEF Occurs
  <2>3. \A x \in Acquisition : Profiled(x[1]) => Acquired(x[1], x[2])
    BY <2>1, <2>2 DEF HeldInv, TodoInv
  <2> QED
    BY <2>1, <2>3 DEF HeldInv, Acquired, Profiled
<1>4. CASE AcquireFails
  <2>1. stage' = "failed"
    BY <1>4 DEF AcquireFails
  <2>2. held' \in [Clusters -> SUBSET ResourceNames]
    BY <1>4 DEF AcquireFails, HeldInv
  <2> QED
    BY <2>1, <2>2 DEF HeldInv
<1>5. CASE WorkqueueFails
  <2>1. stage' = "failed"
    BY <1>5 DEF WorkqueueFails
  <2>2. held' \in [Clusters -> SUBSET ResourceNames]
    BY <1>5 DEF WorkqueueFails, HeldInv
  <2> QED
    BY <2>1, <2>2 DEF HeldInv
<1>6. CASE CheckParameters \/ ComputeInterval
  BY <1>6 DEF CheckParameters, ComputeInterval, HeldInv, Acquired
<1>7. CASE InitCore \/ NoCounter \/ InitedCores \/ CreateWorkqueue \/ StartCounters
  <2>1. /\ UNCHANGED <<held, param>>
        /\ stage \in {"cores", "workqueue", "files"}
        /\ stage' \in {"cores", "workqueue", "files", "started", "oops"}
    BY <1>7 DEF InitCore, NoCounter, NullDereferenced, InitedCores, CreateWorkqueue,
                StartCounters
  <2> QED
    BY <2>1 DEF HeldInv, Acquired, Profiled
<1>8. CASE (\E k \in Clusters : TerminateProfiler(k)) \/ Elect \/ UNCHANGED loadVars
  <2>1. UNCHANGED <<stage, held, param, todo>>
    BY <1>8 DEF TerminateProfiler, HandleTerm, StoreSysfs, Exit, Elect, loadVars,
                moduleVars
  <2> QED
    BY <2>1 DEF HeldInv, TodoInv, Acquired, Profiled, Occurs
<1> QED
  BY <1>1, <1>2, <1>3, <1>4, <1>5, <1>6, <1>7, <1>8 DEF LoadNext, Load

LEMMA HeldInvariance == LoadSpec => []HeldInv
  BY HeldInvInit, HeldInvStep, PTL DEF LoadSpec

-----------------------------------------------------------------------------
(* A profiler that leaves during the load.                                 *)

(* From the moment it has been told, either it was through with the module *)
(* before it was looked up, or it has been and its store cleared the       *)
(* pointer, which is set only once.                                        *)
PointerInv ==
    /\ gpu_profiler_task \in [Clusters -> BOOLEAN]
    /\ profiler \in [Clusters -> {"running", "storing", "exiting", "exited"}]
    /\ early \in [Clusters -> BOOLEAN]
    /\ \A k \in Clusters :
          profiler[k] \in {"exiting", "exited"} =>
              early[k] \/ (LookedUp(k) /\ ~gpu_profiler_task[k])

LEMMA PointerInvInit == LoadInit => PointerInv
  BY DEF LoadInit, PointerInv

LEMMA PointerInvStep ==
    ASSUME HeldInv, PointerInv, [LoadNext]_loadVars
    PROVE  PointerInv'
<1> USE DEF paramVars, resourceVars, profilerVars, threadVars, logVars, startVars,
        electionVars
<1>0. held \in [Clusters -> SUBSET ResourceNames]
  BY DEF HeldInv
<1>1. CASE Acquire
  <2> DEFINE h == Head(todo)
  <2>1. /\ stage = "acquire" /\ todo # <<>>
        /\ held' = [held EXCEPT ![h[1]] = @ \union {h[2]}]
        /\ gpu_profiler_task' = [gpu_profiler_task EXCEPT ![h[1]] = @ \/ h[2] = "task"]
        /\ UNCHANGED <<profiler, early>>
    BY <1>1 DEF Acquire
  <2>2. /\ h \in Acquisition /\ Occurs(todo, h)
        /\ h[1] \in Clusters /\ h[2] \in ResourceNames
    BY <2>1, NextAcquisition, AcquisitionPairs DEF HeldInv, TodoInv
  <2>3. h[2] \notin held[h[1]]
    BY <2>1, <2>2 DEF HeldInv, TodoInv, Acquired
  <2> HIDE DEF h
  <2>4. gpu_profiler_task' \in [Clusters -> BOOLEAN]
    BY <2>1, <2>2 DEF PointerInv
  <2>5. ASSUME NEW k \in Clusters, profiler[k] \in {"exiting", "exited"}
        PROVE  early[k] \/ (LookedUp(k)' /\ ~gpu_profiler_task'[k])
    <3>1. CASE early[k]
      BY <3>1, Zenon
    <3>2. CASE LookedUp(k) /\ ~gpu_profiler_task[k]
      <4>1. LookedUp(k)'
        BY <1>0, <2>1, <2>2, <3>2 DEF LookedUp
      <4>2. ~gpu_profiler_task'[k]
        <5>1. CASE k # h[1]
          BY <2>1, <3>2, <5>1 DEF PointerInv
        <5>2. CASE k = h[1]
          <6>1. h[2] # "task"
            BY <2>3, <3>2, <5>2 DEF LookedUp
          <6> QED
            BY <2>1, <3>2, <5>2, <6>1 DEF PointerInv
        <5> QED
          BY <5>1, <5>2
      <4> QED
        BY <4>1, <4>2, Zenon
    <3> QED
      BY <2>5, <3>1, <3>2, Zenon DEF PointerInv
  <2> QED
    BY <2>1, <2>4, <2>5 DEF PointerInv
<1>2. CASE AcquireFails \/ WorkqueueFails
  <2>1. UNCHANGED profilerVars
    BY <1>2 DEF AcquireFails, WorkqueueFails
  <2>2. ASSUME NEW k \in Clusters, LookedUp(k) PROVE LookedUp(k)'
    <3>1. CASE AcquireFails
      <4>1. <<k, "task">> \notin GivenBack(Head(todo)[1], Head(todo)[2])
        BY DEF GivenBack
      <4> QED
        BY <2>2, <3>1, <4>1 DEF AcquireFails, LookedUp
    <3>2. CASE WorkqueueFails
      BY <2>2, <3>2 DEF WorkqueueFails, LookedUp
    <3> QED
      BY <1>2, <3>1, <3>2
  <2> QED
    BY <2>1, <2>2 DEF PointerInv
<1>3. ASSUME NEW k \in Clusters, TerminateProfiler(k) PROVE PointerInv'
  <2>0. UNCHANGED held
    BY <1>3 DEF TerminateProfiler, HandleTerm, StoreSysfs, Exit
  <2>1. CASE HandleTerm(k)
    BY <2>0, <2>1 DEF HandleTerm, PointerInv, LookedUp
  <2>2. CASE StoreSysfs(k)
    BY <2>0, <2>2 DEF StoreSysfs, StoredPointer, PointerInv, LookedUp
  <2>3. CASE Exit(k)
    BY <2>0, <2>3 DEF Exit, PointerInv, LookedUp
  <2> QED
    BY <1>3, <2>1, <2>2, <2>3 DEF TerminateProfiler
<1>4. CASE \/ CheckParameters \/ ComputeInterval \/ InitClusters \/ AcquiredAll
           \/ InitCore \/ NoCounter \/ InitedCores \/ CreateWorkqueue
           \/ StartCounters \/ Elect \/ UNCHANGED loadVars
  <2>1. UNCHANGED <<held, profilerVars>>
    BY <1>4 DEF CheckParameters, ComputeInterval, InitClusters, AcquiredAll,
       InitCore, NoCounter, InitedCores, CreateWorkqueue, StartCounters, Elect,
       loadVars, moduleVars
  <2> QED
    BY <2>1 DEF PointerInv, LookedUp
<1> QED
  BY <1>1, <1>2, <1>3, <1>4 DEF LoadNext, Load

LEMMA PointerInvariance == LoadSpec => []PointerInv
<1>1. HeldInv /\ PointerInv /\ [LoadNext]_loadVars => PointerInv'
  BY PointerInvStep
<1> QED
  BY <1>1, PointerInvInit, HeldInvariance, PTL DEF LoadSpec

(* The pointer to a profiler that exited survives the load only if the     *)
(* profiler was through with the module before it was looked up, as        *)
(* PointerSurvivesOnlyEarlyExit.                                           *)
THEOREM PointerCleared == LoadSpec => []PointerSurvivesOnlyEarlyExit
<1>1. PointerInv => PointerSurvivesOnlyEarlyExit
  BY DEF PointerInv, PointerSurvivesOnlyEarlyExit
<1> QED
  BY <1>1, PointerInvariance, PTL

-----------------------------------------------------------------------------
(* Cores, work queue, log files and periods.                               *)

Computed == AfterInterval \union {"started"}

(* The stages in order fill in the cores, the work queue and the files;    *)
(* only the failure of the work queue comes when there are cores.          *)
SetUpInv ==
    /\ stage \in {"check", "interval", "clusters", "acquire"} => core_ready = {}
    /\ stage \in {"workqueue", "files", "started"} => core_ready = OnlineCores
    /\ stage \in {"files", "started"} => workqueue = param.g_logging
    /\ stage # "started" => log_file = <<>>
    /\ \A i, j \in DOMAIN log_file :
          log_file[i] = "error" /\ log_file[j] = "error" => i = j
    /\ stage = "failed" /\ core_ready # {} =>
          /\ param.g_logging
          /\ core_ready = OnlineCores
          /\ \A k \in Clusters : "memory" \notin held[k]

(* The interval is computed once, from the parameters of insmod. *)
PeriodInv ==
    /\ param \in Parameters
    /\ stage \in Computed /\ param.g_aggregation_period_us # 0 =>
          g_manage_period_interval =
              ceiling(param.g_regulation_period_us, param.g_aggregation_period_us)

LEMMA SetUpInvInit == LoadInit => SetUpInv /\ PeriodInv
  BY DEF LoadInit, SetUpInv, PeriodInv, Computed, AfterInterval

LEMMA SetUpInvStep ==
    ASSUME HeldInv, SetUpInv, PeriodInv, [LoadNext]_loadVars
    PROVE  SetUpInv' /\ PeriodInv'
<1> USE DEF paramVars, resourceVars, profilerVars, threadVars, logVars, startVars,
        electionVars, Computed, AfterInterval
<1>1. CASE CheckParameters \/ InitClusters \/ Acquire \/ AcquireFails \/ AcquiredAll
  <2>1. /\ UNCHANGED <<param, g_manage_period_interval, core_ready, workqueue, log_file>>
        /\ stage \in {"check", "clusters", "acquire"}
        /\ stage' \in {"interval", "acquire", "cores", "failed", "oops"}
        /\ stage = "check" => stage' \in {"interval", "failed"}
    BY <1>1 DEF CheckParameters, InitClusters, Acquire, AcquireFails, AcquiredAll
  <2> QED
    BY <2>1 DEF SetUpInv, PeriodInv
<1>2. CASE ComputeInterval
  <2>1. /\ UNCHANGED <<param, core_ready, workqueue, log_file>>
        /\ stage = "interval" /\ stage' \in {"clusters", "oops"}
        /\ param.g_aggregation_period_us # 0 =>
              g_manage_period_interval' =
                ceiling(param.g_regulation_period_us, param.g_aggregation_period_us)
    BY <1>2 DEF ComputeInterval, DivisionByZero
  <2> QED
    BY <2>1 DEF SetUpInv, PeriodInv
<1>3. CASE InitCore \/ NoCounter \/ InitedCores \/ CreateWorkqueue
  <2>1. /\ UNCHANGED <<param, g_manage_period_interval, log_file>>
        /\ stage \in {"cores", "workqueue"}
        /\ stage' \in {"cores", "workqueue", "files", "oops"}
        /\ stage' \in {"workqueue", "files"} => core_ready' = OnlineCores
        /\ stage' = "files" => workqueue' = param.g_logging
    BY <1>3 DEF InitCore, NoCounter, NullDereferenced, InitedCores, CreateWorkqueue,
                SetUpInv
  <2> QED
    BY <2>1 DEF SetUpInv, PeriodInv
<1>4. CASE WorkqueueFails
  <2>1. /\ UNCHANGED <<param, g_manage_period_interval, core_ready, log_file>>
        /\ stage = "workqueue" /\ stage' = "failed" /\ param.g_logging
    BY <1>4 DEF WorkqueueFails
  <2>2. \A k \in Clusters : "memory" \notin held'[k]
    BY <1>4 DEF WorkqueueFails
  <2> QED
    BY <2>1, <2>2 DEF SetUpInv, PeriodInv
<1>5. CASE StartCounters
  <2>1. /\ UNCHANGED <<param, g_manage_period_interval, core_ready, workqueue>>
        /\ stage = "files" /\ stage' = "started"
    BY <1>5 DEF StartCounters
  <2>2. \A i, j \in DOMAIN log_file' :
            log_file'[i] = "error" /\ log_file'[j] = "error" => i = j
    <3>1. CASE UNCHANGED log_file
      BY <3>1 DEF SetUpInv
    <3>2. CASE ~UNCHANGED log_file
      <4> DEFINE files == Cardinality(OnlineCores)
                              + Cardinality({k \in Clusters : Profiled(k)})
      <4>1. PICK opened \in 0..files :
                log_file' = [i \in 1..files |-> CASE i <= opened    -> "open"
                                                  [] i = opened + 1 -> "error"
                                                  [] OTHER          -> "null"]
        BY <1>5, <3>2 DEF StartCounters
      <4> HIDE DEF files
      <4>2. ASSUME NEW i \in 1..files, log_file'[i] = "error" PROVE i = opened + 1
        BY <4>1, <4>2
      <4>3. DOMAIN log_file' = 1..files
        BY <4>1
      <4> QED
        BY <4>2, <4>3
    <3> QED
      BY <3>1, <3>2
  <2> QED
    BY <2>1, <2>2 DEF SetUpInv, PeriodInv
<1>6. CASE (\E k \in Clusters : TerminateProfiler(k)) \/ Elect \/ UNCHANGED loadVars
  <2>1. UNCHANGED <<stage, held, paramVars, threadVars, logVars>>
    BY <1>6 DEF TerminateProfiler, HandleTerm, StoreSysfs, Exit, Elect, loadVars,
                moduleVars
  <2> QED
    BY <2>1 DEF SetUpInv, PeriodInv
<1> QED
  BY <1>1, <1>2, <1>3, <1>4, <1>5, <1>6 DEF LoadNext, Load

LEMMA SetUpInvariance == LoadSpec => [](SetUpInv /\ PeriodInv)
<1>1. HeldInv /\ (SetUpInv /\ PeriodInv) /\ [LoadNext]_loadVars
          => (SetUpInv /\ PeriodInv)'
  BY SetUpInvStep
<1> QED
  BY <1>1, SetUpInvInit, HeldInvariance, PTL DEF LoadSpec

(* A module whose load ended well is complete: cores, devices with their   *)
(* mailboxes, work queue, and at most one log file that could not be       *)
(* opened; as LoadedIsComplete.                                            *)
THEOREM LoadCompletes == LoadSpec => []LoadedIsComplete
<1>1. HeldInv /\ SetUpInv => LoadedIsComplete
  <2> SUFFICES ASSUME HeldInv, SetUpInv, stage = "started" PROVE LoadedIsComplete
    BY DEF LoadedIsComplete
  <2>1. ASSUME NEW k \in Clusters, Profiled(k)
        PROVE  {Resources[i] : i \in DOMAIN Resources} \subseteq held[k]
    <3>1. \A r \in ResourceNames : r \in held[k]
      BY <2>1, AcquisitionPairs DEF HeldInv, Acquired
    <3> QED
      BY <3>1, ResourceCount DEF ResourceNames
  <2>2. Cardinality({i \in DOMAIN log_file : log_file[i] = "error"}) <= 1
    <3> DEFINE E == {i \in DOMAIN log_file : log_file[i] = "error"}
    <3>1. E = {} \/ \E i : E = {i}
      BY DEF SetUpInv
    <3>2. Cardinality(E) = 0 \/ Cardinality(E) = 1
      BY <3>1, FS_EmptySet, FS_Singleton, Zenon
    <3> QED
      BY <3>2
  <2> QED
    BY <2>1, <2>2 DEF SetUpInv, LoadedIsComplete
<1> QED
  BY <1>1, HeldInvariance, SetUpInvariance, PTL

(* What a failed load may leave behind, as FailedLoadLeaves: a device file *)
(* without a mailbox only then, running threads only when the work queue   *)
(* failed.                                                                 *)
THEOREM FailureLeaves == LoadSpec => []FailedLoadLeaves
<1>1. HeldInv /\ SetUpInv => FailedLoadLeaves
  BY DEF HeldInv, SetUpInv, FailedLoadLeaves, Acquired
<1> QED
  BY <1>1, HeldInvariance, SetUpInvariance, PTL

LEMMA ProductMonotone ==
    ASSUME NEW a \in Int, NEW b \in Int, NEW c \in Nat, a <= b
    PROVE  c * a \in Int /\ c * b \in Int /\ c * a <= c * b
<1>1. PICK d \in Nat : b = a + d
  <2>1. b - a \in Nat /\ b = a + (b - a)
    OBVIOUS
  <2> QED
    BY <2>1
<1>2. c * b = c * a + c * d /\ c * d \in Nat
  BY <1>1
<1> QED
  BY <1>2

(* What fits into an int is kept by it. *)
LEMMA IntKept ==
    ASSUME NEW n \in Nat, FitsInt(n)
    PROVE  AsInt(n) = n
<1> DEFINE W == INT_MODULUS
           d == n \div W
           r == n % W
<1>0. W \in Nat \ {0}
  BY ConversionAssumption
<1>1. d \in Nat /\ r \in 0..W-1 /\ n = W * d + r
  BY <1>0, DivisionWithRemainder
<1>2. 2 * n < W
  BY DEF FitsInt
<1> HIDE DEF W, d, r
<1>3. d = 0
  <2> SUFFICES ASSUME 1 <= d PROVE FALSE
    BY <1>1
  <2>1. W * 1 <= W * d /\ W * 1 = W /\ W * d \in Int
    BY <1>0, <1>1, ProductMonotone
  <2> QED
    BY <1>0, <1>1, <1>2, <2>1
<1>4. r = n
  BY <1>0, <1>1, <1>3
<1> QED
  BY <1>2, <1>4 DEF AsInt, W, r

(* The interval counted in aggregation periods covers the regulation       *)
(* period and no more, as IntervalCoversPeriod, whenever the two periods   *)
(* together fit into an int: what Regulation assumes of it.                *)
THEOREM IntervalCovers == LoadSpec => []IntervalCoversPeriod
<1>1. PeriodInv => IntervalCoversPeriod
  <2> DEFINE T_R == param.g_regulation_period_us
             T_A == param.g_aggregation_period_us
             n == g_manage_period_interval
  <2> SUFFICES ASSUME PeriodInv, stage = "started", T_R > 0, T_A > 0,
                      FitsInt(T_R + T_A - 1)
               PROVE  n > 0 /\ T_R <= n * T_A /\ (n - 1) * T_A < T_R
    BY DEF IntervalCoversPeriod
  <2>1. T_R \in Int /\ T_A \in Nat
    BY LoadAssumption DEF PeriodInv
  <2>2. n = ceiling(T_R, T_A)
    BY <2>1 DEF PeriodInv, Computed
  <2> HIDE DEF T_R, T_A, n
  <2>3. T_R + T_A - 1 \in Nat /\ T_A \in Nat \ {0}
    BY <2>1
  <2>4. PICK r \in 0..T_A-1 : T_R + T_A - 1 = T_A * n + r /\ n \in Nat
    <3>1. n = (T_R + T_A - 1) \div T_A
      BY <2>2, <2>3, IntKept DEF ceiling, Quotient
    <3> QED
      BY <2>3, <3>1, DivisionWithRemainder
  <2>5. T_A * n \in Int /\ n * T_A = T_A * n /\ (n - 1) * T_A = T_A * n - T_A
    BY <2>1, <2>4
  <2>6. T_A * n > 0
    BY <2>1, <2>4, <2>5
  <2>7. n # 0
    BY <2>1, <2>6
  <2> QED
    BY <2>1, <2>4, <2>5, <2>7
<1> QED
  BY <1>1, SetUpInvariance, PTL

-----------------------------------------------------------------------------
(* The budget.                                                             *)

(* How far rounding moves a quotient. *)
LEMMA RoundedDown ==
    ASSUME NEW a \in Nat, NEW b \in Nat \ {0}
    PROVE  /\ a \div b \in Nat
           /\ b * (a \div b) <= a /\ a < b * (a \div b) + b
<1> DEFINE q == a \div b
           r == a % b
<1>1. q \in Nat /\ r \in 0..b-1 /\ a = b * q + r
  BY DivisionWithRemainder
<1> HIDE DEF q, r
<1>2. b * q \in Int
  BY <1>1
<1>3. b * q <= a /\ a < b * q + b
  BY <1>1, <1>2
<1> QED
  BY <1>1, <1>3 DEF q

(* The events of a budget are the configured share of a regulation period, *)
(* up to a cache line and to what the truncated number of periods per      *)
(* second gives away: for every budget, every period up to a second and    *)
(* every unit.                                                             *)
LEMMA ShareOfBudget ==
    ASSUME NEW mb \in Nat, NEW T_R \in Nat, 0 < T_R, T_R <= US_PER_SEC
    PROVE  convert_mb_to_events(mb, T_R) \in Nat /\ BudgetIsShare(mb, T_R)
<1> DEFINE S == US_PER_SEC
           M == BYTES_PER_MB
           C == CACHE_LINE_SIZE
           q == S \div T_R
           e == (mb * M) \div (C * q)
<1>0. S \in Nat \ {0} /\ M \in Nat \ {0} /\ C \in Nat \ {0} /\ T_R \in Nat \ {0}
  BY ConversionAssumption
<1> HIDE DEF S, M, C
<1>1. q \in Nat /\ T_R * q <= S /\ S < T_R * q + T_R
  BY <1>0, RoundedDown
<1> HIDE DEF q
<1>2. q # 0
  <2> SUFFICES ASSUME q = 0 PROVE FALSE
    OBVIOUS
  <2>1. S < T_R
    BY <1>0, <1>1
  <2> QED
    BY <1>0, <2>1 DEF S
<1>3. C * q \in Nat \ {0} /\ mb * M \in Nat
  BY <1>0, <1>1, <1>2
<1>4. e \in Nat /\ (C * q) * e <= mb * M /\ mb * M < (C * q) * e + C * q
  BY <1>3, RoundedDown
<1> HIDE DEF e
<1>5. /\ e * C \in Nat /\ e * C * S \in Nat /\ mb * M * T_R \in Nat
      /\ T_R * q \in Nat /\ (C * q) * e \in Nat
  BY <1>0, <1>1, <1>3, <1>4
(* In q periods the budget is at most what is configured for them. *)
<1>6. e * C * (T_R * q) <= mb * M * T_R
  <2>1. T_R * ((C * q) * e) <= T_R * (mb * M)
    BY <1>0, <1>3, <1>4, <1>5, ProductMonotone
  <2>2. /\ T_R * ((C * q) * e) = e * C * (T_R * q)
        /\ T_R * (mb * M) = mb * M * T_R
    BY <1>0, <1>1, <1>4
  <2> QED
    BY <2>1, <2>2
<1>7. mb * M * T_R < e * C * S + C * S
  <2>1. T_R * (mb * M + 1) <= T_R * ((C * q) * e + C * q)
    BY <1>0, <1>3, <1>4, <1>5, ProductMonotone
  <2>2. /\ T_R * (mb * M + 1) = mb * M * T_R + T_R
        /\ T_R * ((C * q) * e + C * q) = (e * C + C) * (T_R * q)
        /\ (e * C + C) * S = e * C * S + C * S
    BY <1>0, <1>1, <1>4
  <2>3. (e * C + C) * (T_R * q) <= (e * C + C) * S
    <3>1. e * C + C \in Nat /\ T_R * q \in Int /\ S \in Int /\ T_R * q <= S
      BY <1>0, <1>1, <1>5
    <3> QED
      BY <3>1, ProductMonotone
  <2>4. mb * M * T_R + T_R <= e * C * S + C * S
    <3>1. mb * M * T_R + T_R <= (e * C + C) * (T_R * q)
      BY <2>1, <2>2
    <3>2. (e * C + C) * (T_R * q) <= e * C * S + C * S
      BY <2>2, <2>3
    <3>3. /\ mb * M * T_R + T_R \in Int
          /\ (e * C + C) * (T_R * q) \in Int
          /\ e * C * S + C * S \in Int
      BY <1>0, <1>5
    <3> QED
      BY <3>1, <3>2, <3>3
  <2> DEFINE X == mb * M * T_R
             Z == e * C * S + C * S
  <2>5. X \in Int /\ Z \in Int /\ X + T_R <= Z
    BY <1>0, <1>5, <2>4
  <2> HIDE DEF X, Z
  <2>6. X < Z
    BY <1>0, <2>5
  <2> QED
    BY <2>6 DEF X, Z
<1>8. e * C * S * q <= mb * M * T_R * (q + 1)
  <2>1. (e * C * q) * S <= (e * C * q) * (T_R * q + T_R)
    BY <1>0, <1>1, <1>5, ProductMonotone, e * C * q \in Nat
  <2>2. (q + 1) * (e * C * (T_R * q)) <= (q + 1) * (mb * M * T_R)
    BY <1>1, <1>5, <1>6, ProductMonotone, e * C * (T_R * q) \in Int
  <2>3. /\ (e * C * q) * S = e * C * S * q
        /\ (e * C * q) * (T_R * q + T_R) = (q + 1) * (e * C * (T_R * q))
        /\ (q + 1) * (mb * M * T_R) = mb * M * T_R * (q + 1)
    BY <1>0, <1>1, <1>4
  <2>4. /\ e * C * S * q \in Int /\ mb * M * T_R * (q + 1) \in Int
        /\ (q + 1) * (e * C * (T_R * q)) \in Int
    BY <1>1, <1>5
  <2> QED
    BY <2>1, <2>2, <2>3, <2>4
<1>9. q * T_R = S => e * C * S <= mb * M * T_R
  <2>1. T_R * q = q * T_R
    BY <1>0, <1>1
  <2> QED
    BY <1>6, <2>1
<1>10. PeriodsPerSecond(T_R) = q /\ convert_mb_to_events(mb, T_R) = e
  BY DEF PeriodsPerSecond, convert_mb_to_events, S, M, C, q, e
<1>11. BudgetIsShare(mb, T_R)
  BY <1>7, <1>8, <1>9, <1>10 DEF BudgetIsShare, C, M, S
<1> QED
  BY <1>4, <1>10, <1>11

(* The parameters were accepted, and the budgets computed from them. *)
BudgetInv ==
    /\ stage \in {"interval"} \union Computed => Accepted(param)
    /\ stage \in AfterClusters \union {"started"} /\ param.g_regulation_period_us # 0 =>
          \A k \in Clusters :
              cur_bandwidth_budget[k] =
                  AsInt(convert_mb_to_events(param.bandwidth_budget[k],
                                             param.g_regulation_period_us))

LEMMA BudgetInvInit == LoadInit => BudgetInv
  BY DEF LoadInit, BudgetInv, Computed, AfterInterval, AfterClusters

LEMMA BudgetInvStep == BudgetInv /\ [LoadNext]_loadVars => BudgetInv'
<1> SUFFICES ASSUME BudgetInv, [LoadNext]_loadVars PROVE BudgetInv'
  OBVIOUS
<1> USE DEF paramVars, resourceVars, profilerVars, threadVars, logVars, startVars,
        electionVars, Computed, AfterInterval, AfterClusters
<1>1. CASE CheckParameters
  <2>1. /\ UNCHANGED param /\ stage' \in {"interval", "failed"}
        /\ stage' = "interval" => Accepted(param)
    BY <1>1 DEF CheckParameters
  <2> QED
    BY <2>1 DEF BudgetInv, Accepted
<1>2. CASE ComputeInterval
  <2>1. UNCHANGED param /\ stage = "interval" /\ stage' \in {"clusters", "oops"}
    BY <1>2 DEF ComputeInterval
  <2> QED
    BY <2>1 DEF BudgetInv, Accepted
<1>3. CASE InitClusters
  <2>1. /\ UNCHANGED param /\ stage = "clusters" /\ stage' \in {"acquire", "oops"}
        /\ param.g_regulation_period_us # 0 =>
              \A k \in Clusters :
                  cur_bandwidth_budget'[k] =
                      AsInt(convert_mb_to_events(param.bandwidth_budget[k],
                                                 param.g_regulation_period_us))
    BY <1>3 DEF InitClusters, DivisionByZero
  <2> QED
    BY <2>1 DEF BudgetInv, Accepted
<1>4. CASE \/ Acquire \/ AcquireFails \/ AcquiredAll \/ InitCore \/ NoCounter
           \/ InitedCores \/ CreateWorkqueue \/ WorkqueueFails \/ StartCounters
  <2>1. /\ UNCHANGED <<param, cur_bandwidth_budget>>
        /\ stage \in AfterClusters
        /\ stage' \in AfterClusters \union {"started", "failed", "oops"}
    BY <1>4 DEF Acquire, AcquireFails, AcquiredAll, InitCore, NoCounter,
       NullDereferenced, InitedCores, CreateWorkqueue, WorkqueueFails, StartCounters
  <2> QED
    BY <2>1 DEF BudgetInv, Accepted
<1>5. CASE (\E k \in Clusters : TerminateProfiler(k)) \/ Elect \/ UNCHANGED loadVars
  <2>1. UNCHANGED <<stage, param, cur_bandwidth_budget>>
    BY <1>5 DEF TerminateProfiler, HandleTerm, StoreSysfs, Exit, Elect, loadVars,
                moduleVars
  <2> QED
    BY <2>1 DEF BudgetInv, Accepted
<1> QED
  BY <1>1, <1>2, <1>3, <1>4, <1>5 DEF LoadNext, Load

(* The budget a cluster is held to is the configured share of a regulation *)
(* period, as BudgetConfigured: for every accepted period and every budget *)
(* less than a cache line short of it and above it by no more than the     *)
(* truncated number of periods explains; negative only if it does not fit  *)
(* into the int.                                                           *)
THEOREM BudgetsAreShares == LoadSpec => []BudgetConfigured
<1>1. PeriodInv /\ BudgetInv => BudgetConfigured
  <2> DEFINE T_R == param.g_regulation_period_us
             mb(k) == param.bandwidth_budget[k]
             events(k) == convert_mb_to_events(mb(k), T_R)
  <2> SUFFICES ASSUME PeriodInv, BudgetInv, stage = "started", T_R > 0,
                      NEW k \in Clusters
               PROVE  /\ BudgetIsShare(mb(k), T_R)
                      /\ FitsInt(events(k)) => cur_bandwidth_budget[k] = events(k)
                      /\ cur_bandwidth_budget[k] < 0 => ~FitsInt(events(k))
    BY DEF BudgetConfigured
  <2>1. T_R \in Int /\ mb(k) \in Nat
    BY LoadAssumption DEF PeriodInv
  <2>2. T_R \in 0..US_PER_SEC
    BY DEF BudgetInv, Computed, Accepted
  <2>3. cur_bandwidth_budget[k] = AsInt(events(k))
    BY <2>1 DEF BudgetInv
  <2> HIDE DEF T_R, mb
  <2>4. events(k) \in Nat /\ BudgetIsShare(mb(k), T_R)
    BY <2>1, <2>2, ShareOfBudget, ConversionAssumption
  <2> HIDE DEF events
  <2>5. FitsInt(events(k)) => cur_bandwidth_budget[k] = events(k)
    BY <2>3, <2>4, IntKept
  <2> QED
    BY <2>4, <2>5
<1> QED
  BY <1>1, BudgetInvInit, BudgetInvStep, SetUpInvariance, PTL DEF LoadSpec

-----------------------------------------------------------------------------
(* Types, and the receivers.                                               *)

LEMMA NextCoreOnline == core_ready # OnlineCores /\ core_ready \subseteq OnlineCores
                            => NextCore \in OnlineCores \ core_ready
<1> SUFFICES ASSUME core_ready # OnlineCores, core_ready \subseteq OnlineCores
             PROVE  NextCore \in OnlineCores \ core_ready
  OBVIOUS
<1> DEFINE Rest == OnlineCores \ core_ready
<1>1. Rest \in SUBSET Nat /\ Rest # {}
  <2>1. OnlineCores \subseteq 0..NUMBER_OF_CORES-1 /\ NUMBER_OF_CORES \in Nat
    BY LoadAssumption
  <2>2. \A c \in OnlineCores : c \in Nat
    BY <2>1
  <2>3. Rest # {}
    BY Zenon
  <2> QED
    BY <2>2, <2>3
<1> HIDE DEF Rest
<1>2. \E c \in Rest : \A d \in Rest : c <= d
  BY <1>1, LeastNatural
<1>3. NextCore = CHOOSE c \in Rest : \A d \in Rest : c <= d
  BY DEF NextCore, Rest
<1>4. NextCore \in Rest
  BY <1>2, <1>3, Zenon
<1> QED
  BY <1>4 DEF Rest

(* The types of what the other invariants leave open. *)
RestTyped ==
    /\ stage \in Stages
    /\ stage # "started" => leader_core \in {0, NoLeader}
    /\ g_manage_period_interval \in Int
    /\ cur_bandwidth_budget \in [Clusters -> Int]
    /\ core_ready \subseteq OnlineCores
    /\ receiver \in [Clusters -> OnlineCores \union {NoCore}]
    /\ workqueue \in BOOLEAN
    /\ \A i \in DOMAIN log_file : log_file[i] \in {"open", "error", "null"}

(* With cluster 1 and cluster 2 each naming cores of their own, a core     *)
(* that is set up has the receiver of the cluster that names it.           *)
ReceiversInv ==
    (\A k \in Clusters : InRange(k)) =>
        \A k \in Clusters :
            Profiled(k) /\ param.profiling_core[k] \in core_ready =>
                receiver[k] = param.profiling_core[k]

LEMMA RestTypedStep ==
    ASSUME PeriodInv, BudgetInv, RestTyped, [LoadNext]_loadVars
    PROVE  RestTyped'
<1> USE DEF paramVars, resourceVars, profilerVars, threadVars, logVars, startVars,
        electionVars, Stages
<1>0. /\ param.g_regulation_period_us \in Int /\ param.g_aggregation_period_us \in Nat
      /\ param.bandwidth_budget \in [Clusters -> Nat] /\ param.g_logging \in BOOLEAN
  BY LoadAssumption DEF PeriodInv
<1>1. CASE ComputeInterval
  <2> DEFINE T_R == param.g_regulation_period_us
             T_A == param.g_aggregation_period_us
  <2>1. /\ stage = "interval" /\ stage' \in {"clusters", "oops"}
        /\ \/ T_A # 0 /\ g_manage_period_interval' = ceiling(T_R, T_A)
           \/ g_manage_period_interval' = 0
        /\ UNCHANGED <<leader_core, cur_bandwidth_budget, threadVars, logVars>>
    BY <1>1 DEF ComputeInterval, DivisionByZero
  <2>2. T_R \in Nat
    BY <1>0, <2>1, ConversionAssumption DEF BudgetInv, Accepted
  <2>3. T_A # 0 => ceiling(T_R, T_A) \in Int
    <3> HIDE DEF T_R, T_A
    <3> SUFFICES ASSUME T_A # 0 PROVE ceiling(T_R, T_A) \in Int
      OBVIOUS
    <3>1. T_A \in Nat \ {0}
      BY <1>0 DEF T_A
    <3>2. T_R + T_A - 1 \in Nat
      BY <2>2, <3>1
    <3> DEFINE sum == T_R + T_A - 1
               a == AsInt(sum)
    <3>3. a \in Int
      <4>1. INT_MODULUS \in Nat \ {0} /\ sum % INT_MODULUS \in 0..INT_MODULUS-1
        BY <3>2, ConversionAssumption, DivisionWithRemainder
      <4> QED
        BY <4>1 DEF AsInt
    <3> HIDE DEF a
    <3>4. /\ a >= 0 => a \in Nat /\ a \div T_A \in Nat
          /\ a < 0 => -a \in Nat /\ (-a) \div T_A \in Nat
      BY <3>1, <3>3, RoundedDown
    <3>5. Quotient(a, T_A) \in Int
      BY <3>3, <3>4 DEF Quotient
    <3> QED
      BY <3>5 DEF ceiling, a
  <2> QED
    BY <2>1, <2>3 DEF RestTyped
<1>2. CASE InitClusters
  <2> DEFINE T_R == param.g_regulation_period_us
             events(k) == convert_mb_to_events(param.bandwidth_budget[k], T_R)
  <2>1. /\ stage = "clusters" /\ stage' \in {"acquire", "oops"}
        /\ \/ T_R # 0 /\ cur_bandwidth_budget' = [k \in Clusters |-> AsInt(events(k))]
           \/ cur_bandwidth_budget' = [k \in Clusters |-> 0]
        /\ leader_core' = NoLeader
        /\ UNCHANGED <<g_manage_period_interval, threadVars, logVars>>
    BY <1>2 DEF InitClusters, DivisionByZero
  <2>2. T_R \in 0..US_PER_SEC
    BY <2>1 DEF BudgetInv, Computed, AfterInterval, Accepted
  <2>3. ASSUME T_R # 0, NEW k \in Clusters PROVE AsInt(events(k)) \in Int
    <3>1. T_R \in 1..US_PER_SEC
      BY <2>2, <2>3, ConversionAssumption
    <3>2. param.bandwidth_budget[k] \in Nat
      BY <1>0
    <3> HIDE DEF T_R
    <3>3. events(k) \in Nat
      BY <3>1, <3>2, ShareOfBudget, ConversionAssumption
    <3> HIDE DEF events
    <3>4. INT_MODULUS \in Nat \ {0} /\ events(k) % INT_MODULUS \in 0..INT_MODULUS-1
      BY <3>3, ConversionAssumption, DivisionWithRemainder
    <3> QED
      BY <3>4 DEF AsInt
  <2> QED
    BY <2>1, <2>3 DEF RestTyped
<1>3. CASE InitCore
  <2>1. NextCore \in OnlineCores
    BY <1>3, NextCoreOnline DEF InitCore, RestTyped
  <2> QED
    BY <1>3, <2>1 DEF InitCore, RestTyped
<1>4. CASE StartCounters
  <2>1. /\ stage' = "started"
        /\ UNCHANGED <<g_manage_period_interval, cur_bandwidth_budget, threadVars,
                       workqueue>>
    BY <1>4 DEF StartCounters
  <2>2. \A i \in DOMAIN log_file' : log_file'[i] \in {"open", "error", "null"}
    BY <1>4 DEF StartCounters, RestTyped
  <2> QED
    BY <2>1, <2>2 DEF RestTyped
<1>5. CASE \/ CheckParameters \/ Acquire \/ AcquireFails \/ AcquiredAll \/ NoCounter
           \/ InitedCores \/ CreateWorkqueue \/ WorkqueueFails
  <2>1. /\ UNCHANGED <<leader_core, g_manage_period_interval, cur_bandwidth_budget,
                       core_ready, receiver, log_file>>
        /\ stage # "started" /\ stage' \in Stages \ {"started"}
        /\ workqueue' \in {workqueue, param.g_logging}
    BY <1>5 DEF CheckParameters, Acquire, AcquireFails, AcquiredAll, NoCounter,
                NullDereferenced, InitedCores, CreateWorkqueue, WorkqueueFails,
                RestTyped
  <2> QED
    BY <1>0, <2>1 DEF RestTyped
<1>6. CASE (\E k \in Clusters : TerminateProfiler(k)) \/ Elect \/ UNCHANGED loadVars
  <2>1. /\ UNCHANGED <<stage, paramVars, threadVars, logVars>>
        /\ stage # "started" => UNCHANGED leader_core
    BY <1>6 DEF TerminateProfiler, HandleTerm, StoreSysfs, Exit, Elect, loadVars,
                moduleVars
  <2> QED
    BY <2>1 DEF RestTyped
<1> QED
  BY <1>1, <1>2, <1>3, <1>4, <1>5, <1>6 DEF LoadNext, Load

LEMMA ReceiversInvStep ==
    ASSUME RestTyped, ReceiversInv, [LoadNext]_loadVars
    PROVE  ReceiversInv'
<1> USE DEF paramVars, resourceVars, profilerVars, threadVars, logVars, startVars,
        electionVars
<1>1. CASE InitCore
  <2>1. /\ core_ready' = core_ready \union {NextCore}
        /\ receiver' = [k \in Clusters |->
                           IF k \in Hosts(NextCore) THEN NextCore ELSE receiver[k]]
        /\ UNCHANGED param
    BY <1>1 DEF InitCore
  <2>2. SUFFICES ASSUME \A k \in Clusters : InRange(k), NEW k \in Clusters, Profiled(k),
                        param.profiling_core[k] \in core_ready \union {NextCore}
                 PROVE  receiver'[k] = param.profiling_core[k]
    BY <2>1 DEF ReceiversInv, InRange, Profiled
  <2>3. CASE k \in Hosts(NextCore)
    BY <2>1, <2>3 DEF Hosts
  <2>4. CASE k \notin Hosts(NextCore)
    <3>1. param.profiling_core[k] # NextCore
      BY <2>2, <2>4 DEF Hosts, InRange, Clusters
    <3> QED
      BY <2>1, <2>2, <2>4, <3>1 DEF ReceiversInv
  <2> QED
    BY <2>3, <2>4
<1>2. CASE ~InitCore
  <2>1. UNCHANGED <<param, core_ready, receiver>>
    BY <1>2 DEF LoadNext, Load, TerminateProfiler, Elect, loadVars, moduleVars,
       CheckParameters, ComputeInterval, InitClusters, Acquire, AcquireFails,
       AcquiredAll, NoCounter, InitedCores, CreateWorkqueue, WorkqueueFails,
       StartCounters, HandleTerm, StoreSysfs, Exit
  <2> QED
    BY <2>1 DEF ReceiversInv, InRange, Profiled
<1> QED
  BY <1>1, <1>2

LEMMA LoadInvariance ==
    LoadSpec => [](PeriodInv /\ SetUpInv /\ BudgetInv /\ RestTyped /\ ReceiversInv)
<1>1. LoadInit => RestTyped /\ ReceiversInv
  <2> SUFFICES ASSUME LoadInit PROVE RestTyped /\ ReceiversInv
    OBVIOUS
  <2>1. DOMAIN log_file = {}
    BY DEF LoadInit
  <2>2. RestTyped
    <3>1. /\ stage = "check" /\ leader_core = 0 /\ g_manage_period_interval = 0
          /\ cur_bandwidth_budget = [k \in Clusters |-> 0]
          /\ core_ready = {} /\ workqueue = FALSE
          /\ receiver = [k \in Clusters |-> NoCore]
      BY DEF LoadInit
    <3>2. /\ stage \in Stages /\ leader_core \in {0, NoLeader} /\ workqueue \in BOOLEAN
          /\ core_ready \subseteq OnlineCores
      BY <3>1, Zenon DEF Stages
    <3>3. g_manage_period_interval \in Int
      BY <3>1
    <3>4. cur_bandwidth_budget \in [Clusters -> Int]
      BY <3>1
    <3>5. receiver \in [Clusters -> OnlineCores \union {NoCore}]
      BY <3>1
    <3> QED
      BY <2>1, <3>2, <3>3, <3>4, <3>5 DEF RestTyped
  <2>3. ReceiversInv
    BY DEF LoadInit, ReceiversInv
  <2> QED
    BY <2>2, <2>3
<1>2. LoadSpec => []BudgetInv
  BY BudgetInvInit, BudgetInvStep, PTL DEF LoadSpec
<1>3. LoadSpec => []RestTyped
  <2>1. PeriodInv /\ BudgetInv /\ RestTyped /\ [LoadNext]_loadVars => RestTyped'
    BY RestTypedStep
  <2> QED
    BY <1>1, <1>2, <2>1, SetUpInvariance, PTL DEF LoadSpec
<1>4. RestTyped /\ ReceiversInv /\ [LoadNext]_loadVars => ReceiversInv'
  BY ReceiversInvStep
<1> QED
  BY <1>1, <1>2, <1>3, <1>4, SetUpInvariance, PTL DEF LoadSpec

(* Every variable of the load keeps its type, whatever the parameters:     *)
(* LoadTypeOK, and with it LeaderElection's TypeOK once the cores start.   *)
THEOREM LoadTypeCorrect == LoadSpec => []LoadTypeOK
<1>1. StartInv /\ HeldInv /\ PointerInv /\ PeriodInv /\ RestTyped => LoadTypeOK
  <2>1. {Resources[i] : i \in DOMAIN Resources} = ResourceNames
    BY ResourceCount DEF ResourceNames
  <2> QED
    BY <2>1 DEF StartInv, Inv, HeldInv, PointerInv, PeriodInv, RestTyped, LoadTypeOK
<1> QED
  BY <1>1, StartInvariance, HeldInvariance, PointerInvariance, LoadInvariance, PTL

(* Every profiled cluster that names an online core of its own finds its   *)
(* receiver there, as ProfiledClusterServed.                               *)
THEOREM ReceiversPlaced == LoadSpec => []ProfiledClusterServed
<1>1. SetUpInv /\ ReceiversInv => ProfiledClusterServed
  BY DEF SetUpInv, ReceiversInv, ProfiledClusterServed
<1> QED
  BY <1>1, LoadInvariance, PTL
=============================================================================
