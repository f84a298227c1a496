------------------------- MODULE JobRegistryProofs -------------------------
(***************************************************************************)
(* Proofs about JobRegistry, for any number of threads and job ids.        *)
(*                                                                         *)
(* The safety invariants are not inductive by themselves: that a claimed   *)
(* job's thread is still on its way (Announcing), that a pre-flighted call *)
(* names a task (Preflighted) and that live jobs run one (LiveTasks) has   *)
(* to be carried along.  IndInv is the conjunction.                        *)
(***************************************************************************)
EXTENDS JobRegistry, TLAPS

\* Between the claim and the announcement a job belongs to exactly one call.
Announcing ==
    /\ \A th \in Thread : At(th, "announce") =>
          caller[th].job \in Job /\ run[caller[th].job].state = "claimed"
    /\ \A a, b \in Thread :
          At(a, "announce") /\ At(b, "announce")
          /\ caller[a].job = caller[b].job => a = b

Preflighted == \A th \in Thread : At(th, "preflight") => caller[th].task \in Task

LiveTasks == \A j \in Job : Live(j) => run[j].task \in Task

\* What every step keeps.
IndInv ==
    /\ TypeOK
    /\ Preflighted
    /\ LiveTasks
    /\ Announcing
    /\ SlotsMatchThreads
    /\ JobExclusion
    /\ SweepExclusion
    /\ SwapExclusion
    /\ NoRetryAfterClose

-----------------------------------------------------------------------------
(* Lemmas about the operators *)

\* Every task has a category: `_start_job` always has a slot to claim.
LEMMA CategoryType == \A t \in Task : CategoryOf(t) \in Category
  BY DEF Task, DownloadTasks, MaintenanceTasks, CategoryOf, Category

\* Which categories the tasks that exclude each other belong to.
LEMMA CategoryFacts ==
  /\ CategoryOf("update") = "update"
  /\ CategoryOf("repair_tags") = "maintenance"
  /\ \A t \in Task : CategoryOf(t) = "update" => t = "update"
  /\ \A t \in DownloadTasks : CategoryOf(t) \in {"batch", "watchlist"}
  /\ \A t \in NeedsIdle : CategoryOf(t) = "maintenance"
  BY DEF Task, DownloadTasks, MaintenanceTasks, NeedsIdle, CategoryOf

-----------------------------------------------------------------------------
(* Types *)

\* The initial state has every part of the invariant: nothing runs.
LEMMA InitIndInv == Init => IndInv
  <1> SUFFICES ASSUME Init PROVE IndInv
    OBVIOUS
  <1> USE DEF Init
  <1>1. TypeOK
    BY DEF TypeOK, NoRun, NoTask, Idle, RunState, Label
  <1>2. \A j \in Job : ~Live(j)
    BY DEF Live, NoRun
  <1>3. \A th \in Thread, l \in Label \ {"idle"} : ~At(th, l)
    BY DEF At, Idle
  <1>4. Preflighted /\ Announcing
    BY <1>3 DEF Preflighted, Announcing, Label
  <1>5. LiveTasks /\ JobExclusion
    BY <1>2 DEF LiveTasks, JobExclusion
  <1>6. SlotsMatchThreads
    BY <1>2 DEF SlotsMatchThreads, Held
  <1>7. SweepExclusion
    BY DEF SweepExclusion
  <1>8. SwapExclusion
    BY <1>3 DEF SwapExclusion, Label
  <1>9. NoRetryAfterClose
    BY DEF NoRetryAfterClose
  <1> QED BY <1>1, <1>4, <1>5, <1>6, <1>7, <1>8, <1>9 DEF IndInv

\* What Goto leaves of a call: its label.
LEMMA GotoRecord == \A l : [Idle EXCEPT !.pc = l] = [pc |-> l, task |-> NoTask, job |-> NoJob]
  BY DEF Idle

\* Every action keeps the types; a pre-flighted task is a task.
LEMMA TypePreserved ==
  ASSUME TypeOK, Preflighted, [Next]_vars
  PROVE  TypeOK' /\ Preflighted'
  <1> USE DEF TypeOK, Preflighted, slotVars, retagVars, ffmpegVars, At, Return
  <1>a. Idle \in [pc : Label, task : Task \cup {NoTask}, job : Job \cup {NoJob}]
        /\ Idle.pc = "idle"
    BY DEF Idle, Label
  <1>b. NoRun \in [task : Task \cup {NoTask}, state : RunState]
    BY DEF NoRun, RunState
  <1>c. \A th \in Thread, l \in Label :
          Goto(th, l) => caller' = [caller EXCEPT ![th] =
                            [pc |-> l, task |-> NoTask, job |-> NoJob]]
    BY GotoRecord DEF Goto
  <1>e. \A th \in Thread, l \in Label \ {"preflight"} :
          Goto(th, l) =>
            /\ caller' \in [Thread -> [pc : Label, task : Task \cup {NoTask},
                                      job : Job \cup {NoJob}]]
            /\ Preflighted'
    BY <1>c DEF Label
  <1>d. Callers \subseteq Thread /\ Timer \in Thread
    BY DEF Thread
  <1>1. ASSUME NEW th \in Callers, NEW t \in Task, Preflight(th, t)
        PROVE  TypeOK' /\ Preflighted'
    BY <1>1, <1>d DEF Preflight, Label
  <1>2. ASSUME NEW th \in Callers, Claim(th) PROVE TypeOK' /\ Preflighted'
    <2>1. CASE Return(th) /\ UNCHANGED slotVars
      BY <1>2, <2>1, <1>a, <1>d DEF Claim
    <2>2. CASE TakeSlot(th, caller[th].task)
      <3>1. caller[th].task \in Task
        BY <1>2, <1>d DEF Claim
      <3>2. PICK j \in Job :
              /\ jobs' = [jobs EXCEPT ![CategoryOf(caller[th].task)] = j]
              /\ run' = [run EXCEPT ![j] = [task |-> caller[th].task, state |-> "claimed"]]
              /\ caller' = [caller EXCEPT ![th] =
                               [pc |-> "announce", task |-> NoTask, job |-> j]]
        BY <2>2 DEF TakeSlot
      <3> QED BY <1>2, <3>1, <3>2, <1>d DEF Claim, Label, RunState
    <2> QED BY <1>2, <2>1, <2>2 DEF Claim
  <1>3. ASSUME NEW th \in Callers, Announce(th) PROVE TypeOK' /\ Preflighted'
    BY <1>3, <1>a, <1>d DEF Announce, RunState
  <1>4. ASSUME NEW th \in Callers, EditPreflight(th) PROVE TypeOK' /\ Preflighted'
    BY <1>4, <1>c, <1>d DEF EditPreflight, Label
  <1>5. ASSUME NEW th \in Callers, EndMove(th) PROVE TypeOK' /\ Preflighted'
    BY <1>5, <1>a, <1>c, <1>d DEF EndMove, Label
  <1>6. ASSUME NEW th \in Callers, ClaimTagWrites(th) PROVE TypeOK' /\ Preflighted'
    BY <1>6, <1>a, <1>d DEF ClaimTagWrites
  <1>7. ASSUME NEW th \in Callers, FfmpegCheck(th) PROVE TypeOK' /\ Preflighted'
    <2>1. Goto(th, "decide") \/ Goto(th, "disarm")
      BY <1>7 DEF FfmpegCheck
    <2>2. UNCHANGED <<jobs, run, retags, sweeps, swapping, swapper, offer, retry, closed>>
      BY <1>7 DEF FfmpegCheck
    <2> QED BY <2>1, <2>2, <1>e, <1>d DEF Label
  <1>8. ASSUME NEW th \in Thread, FfmpegDecide(th) PROVE TypeOK' /\ Preflighted'
    <2>1. Return(th) \/ Goto(th, "defer") \/ Goto(th, "swap")
      BY <1>8 DEF FfmpegDecide
    <2>2. /\ UNCHANGED <<jobs, run, retags, sweeps, swapper, offer, retry, closed>>
          /\ swapping' \in BOOLEAN
      BY <1>8 DEF FfmpegDecide
    <2> QED BY <2>1, <2>2, <1>a, <1>e DEF Label
  <1>9. ASSUME NEW th \in Thread, FfmpegDefer(th) PROVE TypeOK' /\ Preflighted'
    BY <1>9, <1>a DEF FfmpegDefer
  <1>10. ASSUME NEW th \in Thread, FfmpegSwapStart(th) PROVE TypeOK' /\ Preflighted'
    BY <1>10, <1>a DEF FfmpegSwapStart
  <1>11. ASSUME NEW j \in Job, Release(j) PROVE TypeOK' /\ Preflighted'
    BY <1>11, <1>b DEF Release
  <1>12. ASSUME ReleaseTagWrites PROVE TypeOK' /\ Preflighted'
    BY <1>12 DEF ReleaseTagWrites
  <1>13. ASSUME FfmpegSwapEnd PROVE TypeOK' /\ Preflighted'
    BY <1>13 DEF FfmpegSwapEnd
  <1>14. ASSUME FfmpegRetryFire PROVE TypeOK' /\ Preflighted'
    <2>1. Goto(Timer, "decide") \/ Goto(Timer, "disarm")
      BY <1>14 DEF FfmpegRetryFire
    <2>2. /\ UNCHANGED <<jobs, run, retags, sweeps, swapping, swapper, offer, closed>>
          /\ retry' \in BOOLEAN
      BY <1>14 DEF FfmpegRetryFire
    <2> QED BY <2>1, <2>2, <1>e, <1>d DEF Label
  <1>15. ASSUME NewOffer PROVE TypeOK' /\ Preflighted'
    BY <1>15 DEF NewOffer
  <1>18. ASSUME NEW th \in Thread, FfmpegDisarm(th) PROVE TypeOK' /\ Preflighted'
    BY <1>18, <1>a DEF FfmpegDisarm
  <1>16. ASSUME Close PROVE TypeOK' /\ Preflighted'
    BY <1>16 DEF Close
  <1>17. ASSUME UNCHANGED vars PROVE TypeOK' /\ Preflighted'
    BY <1>17 DEF vars
  <1> QED
    BY <1>1, <1>2, <1>3, <1>4, <1>5, <1>6, <1>7, <1>8, <1>9, <1>10, <1>11,
       <1>12, <1>13, <1>14, <1>15, <1>16, <1>17, <1>18 DEF Next, Call, Ffmpeg

-----------------------------------------------------------------------------
(* Slots *)

\* A claim that succeeds, and a step that leaves slots and announcements alone.
Starts(th) ==
    /\ At(th, "preflight")
    /\ caller[th].task \in Task
    /\ ~Held(CategoryOf(caller[th].task))
    /\ ~Refused(caller[th].task)
    /\ TakeSlot(th, caller[th].task)
    /\ UNCHANGED <<retagVars, ffmpegVars>>

KeepsSlots ==
    /\ UNCHANGED slotVars
    /\ \A th \in Thread : caller'[th].pc = "announce" => caller'[th] = caller[th]

\* What a step does to the registry: one of three things, or nothing.
LEMMA StepShape ==
  ASSUME TypeOK, Preflighted, [Next]_vars
  PROVE  \/ KeepsSlots
         \/ \E th \in Callers : Starts(th) \/ Announce(th)
         \/ \E j \in Job : Release(j)
  <1> USE DEF KeepsSlots, slotVars
  <1>a. Callers \subseteq Thread /\ Timer \in Thread
    BY DEF Thread
  <1>b. \A th \in Thread : Return(th) => \A x \in Thread :
            caller'[x].pc = "announce" => caller'[x] = caller[x]
    BY DEF Return, Idle, TypeOK
  <1>c. \A th \in Thread, l \in Label \ {"announce"} : Goto(th, l) => \A x \in Thread :
            caller'[x].pc = "announce" => caller'[x] = caller[x]
    BY GotoRecord DEF Goto, TypeOK
  <1>1. ASSUME NEW th \in Callers, NEW t \in Task, Preflight(th, t) PROVE KeepsSlots
    BY <1>1, <1>a DEF Preflight, TypeOK
  <1>2. ASSUME NEW th \in Callers, Claim(th) PROVE KeepsSlots \/ Starts(th)
    BY <1>2, <1>a, <1>b DEF Claim, Starts, Preflighted
  <1>3. ASSUME NEW th \in Callers, EditPreflight(th) PROVE KeepsSlots
    BY <1>3, <1>a, <1>c DEF EditPreflight, Label
  <1>4. ASSUME NEW th \in Callers, EndMove(th) PROVE KeepsSlots
    BY <1>4, <1>a, <1>b, <1>c DEF EndMove, Label
  <1>5. ASSUME NEW th \in Callers, ClaimTagWrites(th) PROVE KeepsSlots
    BY <1>5, <1>a, <1>b DEF ClaimTagWrites
  <1>6. ASSUME NEW th \in Callers, FfmpegCheck(th) PROVE KeepsSlots
    <2>1. Goto(th, "decide") \/ Goto(th, "disarm")
      BY <1>6 DEF FfmpegCheck
    <2> QED BY <1>6, <2>1, <1>a, <1>c DEF FfmpegCheck, Label
  <1>7. ASSUME NEW th \in Thread, Ffmpeg(th) PROVE KeepsSlots
    <2>1. Return(th) \/ Goto(th, "defer") \/ Goto(th, "swap")
      BY <1>7 DEF Ffmpeg, FfmpegDisarm, FfmpegDecide, FfmpegDefer, FfmpegSwapStart
    <2>2. UNCHANGED slotVars
      BY <1>7 DEF Ffmpeg, FfmpegDisarm, FfmpegDecide, FfmpegDefer, FfmpegSwapStart
    <2> QED BY <2>1, <2>2, <1>b, <1>c DEF Label
  <1>8. ASSUME FfmpegRetryFire PROVE KeepsSlots
    <2>1. Goto(Timer, "decide") \/ Goto(Timer, "disarm")
      BY <1>8 DEF FfmpegRetryFire
    <2>2. UNCHANGED slotVars
      BY <1>8 DEF FfmpegRetryFire
    <2> QED BY <2>1, <2>2, <1>a, <1>c DEF Label
  <1>9. ASSUME ReleaseTagWrites \/ FfmpegSwapEnd \/ NewOffer \/ Close \/ UNCHANGED vars
        PROVE  KeepsSlots
    BY <1>9 DEF ReleaseTagWrites, FfmpegSwapEnd, NewOffer, Close, vars
  <1> QED
    BY <1>1, <1>2, <1>3, <1>4, <1>5, <1>6, <1>7, <1>8, <1>9 DEF Next, Call

\* What a successful claim leaves behind: one new live job, everything else of
\* the registry as it was.
LEMMA StartsFacts ==
  ASSUME TypeOK, NEW th \in Callers, Starts(th)
  PROVE  \E j \in Job :
           /\ run[j] = NoRun
           /\ jobs' = [jobs EXCEPT ![CategoryOf(caller[th].task)] = j]
           /\ run'[j].task = caller[th].task
           /\ run'[j].state = "claimed"
           /\ \A i \in Job \ {j} : run'[i] = run[i]
           /\ caller'[th].pc = "announce"
           /\ caller'[th].job = j
           /\ \A x \in Thread \ {th} : caller'[x] = caller[x]
  <1>1. PICK j \in Job :
          /\ run[j] = NoRun
          /\ jobs' = [jobs EXCEPT ![CategoryOf(caller[th].task)] = j]
          /\ run' = [run EXCEPT ![j] = [task |-> caller[th].task, state |-> "claimed"]]
          /\ caller' = [caller EXCEPT ![th] =
                           [pc |-> "announce", task |-> NoTask, job |-> j]]
    BY DEF Starts, TakeSlot
  <1>2. /\ run'[j].task = caller[th].task
        /\ run'[j].state = "claimed"
        /\ \A i \in Job \ {j} : run'[i] = run[i]
    BY <1>1 DEF TypeOK
  <1>3. /\ caller'[th].pc = "announce"
        /\ caller'[th].job = j
        /\ \A x \in Thread \ {th} : caller'[x] = caller[x]
    BY <1>1 DEF TypeOK, Thread
  <1> QED BY <1>1, <1>2, <1>3

\* Slots, threads and announcements keep matching.
LEMMA SlotsPreserved ==
  ASSUME IndInv, [Next]_vars
  PROVE  LiveTasks' /\ Announcing' /\ SlotsMatchThreads'
  <1>a. /\ TypeOK /\ Preflighted /\ LiveTasks /\ Announcing /\ SlotsMatchThreads
        /\ TypeOK'
    BY TypePreserved DEF IndInv
  <1>b. Callers \subseteq Thread
    BY DEF Thread
  <1>1. CASE KeepsSlots
    <2>1. \A j \in Job : Live(j)' <=> Live(j)
      BY <1>1 DEF KeepsSlots, slotVars, Live
    <2>2. LiveTasks'
      BY <1>1, <1>a, <2>1 DEF KeepsSlots, slotVars, LiveTasks
    <2>3. SlotsMatchThreads'
      BY <1>1, <1>a, <2>1 DEF KeepsSlots, slotVars, SlotsMatchThreads, Held, TypeOK
    <2>4. Announcing'
      BY <1>1, <1>a DEF KeepsSlots, slotVars, Announcing, At
    <2> QED BY <2>2, <2>3, <2>4
  <1>2. ASSUME NEW th \in Callers, Starts(th)
        PROVE  LiveTasks' /\ Announcing' /\ SlotsMatchThreads'
    <2> DEFINE c == CategoryOf(caller[th].task)
    <2>1. PICK j \in Job :
           /\ run[j] = NoRun
           /\ jobs' = [jobs EXCEPT ![c] = j]
           /\ run'[j].task = caller[th].task
           /\ run'[j].state = "claimed"
           /\ \A i \in Job \ {j} : run'[i] = run[i]
           /\ caller'[th].pc = "announce"
           /\ caller'[th].job = j
           /\ \A x \in Thread \ {th} : caller'[x] = caller[x]
      BY <1>a, <1>2, StartsFacts
    <2>2. caller[th].task \in Task /\ c \in Category /\ jobs[c] = NoJob
      BY <1>2, CategoryType DEF Starts, Held
    <2>3. ~Live(j) /\ run[j].state = "none"
      BY <2>1 DEF Live, NoRun
    <2>4. \A i \in Job : Live(i)' <=> (i = j \/ Live(i))
      BY <2>1 DEF Live
    <2>5. LiveTasks'
      BY <1>a, <2>1, <2>2, <2>4 DEF LiveTasks
    <2>6. Announcing'
      BY <1>a, <2>1, <2>3 DEF Announcing, At
    <2>7. \A i \in Job : Live(i) => CategoryOf(run[i].task) # c
                                    /\ CategoryOf(run[i].task) \in Category
      BY <1>a, <2>2, CategoryType, NoJobAssumption DEF SlotsMatchThreads, LiveTasks
    <2>8. \A i \in Job : Live(i)' => jobs'[CategoryOf(run'[i].task)] = i
      BY <1>a, <2>1, <2>2, <2>4, <2>7 DEF SlotsMatchThreads, TypeOK
    <2>9. \A d \in Category, i \in Job : jobs'[d] = i =>
              Live(i)' /\ CategoryOf(run'[i].task) = d
      <3> TAKE d \in Category, i \in Job
      <3>1. CASE d = c
        BY <3>1, <1>a, <2>1, <2>4 DEF TypeOK
      <3>2. CASE d # c
        <4>1. jobs'[d] = jobs[d]
          BY <3>2, <1>a, <2>1 DEF TypeOK
        <4>2. jobs[d] = i => Live(i) /\ CategoryOf(run[i].task) = d
          BY <1>a, NoJobAssumption DEF SlotsMatchThreads, Held
        <4> QED BY <4>1, <4>2, <2>1, <2>3, <2>4
      <3> QED BY <3>1, <3>2
    <2> QED BY <1>a, <2>5, <2>6, <2>8, <2>9 DEF SlotsMatchThreads, Held, Live, TypeOK
  <1>3. ASSUME NEW th \in Callers, Announce(th)
        PROVE  LiveTasks' /\ Announcing' /\ SlotsMatchThreads'
    <2> DEFINE j == caller[th].job
    <2>1. j \in Job /\ run[j].state = "claimed"
      BY <1>3, <1>a, <1>b DEF Announce, Announcing
    <2>2. /\ \A i \in Job : run'[i].task = run[i].task
          /\ \A i \in Job \ {j} : run'[i] = run[i]
          /\ run'[j].state = "running"
          /\ jobs' = jobs
      BY <1>3, <1>a, <2>1 DEF Announce, TypeOK
    <2>3. \A i \in Job : Live(i)' <=> Live(i)
      BY <2>1, <2>2 DEF Live
    <2>4. LiveTasks'
      BY <1>a, <2>2, <2>3 DEF LiveTasks
    <2>5. SlotsMatchThreads'
      BY <1>a, <2>2, <2>3 DEF SlotsMatchThreads, Held, TypeOK
    <2>6. \A x \in Thread : caller'[x].pc = "announce" => x # th /\ caller'[x] = caller[x]
      BY <1>3, <1>a, <1>b DEF Announce, Return, Idle, TypeOK
    <2>7. Announcing'
      BY <1>3, <1>a, <1>b, <2>2, <2>6 DEF Announcing, Announce, At
    <2> QED BY <2>4, <2>5, <2>7
  <1>4. ASSUME NEW j \in Job, Release(j)
        PROVE  LiveTasks' /\ Announcing' /\ SlotsMatchThreads'
    <2> DEFINE c == CategoryOf(run[j].task)
    <2>1. /\ run'[j] = NoRun
          /\ \A i \in Job \ {j} : run'[i] = run[i]
          /\ jobs' = [jobs EXCEPT ![c] = NoJob]
          /\ run[j].state = "running"
          /\ caller' = caller
      BY <1>4, <1>a DEF Release, TypeOK
    <2>2. Live(j) /\ jobs[c] = j
      BY <1>a, <2>1 DEF Live, SlotsMatchThreads
    <2>3. \A i \in Job : Live(i)' <=> (i # j /\ Live(i))
      BY <2>1 DEF Live, NoRun
    <2>4. LiveTasks'
      BY <1>a, <2>1, <2>3 DEF LiveTasks
    <2>5. Announcing'
      BY <1>a, <2>1 DEF Announcing, At
    <2>6. \A i \in Job : Live(i)' => jobs'[CategoryOf(run'[i].task)] = i
      <3> SUFFICES ASSUME NEW i \in Job, i # j, Live(i)
                   PROVE  jobs'[CategoryOf(run[i].task)] = i
        BY <2>1, <2>3
      <3>1. jobs[CategoryOf(run[i].task)] = i /\ CategoryOf(run[i].task) \in Category
        BY <1>a, CategoryType DEF SlotsMatchThreads, LiveTasks
      <3> QED BY <3>1, <1>a, <2>1, <2>2 DEF TypeOK
    <2>7. \A d \in Category, i \in Job : jobs'[d] = i =>
              Live(i)' /\ CategoryOf(run'[i].task) = d
      <3> SUFFICES ASSUME NEW d \in Category, NEW i \in Job, jobs'[d] = i
                   PROVE  Live(i)' /\ CategoryOf(run'[i].task) = d
        OBVIOUS
      <3>1. d # c /\ jobs[d] = i
        BY <1>a, <2>1, NoJobAssumption DEF TypeOK
      <3>2. Live(i) /\ CategoryOf(run[i].task) = d
        BY <3>1, <1>a, NoJobAssumption DEF SlotsMatchThreads, Held
      <3> QED BY <3>1, <3>2, <2>1, <2>3
    <2> QED BY <1>a, <2>4, <2>5, <2>6, <2>7 DEF SlotsMatchThreads, Held, Live, TypeOK
  <1> QED BY <1>a, <1>1, <1>2, <1>3, <1>4, StepShape

-----------------------------------------------------------------------------
(* Exclusion *)

\* A live job holds its category's slot.
LEMMA LiveHolds ==
  ASSUME SlotsMatchThreads
  PROVE  /\ \A j \in Job : Live(j) => Held(CategoryOf(run[j].task))
         /\ LiveTask("update") => Held("update")
         /\ LiveTask("repair_tags") => Held("maintenance")
  <1>1. \A j \in Job : Live(j) => Held(CategoryOf(run[j].task))
    BY NoJobAssumption DEF SlotsMatchThreads, Held
  <1> QED BY <1>1, CategoryFacts DEF LiveTask

\* A task that was not running runs after a step only if the step claimed its
\* slot, past every refusal of its own.
LEMMA NewLiveTask ==
  ASSUME IndInv, [Next]_vars, NEW t, LiveTask(t)', ~LiveTask(t)
  PROVE  \E th \in Callers : Starts(th) /\ caller[th].task = t
  <1>a. TypeOK /\ Preflighted /\ Announcing
    BY DEF IndInv
  <1>b. PICK i \in Job : Live(i)' /\ run'[i].task = t
    BY DEF LiveTask
  <1>c. ~(Live(i) /\ run[i].task = t)
    BY DEF LiveTask
  <1>1. CASE KeepsSlots
    BY <1>1, <1>b, <1>c DEF KeepsSlots, slotVars, Live
  <1>2. ASSUME NEW th \in Callers, Starts(th)
        PROVE  Starts(th) /\ caller[th].task = t
    BY <1>2, <1>a, <1>b, <1>c, StartsFacts DEF Live
  <1>3. ASSUME NEW th \in Callers, Announce(th) PROVE FALSE
    <2>1. caller[th].job \in Job /\ run[caller[th].job].state = "claimed"
      BY <1>3, <1>a DEF Announce, Announcing, Thread
    <2> QED BY <1>3, <2>1, <1>a, <1>b, <1>c DEF Announce, Live, TypeOK
  <1>4. ASSUME NEW j \in Job, Release(j) PROVE FALSE
    BY <1>4, <1>a, <1>b, <1>c DEF Release, Live, NoRun, TypeOK
  <1> QED BY <1>a, <1>1, <1>2, <1>3, <1>4, StepShape

\* Every step keeps the three job exclusions.
LEMMA JobExclusionPreserved ==
  ASSUME IndInv, [Next]_vars
  PROVE  JobExclusion'
  <1>a. /\ TypeOK /\ Preflighted /\ LiveTasks /\ Announcing
        /\ SlotsMatchThreads /\ JobExclusion
        /\ SlotsMatchThreads' /\ LiveTasks'
    BY SlotsPreserved DEF IndInv
  <1>b. \A i, j \in Job : i # j /\ Live(i)' /\ Live(j)' =>
            CategoryOf(run'[i].task) # CategoryOf(run'[j].task)
    BY <1>a DEF SlotsMatchThreads
  <1>1. CASE KeepsSlots
    BY <1>1, <1>a DEF KeepsSlots, slotVars, JobExclusion, Live
  <1>2. ASSUME NEW th \in Callers, Starts(th) PROVE JobExclusion'
    <2>1. PICK j \in Job :
           /\ run[j] = NoRun
           /\ run'[j].task = caller[th].task
           /\ run'[j].state = "claimed"
           /\ \A i \in Job \ {j} : run'[i] = run[i]
      BY <1>a, <1>2, StartsFacts
    <2> DEFINE t == caller[th].task
    <2>2. t \in Task /\ ~Refused(t) /\ ~Held(CategoryOf(t))
      BY <1>2 DEF Starts
    <2>3. \A i \in Job \ {j} : Live(i)' => Live(i) /\ run'[i].task = run[i].task
                       /\ run[i].task \in Task /\ Held(CategoryOf(run[i].task))
      BY <1>a, <2>1, LiveHolds DEF Live, LiveTasks
    <2>4. \A i \in Job \ {j} : Live(i)' =>
            /\ t # "update" /\ run[i].task # "update"
            /\ t \in NeedsIdle => run[i].task \notin DownloadTasks
            /\ t \in DownloadTasks => run[i].task \notin NeedsIdle
      <3> SUFFICES ASSUME NEW i \in Job \ {j}, Live(i)'
                   PROVE  /\ t # "update" /\ run[i].task # "update"
                          /\ t \in NeedsIdle => run[i].task \notin DownloadTasks
                          /\ t \in DownloadTasks => run[i].task \notin NeedsIdle
        OBVIOUS
      <3> DEFINE c == CategoryOf(run[i].task)
      <3>1. Held(c) /\ c \in Category /\ run[i].task \in Task
        BY <2>3, CategoryType
      <3>2. t # "update"
        <4>1. t = "update" => c = "update"
          BY <3>1, <2>2 DEF Refused, UpdateRefused, Category
        <4> QED BY <4>1, <3>1, <2>2, CategoryFacts
      <3>3. run[i].task # "update"
        <4>1. ~Held("update")
          BY <2>2, <3>2 DEF Refused, DownloadRefused, ScanRefused,
             LibraryRefused, Task
        <4> QED BY <4>1, <3>1, CategoryFacts
      <3>4. t \in NeedsIdle => ~Held("batch") /\ ~Held("watchlist")
        BY <2>2 DEF Refused, LibraryRefused, NeedsIdle
      <3>5. t \in DownloadTasks => ~Held("maintenance")
        BY <2>2 DEF Refused, DownloadRefused
      <3> QED BY <3>1, <3>2, <3>3, <3>4, <3>5, CategoryFacts
    <2>5. \A i, k \in Job : i # k /\ Live(i)' /\ Live(k)' =>
            /\ run'[i].task # "update"
            /\ run'[i].task \in NeedsIdle => run'[k].task \notin DownloadTasks
      <3> TAKE i, k \in Job
      <3> HAVE i # k /\ Live(i)' /\ Live(k)'
      <3>1. CASE i = j
        BY <3>1, <2>1, <2>3, <2>4
      <3>2. CASE k = j
        BY <3>2, <2>1, <2>3, <2>4
      <3>3. CASE i # j /\ k # j
        BY <3>3, <1>a, <2>3 DEF JobExclusion
      <3> QED BY <3>1, <3>2, <3>3
    <2> QED BY <1>b, <2>5 DEF JobExclusion
  <1>3. ASSUME NEW th \in Callers, Announce(th) PROVE JobExclusion'
    <2>1. caller[th].job \in Job /\ run[caller[th].job].state = "claimed"
      BY <1>3, <1>a DEF Announce, Announcing, Thread
    <2>2. \A i \in Job : run'[i].task = run[i].task /\ (Live(i)' <=> Live(i))
      BY <1>3, <2>1, <1>a DEF Announce, Live, TypeOK
    <2> QED BY <1>a, <2>2 DEF JobExclusion
  <1>4. ASSUME NEW j \in Job, Release(j) PROVE JobExclusion'
    <2>1. \A i \in Job : Live(i)' => run'[i] = run[i] /\ Live(i)
      BY <1>4, <1>a DEF Release, Live, NoRun, TypeOK
    <2> QED BY <1>a, <2>1 DEF JobExclusion
  <1> QED BY <1>a, <1>1, <1>2, <1>3, <1>4, StepShape

\* Every step keeps the sweeps counted, alone, and away from an update and a
\* tag repair.
LEMMA SweepExclusionPreserved ==
  ASSUME IndInv, [Next]_vars
  PROVE  SweepExclusion'
  <1>a. TypeOK /\ SlotsMatchThreads /\ SweepExclusion
    BY DEF IndInv
  <1>1. ASSUME NEW th \in Callers, ClaimTagWrites(th) PROVE SweepExclusion'
    <2>1. \A t : LiveTask(t)' <=> LiveTask(t)
      BY <1>1 DEF ClaimTagWrites, slotVars, LiveTask, Live
    <2>2. CASE UNCHANGED retagVars
      BY <1>a, <2>1, <2>2 DEF SweepExclusion, retagVars
    <2>3. CASE /\ ~Held("update") /\ ~Held("maintenance") /\ ~(retags > 0)
               /\ retags' = retags + 1 /\ sweeps' = sweeps + 1
      <3>1. ~LiveTask("update") /\ ~LiveTask("repair_tags")
        BY <1>a, <2>3, LiveHolds
      <3>2. retags' = sweeps' /\ sweeps' <= 1
        BY <1>a, <2>3 DEF SweepExclusion, TypeOK
      <3> QED BY <2>1, <3>1, <3>2 DEF SweepExclusion
    <2> QED BY <1>1, <2>2, <2>3 DEF ClaimTagWrites
  <1>2. ASSUME ReleaseTagWrites PROVE SweepExclusion'
    <2>1. \A t : LiveTask(t)' <=> LiveTask(t)
      BY <1>2 DEF ReleaseTagWrites, slotVars, LiveTask, Live
    <2>2. retags' = sweeps' /\ sweeps' <= 1 /\ (sweeps' > 0 => sweeps > 0)
      BY <1>2, <1>a DEF ReleaseTagWrites, SweepExclusion, TypeOK
    <2> QED BY <1>a, <2>1, <2>2 DEF SweepExclusion
  <1>3. CASE UNCHANGED retagVars
    <2>1. ASSUME NEW t \in {"update", "repair_tags"}, sweeps' > 0, LiveTask(t)'
          PROVE  FALSE
      <3>1. sweeps > 0 /\ retags > 0 /\ ~LiveTask(t)
        BY <1>3, <1>a, <2>1 DEF SweepExclusion, retagVars
      <3>2. PICK th \in Callers : Starts(th) /\ caller[th].task = t
        BY <2>1, <3>1, NewLiveTask
      <3> QED BY <2>1, <3>1, <3>2 DEF Starts, Refused, LibraryRefused,
             UpdateRefused, MaintenanceTasks
    <2> QED BY <1>3, <1>a, <2>1 DEF SweepExclusion, retagVars
  <1>4. \/ \E th \in Callers : ClaimTagWrites(th)
        \/ ReleaseTagWrites
        \/ UNCHANGED retagVars
    BY DEF Next, Call, Ffmpeg, Preflight, Claim, Announce, EditPreflight, EndMove,
           FfmpegCheck, FfmpegDisarm, FfmpegDecide, FfmpegDefer, FfmpegSwapStart, Release,
           FfmpegSwapEnd, FfmpegRetryFire, NewOffer, Close, vars, retagVars
  <1> QED BY <1>1, <1>2, <1>3, <1>4

\* Every step keeps the FFmpeg swap to one thread and away from an update.
LEMMA SwapExclusionPreserved ==
  ASSUME IndInv, [Next]_vars
  PROVE  SwapExclusion'
  <1>a. TypeOK /\ SlotsMatchThreads /\ SwapExclusion
    BY DEF IndInv
  <1>b. \A th \in Thread : (Return(th) \/ (\E l \in Label \ {"swap"} : Goto(th, l))) =>
            \A x \in Thread : At(x, "swap")' => At(x, "swap") /\ x # th
    BY <1>a, GotoRecord DEF Return, Goto, At, Idle, Label, TypeOK
  <1>c. Callers \subseteq Thread /\ Timer \in Thread
    BY DEF Thread
  <1> DEFINE Keeps == /\ UNCHANGED <<swapping, swapper>>
                      /\ \A x \in Thread : At(x, "swap")' => At(x, "swap")
  <1>1. ASSUME Keeps PROVE SwapExclusion'
    <2>1. ASSUME swapping, LiveTask("update")' PROVE FALSE
      <3>1. ~LiveTask("update")
        BY <1>a, <2>1 DEF SwapExclusion
      <3>2. PICK th \in Callers : Starts(th) /\ caller[th].task = "update"
        BY <2>1, <3>1, NewLiveTask
      <3> QED BY <2>1, <3>2 DEF Starts, Refused, UpdateRefused
    <2> QED BY <1>1, <1>a, <2>1 DEF SwapExclusion
  <1>2. ASSUME NEW th \in Thread, FfmpegDecide(th) PROVE SwapExclusion'
    <2>1. CASE Return(th) /\ UNCHANGED swapping
      <3>1. UNCHANGED swapper
        BY <1>2 DEF FfmpegDecide
      <3> QED BY <2>1, <3>1, <1>b, <1>1
    <2>2. CASE Goto(th, "defer") /\ UNCHANGED swapping
      <3>1. UNCHANGED swapper
        BY <1>2 DEF FfmpegDecide
      <3> QED BY <2>2, <3>1, <1>b, <1>1 DEF Label
    <2>3. CASE ~Busy /\ swapping' = TRUE /\ Goto(th, "swap")
      <3>1. UNCHANGED swapper /\ UNCHANGED slotVars
        BY <1>2 DEF FfmpegDecide
      <3>2. ~swapping /\ \A c \in Category : ~Held(c)
        BY <2>3 DEF Busy
      <3>3. ~swapper /\ \A x \in Thread : ~At(x, "swap")
        BY <1>a, <3>2 DEF SwapExclusion
      <3>4. \A x \in Thread : At(x, "swap")' => x = th
        BY <2>3, <3>3, <1>a, GotoRecord DEF Goto, At, TypeOK
      <3>5. ~LiveTask("update")'
        <4>1. ~LiveTask("update")
          BY <1>a, <3>2, LiveHolds DEF Category
        <4> QED BY <3>1, <4>1 DEF slotVars, LiveTask, Live
      <3> QED BY <2>3, <3>1, <3>3, <3>4, <3>5 DEF SwapExclusion
    <2> QED BY <1>2, <2>1, <2>2, <2>3 DEF FfmpegDecide
  <1>3. ASSUME NEW th \in Thread, FfmpegSwapStart(th) PROVE SwapExclusion'
    <2>1. At(th, "swap") /\ Return(th) /\ UNCHANGED swapping /\ UNCHANGED slotVars
      BY <1>3 DEF FfmpegSwapStart
    <2>2. swapping /\ ~LiveTask("update")
      BY <1>a, <2>1 DEF SwapExclusion
    <2>3. \A x \in Thread : ~At(x, "swap")'
      BY <1>a, <1>b, <2>1 DEF SwapExclusion
    <2>4. ~LiveTask("update")'
      BY <2>1, <2>2 DEF slotVars, LiveTask, Live
    <2> QED BY <2>1, <2>2, <2>3, <2>4 DEF SwapExclusion
  <1>4. ASSUME FfmpegSwapEnd PROVE SwapExclusion'
    <2>1. swapper /\ ~swapper' /\ ~swapping' /\ UNCHANGED caller
      BY <1>4 DEF FfmpegSwapEnd
    <2>2. \A x \in Thread : ~At(x, "swap")'
      BY <1>a, <2>1 DEF SwapExclusion, At
    <2> QED BY <2>1, <2>2 DEF SwapExclusion
  <1>5. ASSUME NEW th \in Callers, Call(th) \/ FfmpegCheck(th) PROVE Keeps
    <2>1. UNCHANGED <<swapping, swapper>>
      BY <1>5 DEF Call, Preflight, Claim, Announce, EditPreflight, EndMove,
                  ClaimTagWrites, FfmpegCheck, ffmpegVars
    <2>2. \A x \in Thread : At(x, "swap")' => At(x, "swap")
      <3>1. CASE \E t \in Task : Preflight(th, t)
        BY <3>1, <1>a, <1>c DEF Preflight, At, TypeOK
      <3>2. CASE Claim(th)
        BY <3>2, <1>a, <1>b, <1>c DEF Claim, TakeSlot, At, TypeOK
      <3>3. CASE Announce(th) \/ EditPreflight(th) \/ EndMove(th) \/ ClaimTagWrites(th)
        BY <3>3, <1>b, <1>c DEF Announce, EditPreflight, EndMove, ClaimTagWrites, Label
      <3>4. CASE FfmpegCheck(th)
        <4>1. Goto(th, "decide") \/ Goto(th, "disarm")
          BY <3>4 DEF FfmpegCheck
        <4> QED BY <4>1, <1>b, <1>c DEF Label, At
      <3> QED BY <1>5, <3>1, <3>2, <3>3, <3>4 DEF Call
    <2> QED BY <2>1, <2>2
  <1>6. ASSUME NEW th \in Thread, FfmpegDefer(th) \/ FfmpegDisarm(th) PROVE Keeps
    <2>1. UNCHANGED <<swapping, swapper>> /\ Return(th)
      BY <1>6 DEF FfmpegDefer, FfmpegDisarm
    <2> QED BY <2>1, <1>b
  <1>7. ASSUME FfmpegRetryFire PROVE Keeps
    <2>1. UNCHANGED <<swapping, swapper>> /\ (Goto(Timer, "decide") \/ Goto(Timer, "disarm"))
      BY <1>7 DEF FfmpegRetryFire
    <2> QED BY <2>1, <1>b, <1>c DEF Label, At
  <1>8. ASSUME \/ \E j \in Job : Release(j)
               \/ ReleaseTagWrites \/ NewOffer \/ Close \/ UNCHANGED vars
        PROVE  Keeps
    BY <1>8 DEF Release, ReleaseTagWrites, NewOffer, Close, vars, ffmpegVars, At
  <1> HIDE DEF Keeps
  <1> QED
    BY <1>1, <1>2, <1>3, <1>4, <1>5, <1>6, <1>7, <1>8 DEF Next, Ffmpeg

\* Every step keeps the retry disarmed once the service is closed.
LEMMA NoRetryPreserved ==
  ASSUME TypeOK, NoRetryAfterClose, [Next]_vars
  PROVE  NoRetryAfterClose'
  <1> USE DEF NoRetryAfterClose, ffmpegVars
  <1>1. ASSUME NEW th \in Callers, Call(th) \/ FfmpegCheck(th) PROVE NoRetryAfterClose'
    BY <1>1 DEF Call, Preflight, Claim, Announce, EditPreflight, EndMove,
                ClaimTagWrites, FfmpegCheck
  <1>2. ASSUME NEW th \in Thread, Ffmpeg(th) PROVE NoRetryAfterClose'
    BY <1>2 DEF Ffmpeg, FfmpegDisarm, FfmpegDecide, FfmpegDefer, FfmpegSwapStart
  <1>3. ASSUME \/ \E j \in Job : Release(j)
               \/ ReleaseTagWrites \/ FfmpegSwapEnd \/ FfmpegRetryFire
               \/ NewOffer \/ Close \/ UNCHANGED vars
        PROVE  NoRetryAfterClose'
    BY <1>3 DEF Release, ReleaseTagWrites, FfmpegSwapEnd, FfmpegRetryFire,
                NewOffer, Close, vars
  <1> QED BY <1>1, <1>2, <1>3 DEF Next

-----------------------------------------------------------------------------
(* The invariant, and what follows from it *)

\* IndInv is an invariant of the registry.
THEOREM Inductive == Spec => []IndInv
  <1>1. Init => IndInv
    BY InitIndInv
  <1>2. IndInv /\ [Next]_vars => IndInv'
    <2> SUFFICES ASSUME IndInv, [Next]_vars PROVE IndInv'
      OBVIOUS
    <2>1. TypeOK' /\ Preflighted'
      BY TypePreserved DEF IndInv
    <2>2. NoRetryAfterClose'
      BY NoRetryPreserved DEF IndInv
    <2> QED
      BY <2>1, <2>2, SlotsPreserved, JobExclusionPreserved,
         SweepExclusionPreserved, SwapExclusionPreserved DEF IndInv
  <1> QED BY <1>1, <1>2, PTL DEF Spec

\* Every variable keeps its type.
THEOREM TypeCorrect == Spec => []TypeOK
  <1>1. IndInv => TypeOK
    BY DEF IndInv
  <1> QED BY <1>1, Inductive, PTL

\* `_jobs` and the worker threads agree: no slot is leaked, none is shared.
THEOREM SlotsCorrect == Spec => []SlotsMatchThreads
  <1>1. IndInv => SlotsMatchThreads
    BY DEF IndInv
  <1> QED BY <1>1, Inductive, PTL

\* An update runs alone, a category runs one job, and no download runs beside a
\* rewrite of the downloads table.
THEOREM JobsExclude == Spec => []JobExclusion
  <1>1. IndInv => JobExclusion
    BY DEF IndInv
  <1> QED BY <1>1, Inductive, PTL

\* Genre sweeps are counted, one at a time, and away from updates and repairs.
THEOREM SweepsExclude == Spec => []SweepExclusion
  <1>1. IndInv => SweepExclusion
    BY DEF IndInv
  <1> QED BY <1>1, Inductive, PTL

\* FFmpeg is replaced by one thread at a time, never during an update.
THEOREM SwapsExclude == Spec => []SwapExclusion
  <1>1. IndInv => SwapExclusion
    BY DEF IndInv
  <1> QED BY <1>1, Inductive, PTL

\* No retry survives close().
THEOREM ClosedStaysQuiet == Spec => []NoRetryAfterClose
  <1>1. IndInv => NoRetryAfterClose
    BY DEF IndInv
  <1> QED BY <1>1, Inductive, PTL

=============================================================================
