---------------------------- MODULE SchedProofs ----------------------------
(***************************************************************************)
(* Theorems about Sched, for every size of the process table, every mix of *)
(* commands and every set of kill arguments.                               *)
(***************************************************************************)
EXTENDS Sched, TLAPS


LEMMA CandidateType ==
  ASSUME current_task \in Contexts
  PROVE  NextTask \in Contexts
BY DEF NextTask, Candidate, Contexts

(* The selection of schedule_once alternates: it returns the other context *)
(* unless that one is terminated.                                          *)
LEMMA NextIsOther ==
  ASSUME current_task \in Contexts, state[Other(current_task)] # "TERMINATED"
  PROVE  NextTask = Other(current_task)
BY DEF NextTask, Candidate, Contexts, Other

LEMMA SlotsType == Slots \subseteq Nat
BY SchedAssumption DEF Slots

(* Updating fields of one entry keeps the table well formed.               *)
LEMMA EntryUpdate ==
  ASSUME NEW up \in [Slots -> ProcessEntry], NEW i,
         NEW st \in TaskStates, NEW p \in Nat, NEW u \in BOOLEAN
  PROVE  /\ [up EXCEPT ![i].state = st] \in [Slots -> ProcessEntry]
         /\ [up EXCEPT ![i].pid = p] \in [Slots -> ProcessEntry]
         /\ [up EXCEPT ![i].state = st, ![i].used = u] \in [Slots -> ProcessEntry]
<1>1. CASE i \in Slots
  <2>1. up[i] \in ProcessEntry
    BY <1>1
  <2>2. /\ [up[i] EXCEPT !.state = st] \in ProcessEntry
        /\ [up[i] EXCEPT !.pid = p] \in ProcessEntry
        /\ [[up[i] EXCEPT !.state = st] EXCEPT !.used = u] \in ProcessEntry
    BY <2>1 DEF ProcessEntry
  <2>3. /\ [up EXCEPT ![i] = [up[i] EXCEPT !.state = st]] \in [Slots -> ProcessEntry]
        /\ [up EXCEPT ![i] = [up[i] EXCEPT !.pid = p]] \in [Slots -> ProcessEntry]
    BY <2>2
  <2> QED BY <2>2, <2>3
<1>2. CASE i \notin Slots
  BY <1>2
<1> QED BY <1>1, <1>2

-----------------------------------------------------------------------------
LEMMA TypeInit == Init => TypeOK
<1> SUFFICES ASSUME Init PROVE TypeOK
  OBVIOUS
<1>1. eflags_if \in BOOLEAN /\ user_ebp \in BOOLEAN
  BY DEF Init
<1> QED
  BY <1>1, SchedAssumption DEF Init, TypeOK, Contexts, Tasks, Slots, TaskStates, Labels,
     ProcessEntry, None, LOST, HALTED, FirstUserPid

LEMMA TypeTimer == TypeOK /\ timer_isr => TypeOK'
<1> SUFFICES ASSUME TypeOK, timer_isr PROVE TypeOK'
  OBVIOUS
<1> DEFINE found == state[NextTask] # "TERMINATED"
           next  == IF found THEN NextTask ELSE current_task
           frame == Saved[next]
<1>1. next \in Contexts
  BY CandidateType DEF TypeOK
<1>2. Saved \in [Tasks -> Tasks \cup {None}]
  BY DEF Saved, timer_isr, TypeOK, Tasks, Contexts
<1>3. state' \in [Tasks -> TaskStates]
  <2>1. state' = IF found THEN Marked(next, state) ELSE state
    BY DEF timer_isr
  <2>2. Marked(next, state) \in [Tasks -> TaskStates]
    BY <1>1 DEF Marked, AllReady, TypeOK, TaskStates
  <2> QED BY <2>1, <2>2 DEF TypeOK
<1>4. running' \in Contexts \cup {LOST, HALTED}
  BY DEF timer_isr
<1>5. esp' \in [Tasks -> Tasks \cup {None}]
  BY <1>2 DEF timer_isr
<1>6. current_task' \in Contexts
  BY <1>1 DEF timer_isr
<1> QED
  BY <1>3, <1>4, <1>5, <1>6 DEF timer_isr, TypeOK, locals, table

LEMMA TypeEnterKey == \A s \in Contexts : TypeOK /\ EnterKey(s) => TypeOK'
BY SchedAssumption DEF EnterKey, Entry, Goto, TypeOK, Labels, cpu, sched, table, None

LEMMA TypeSchedule ==
  \A s \in Contexts :
    TypeOK /\ (SchedPick(s) \/ SchedSet(s) \/ SchedReady(s) \/ SchedMark(s)) => TypeOK'
<1> SUFFICES ASSUME NEW s \in Contexts, TypeOK,
                    SchedPick(s) \/ SchedSet(s) \/ SchedReady(s) \/ SchedMark(s)
             PROVE  TypeOK'
  OBVIOUS
<1>1. CASE SchedPick(s)
  BY <1>1, CandidateType DEF SchedPick, Goto, TypeOK, Labels, cpu, sched, table
<1>2. CASE SchedSet(s)
  BY <1>2 DEF SchedSet, Goto, TypeOK, Labels, cpu, locals, table
<1>3. CASE SchedReady(s)
  BY <1>3 DEF SchedReady, AllReady, Goto, TypeOK, Labels, TaskStates, cpu, locals, table
<1>4. CASE SchedMark(s)
  BY <1>4 DEF SchedMark, Goto, TypeOK, Labels, TaskStates, cpu, locals, table
<1> QED BY <1>1, <1>2, <1>3, <1>4

LEMMA TypeKill == \A s \in Contexts : TypeOK /\ Kill(s) => TypeOK'
<1> SUFFICES ASSUME NEW s \in Contexts, TypeOK, Kill(s) PROVE TypeOK'
  OBVIOUS
<1> PICK p \in KillPids : task_kill(p)
  BY DEF Kill
<1>1. state' \in [Tasks -> TaskStates]
  BY DEF task_kill, TypeOK, TaskStates
<1>2. /\ user_processes' \in [Slots -> ProcessEntry]
      /\ user_task_state' \in TaskStates
      /\ UNCHANGED <<active_user_process, next_user_pid>>
  <2>1. CASE UNCHANGED table
    BY <2>1 DEF table, TypeOK
  <2>2. CASE user_process_kill(p)
    <3>1. "TERMINATED" \in TaskStates
      BY DEF TaskStates
    <3>2. \A i : [user_processes EXCEPT ![i].state = "TERMINATED"] \in [Slots -> ProcessEntry]
      BY <3>1, EntryUpdate DEF TypeOK
    <3> QED BY <2>1, <2>2, <3>1, <3>2 DEF user_process_kill, TypeOK
  <2> QED BY <2>1, <2>2 DEF task_kill
<1> QED BY <1>1, <1>2 DEF Kill, Goto, TypeOK, Labels, cpu, locals

LEMMA TypeRun ==
  \A s \in Contexts :
    /\ TypeOK
    /\ \/ Load(s) \/ FindSlot(s) \/ ReadPid(s) \/ StorePid(s) \/ FillSlot(s)
       \/ MakeActive(s) \/ user_task_start(s) \/ enter_user_mode(s) \/ Return(s)
    => TypeOK'
<1> SUFFICES ASSUME NEW s \in Contexts, TypeOK,
                    \/ Load(s) \/ FindSlot(s) \/ ReadPid(s) \/ StorePid(s) \/ FillSlot(s)
                    \/ MakeActive(s) \/ user_task_start(s) \/ enter_user_mode(s)
                    \/ Return(s)
             PROVE  TypeOK'
  OBVIOUS
<1>1. CASE Load(s)
  BY <1>1 DEF Load, Goto, TypeOK, Labels, cpu, sched, locals, table
<1>2. CASE FindSlot(s)
  <2>1. slot' \in [Contexts -> Slots \cup {None}]
    BY <1>2 DEF FindSlot, TypeOK
  <2>2. pc' \in [Contexts -> Labels]
    BY <1>2 DEF FindSlot, Goto, TypeOK, Labels
  <2> QED BY <1>2, <2>1, <2>2 DEF FindSlot, TypeOK, cpu, sched, table
<1>3. CASE ReadPid(s)
  BY <1>3 DEF ReadPid, Goto, TypeOK, Labels, cpu, sched, table
<1>4. CASE StorePid(s)
  <2>1. pid[s] \in Nat /\ pid[s] + 1 \in Nat
    BY DEF TypeOK
  <2>2. user_processes' \in [Slots -> ProcessEntry]
    BY <1>4, <2>1, EntryUpdate DEF StorePid, TypeOK
  <2> QED BY <1>4, <2>1, <2>2 DEF StorePid, Goto, TypeOK, Labels, cpu, sched, locals
<1>5. CASE FillSlot(s)
  <2>1. user_processes' \in [Slots -> ProcessEntry]
    BY <1>5, EntryUpdate DEF FillSlot, TypeOK, TaskStates
  <2> QED BY <1>5, <2>1 DEF FillSlot, Goto, TypeOK, Labels, cpu, sched, locals
<1>6. CASE MakeActive(s)
  BY <1>6 DEF MakeActive, Goto, TypeOK, Labels, cpu, sched, locals
<1>7. CASE user_task_start(s)
  BY <1>7 DEF user_task_start, Goto, TypeOK, Labels, TaskStates, cpu, sched, locals
<1>8. CASE enter_user_mode(s)
  BY <1>8 DEF enter_user_mode, Goto, TypeOK, Labels, sched, locals, table
<1>9. CASE Return(s)
  BY <1>9 DEF Return, Goto, TypeOK, Labels, sched, locals, table
<1> QED BY <1>1, <1>2, <1>3, <1>4, <1>5, <1>6, <1>7, <1>8, <1>9

LEMMA TypeUser ==
  \A s \in Contexts : TypeOK /\ UserStep(s) => TypeOK'
<1> SUFFICES ASSUME NEW s \in Contexts, TypeOK, UserStep(s) PROVE TypeOK'
  OBVIOUS
<1>1. CASE SysWrite(s)
  BY <1>1 DEF SysWrite, TrapStack, Contexts, TypeOK, sched, locals, table
<1>2. CASE SysExit(s)
  <2>1. user_processes' \in [Slots -> ProcessEntry]
    BY <1>2, EntryUpdate DEF SysExit, user_process_exit, TypeOK, TaskStates
  <2>2. active_user_process' = None /\ user_task_state' = "TERMINATED" /\ UNCHANGED next_user_pid
    BY <1>2 DEF SysExit, user_process_exit
  <2>3. running' \in Contexts \cup {LOST, HALTED}
    BY <1>2 DEF SysExit, TypeOK, None, LOST
  <2>4. pc' \in [Contexts -> Labels]
    BY <1>2 DEF SysExit, Goto, TypeOK, Labels
  <2>5. smashed' \subseteq Contexts
    BY <1>2 DEF SysExit, TrapStack, Contexts, TypeOK
  <2>6. /\ user_ebp' \in BOOLEAN
        /\ UNCHANGED <<eflags_if, user_return_esp, current_task, state, esp,
                       next_task, slot, pid>>
    BY <1>2 DEF SysExit, sched, locals
  <2> QED
    BY <2>1, <2>2, <2>3, <2>4, <2>5, <2>6 DEF TypeOK, TaskStates
<1>3. CASE UserFault(s)
  BY <1>3 DEF UserFault, TrapStack, Contexts, TypeOK, sched, locals, table
<1> QED BY <1>1, <1>2, <1>3 DEF UserStep

LEMMA TypeStep == TypeOK /\ [Next]_vars => TypeOK'
<1> SUFFICES ASSUME TypeOK, [Next]_vars PROVE TypeOK'
  OBVIOUS
<1>1. CASE UNCHANGED vars
  BY <1>1 DEF vars, cpu, sched, locals, table, TypeOK
<1>2. CASE timer_isr
  BY <1>2, TypeTimer
<1>3. ASSUME NEW s \in Contexts, EnterKey(s) PROVE TypeOK'
  BY <1>3, TypeEnterKey
<1>4. ASSUME NEW s \in Contexts, KernelStep(s) PROVE TypeOK'
  BY <1>4, TypeSchedule, TypeKill, TypeRun DEF KernelStep
<1>5. ASSUME NEW s \in Contexts, UserStep(s) PROVE TypeOK'
  BY <1>5, TypeUser
<1> QED BY <1>1, <1>2, <1>3, <1>4, <1>5 DEF Next

(* Type correctness: whatever is typed and whenever the timer fires, the   *)
(* scheduler selects one of the two contexts and the table stays well      *)
(* formed.                                                                 *)
THEOREM TypeCorrect == Spec => []TypeOK
BY TypeInit, TypeStep, PTL DEF Spec

-----------------------------------------------------------------------------
(* Soundness of context switching.                                         *)

LEMMA SwitchInit == Init => SwitchCore
BY DEF Init, SwitchCore, SwitchInv, LostOnlyByRun, UserModePinned, SmashedPinned,
       EbpFromTrap, NoScheduleCommand, Contexts, Tasks, Other, None, LOST

(* A step that only moves a context to a label other than user mode and    *)
(* those of "schedule".                                                    *)
LEMMA QuietStep ==
  ASSUME TypeOK, SwitchCore, NEW s \in Contexts, UNCHANGED <<cpu, sched>>,
         NEW l \in Labels \ {"user", "pick", "set", "ready", "mark"}, Goto(s, l)
  PROVE  SwitchCore'
<1>1. SwitchInv' /\ LostOnlyByRun' /\ SmashedPinned' /\ EbpFromTrap'
  BY DEF SwitchCore, SwitchInv, LostOnlyByRun, SmashedPinned, EbpFromTrap, cpu, sched
<1>2. \A c \in Contexts : pc'[c] = pc[c] \/ pc'[c] = l
  BY DEF Goto, TypeOK
<1>3. UserModePinned'
  BY <1>2 DEF SwitchCore, UserModePinned, cpu
<1>4. NoScheduleCommand'
  BY <1>2 DEF SwitchCore, NoScheduleCommand
<1> QED BY <1>1, <1>3, <1>4 DEF SwitchCore

(* The timer saves the running context where it will be looked for and     *)
(* resumes the other one, whose frame is live.                             *)
LEMMA SwitchTimer == TypeOK /\ SwitchCore /\ timer_isr => SwitchCore'
<1> SUFFICES ASSUME TypeOK, SwitchCore, timer_isr PROVE SwitchCore'
  OBVIOUS
<1> DEFINE o == Other(running)
<1>1. /\ running \in Contexts /\ eflags_if /\ smashed = {}
      /\ current_task = running
      /\ esp[o] = o /\ state[o] = "READY"
  BY DEF timer_isr, SwitchCore, SwitchInv, SmashedPinned
<1>2. o \in Contexts /\ o # running /\ Other(o) = running
  BY <1>1 DEF Other, Contexts
<1>3. NextTask = o
  BY <1>1, NextIsOther
<1>4. Saved[o] = o /\ Saved[running] = running
  BY <1>1, <1>2 DEF Saved, TypeOK, Tasks, Contexts
<1>5. running' = o /\ current_task' = o
  BY <1>1, <1>2, <1>3, <1>4 DEF timer_isr
<1>6. esp'[running] = running
  BY <1>1, <1>2, <1>3, <1>4 DEF timer_isr, Tasks, Contexts
<1>7. state' = Marked(o, state)
  BY <1>1, <1>3 DEF timer_isr
<1>8. /\ \A t \in Tasks : state'[t] = "RUNNING" <=> t = o
      /\ state'[running] = "READY"
  BY <1>1, <1>2, <1>7 DEF Marked, AllReady, SwitchCore, SwitchInv, Tasks, Contexts
<1>9. SwitchInv'
  BY <1>2, <1>5, <1>6, <1>8 DEF SwitchInv, Other
<1>10. LostOnlyByRun' /\ SmashedPinned' /\ EbpFromTrap'
  BY <1>1, <1>2, <1>5 DEF LostOnlyByRun, SmashedPinned, EbpFromTrap, SwitchCore, LOST,
                          Contexts, timer_isr
<1>11. UserModePinned' /\ NoScheduleCommand'
  BY <1>1 DEF SwitchCore, UserModePinned, NoScheduleCommand, timer_isr
<1> QED BY <1>9, <1>10, <1>11 DEF SwitchCore

LEMMA SwitchKill == \A s \in Contexts : TypeOK /\ SwitchCore /\ Kill(s) => SwitchCore'
<1> SUFFICES ASSUME NEW s \in Contexts, TypeOK, SwitchCore, Kill(s) PROVE SwitchCore'
  OBVIOUS
<1> PICK p \in KillPids : task_kill(p)
  BY DEF Kill
<1>1. state' = state \/ state' = [state EXCEPT ![2] = "TERMINATED"]
  BY DEF task_kill
<1>2. \A t \in Contexts : state'[t] = state[t]
  BY <1>1 DEF TypeOK, Contexts, Tasks
<1>3. \A t \in Tasks : state'[t] = state[t] \/ (t = 2 /\ state'[t] = "TERMINATED")
  BY <1>1 DEF TypeOK, Tasks
<1>4. UNCHANGED <<cpu, current_task, esp>> /\ Goto(s, "done") /\ running = s
  BY DEF Kill, At
<1>5. SwitchInv'
  BY <1>2, <1>3, <1>4 DEF SwitchCore, SwitchInv, cpu, Other, Contexts, Tasks
<1>6. \A c \in Contexts : pc'[c] = pc[c] \/ pc'[c] = "done"
  BY <1>4 DEF Goto, TypeOK
<1>7. UserModePinned' /\ NoScheduleCommand'
  BY <1>4, <1>6 DEF SwitchCore, UserModePinned, NoScheduleCommand, cpu
<1>8. LostOnlyByRun' /\ SmashedPinned' /\ EbpFromTrap'
  BY <1>4 DEF SwitchCore, LostOnlyByRun, SmashedPinned, EbpFromTrap, cpu
<1> QED BY <1>5, <1>7, <1>8 DEF SwitchCore

LEMMA SwitchReturn == \A s \in Contexts : TypeOK /\ SwitchCore /\ Return(s) => SwitchCore'
<1> SUFFICES ASSUME NEW s \in Contexts, TypeOK, SwitchCore, Return(s) PROVE SwitchCore'
  OBVIOUS
<1>1. /\ running = s /\ Goto(s, "poll")
      /\ UNCHANGED <<eflags_if, user_return_esp, smashed, user_ebp, sched>>
  BY DEF Return, At
<1>2. CASE s \notin smashed /\ ~user_ebp
  <2>1. UNCHANGED <<cpu, sched>>
    BY <1>1, <1>2 DEF Return, cpu
  <2> QED BY <1>1, <2>1, QuietStep DEF Labels
<1>3. CASE s \in smashed \/ user_ebp
  <2>1. running' = LOST /\ LOST \notin Contexts
    BY <1>3 DEF Return, LOST, Contexts
  <2>2. (user_return_esp = TrapStack \/ user_ebp) /\ ~eflags_if
    BY <1>1, <1>3 DEF SwitchCore, SmashedPinned, EbpFromTrap
  <2>3. \A c \in Contexts : pc'[c] = pc[c] \/ pc'[c] = "poll"
    BY <1>1 DEF Goto, TypeOK
  <2>4. SwitchInv' /\ LostOnlyByRun' /\ SmashedPinned' /\ EbpFromTrap'
    BY <1>1, <2>1, <2>2 DEF SwitchCore, SwitchInv, LostOnlyByRun, SmashedPinned, EbpFromTrap
  <2>5. UserModePinned' /\ NoScheduleCommand'
    BY <1>1, <2>1, <2>3 DEF SwitchCore, UserModePinned, NoScheduleCommand
  <2> QED BY <2>4, <2>5 DEF SwitchCore
<1> QED BY <1>2, <1>3

LEMMA SwitchEnterUser ==
  \A s \in Contexts : TypeOK /\ SwitchCore /\ enter_user_mode(s) => SwitchCore'
<1> SUFFICES ASSUME NEW s \in Contexts, TypeOK, SwitchCore, enter_user_mode(s)
             PROVE  SwitchCore'
  OBVIOUS
<1>1. /\ running = s /\ running' = s /\ ~eflags_if' /\ user_return_esp' = s
      /\ Goto(s, "user") /\ UNCHANGED <<smashed, user_ebp, sched>>
  BY DEF enter_user_mode, At, TypeOK
<1>2. \A c \in Contexts : c # s => pc'[c] = pc[c]
  BY <1>1 DEF Goto, TypeOK
<1>3. SwitchInv' /\ LostOnlyByRun' /\ SmashedPinned' /\ EbpFromTrap'
  BY <1>1 DEF SwitchCore, SwitchInv, LostOnlyByRun, SmashedPinned, EbpFromTrap, sched, LOST,
              Contexts
<1>4. pc'[s] = "user"
  BY <1>1 DEF Goto, TypeOK
<1>5. UserModePinned' /\ NoScheduleCommand'
  BY <1>1, <1>2, <1>4 DEF SwitchCore, UserModePinned, NoScheduleCommand, Contexts
<1> QED BY <1>3, <1>5 DEF SwitchCore

LEMMA SwitchUser ==
  \A s \in Contexts : TypeOK /\ SwitchCore /\ UserStep(s) => SwitchCore'
<1> SUFFICES ASSUME NEW s \in Contexts, TypeOK, SwitchCore, UserStep(s) PROVE SwitchCore'
  OBVIOUS
<1>1. /\ running = s /\ pc[s] = "user" /\ ~eflags_if /\ user_return_esp = s
      /\ \A c \in Contexts : pc[c] = "user" => c = s
  BY DEF UserStep, SysWrite, SysExit, UserFault, At, SwitchCore, UserModePinned
<1>2. /\ smashed' = {TrapStack}
      /\ UNCHANGED <<eflags_if, user_return_esp, sched>>
  BY DEF UserStep, SysWrite, SysExit, UserFault, SwitchCore, SmashedPinned
<1>3. running' \in {s, HALTED}
  BY <1>1 DEF UserStep, SysWrite, SysExit, UserFault
<1>4. \A c \in Contexts : pc'[c] = pc[c] \/ pc'[c] = "done"
  BY <1>1 DEF UserStep, SysWrite, SysExit, UserFault, Goto, TypeOK
<1>5. SwitchInv'
  BY <1>1, <1>2, <1>3 DEF SwitchCore, SwitchInv, sched, HALTED, Contexts
<1>6. LostOnlyByRun' /\ SmashedPinned' /\ EbpFromTrap'
  BY <1>1, <1>2, <1>3 DEF LostOnlyByRun, SmashedPinned, EbpFromTrap, HALTED, LOST, Contexts
<1>7. UserModePinned' /\ NoScheduleCommand'
  BY <1>1, <1>2, <1>3, <1>4 DEF SwitchCore, UserModePinned, NoScheduleCommand, HALTED, Contexts
<1> QED BY <1>5, <1>6, <1>7 DEF SwitchCore

LEMMA SwitchStep ==
  ASSUME "schedule" \notin Ops
  PROVE  TypeOK /\ SwitchCore /\ [Next]_vars => SwitchCore'
<1> SUFFICES ASSUME TypeOK, SwitchCore, [Next]_vars PROVE SwitchCore'
  OBVIOUS
<1>1. CASE UNCHANGED vars
  BY <1>1 DEF vars, cpu, sched, SwitchCore, SwitchInv, LostOnlyByRun, UserModePinned,
              SmashedPinned, EbpFromTrap, NoScheduleCommand
<1>2. CASE timer_isr
  BY <1>2, SwitchTimer
<1>3. ASSUME NEW s \in Contexts, EnterKey(s) PROVE SwitchCore'
  <2>1. PICK op \in Ops : Goto(s, Entry(op))
    BY <1>3 DEF EnterKey
  <2>2. op \in {"run", "kill"}
    BY SchedAssumption
  <2>3. Entry(op) \in {"load", "kill"}
    BY <2>2 DEF Entry
  <2>4. UNCHANGED <<cpu, sched>>
    BY <1>3 DEF EnterKey
  <2> QED BY <2>1, <2>3, <2>4, QuietStep DEF Labels
<1>4. ASSUME NEW s \in Contexts, KernelStep(s) PROVE SwitchCore'
  <2>1. CASE SchedPick(s) \/ SchedSet(s) \/ SchedReady(s) \/ SchedMark(s)
    BY <2>1 DEF SchedPick, SchedSet, SchedReady, SchedMark, At, SwitchCore, NoScheduleCommand
  <2>2. CASE Load(s) \/ FindSlot(s) \/ ReadPid(s) \/ StorePid(s) \/ FillSlot(s)
               \/ MakeActive(s) \/ user_task_start(s)
    <3>1. UNCHANGED <<cpu, sched>>
      BY <2>2 DEF Load, FindSlot, ReadPid, StorePid, FillSlot, MakeActive, user_task_start
    <3>2. \E l \in Labels \ {"user", "pick", "set", "ready", "mark"} : Goto(s, l)
      BY <2>2 DEF Load, FindSlot, ReadPid, StorePid, FillSlot, MakeActive, user_task_start,
                  Labels
    <3> QED BY <3>1, <3>2, QuietStep
  <2>3. CASE Kill(s)
    BY <2>3, SwitchKill
  <2>4. CASE enter_user_mode(s)
    BY <2>4, SwitchEnterUser
  <2>5. CASE Return(s)
    BY <2>5, SwitchReturn
  <2> QED BY <1>4, <2>1, <2>2, <2>3, <2>4, <2>5 DEF KernelStep
<1>5. ASSUME NEW s \in Contexts, UserStep(s) PROVE SwitchCore'
  BY <1>5, SwitchUser
<1> QED BY <1>1, <1>2, <1>3, <1>4, <1>5 DEF Next

(* Without the "schedule" command, whatever else is typed and however the  *)
(* two contexts interleave: the scheduler's current task is the one on the *)
(* CPU, it alone is RUNNING, the other one can be resumed, and the CPU is  *)
(* lost only when a "run" returns in the boot context or through an EBP    *)
(* its program has changed.                                                *)
THEOREM SchedInvariant ==
  ASSUME "schedule" \notin Ops
  PROVE  Spec => []SchedInv
<1>1. Init => SchedInv
  BY TypeInit, SwitchInit DEF SchedInv
<1>2. SchedInv /\ [Next]_vars => SchedInv'
  BY TypeStep, SwitchStep DEF SchedInv
<1> QED BY <1>1, <1>2, PTL DEF Spec

-----------------------------------------------------------------------------
(* The process table when two contexts race through user_process_start, for*)
(* every mix of commands, type-ahead and "schedule" included.              *)

Choosing == {"pid", "store", "fill"}         \* has found an entry, not filled it
Starting == {"active", "start", "enter"}     \* has filled it

(* Interrupts never come back on after the first program, so a context may *)
(* take another step only if they are on or the CPU is on its stack.       *)
Live(c) == eflags_if \/ running = c

Unlisted == {i \in Slots : ~user_processes[i].used}

(* Until the first program starts every listed process is one a context    *)
(* is still starting.                                                      *)
ListedIsStarting ==
  eflags_if => \A i \in Slots : user_processes[i].used =>
                 \E c \in Contexts : pc[c] \in Starting /\ slot[c] = i

(* The entry a context has found is still the first free one, or the other *)
(* context has filled it and its process is about to run.                  *)
FoundEntryFree ==
  \A c \in Contexts : Live(c) /\ pc[c] \in Choosing =>
    /\ slot[c] \in Slots
    /\ \/ IsFirst(slot[c], Unlisted)
       \/ /\ eflags_if
          /\ user_processes[slot[c]].used /\ user_processes[slot[c]].state = "RUNNING"

(* A value read from next_user_pid is stale by one at most, and only if    *)
(* the other context has stored it meanwhile; it is above every listed PID *)
(* but that of the entry both have found.                                  *)
ReadPidFresh ==
  \A c \in Contexts : Live(c) /\ pc[c] = "store" =>
    /\ pid[c] >= FirstUserPid
    /\ \/ next_user_pid = pid[c]
       \/ /\ next_user_pid = pid[c] + 1
          /\ \E d \in Contexts \ {c} : pc[d] \in {"fill"} \cup Starting
    /\ \A j \in Slots \ {slot[c]} :
         user_processes[j].used => user_processes[j].pid < pid[c]

StoredPidFresh ==
  \A c \in Contexts : Live(c) /\ pc[c] = "fill" =>
    /\ user_processes[slot[c]].pid \in FirstUserPid..(next_user_pid - 1)
    /\ \A j \in Slots \ {slot[c]} :
         user_processes[j].used => user_processes[j].pid # user_processes[slot[c]].pid

TableInv ==
  /\ UserModePinned
  /\ next_user_pid >= FirstUserPid
  /\ PidsDistinct
  /\ ListedIsStarting /\ FoundEntryFree /\ ReadPidFresh /\ StoredPidFresh

LEMMA TwoContexts ==
  \A c, d, e \in Contexts : c # d => e = c \/ e = d
BY DEF Contexts

(* What the actions do to the entries, field by field.                     *)
SameEntry(i) ==
  /\ user_processes'[i].used = user_processes[i].used
  /\ user_processes'[i].pid = user_processes[i].pid
  /\ user_processes'[i].state = user_processes[i].state

LEMMA StoreEffect ==
  ASSUME TypeOK, NEW s \in Contexts, StorePid(s)
  PROVE  \A i \in Slots :
           /\ user_processes'[i].used = user_processes[i].used
           /\ user_processes'[i].state = user_processes[i].state
           /\ user_processes'[i].pid = IF i = slot[s] THEN pid[s] ELSE user_processes[i].pid
<1>1. user_processes' = [user_processes EXCEPT ![slot[s]].pid = pid[s]]
  BY DEF StorePid
<1> SUFFICES ASSUME NEW i \in Slots
    PROVE  /\ user_processes'[i].used = user_processes[i].used
           /\ user_processes'[i].state = user_processes[i].state
           /\ user_processes'[i].pid = IF i = slot[s] THEN pid[s] ELSE user_processes[i].pid
  OBVIOUS
<1>2. user_processes[i] \in ProcessEntry
  BY DEF TypeOK
<1>3. user_processes'[i] = IF i = slot[s] THEN [user_processes[i] EXCEPT !.pid = pid[s]]
                                          ELSE user_processes[i]
  BY <1>1 DEF TypeOK
<1> QED BY <1>2, <1>3 DEF ProcessEntry

LEMMA FillEffect ==
  ASSUME TypeOK, NEW s \in Contexts, FillSlot(s)
  PROVE  \A i \in Slots :
           IF i = slot[s]
           THEN /\ user_processes'[i].used
                /\ user_processes'[i].state = "RUNNING"
                /\ user_processes'[i].pid = user_processes[i].pid
           ELSE SameEntry(i)
<1>1. user_processes' = [user_processes EXCEPT ![slot[s]].state = "RUNNING",
                                               ![slot[s]].used  = TRUE]
  BY DEF FillSlot
<1> SUFFICES ASSUME NEW i \in Slots
    PROVE  IF i = slot[s]
           THEN /\ user_processes'[i].used
                /\ user_processes'[i].state = "RUNNING"
                /\ user_processes'[i].pid = user_processes[i].pid
           ELSE SameEntry(i)
  OBVIOUS
<1>2. user_processes[i] \in ProcessEntry
  BY DEF TypeOK
<1>3. user_processes'[i] = IF i = slot[s]
                           THEN [[user_processes[i] EXCEPT !.state = "RUNNING"]
                                   EXCEPT !.used = TRUE]
                           ELSE user_processes[i]
  BY <1>1 DEF TypeOK
<1> QED BY <1>2, <1>3 DEF ProcessEntry, SameEntry

(* A process is ended in place.                                            *)
LEMMA EndEffect ==
  ASSUME TypeOK, NEW k,
         user_processes' = [user_processes EXCEPT ![k].state = "TERMINATED"]
  PROVE  \A i \in Slots :
           /\ user_processes'[i].used = user_processes[i].used
           /\ user_processes'[i].pid = user_processes[i].pid
           /\ user_processes'[i].state = IF i = k THEN "TERMINATED"
                                                  ELSE user_processes[i].state
<1> SUFFICES ASSUME NEW i \in Slots
    PROVE  /\ user_processes'[i].used = user_processes[i].used
           /\ user_processes'[i].pid = user_processes[i].pid
           /\ user_processes'[i].state = IF i = k THEN "TERMINATED"
                                                  ELSE user_processes[i].state
  OBVIOUS
<1>1. user_processes[i] \in ProcessEntry
  BY DEF TypeOK
<1>2. user_processes'[i] = IF i = k THEN [user_processes[i] EXCEPT !.state = "TERMINATED"]
                                    ELSE user_processes[i]
  BY DEF TypeOK
<1> QED BY <1>1, <1>2 DEF ProcessEntry

LEMMA KillEffect ==
  ASSUME TypeOK, NEW s \in Contexts, Kill(s)
  PROVE  \A i \in Slots :
           /\ user_processes'[i].used = user_processes[i].used
           /\ user_processes'[i].pid = user_processes[i].pid
           /\ user_processes'[i].state \in {user_processes[i].state, "TERMINATED"}
<1> PICK p \in KillPids : task_kill(p)
  BY DEF Kill
<1>1. CASE UNCHANGED table
  BY <1>1 DEF table
<1>2. CASE \E k \in Slots : user_processes' = [user_processes EXCEPT ![k].state = "TERMINATED"]
  BY <1>2, EndEffect
<1>3. CASE user_process_kill(p)
  BY <1>1, <1>2, <1>3 DEF user_process_kill
<1> QED BY <1>1, <1>3 DEF task_kill

LEMMA ExitEffect ==
  ASSUME TypeOK, NEW s \in Contexts, SysExit(s)
  PROVE  \A i \in Slots :
           /\ user_processes'[i].used = user_processes[i].used
           /\ user_processes'[i].pid = user_processes[i].pid
           /\ user_processes'[i].state = IF i = active_user_process THEN "TERMINATED"
                                                  ELSE user_processes[i].state
<1>1. CASE active_user_process \in Slots
  BY <1>1, EndEffect DEF SysExit, user_process_exit
<1>2. CASE active_user_process \notin Slots
  BY <1>2 DEF SysExit, user_process_exit
<1> QED BY <1>1, <1>2

-----------------------------------------------------------------------------
(* User mode is pinned to its stack whatever is typed, "schedule" included.*)
LEMMA PinnedStep == TypeOK /\ UserModePinned /\ [Next]_vars => UserModePinned'
<1> SUFFICES ASSUME TypeOK, UserModePinned, [Next]_vars PROVE UserModePinned'
  OBVIOUS
<1>1. CASE UNCHANGED vars
  BY <1>1 DEF vars, cpu, UserModePinned
<1>2. CASE timer_isr
  BY <1>2 DEF timer_isr, UserModePinned
<1>3. ASSUME NEW s \in Contexts, EnterKey(s) PROVE UserModePinned'
  <2>1. \A op \in Ops : Entry(op) # "user"
    BY SchedAssumption DEF Entry
  <2> QED BY <1>3, <2>1 DEF EnterKey, Goto, cpu, TypeOK, UserModePinned
<1>4. ASSUME NEW s \in Contexts, KernelStep(s) PROVE UserModePinned'
  <2>1. CASE enter_user_mode(s)
    <3>1. /\ running = s /\ running' = s /\ ~eflags_if' /\ user_return_esp' = s
          /\ pc[s] = "enter" /\ pc'[s] = "user"
          /\ \A c \in Contexts \ {s} : pc'[c] = pc[c]
      BY <2>1 DEF enter_user_mode, Goto, At, TypeOK
    <3> QED BY <3>1 DEF UserModePinned
  <2>2. CASE Return(s)
    BY <2>2 DEF Return, Goto, At, TypeOK, UserModePinned, LOST, Contexts
  <2>3. ASSUME UNCHANGED cpu, NEW l \in Labels \ {"user"}, Goto(s, l)
        PROVE  UserModePinned'
    BY <2>3 DEF Goto, cpu, TypeOK, UserModePinned
  <2>4. CASE SchedPick(s) \/ SchedSet(s) \/ SchedReady(s) \/ SchedMark(s) \/ Kill(s)
    <3>1. UNCHANGED cpu /\ \E l \in {"done", "set", "ready", "mark"} : Goto(s, l)
      BY <2>4 DEF SchedPick, SchedSet, SchedReady, SchedMark, Kill
    <3> QED BY <3>1, <2>3 DEF Labels
  <2>5. CASE Load(s) \/ FindSlot(s) \/ ReadPid(s) \/ StorePid(s) \/ FillSlot(s)
               \/ MakeActive(s) \/ user_task_start(s)
    <3>1. /\ UNCHANGED cpu
          /\ \E l \in {"find", "done", "pid", "store", "fill", "active", "start", "enter"} :
               Goto(s, l)
      BY <2>5 DEF Load, FindSlot, ReadPid, StorePid, FillSlot, MakeActive, user_task_start
    <3> QED BY <3>1, <2>3 DEF Labels
  <2> QED BY <1>4, <2>1, <2>2, <2>4, <2>5 DEF KernelStep
<1>5. ASSUME NEW s \in Contexts, UserStep(s) PROVE UserModePinned'
  <2>1. running = s /\ pc[s] = "user" /\ ~eflags_if /\ user_return_esp = s
    BY <1>5 DEF UserStep, SysWrite, SysExit, UserFault, At, UserModePinned
  <2>2. running' \in {s, HALTED} /\ UNCHANGED <<eflags_if, user_return_esp>>
    BY <1>5, <2>1 DEF UserStep, SysWrite, SysExit, UserFault
  <2>3. \A c \in Contexts : pc'[c] = "user" => pc[c] = "user"
    BY <1>5, <2>1 DEF UserStep, SysWrite, SysExit, UserFault, Goto, TypeOK
  <2> QED BY <2>1, <2>2, <2>3 DEF UserModePinned, HALTED, Contexts
<1> QED BY <1>1, <1>2, <1>3, <1>4, <1>5 DEF Next

-----------------------------------------------------------------------------
LEMMA TableInit == Init => TableInv
<1> SUFFICES ASSUME Init PROVE TableInv
  OBVIOUS
<1>1. \A i \in Slots : ~user_processes[i].used
  BY DEF Init
<1>2. \A c \in Contexts : pc[c] = "poll"
  BY DEF Init
<1>3. next_user_pid >= FirstUserPid
  BY DEF Init, FirstUserPid
<1> QED BY <1>1, <1>2, <1>3 DEF TableInv, UserModePinned, PidsDistinct, ListedIsStarting,
             FoundEntryFree, ReadPidFresh, StoredPidFresh, Choosing

(* A step that leaves the table alone and takes its context nowhere near   *)
(* the search for an entry.                                                *)
LEMMA TableQuiet ==
  ASSUME TypeOK, TableInv, UserModePinned', NEW s \in Contexts, running = s,
         running' = s \/ running' \notin Contexts,
         UNCHANGED <<eflags_if, user_processes, next_user_pid, pid>>,
         NEW l \in Labels \ Choosing, Goto(s, l), pc[s] # "fill",
         pc[s] \in Starting => l \in Starting /\ slot' = slot,
         \A c \in Contexts \ {s} : slot'[c] = slot[c]
  PROVE  TableInv'
<1>1. pc'[s] = l /\ \A c \in Contexts \ {s} : pc'[c] = pc[c]
  BY DEF Goto, TypeOK
<1>2. \A c \in Contexts : Live(c)' => Live(c)
  BY DEF Live
<1>3. \A c \in Contexts : pc[c] \in {"fill"} \cup Starting => pc'[c] \in {"fill"} \cup Starting
  BY <1>1
<1>4. \A c \in Contexts : pc'[c] \in Choosing => c # s /\ pc'[c] = pc[c] /\ slot'[c] = slot[c]
  BY <1>1
<1>5. Unlisted' = Unlisted
  BY DEF Unlisted
<1>6. PidsDistinct' /\ (next_user_pid >= FirstUserPid)'
  BY DEF TableInv, PidsDistinct
<1>7. ListedIsStarting'
  BY <1>1 DEF TableInv, ListedIsStarting
<1>8. FoundEntryFree'
  BY <1>2, <1>4, <1>5 DEF TableInv, FoundEntryFree, IsFirst
<1>9. ReadPidFresh'
  <2> SUFFICES ASSUME NEW c \in Contexts, Live(c)', pc'[c] = "store"
      PROVE /\ pid[c] >= FirstUserPid
            /\ \/ next_user_pid = pid[c]
               \/ /\ next_user_pid = pid[c] + 1
                  /\ \E d \in Contexts \ {c} : pc'[d] \in {"fill"} \cup Starting
            /\ \A j \in Slots \ {slot[c]} :
                 user_processes[j].used => user_processes[j].pid < pid[c]
    BY <1>4 DEF ReadPidFresh, Choosing
  <2> QED BY <1>2, <1>3, <1>4 DEF TableInv, ReadPidFresh, Choosing
<1>10. StoredPidFresh'
  BY <1>2, <1>4 DEF TableInv, StoredPidFresh, Choosing
<1> QED BY <1>6, <1>7, <1>8, <1>9, <1>10 DEF TableInv

(* With interrupts off only the running context matters.                   *)
LEMMA TableAlone ==
  ASSUME TypeOK, TableInv, UserModePinned', ~eflags_if', UNCHANGED next_user_pid,
         \A i \in Slots : /\ user_processes'[i].used = user_processes[i].used
                          /\ user_processes'[i].pid = user_processes[i].pid,
         \A c \in Contexts : running' = c => pc'[c] \notin Choosing
  PROVE  TableInv'
<1>1. PidsDistinct' /\ (next_user_pid >= FirstUserPid)'
  BY DEF TableInv, PidsDistinct
<1>2. ListedIsStarting'
  BY DEF ListedIsStarting
<1>3. FoundEntryFree' /\ ReadPidFresh' /\ StoredPidFresh'
  BY DEF FoundEntryFree, ReadPidFresh, StoredPidFresh, Live, Choosing
<1> QED BY <1>1, <1>2, <1>3 DEF TableInv

LEMMA TableTimer == TypeOK /\ TableInv /\ UserModePinned' /\ timer_isr => TableInv'
<1> SUFFICES ASSUME TypeOK, TableInv, UserModePinned', timer_isr PROVE TableInv'
  OBVIOUS
<1>1. eflags_if /\ UNCHANGED <<eflags_if, pc, next_task, slot, pid, user_processes, next_user_pid>>
  BY DEF timer_isr, locals, table
<1> QED BY <1>1 DEF TableInv, PidsDistinct, ListedIsStarting, FoundEntryFree, ReadPidFresh,
                    StoredPidFresh, Live, Unlisted, IsFirst

(* The one who kills is neither the one who starts a process nor the one   *)
(* who has found its entry.                                                *)
LEMMA TableKill ==
  \A s \in Contexts : TypeOK /\ TableInv /\ UserModePinned' /\ Kill(s) => TableInv'
<1> SUFFICES ASSUME NEW s \in Contexts, TypeOK, TableInv, UserModePinned', Kill(s)
             PROVE  TableInv'
  OBVIOUS
<1>1. /\ pc[s] = "kill" /\ pc' = [pc EXCEPT ![s] = "done"]
      /\ UNCHANGED <<running, eflags_if, slot, pid>>
  BY DEF Kill, At, Goto, cpu, locals
<1>2. UNCHANGED next_user_pid
  BY DEF Kill, task_kill, user_process_kill, table
<1>3. \A i \in Slots : /\ user_processes'[i].used = user_processes[i].used
                       /\ user_processes'[i].pid = user_processes[i].pid
  BY KillEffect
<1>4. \A c \in Contexts : pc'[c] = IF c = s THEN "done" ELSE pc[c]
  BY <1>1 DEF TypeOK
<1>5. PidsDistinct' /\ (next_user_pid >= FirstUserPid)'
  BY <1>2, <1>3 DEF TableInv, PidsDistinct
<1>6. ListedIsStarting'
  BY <1>1, <1>3, <1>4 DEF TableInv, ListedIsStarting, Starting
<1>7. FoundEntryFree'
  <2> SUFFICES ASSUME NEW c \in Contexts, Live(c)', pc'[c] \in Choosing
               PROVE  slot[c] \in Slots /\ IsFirst(slot[c], Unlisted')
    BY <1>1 DEF FoundEntryFree
  <2>1. c # s /\ pc[c] \in Choosing /\ Live(c)
    BY <1>1, <1>4 DEF Choosing, Live
  <2>2. Unlisted' = Unlisted
    BY <1>3 DEF Unlisted
  <2>3. CASE eflags_if /\ slot[c] \in Slots /\ user_processes[slot[c]].used
    <3>1. PICK d \in Contexts : pc[d] \in Starting /\ slot[d] = slot[c]
      BY <2>3 DEF TableInv, ListedIsStarting
    <3>2. d # c /\ d # s
      BY <1>1, <2>1, <3>1 DEF Starting, Choosing
    <3> QED BY <2>1, <3>2, TwoContexts
  <2> QED BY <2>1, <2>2, <2>3 DEF TableInv, FoundEntryFree
<1>8. ReadPidFresh'
  <2> SUFFICES ASSUME NEW c \in Contexts, Live(c)', pc'[c] = "store"
      PROVE /\ pid[c] >= FirstUserPid
            /\ \/ next_user_pid = pid[c]
               \/ /\ next_user_pid = pid[c] + 1
                  /\ \E d \in Contexts \ {c} : pc'[d] \in {"fill"} \cup Starting
            /\ \A j \in Slots \ {slot[c]} :
                 user_processes[j].used => user_processes[j].pid < pid[c]
    BY <1>1, <1>2, <1>3 DEF ReadPidFresh
  <2>1. Live(c) /\ pc[c] = "store"
    BY <1>1, <1>4 DEF Live
  <2>2. \A d \in Contexts : pc[d] \in {"fill"} \cup Starting => pc'[d] = pc[d]
    BY <1>1, <1>4 DEF Starting
  <2> QED BY <2>1, <2>2 DEF TableInv, ReadPidFresh
<1>9. StoredPidFresh'
  <2> SUFFICES ASSUME NEW c \in Contexts, Live(c)', pc'[c] = "fill"
      PROVE /\ user_processes'[slot[c]].pid \in FirstUserPid..(next_user_pid - 1)
            /\ \A j \in Slots \ {slot[c]} :
                 user_processes'[j].used => user_processes'[j].pid # user_processes'[slot[c]].pid
    BY <1>1, <1>2 DEF StoredPidFresh
  <2>1. Live(c) /\ pc[c] = "fill" /\ slot[c] \in Slots
    BY <1>1, <1>4 DEF Live, TableInv, FoundEntryFree, Choosing
  <2> QED BY <1>3, <2>1 DEF TableInv, StoredPidFresh
<1> QED BY <1>5, <1>6, <1>7, <1>8, <1>9 DEF TableInv

(* The entry found is the first free one.                                  *)
LEMMA TableFind ==
  ASSUME TypeOK, TableInv, UserModePinned', NEW s \in Contexts, FindSlot(s), pc'[s] = "pid"
  PROVE  TableInv'
<1>1. /\ running = s /\ pc[s] = "find"
      /\ UNCHANGED <<running, eflags_if, user_processes, next_user_pid, pid>>
  BY DEF FindSlot, At, cpu, table
<1>2. \A c \in Contexts \ {s} : pc'[c] = pc[c] /\ slot'[c] = slot[c]
  BY DEF FindSlot, Goto, TypeOK
<1>3. Unlisted' = Unlisted
  BY <1>1 DEF Unlisted
<1>4. slot'[s] \in Slots /\ IsFirst(slot'[s], Unlisted)
  <2>1. pc' # [pc EXCEPT ![s] = "done"]
    BY DEF TypeOK
  <2> QED BY <2>1 DEF FindSlot, Goto, Unlisted, TypeOK
<1>5. PidsDistinct' /\ (next_user_pid >= FirstUserPid)'
  BY <1>1 DEF TableInv, PidsDistinct
<1>6. ListedIsStarting'
  BY <1>1, <1>2 DEF TableInv, ListedIsStarting, Starting
<1>7. FoundEntryFree'
  BY <1>1, <1>2, <1>3, <1>4 DEF TableInv, FoundEntryFree, Live
<1>8. ReadPidFresh'
  BY <1>1, <1>2 DEF TableInv, ReadPidFresh, Live, Starting
<1>9. StoredPidFresh'
  BY <1>1, <1>2 DEF TableInv, StoredPidFresh, Live
<1> QED BY <1>5, <1>6, <1>7, <1>8, <1>9 DEF TableInv

LEMMA TableReadPid ==
  \A s \in Contexts : TypeOK /\ TableInv /\ UserModePinned' /\ ReadPid(s) => TableInv'
<1> SUFFICES ASSUME NEW s \in Contexts, TypeOK, TableInv, UserModePinned', ReadPid(s)
             PROVE  TableInv'
  OBVIOUS
<1>1. /\ running = s /\ pc[s] = "pid" /\ pc'[s] = "store" /\ pid'[s] = next_user_pid
      /\ UNCHANGED <<running, eflags_if, user_processes, next_user_pid, slot>>
      /\ \A c \in Contexts \ {s} : pc'[c] = pc[c] /\ pid'[c] = pid[c]
  BY DEF ReadPid, Goto, At, cpu, table, TypeOK
<1>2. Unlisted' = Unlisted
  BY <1>1 DEF Unlisted
<1>3. PidsDistinct' /\ (next_user_pid >= FirstUserPid)'
  BY <1>1 DEF TableInv, PidsDistinct
<1>4. ListedIsStarting'
  BY <1>1 DEF TableInv, ListedIsStarting, Starting
<1>5. FoundEntryFree'
  BY <1>1, <1>2 DEF TableInv, FoundEntryFree, Live, Choosing
<1>6. ReadPidFresh'
  <2>1. \A j \in Slots : user_processes[j].used => user_processes[j].pid < next_user_pid
    BY DEF TableInv, PidsDistinct, TypeOK
  <2> QED BY <1>1, <2>1 DEF TableInv, ReadPidFresh, Live, Starting
<1>7. StoredPidFresh'
  BY <1>1 DEF TableInv, StoredPidFresh, Live
<1> QED BY <1>3, <1>4, <1>5, <1>6, <1>7 DEF TableInv

(* A second context at or after the search has found the same free entry.  *)
LEMMA SameSlot ==
  ASSUME TypeOK, TableInv, NEW c \in Contexts, NEW d \in Contexts, c # d,
         Live(c), Live(d), pc[c] \in Choosing, pc[d] \in Choosing
  PROVE  /\ slot[c] = slot[d] /\ slot[c] \in Slots
         /\ IsFirst(slot[c], Unlisted) /\ ~user_processes[slot[c]].used
<1>1. \A e \in Contexts : pc[e] \notin Starting
  BY TwoContexts DEF Starting, Choosing
<1>2. \A e \in Contexts : Live(e) /\ pc[e] \in Choosing =>
        slot[e] \in Slots /\ IsFirst(slot[e], Unlisted)
  BY <1>1 DEF TableInv, FoundEntryFree, ListedIsStarting
<1>3. slot[c] \in Nat /\ slot[d] \in Nat /\ slot[c] <= slot[d] /\ slot[d] <= slot[c]
  BY <1>2, SlotsType DEF IsFirst
<1> QED BY <1>2, <1>3 DEF IsFirst, Unlisted

(* Of two contexts that store the PID they have read, both have read the   *)
(* same one, for the same entry.                                           *)
LEMMA TableStorePid ==
  \A s \in Contexts : TypeOK /\ TableInv /\ UserModePinned' /\ StorePid(s) => TableInv'
<1> SUFFICES ASSUME NEW s \in Contexts, TypeOK, TableInv, UserModePinned', StorePid(s)
             PROVE  TableInv'
  OBVIOUS
<1>1. /\ running = s /\ pc[s] = "store" /\ pc'[s] = "fill" /\ next_user_pid' = pid[s] + 1
      /\ UNCHANGED <<running, eflags_if, slot, pid>>
      /\ \A c \in Contexts \ {s} : pc'[c] = pc[c]
  BY DEF StorePid, Goto, At, cpu, locals, TypeOK
<1>2. Live(s) /\ slot[s] \in Slots /\ pid[s] \in Nat /\ next_user_pid \in Nat
  BY <1>1 DEF Live, TableInv, FoundEntryFree, Choosing, TypeOK
<1>3. /\ pid[s] >= FirstUserPid /\ pid[s] <= next_user_pid
      /\ \A j \in Slots \ {slot[s]} :
           user_processes[j].used => user_processes[j].pid < pid[s]
  BY <1>1, <1>2 DEF TableInv, ReadPidFresh
<1>4. \A i \in Slots :
        /\ user_processes'[i].used = user_processes[i].used
        /\ user_processes'[i].state = user_processes[i].state
        /\ user_processes'[i].pid = IF i = slot[s] THEN pid[s] ELSE user_processes[i].pid
  BY StoreEffect
<1>5. \A i \in Slots : user_processes[i].pid \in Nat
  BY DEF TypeOK, ProcessEntry
<1>6. Unlisted' = Unlisted
  BY <1>4 DEF Unlisted
<1>7. \A i \in Slots \ {slot[s]} : user_processes[i].used =>
        user_processes[i].pid \in FirstUserPid..(pid[s] - 1)
  BY <1>1, <1>2, <1>3, <1>5 DEF TableInv, PidsDistinct, FirstUserPid
<1>8. PidsDistinct' /\ (next_user_pid >= FirstUserPid)'
  BY <1>1, <1>2, <1>3, <1>4, <1>5, <1>7 DEF TableInv, PidsDistinct, FirstUserPid
<1>9. ListedIsStarting'
  BY <1>1, <1>4 DEF TableInv, ListedIsStarting, Starting
<1>10. FoundEntryFree'
  BY <1>1, <1>4, <1>6 DEF TableInv, FoundEntryFree, Live, Choosing
<1>11. ASSUME NEW c \in Contexts \ {s}, Live(c)', pc'[c] \in Choosing
       PROVE  Live(c) /\ pc[c] \in Choosing /\ slot[c] = slot[s] /\ ~user_processes[slot[s]].used
  BY <1>1, <1>2, <1>11, SameSlot DEF Live, Choosing
<1>12. ReadPidFresh'
  <2> SUFFICES ASSUME NEW c \in Contexts, Live(c)', pc'[c] = "store"
      PROVE /\ pid[c] >= FirstUserPid
            /\ \/ next_user_pid' = pid[c]
               \/ /\ next_user_pid' = pid[c] + 1
                  /\ \E d \in Contexts \ {c} : pc'[d] \in {"fill"} \cup Starting
            /\ \A j \in Slots \ {slot[c]} :
                 user_processes'[j].used => user_processes'[j].pid < pid[c]
    BY <1>1 DEF ReadPidFresh
  <2>1. c # s /\ Live(c) /\ pc[c] = "store" /\ slot[c] = slot[s]
    BY <1>1, <1>11 DEF Choosing
  <2>2. \A d \in Contexts : pc[d] \notin {"fill"} \cup Starting
    BY <1>1, <2>1, TwoContexts DEF Starting
  <2>3. next_user_pid = pid[c] /\ next_user_pid = pid[s]
    BY <1>1, <1>2, <2>1, <2>2 DEF TableInv, ReadPidFresh
  <2> QED BY <1>1, <1>3, <1>4, <2>1, <2>3
<1>13. StoredPidFresh'
  <2> SUFFICES ASSUME NEW c \in Contexts, Live(c)', pc'[c] = "fill"
      PROVE /\ user_processes'[slot[c]].pid \in FirstUserPid..pid[s]
            /\ \A j \in Slots \ {slot[c]} :
                 user_processes'[j].used => user_processes'[j].pid # user_processes'[slot[c]].pid
    BY <1>1, <1>2 DEF StoredPidFresh
  <2>1. slot[c] = slot[s]
    BY <1>1, <1>11 DEF Choosing
  <2> QED BY <1>2, <1>3, <1>4, <1>5, <2>1 DEF FirstUserPid
<1> QED BY <1>8, <1>9, <1>10, <1>12, <1>13 DEF TableInv

LEMMA TableFill ==
  \A s \in Contexts : TypeOK /\ TableInv /\ UserModePinned' /\ FillSlot(s) => TableInv'
<1> SUFFICES ASSUME NEW s \in Contexts, TypeOK, TableInv, UserModePinned', FillSlot(s)
             PROVE  TableInv'
  OBVIOUS
<1>1. /\ running = s /\ pc[s] = "fill" /\ pc'[s] = "active"
      /\ UNCHANGED <<running, eflags_if, slot, pid, next_user_pid>>
      /\ \A c \in Contexts \ {s} : pc'[c] = pc[c]
  BY DEF FillSlot, Goto, At, cpu, locals, TypeOK
<1>2. Live(s) /\ slot[s] \in Slots
  BY <1>1 DEF Live, TableInv, FoundEntryFree, Choosing
<1>3. /\ \A i \in Slots : user_processes'[i].pid = user_processes[i].pid
      /\ \A i \in Slots : user_processes'[i].used <=> user_processes[i].used \/ i = slot[s]
      /\ user_processes'[slot[s]].state = "RUNNING"
  <2>1. \A i \in Slots : user_processes[i].used \in BOOLEAN
    BY DEF TypeOK, ProcessEntry
  <2> QED BY <1>2, <2>1, FillEffect DEF SameEntry
<1>4. PidsDistinct' /\ (next_user_pid >= FirstUserPid)'
  BY <1>1, <1>2, <1>3 DEF TableInv, PidsDistinct, StoredPidFresh
<1>5. ListedIsStarting'
  BY <1>1, <1>2, <1>3 DEF TableInv, ListedIsStarting, Starting
<1>6. ASSUME NEW c \in Contexts \ {s}, Live(c)', pc'[c] \in Choosing
      PROVE  Live(c) /\ pc[c] \in Choosing /\ slot[c] = slot[s] /\ eflags_if
  BY <1>1, <1>2, <1>6, SameSlot DEF Live, Choosing
<1>7. FoundEntryFree'
  <2> SUFFICES ASSUME NEW c \in Contexts, Live(c)', pc'[c] \in Choosing
               PROVE  /\ slot[c] \in Slots /\ eflags_if
                      /\ user_processes'[slot[c]].used /\ user_processes'[slot[c]].state = "RUNNING"
    BY <1>1 DEF FoundEntryFree
  <2>1. c # s
    BY <1>1 DEF Choosing
  <2> QED BY <1>2, <1>3, <1>6, <2>1
<1>8. ReadPidFresh'
  <2> SUFFICES ASSUME NEW c \in Contexts, Live(c)', pc'[c] = "store"
      PROVE /\ pid[c] >= FirstUserPid
            /\ \/ next_user_pid = pid[c]
               \/ /\ next_user_pid = pid[c] + 1
                  /\ \E d \in Contexts \ {c} : pc'[d] \in {"fill"} \cup Starting
            /\ \A j \in Slots \ {slot[c]} :
                 user_processes'[j].used => user_processes'[j].pid < pid[c]
    BY <1>1 DEF ReadPidFresh
  <2>1. c # s /\ Live(c) /\ pc[c] = "store" /\ slot[c] = slot[s]
    BY <1>1, <1>6 DEF Choosing
  <2>2. \A d \in Contexts : pc[d] \in {"fill"} \cup Starting => pc'[d] \in {"fill"} \cup Starting
    BY <1>1 DEF Starting
  <2> QED BY <1>3, <2>1, <2>2 DEF TableInv, ReadPidFresh
<1>9. StoredPidFresh'
  <2> SUFFICES ASSUME NEW c \in Contexts, Live(c)', pc'[c] = "fill"
      PROVE /\ user_processes'[slot[c]].pid \in FirstUserPid..(next_user_pid - 1)
            /\ \A j \in Slots \ {slot[c]} :
                 user_processes'[j].used => user_processes'[j].pid # user_processes'[slot[c]].pid
    BY <1>1 DEF StoredPidFresh
  <2>1. c # s /\ Live(c) /\ pc[c] = "fill" /\ slot[c] = slot[s]
    BY <1>1, <1>6 DEF Choosing
  <2> QED BY <1>2, <1>3, <2>1 DEF TableInv, StoredPidFresh
<1> QED BY <1>4, <1>5, <1>7, <1>8, <1>9 DEF TableInv

LEMMA TableStep == TypeOK /\ TableInv /\ [Next]_vars => TableInv'
<1> SUFFICES ASSUME TypeOK, TableInv, [Next]_vars PROVE TableInv'
  OBVIOUS
<1>0. UserModePinned'
  BY PinnedStep DEF TableInv
<1>1. CASE UNCHANGED vars
  BY <1>1 DEF vars, cpu, sched, locals, table, TableInv, UserModePinned, PidsDistinct,
              ListedIsStarting, FoundEntryFree, ReadPidFresh, StoredPidFresh, Live, Unlisted,
              IsFirst
<1>2. CASE timer_isr
  BY <1>0, <1>2, TableTimer
<1>3. ASSUME NEW s \in Contexts, EnterKey(s) PROVE TableInv'
  <2>1. PICK op \in Ops : Goto(s, Entry(op))
    BY <1>3 DEF EnterKey
  <2>2. Entry(op) \in {"pick", "kill", "load"}
    BY SchedAssumption DEF Entry
  <2>3. /\ running = s /\ running' = s /\ pc[s] = "poll"
        /\ UNCHANGED <<eflags_if, user_processes, next_user_pid, pid>>
        /\ \A c \in Contexts \ {s} : slot'[c] = slot[c]
    BY <1>3 DEF EnterKey, At, cpu, table, TypeOK
  <2> QED BY <1>0, <2>1, <2>2, <2>3, TableQuiet DEF Labels, Choosing, Starting
<1>4. ASSUME NEW s \in Contexts, KernelStep(s) PROVE TableInv'
  <2>1. CASE SchedPick(s) \/ SchedSet(s) \/ SchedReady(s) \/ SchedMark(s) \/ Load(s) \/ Return(s)
    <3>1. /\ running = s /\ running' \in {s, LOST} /\ UNCHANGED <<eflags_if, slot, pid, table>>
          /\ pc[s] \in {"pick", "set", "ready", "mark", "load", "done"}
          /\ \E l \in {"set", "ready", "mark", "done", "find", "poll"} : Goto(s, l)
      BY <2>1 DEF SchedPick, SchedSet, SchedReady, SchedMark, Load, Return, At, cpu, locals
    <3>2. LOST \notin Contexts
      BY DEF LOST, Contexts
    <3> QED BY <1>0, <3>1, <3>2, TableQuiet DEF Labels, Choosing, Starting, table
  <2>2. CASE MakeActive(s) \/ user_task_start(s)
    <3>1. /\ running = s /\ UNCHANGED <<running, eflags_if, slot, pid, user_processes, next_user_pid>>
          /\ pc[s] \in {"active", "start"}
          /\ \E l \in {"start", "enter"} : Goto(s, l)
      BY <2>2 DEF MakeActive, user_task_start, At, cpu, locals
    <3> QED BY <1>0, <3>1, TableQuiet DEF Labels, Choosing, Starting
  <2>3. CASE FindSlot(s)
    <3>1. CASE pc'[s] = "pid"
      BY <1>0, <2>3, <3>1, TableFind
    <3>2. CASE pc'[s] # "pid"
      <4>1. Goto(s, "done") /\ slot' = slot
        BY <2>3, <3>2 DEF FindSlot, Goto, TypeOK
      <4>2. /\ running = s /\ UNCHANGED <<running, eflags_if, pid, user_processes, next_user_pid>>
            /\ pc[s] = "find"
        BY <2>3 DEF FindSlot, At, cpu, table
      <4> QED BY <1>0, <4>1, <4>2, TableQuiet DEF Labels, Choosing, Starting
    <3> QED BY <3>1, <3>2
  <2>4. CASE enter_user_mode(s)
    <3>1. /\ ~eflags_if' /\ running' = s /\ pc'[s] = "user" /\ UNCHANGED table
      BY <2>4 DEF enter_user_mode, At, Goto, TypeOK
    <3> QED BY <1>0, <3>1, TableAlone DEF table, Choosing
  <2> QED BY <1>0, <1>4, <2>1, <2>2, <2>3, <2>4, TableKill, TableReadPid, TableStorePid, TableFill
          DEF KernelStep
<1>5. ASSUME NEW s \in Contexts, UserStep(s) PROVE TableInv'
  <2>1. running = s /\ pc[s] = "user" /\ ~eflags_if /\ user_return_esp = s
    BY <1>5 DEF UserStep, SysWrite, SysExit, UserFault, At, TableInv, UserModePinned
  <2>2. /\ running' \in {s, HALTED} /\ UNCHANGED <<eflags_if, next_user_pid>>
        /\ pc'[s] \in {"user", "done"}
    BY <1>5, <2>1 DEF UserStep, SysWrite, SysExit, UserFault, user_process_exit, Goto, table, TypeOK
  <2>3. \A i \in Slots : /\ user_processes'[i].used = user_processes[i].used
                         /\ user_processes'[i].pid = user_processes[i].pid
    BY <1>5, ExitEffect DEF UserStep, SysWrite, UserFault, table
  <2>4. \A c \in Contexts : running' = c => pc'[c] \notin Choosing
    BY <2>2 DEF HALTED, Contexts, Choosing
  <2> QED BY <1>0, <2>1, <2>2, <2>3, <2>4, TableAlone
<1> QED BY <1>1, <1>2, <1>3, <1>4, <1>5 DEF Next

LEMMA TableInductive == Spec => [](TypeOK /\ TableInv)
<1>1. Init => TypeOK /\ TableInv
  BY TypeInit, TableInit
<1>2. TypeOK /\ TableInv /\ [Next]_vars => (TypeOK /\ TableInv)'
  BY TypeStep, TableStep
<1> QED BY <1>1, <1>2, PTL DEF Spec

(* However two contexts race through "run", "kill" and "schedule", typed   *)
(* ahead or not: two listed processes never share a PID, and every listed  *)
(* PID has been handed out.                                                *)
THEOREM SchedPids == Spec => []PidsDistinct
BY TableInductive, PTL DEF TableInv

(* Nor does any of them bring a listed process back that has ended.        *)
THEOREM SchedNoResurrection == Spec => NoResurrection
<1> DEFINE Stays == \A i \in Slots :
             user_processes[i].used /\ user_processes[i].state = "TERMINATED"
               => user_processes'[i].used /\ user_processes'[i].state = "TERMINATED"
<1>1. TypeOK /\ TableInv /\ [Next]_vars => [Stays]_vars
  <2> SUFFICES ASSUME TypeOK, TableInv, Next PROVE Stays
    OBVIOUS
  <2>1. CASE UNCHANGED user_processes
    BY <2>1
  <2>2. ASSUME NEW s \in Contexts, FillSlot(s) PROVE Stays
    <3>1. \A i \in Slots : i # slot[s] => SameEntry(i)
      BY <2>2, FillEffect
    <3>2. ~user_processes[slot[s]].used \/ user_processes[slot[s]].state = "RUNNING"
      BY <2>2 DEF FillSlot, At, TableInv, FoundEntryFree, Live, Choosing, IsFirst, Unlisted
    <3> QED BY <3>1, <3>2 DEF SameEntry
  <2>3. ASSUME NEW s \in Contexts, StorePid(s) \/ Kill(s) \/ SysExit(s) PROVE Stays
    BY <2>3, StoreEffect, KillEffect, ExitEffect
  <2>4. \A s \in Contexts :
          \/ EnterKey(s) \/ SchedPick(s) \/ SchedSet(s) \/ SchedReady(s) \/ SchedMark(s)
          \/ Load(s) \/ FindSlot(s) \/ ReadPid(s) \/ MakeActive(s) \/ user_task_start(s)
          \/ enter_user_mode(s) \/ Return(s) \/ SysWrite(s) \/ UserFault(s)
          => UNCHANGED user_processes
    BY DEF EnterKey, SchedPick, SchedSet, SchedReady, SchedMark, Load, FindSlot, ReadPid,
           MakeActive, user_task_start, enter_user_mode, Return, SysWrite, UserFault, table
  <2>5. timer_isr => UNCHANGED user_processes
    BY DEF timer_isr, table
  <2> QED BY <2>1, <2>2, <2>3, <2>4, <2>5 DEF Next, KernelStep, UserStep
<1> QED BY <1>1, TableInductive, PTL DEF Spec, NoResurrection

-----------------------------------------------------------------------------
(* One command at a time: the user waits for the prompt and no Enter is    *)
(* acted on by both contexts.                                              *)

(* One context at a time executes a command.                               *)
OneAtWork == \A c, d \in Contexts : pc[c] # "poll" /\ pc[d] # "poll" => c = d

(* How many processes are listed: the counter runs ahead while an entry is *)
(* being filled.                                                           *)
Listed == next_user_pid - FirstUserPid
            - (IF \E c \in Contexts : pc[c] = "fill" THEN 1 ELSE 0)

(* The entries fill up in order, entry i with PID i + 4.                   *)
ListInOrder ==
  /\ Listed >= 0
  /\ \A i \in Slots : user_processes[i].used <=> i < Listed
  /\ \A i \in Slots : user_processes[i].used => user_processes[i].pid = i + FirstUserPid
  /\ \A c \in Contexts :
       /\ pc[c] \in Choosing => slot[c] \in Slots /\ slot[c] = Listed
       /\ pc[c] = "store" => pid[c] = slot[c] + FirstUserPid
       /\ pc[c] = "fill" => user_processes[slot[c]].pid = slot[c] + FirstUserPid

(* A RUNNING entry belongs to the context that starts or runs it, and what *)
(* that context sets up agrees with the entry as it goes along.            *)
RunningIsOwned ==
  /\ \A i \in Slots :
       /\ user_processes[i].state \in {"RUNNING", "TERMINATED"}
       /\ user_processes[i].state = "RUNNING" =>
            \E c \in Contexts : pc[c] \in Starting \cup {"user"} /\ slot[c] = i
  /\ \A c \in Contexts :
       /\ pc[c] \in Starting \cup {"user"} =>
            /\ slot[c] \in Slots
            /\ user_processes[slot[c]].used /\ user_processes[slot[c]].state = "RUNNING"
       /\ pc[c] \in {"start", "enter", "user"} => active_user_process = slot[c]
       /\ pc[c] \in {"enter", "user"} => user_task_state = "RUNNING"

PromptInv == UserModePinned /\ OneAtWork /\ ListInOrder /\ RunningIsOwned

LEMMA PromptInit == Init => PromptInv
<1> SUFFICES ASSUME Init PROVE PromptInv
  OBVIOUS
<1>1. \A i \in Slots : ~user_processes[i].used /\ user_processes[i].state = "TERMINATED"
  BY DEF Init
<1>2. \A c \in Contexts : pc[c] = "poll"
  BY DEF Init
<1>3. Listed = 0
  <2>1. next_user_pid = FirstUserPid /\ ~(\E c \in Contexts : pc[c] = "fill")
    BY <1>2 DEF Init
  <2>2. FirstUserPid - FirstUserPid - 0 = 0
    BY DEF FirstUserPid
  <2> QED BY <2>1, <2>2 DEF Listed
<1>4. \A i \in Slots : ~(i < 0)
  BY SlotsType
<1> QED BY <1>1, <1>2, <1>3, <1>4 DEF PromptInv, UserModePinned, OneAtWork, ListInOrder,
             RunningIsOwned, Choosing, Starting

LEMMA PromptOneAtWork ==
  ASSUME ~TypeAhead
  PROVE  TypeOK /\ PromptInv /\ [Next]_vars => OneAtWork'
<1> SUFFICES ASSUME TypeOK, PromptInv, [Next]_vars PROVE OneAtWork'
  OBVIOUS
<1>1. ASSUME NEW s \in Contexts, pc[s] # "poll" \/ \A c \in Contexts : pc[c] = "poll",
             \A c \in Contexts \ {s} : pc'[c] = pc[c]
      PROVE  OneAtWork'
  BY <1>1 DEF PromptInv, OneAtWork
<1>2. CASE UNCHANGED pc
  BY <1>2 DEF PromptInv, OneAtWork
<1>3. ASSUME NEW s \in Contexts, EnterKey(s) PROVE OneAtWork'
  BY <1>1, <1>3 DEF EnterKey, Goto, TypeOK
<1>4. ASSUME NEW s \in Contexts, KernelStep(s) PROVE OneAtWork'
  <2>1. pc[s] # "poll" /\ \E l : Goto(s, l)
    BY <1>4 DEF KernelStep, SchedPick, SchedSet, SchedReady, SchedMark, Kill, Load, FindSlot,
         ReadPid, StorePid, FillSlot, MakeActive, user_task_start, enter_user_mode, Return, At
  <2> QED BY <1>1, <2>1 DEF Goto, TypeOK
<1>5. ASSUME NEW s \in Contexts, SysExit(s) PROVE OneAtWork'
  <2>1. user_return_esp = s /\ pc[s] = "user"
    BY <1>5 DEF SysExit, At, PromptInv, UserModePinned
  <2> QED BY <1>1, <1>5, <2>1 DEF SysExit, Goto, TypeOK
<1>6. timer_isr => UNCHANGED pc
  BY DEF timer_isr
<1>7. \A s \in Contexts : SysWrite(s) \/ UserFault(s) => UNCHANGED pc
  BY DEF SysWrite, UserFault
<1> QED BY <1>2, <1>3, <1>4, <1>5, <1>6, <1>7 DEF Next, UserStep, vars

(* A step of the one command under way that leaves the table alone.        *)
LEMMA PromptQuiet ==
  ASSUME TypeOK, PromptInv, UserModePinned', OneAtWork', NEW s \in Contexts,
         UNCHANGED <<table, pid>>, \A c \in Contexts \ {s} : slot'[c] = slot[c],
         pc[s] \notin {"fill", "user"} \cup Starting,
         NEW l \in Labels \ (Choosing \cup Starting \cup {"user"}), Goto(s, l)
  PROVE  PromptInv'
<1>1. /\ pc'[s] = l /\ \A c \in Contexts \ {s} : pc'[c] = pc[c]
      /\ UNCHANGED <<user_processes, active_user_process, next_user_pid, user_task_state>>
  BY DEF Goto, TypeOK, table
<1>2. Listed' = Listed
  <2>1. (\E c \in Contexts : pc'[c] = "fill") <=> (\E c \in Contexts : pc[c] = "fill")
    BY <1>1 DEF Choosing
  <2> QED BY <1>1, <2>1 DEF Listed
<1>3. ListInOrder'
  <2>1. \A c \in Contexts : pc'[c] \in Choosing => pc[c] = pc'[c] /\ slot'[c] = slot[c]
    BY <1>1
  <2> QED BY <1>1, <1>2, <2>1 DEF PromptInv, ListInOrder, Choosing
<1>4. RunningIsOwned'
  <2>1. \A c \in Contexts : /\ pc'[c] \in Starting \cup {"user"} => pc[c] = pc'[c] /\ slot'[c] = slot[c]
                            /\ pc[c] \in Starting \cup {"user"} => pc[c] = pc'[c] /\ slot'[c] = slot[c]
    BY <1>1
  <2> QED BY <1>1, <2>1 DEF PromptInv, RunningIsOwned, Starting
<1> QED BY <1>3, <1>4 DEF PromptInv

(* A step on the way from the entry to user mode.                          *)
LEMMA PromptStart ==
  ASSUME TypeOK, PromptInv, UserModePinned', OneAtWork', NEW s \in Contexts,
         MakeActive(s) \/ user_task_start(s) \/ enter_user_mode(s)
  PROVE  PromptInv'
<1>1. /\ UNCHANGED <<user_processes, next_user_pid, slot, pid>>
      /\ pc[s] \in Starting /\ pc'[s] \in {"start", "enter", "user"}
      /\ \A c \in Contexts \ {s} : pc'[c] = pc[c]
  BY DEF MakeActive, user_task_start, enter_user_mode, At, Goto, locals, table, Starting, TypeOK
<1>2. \A c \in Contexts \ {s} : pc[c] = "poll"
  BY <1>1 DEF PromptInv, OneAtWork, Starting
<1>3. Listed' = Listed
  <2>1. (\E c \in Contexts : pc'[c] = "fill") <=> (\E c \in Contexts : pc[c] = "fill")
    BY <1>1 DEF Starting
  <2> QED BY <1>1, <2>1 DEF Listed
<1>4. ListInOrder'
  BY <1>1, <1>2, <1>3 DEF PromptInv, ListInOrder, Choosing
<1>5. pc'[s] \in {"start", "enter", "user"} => active_user_process' = slot[s]
  BY DEF MakeActive, user_task_start, enter_user_mode, At, Goto, table, TypeOK, PromptInv,
         RunningIsOwned
<1>6. pc'[s] \in {"enter", "user"} => user_task_state' = "RUNNING"
  BY DEF MakeActive, user_task_start, enter_user_mode, At, Goto, table, TypeOK, PromptInv,
         RunningIsOwned
<1>7. RunningIsOwned'
  BY <1>1, <1>2, <1>5, <1>6 DEF PromptInv, RunningIsOwned, Starting
<1> QED BY <1>4, <1>7 DEF PromptInv

(* While a kill executes there is nothing to kill.                         *)
LEMMA KillFindsNone ==
  ASSUME TypeOK, PromptInv, NEW s \in Contexts, Kill(s)
  PROVE  UNCHANGED table /\ \A i \in Slots : user_processes[i].state = "TERMINATED"
<1>1. pc[s] = "kill" /\ \A c \in Contexts : pc[c] \in {"poll", "kill"}
  BY DEF Kill, At, PromptInv, OneAtWork
<1>2. \A i \in Slots : user_processes[i].state = "TERMINATED"
  BY <1>1 DEF PromptInv, RunningIsOwned, Starting
<1> PICK p \in KillPids : task_kill(p)
  BY DEF Kill
<1> QED BY <1>2 DEF task_kill, user_process_kill

LEMMA PromptFind ==
  ASSUME TypeOK, PromptInv, UserModePinned', OneAtWork', NEW s \in Contexts,
         FindSlot(s), pc'[s] = "pid"
  PROVE  PromptInv'
<1>1. /\ UNCHANGED <<table, pid>> /\ pc[s] = "find"
      /\ \A c \in Contexts \ {s} : pc'[c] = pc[c]
      /\ UNCHANGED <<user_processes, active_user_process, next_user_pid, user_task_state>>
  BY DEF FindSlot, At, Goto, table, TypeOK
<1>2. \A c \in Contexts \ {s} : pc[c] = "poll"
  BY <1>1 DEF PromptInv, OneAtWork
<1>3. slot'[s] \in Slots /\ IsFirst(slot'[s], Unlisted)
  <2>1. pc' # [pc EXCEPT ![s] = "done"]
    BY DEF TypeOK
  <2> QED BY <2>1 DEF FindSlot, Goto, Unlisted, TypeOK
<1>4. Listed' = Listed /\ Listed \in Nat
  <2>1. ~(\E c \in Contexts : pc'[c] = "fill") /\ ~(\E c \in Contexts : pc[c] = "fill")
    BY <1>1, <1>2
  <2> QED BY <1>1, <2>1 DEF Listed, PromptInv, ListInOrder, TypeOK, FirstUserPid
<1>5. slot'[s] = Listed
  <2>1. ~(slot'[s] < Listed)
    BY <1>3 DEF PromptInv, ListInOrder, IsFirst, Unlisted
  <2>2. slot'[s] \in Nat /\ Listed <= slot'[s]
    <3>1. slot'[s] \in Nat
      BY <1>3, SlotsType
    <3>2. \A a, b \in Nat : ~(a < b) => b <= a
      OBVIOUS
    <3> QED BY <1>4, <2>1, <3>1, <3>2
  <2>3. Listed \in Slots
    <3>1. \A a \in Nat : \A b \in Slots : a <= b => a \in Slots
      BY SchedAssumption DEF Slots
    <3> QED BY <1>3, <1>4, <2>2, <3>1
  <2>4. Listed \in Unlisted
    BY <1>4, <2>3 DEF PromptInv, ListInOrder, Unlisted
  <2>5. slot'[s] <= Listed
    BY <1>3, <2>4 DEF IsFirst
  <2>6. \A a, b \in Nat : a <= b /\ b <= a => b = a
    OBVIOUS
  <2> QED BY <1>4, <2>2, <2>5, <2>6
<1>6. ListInOrder'
  BY <1>1, <1>2, <1>3, <1>4, <1>5 DEF PromptInv, ListInOrder, Choosing
<1>7. RunningIsOwned'
  BY <1>1, <1>2 DEF PromptInv, RunningIsOwned, Starting
<1> QED BY <1>6, <1>7 DEF PromptInv

LEMMA PromptPid ==
  ASSUME TypeOK, PromptInv, UserModePinned', OneAtWork', NEW s \in Contexts,
         ReadPid(s) \/ StorePid(s)
  PROVE  PromptInv'
<1>1. /\ pc[s] \in {"pid", "store"}
      /\ \A c \in Contexts \ {s} : pc'[c] = pc[c]
      /\ UNCHANGED <<slot, active_user_process, user_task_state>>
  BY DEF ReadPid, StorePid, At, Goto, table, locals, TypeOK
<1>2. \A c \in Contexts \ {s} : pc[c] = "poll"
  BY <1>1 DEF PromptInv, OneAtWork
<1>3. slot[s] \in Slots /\ slot[s] = Listed /\ Listed = next_user_pid - FirstUserPid
        /\ Listed \in Nat
  <2>1. ~(\E c \in Contexts : pc[c] = "fill")
    BY <1>1, <1>2
  <2> QED BY <1>1, <2>1 DEF PromptInv, ListInOrder, Listed, Choosing, FirstUserPid, TypeOK
<1>4. \A i \in Slots : user_processes'[i].used = user_processes[i].used
                       /\ user_processes'[i].state = user_processes[i].state
  BY StoreEffect DEF ReadPid, table
<1>5. RunningIsOwned'
  <2>1. pc'[s] \in {"store", "fill"}
    BY DEF ReadPid, StorePid, Goto, TypeOK
  <2> QED BY <1>1, <1>2, <1>4, <2>1 DEF PromptInv, RunningIsOwned, Starting
<1>6. CASE ReadPid(s)
  <2>1. /\ pc'[s] = "store" /\ pid'[s] = next_user_pid
        /\ UNCHANGED <<user_processes, next_user_pid>>
    BY <1>6 DEF ReadPid, Goto, table, TypeOK
  <2>2. Listed' = Listed
    <3>1. ~(\E c \in Contexts : pc'[c] = "fill")
      BY <1>1, <1>2, <2>1
    <3> QED BY <1>3, <2>1, <3>1 DEF Listed, FirstUserPid, TypeOK
  <2>3. next_user_pid = slot[s] + FirstUserPid
    BY <1>3 DEF FirstUserPid, TypeOK
  <2>4. ListInOrder'
    BY <1>1, <1>2, <1>3, <2>1, <2>2, <2>3 DEF PromptInv, ListInOrder, Choosing
  <2> QED BY <1>5, <2>4 DEF PromptInv
<1>7. CASE StorePid(s)
  <2>1. /\ pc[s] = "store" /\ pc'[s] = "fill" /\ next_user_pid' = pid[s] + 1
        /\ pid[s] = slot[s] + FirstUserPid
    BY <1>7 DEF StorePid, At, Goto, TypeOK, PromptInv, ListInOrder
  <2>2. Listed' = Listed
    <3>1. \E c \in Contexts : pc'[c] = "fill"
      BY <2>1
    <3> QED BY <1>3, <2>1, <3>1 DEF Listed, FirstUserPid, TypeOK
  <2>3. \A i \in Slots :
          user_processes'[i].pid = IF i = slot[s] THEN pid[s] ELSE user_processes[i].pid
    BY <1>7, StoreEffect
  <2>4. ~user_processes[slot[s]].used
    BY <1>3 DEF PromptInv, ListInOrder
  <2>5. ListInOrder'
    BY <1>1, <1>2, <1>3, <1>4, <2>1, <2>2, <2>3, <2>4 DEF PromptInv, ListInOrder, Choosing
  <2> QED BY <1>5, <2>5 DEF PromptInv
<1> QED BY <1>6, <1>7

LEMMA PromptFill ==
  ASSUME TypeOK, PromptInv, UserModePinned', OneAtWork', NEW s \in Contexts, FillSlot(s)
  PROVE  PromptInv'
<1>1. /\ pc[s] = "fill" /\ pc'[s] = "active"
      /\ \A c \in Contexts \ {s} : pc'[c] = pc[c]
      /\ UNCHANGED <<slot, next_user_pid>>
  BY DEF FillSlot, At, Goto, locals, TypeOK
<1>2. \A c \in Contexts \ {s} : pc[c] = "poll"
  BY <1>1 DEF PromptInv, OneAtWork
<1>3. slot[s] \in Slots /\ slot[s] = Listed /\ Listed = next_user_pid - FirstUserPid - 1
        /\ Listed \in Nat
  <2>1. \E c \in Contexts : pc[c] = "fill"
    BY <1>1
  <2> QED BY <1>1, <2>1 DEF PromptInv, ListInOrder, Listed, Choosing, FirstUserPid, TypeOK
<1>4. Listed' = Listed + 1
  <2>1. ~(\E c \in Contexts : pc'[c] = "fill")
    BY <1>1, <1>2
  <2> QED BY <1>1, <1>3, <2>1 DEF Listed, FirstUserPid, TypeOK
<1>5. \A i \in Slots :
        IF i = slot[s]
        THEN /\ user_processes'[i].used
             /\ user_processes'[i].state = "RUNNING"
             /\ user_processes'[i].pid = user_processes[i].pid
        ELSE SameEntry(i)
  BY FillEffect
<1>6. ListInOrder'
  <2>1. \A i \in Slots : user_processes'[i].used <=> i < Listed'
    BY <1>3, <1>4, <1>5, SlotsType DEF PromptInv, ListInOrder, SameEntry
  <2>2. \A i \in Slots : user_processes'[i].used => user_processes'[i].pid = i + FirstUserPid
    BY <1>1, <1>5 DEF PromptInv, ListInOrder, SameEntry
  <2> QED BY <1>1, <1>2, <1>3, <1>4, <2>1, <2>2 DEF ListInOrder, Choosing
<1>7. RunningIsOwned'
  BY <1>1, <1>2, <1>3, <1>5 DEF PromptInv, RunningIsOwned, Starting, SameEntry
<1> QED BY <1>6, <1>7 DEF PromptInv

LEMMA PromptExit ==
  ASSUME TypeOK, PromptInv, UserModePinned', OneAtWork', NEW s \in Contexts, SysExit(s)
  PROVE  /\ PromptInv'
         /\ active_user_process = slot[s] /\ slot[s] \in Slots
         /\ user_processes[slot[s]].used /\ user_processes[slot[s]].state = "RUNNING"
<1>1. /\ pc[s] = "user" /\ user_return_esp = s /\ pc'[s] = "done"
      /\ \A c \in Contexts \ {s} : pc'[c] = pc[c]
      /\ UNCHANGED <<slot, pid, next_user_pid>>
  BY DEF SysExit, user_process_exit, At, Goto, locals, TypeOK, PromptInv, UserModePinned
<1>2. \A c \in Contexts \ {s} : pc[c] = "poll"
  BY <1>1 DEF PromptInv, OneAtWork
<1>3. /\ active_user_process = slot[s] /\ slot[s] \in Slots
      /\ user_processes[slot[s]].used /\ user_processes[slot[s]].state = "RUNNING"
  BY <1>1 DEF PromptInv, RunningIsOwned
<1>4. Listed' = Listed
  <2>1. ~(\E c \in Contexts : pc'[c] = "fill") /\ ~(\E c \in Contexts : pc[c] = "fill")
    BY <1>1, <1>2
  <2> QED BY <1>1, <2>1 DEF Listed
<1>5. \A i \in Slots :
        /\ user_processes'[i].used = user_processes[i].used
        /\ user_processes'[i].pid = user_processes[i].pid
        /\ user_processes'[i].state = IF i = slot[s] THEN "TERMINATED" ELSE user_processes[i].state
  BY <1>3, ExitEffect
<1>6. ListInOrder'
  BY <1>1, <1>2, <1>4, <1>5 DEF PromptInv, ListInOrder, Choosing
<1>7. RunningIsOwned'
  BY <1>1, <1>2, <1>3, <1>5 DEF PromptInv, RunningIsOwned, Starting
<1> QED BY <1>3, <1>6, <1>7 DEF PromptInv

LEMMA PromptStep ==
  ASSUME ~TypeAhead
  PROVE  TypeOK /\ PromptInv /\ [Next]_vars => PromptInv'
<1> SUFFICES ASSUME TypeOK, PromptInv, [Next]_vars PROVE PromptInv'
  OBVIOUS
<1>0. UserModePinned' /\ OneAtWork'
  BY PinnedStep, PromptOneAtWork DEF PromptInv
<1>1. CASE UNCHANGED <<pc, slot, pid, table>>
  <2>1. UNCHANGED <<pc, slot, pid, user_processes, active_user_process, next_user_pid,
                    user_task_state>>
    BY <1>1 DEF table
  <2> QED BY <1>0, <2>1 DEF PromptInv, ListInOrder, RunningIsOwned, Listed
<1>2. timer_isr \/ UNCHANGED vars => UNCHANGED <<pc, slot, pid, table>>
  BY DEF timer_isr, vars, locals, table
<1>3. ASSUME NEW s \in Contexts, EnterKey(s) PROVE PromptInv'
  <2>1. PICK op \in Ops : Goto(s, Entry(op))
    BY <1>3 DEF EnterKey
  <2>2. Entry(op) \in {"pick", "kill", "load"}
    BY SchedAssumption DEF Entry
  <2>3. pc[s] = "poll" /\ UNCHANGED <<table, pid>> /\ \A c \in Contexts \ {s} : slot'[c] = slot[c]
    BY <1>3 DEF EnterKey, At, TypeOK
  <2> QED BY <1>0, <2>1, <2>2, <2>3, PromptQuiet DEF Labels, Choosing, Starting
<1>4. ASSUME NEW s \in Contexts, KernelStep(s) PROVE PromptInv'
  <2>1. CASE SchedPick(s) \/ SchedSet(s) \/ SchedReady(s) \/ SchedMark(s) \/ Load(s) \/ Return(s)
               \/ Kill(s)
    <3>1. /\ UNCHANGED <<slot, pid>>
          /\ pc[s] \in {"pick", "set", "ready", "mark", "load", "done", "kill"}
          /\ \E l \in {"set", "ready", "mark", "done", "find", "poll"} : Goto(s, l)
      BY <2>1 DEF SchedPick, SchedSet, SchedReady, SchedMark, Load, Return, Kill, At, cpu, locals
    <3>2. UNCHANGED table
      BY <2>1, KillFindsNone DEF SchedPick, SchedSet, SchedReady, SchedMark, Load, Return
    <3> QED BY <1>0, <3>1, <3>2, PromptQuiet DEF Labels, Choosing, Starting
  <2>2. CASE FindSlot(s)
    <3>1. CASE pc'[s] = "pid"
      BY <1>0, <2>2, <3>1, PromptFind
    <3>2. CASE pc'[s] # "pid"
      <4>1. Goto(s, "done") /\ slot' = slot
        BY <2>2, <3>2 DEF FindSlot, Goto, TypeOK
      <4>2. pc[s] = "find" /\ UNCHANGED <<table, pid>>
        BY <2>2 DEF FindSlot, At
      <4> QED BY <1>0, <4>1, <4>2, PromptQuiet DEF Labels, Choosing, Starting
    <3> QED BY <3>1, <3>2
  <2> QED BY <1>0, <1>4, <2>1, <2>2, PromptPid, PromptFill, PromptStart DEF KernelStep
<1>5. ASSUME NEW s \in Contexts, UserStep(s) PROVE PromptInv'
  <2>1. SysWrite(s) \/ UserFault(s) => UNCHANGED <<pc, slot, pid, table>>
    BY DEF SysWrite, UserFault, locals
  <2> QED BY <1>0, <1>1, <1>5, <2>1, PromptExit DEF UserStep
<1> QED BY <1>1, <1>2, <1>3, <1>4, <1>5 DEF Next

LEMMA PromptInductive == ASSUME ~TypeAhead PROVE Spec => [](TypeOK /\ PromptInv)
<1>1. Init => TypeOK /\ PromptInv
  BY TypeInit, PromptInit
<1>2. TypeOK /\ PromptInv /\ [Next]_vars => (TypeOK /\ PromptInv)'
  BY TypeStep, PromptStep
<1> QED BY <1>1, <1>2, PTL DEF Spec

(* With one command at a time, what the process table says of user mode    *)
(* agrees with the CPU, and a kill never finds a live process.             *)
THEOREM SchedProcessesTracked ==
  ASSUME ~TypeAhead
  PROVE  Spec => []ProcessesTracked
<1>1. TypeOK /\ PromptInv => ProcessesTracked
  <2> SUFFICES ASSUME TypeOK, PromptInv PROVE ProcessesTracked
    OBVIOUS
  <2>1. UserModeInv
    BY DEF UserModeInv, At, PromptInv, UserModePinned, RunningIsOwned
  <2>2. NothingLeftToKill
    BY DEF NothingLeftToKill, At, PromptInv, OneAtWork, RunningIsOwned, Starting
  <2> QED BY <2>1, <2>2 DEF ProcessesTracked
<1> QED BY <1>1, PromptInductive, PTL

-----------------------------------------------------------------------------
(* The table implements the life cycle: entry n - 1 is process n.          *)
Numbers == 1..MAX_USER_PROCESSES

EntryPhase(i) ==
  IF ~user_processes[i].used THEN "unborn"
  ELSE IF user_processes[i].state = "RUNNING" THEN "running" ELSE "ended"

PhaseIsEntry == \A n \in Numbers : PhaseOf(n) = EntryPhase(n - 1)

Phases == [n \in Numbers |-> PhaseOf(n)]

LEMMA NumberOfSlot ==
  /\ \A n \in Numbers : n \in Nat /\ n - 1 \in Slots
  /\ \A i \in Slots : i \in Nat /\ i + 1 \in Numbers /\ (i + 1) - 1 = i
  /\ \A n \in Numbers, i \in Slots : n # i + 1 => n - 1 # i
BY SchedAssumption DEF Numbers, Slots

LEMMA PhaseFromTable == TypeOK /\ PromptInv => PhaseIsEntry
<1> SUFFICES ASSUME TypeOK, PromptInv, NEW n \in Numbers
             PROVE  PhaseOf(n) = EntryPhase(n - 1)
  BY DEF PhaseIsEntry
<1> DEFINE listed == {i \in Slots : /\ user_processes[i].used
                                    /\ user_processes[i].pid = n + FirstUserPid - 1}
<1>1. n - 1 \in Slots /\ n \in Nat
  BY NumberOfSlot
<1>2. \A i \in Slots : user_processes[i].used =>
        (user_processes[i].pid = n + FirstUserPid - 1 <=> i = n - 1)
  <2>1. \A i \in Nat : i + FirstUserPid = n + FirstUserPid - 1 <=> i = n - 1
    BY <1>1 DEF FirstUserPid
  <2> QED BY <2>1, SlotsType DEF PromptInv, ListInOrder
<1>3. listed = IF user_processes[n - 1].used THEN {n - 1} ELSE {}
  BY <1>1, <1>2
<1>4. PhaseOf(n) = IF listed = {} THEN "unborn"
                   ELSE IF \E i \in listed : user_processes[i].state = "RUNNING" THEN "running"
                   ELSE "ended"
  BY DEF PhaseOf
<1> HIDE DEF listed
<1> QED BY <1>3, <1>4 DEF EntryPhase

LEMMA FillStartsNext ==
  ASSUME TypeOK, PromptInv, PhaseIsEntry, PhaseIsEntry', NEW s \in Contexts, FillSlot(s)
  PROVE  \E n \in Numbers :
           /\ Phases[n] = "unborn"
           /\ \A m \in 1..(n - 1) : Phases[m] = "ended"
           /\ Phases' = [Phases EXCEPT ![n] = "running"]
<1> DEFINE i == slot[s]
<1>1. i \in Slots /\ i + 1 \in Numbers /\ (i + 1) - 1 = i /\ i = Listed
  BY NumberOfSlot DEF FillSlot, At, PromptInv, ListInOrder, Choosing
<1>2. EntryPhase(i) = "unborn"
  <2>1. \A a \in Nat : ~(a < a)
    OBVIOUS
  <2>2. ~user_processes[i].used
    BY <1>1, <2>1, SlotsType DEF PromptInv, ListInOrder
  <2> QED BY <2>2 DEF EntryPhase
<1>3. \A m \in 1..i : m \in Numbers /\ EntryPhase(m - 1) = "ended"
  <2> SUFFICES ASSUME NEW m \in 1..i PROVE m \in Numbers /\ EntryPhase(m - 1) = "ended"
    OBVIOUS
  <2>1. m \in Numbers /\ m - 1 \in Slots /\ m - 1 < i
    BY <1>1, SchedAssumption DEF Numbers, Slots
  <2>2. user_processes[m - 1].used
    BY <1>1, <2>1 DEF PromptInv, ListInOrder
  <2>3. pc[s] = "fill" /\ \A c \in Contexts : pc[c] \in {"poll", "fill"}
    BY DEF FillSlot, At, PromptInv, OneAtWork
  <2>4. user_processes[m - 1].state # "RUNNING"
    BY <2>1, <2>3 DEF PromptInv, RunningIsOwned, Starting
  <2> QED BY <2>1, <2>2, <2>4 DEF EntryPhase
<1>4. \A j \in Slots : EntryPhase(j)' = IF j = i THEN "running" ELSE EntryPhase(j)
  BY FillEffect DEF EntryPhase, SameEntry
<1>5. Phases[i + 1] = "unborn"
  BY <1>1, <1>2 DEF Phases, PhaseIsEntry
<1>6. \A m \in 1..((i + 1) - 1) : Phases[m] = "ended"
  BY <1>1, <1>3 DEF Phases, PhaseIsEntry
<1>7. Phases' = [Phases EXCEPT ![i + 1] = "running"]
  <2>1. \A n \in Numbers : PhaseOf(n)' = IF n = i + 1 THEN "running" ELSE PhaseOf(n)
    BY <1>1, <1>4, NumberOfSlot DEF PhaseIsEntry
  <2> QED BY <1>1, <2>1 DEF Phases
<1> QED BY <1>1, <1>5, <1>6, <1>7

LEMMA ExitEndsRunning ==
  ASSUME TypeOK, PromptInv, UserModePinned', OneAtWork', PhaseIsEntry, PhaseIsEntry',
         NEW s \in Contexts, SysExit(s)
  PROVE  \E n \in Numbers :
           Phases[n] = "running" /\ Phases' = [Phases EXCEPT ![n] = "ended"]
<1> DEFINE i == slot[s]
<1>1. /\ i \in Slots /\ i + 1 \in Numbers /\ (i + 1) - 1 = i /\ active_user_process = i
      /\ user_processes[i].used /\ user_processes[i].state = "RUNNING"
  BY PromptExit, NumberOfSlot
<1>2. \A j \in Slots : EntryPhase(j)' = IF j = i THEN "ended" ELSE EntryPhase(j)
  BY <1>1, ExitEffect DEF EntryPhase
<1>3. Phases[i + 1] = "running"
  BY <1>1 DEF Phases, PhaseIsEntry, EntryPhase
<1>4. Phases' = [Phases EXCEPT ![i + 1] = "ended"]
  <2>1. \A n \in Numbers : PhaseOf(n)' = IF n = i + 1 THEN "ended" ELSE PhaseOf(n)
    BY <1>1, <1>2, NumberOfSlot DEF PhaseIsEntry
  <2> QED BY <1>1, <2>1 DEF Phases
<1> QED BY <1>1, <1>3, <1>4

LEMMA OthersKeepPhases ==
  ASSUME TypeOK, PromptInv, PhaseIsEntry, PhaseIsEntry', [Next]_vars,
         \A s \in Contexts : ~FillSlot(s) /\ ~SysExit(s)
  PROVE  UNCHANGED Phases
<1>1. \A i \in Slots : EntryPhase(i)' = EntryPhase(i)
  <2>1. CASE UNCHANGED user_processes
    BY <2>1 DEF EntryPhase
  <2>2. timer_isr \/ UNCHANGED vars => UNCHANGED user_processes
    BY DEF timer_isr, vars, table
  <2>3. ASSUME NEW s \in Contexts, EnterKey(s) \/ UserStep(s) PROVE UNCHANGED user_processes
    BY <2>3 DEF EnterKey, UserStep, SysWrite, UserFault, table
  <2>4. ASSUME NEW s \in Contexts, KernelStep(s), ~StorePid(s) PROVE UNCHANGED user_processes
    BY <2>4, KillFindsNone DEF KernelStep, SchedPick, SchedSet, SchedReady, SchedMark, Load,
       FindSlot, ReadPid, MakeActive, user_task_start, enter_user_mode, Return, table
  <2>5. ASSUME NEW s \in Contexts, StorePid(s)
        PROVE  \A i \in Slots : EntryPhase(i)' = EntryPhase(i)
    BY <2>5, StoreEffect DEF EntryPhase
  <2> QED BY <2>1, <2>2, <2>3, <2>4, <2>5 DEF Next
<1> QED BY <1>1, NumberOfSlot DEF Phases, PhaseIsEntry

(* With one command at a time the process table implements the life cycle: *)
(* processes are numbered in the order they start, one runs at a time, and *)
(* one that has ended never runs again.                                    *)
THEOREM SchedImplementsLifecycle ==
  ASSUME ~TypeAhead
  PROVE  Spec => LifecycleSpec
<1> DEFINE Inv == TypeOK /\ PromptInv /\ PhaseIsEntry
<1>1. Spec => []Inv
  BY PromptInductive, PhaseFromTable, PTL
<1>2. Init /\ Inv => Lifecycle!Init
  <2> SUFFICES ASSUME Init, Inv PROVE Phases = [n \in Numbers |-> "unborn"]
    BY DEF Lifecycle!Init, Phases, Numbers
  <2>1. \A i \in Slots : EntryPhase(i) = "unborn"
    BY DEF Init, EntryPhase
  <2> QED BY <2>1, NumberOfSlot DEF Phases, PhaseIsEntry
<1>3. Inv /\ Inv' /\ [Next]_vars => [Lifecycle!Next]_(Phases)
  <2> SUFFICES ASSUME Inv, Inv', [Next]_vars PROVE Lifecycle!Next \/ UNCHANGED Phases
    OBVIOUS
  <2>1. CASE \E s \in Contexts : FillSlot(s)
    <3>1. \E n \in Numbers : Lifecycle!Start(n)
      BY <2>1, FillStartsNext DEF Lifecycle!Start, Phases, Numbers
    <3> QED BY <3>1 DEF Lifecycle!Next, Numbers
  <2>2. CASE \E s \in Contexts : SysExit(s)
    <3>1. \E n \in Numbers : Lifecycle!End(n)
      BY <2>2, ExitEndsRunning DEF PromptInv, Lifecycle!End, Phases, Numbers
    <3> QED BY <3>1 DEF Lifecycle!Next, Numbers
  <2> QED BY <2>1, <2>2, OthersKeepPhases
<1> QED BY <1>1, <1>2, <1>3, PTL DEF Spec, LifecycleSpec, Lifecycle!Spec, Phases, Numbers
=============================================================================
