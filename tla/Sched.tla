------------------------------- MODULE Sched -------------------------------
(***************************************************************************)
(* The CPU, the timer-driven scheduler and the user-process table of       *)
(* ValaOS (kernel/task.c, timer.asm, tss.c, user_mode.asm, syscall.asm).   *)
(*                                                                         *)
(* Two kernel contexts execute the same loop "poll the keyboard, execute   *)
(* the command line": task 0 ("kernel") on the boot stack and task 1       *)
(* ("shell") on its own stack.  The timer interrupt preempts one and       *)
(* resumes the other.  Task 2 ("idle") has a stack but is never selected.  *)
(* A context is identified with the stack it runs on, so `running' says    *)
(* which stack the CPU really uses while `current_task' says which task    *)
(* the scheduler believes is running.                                      *)
(***************************************************************************)
EXTENDS Naturals, Integers, FiniteSets

CONSTANTS
  MAX_USER_PROCESSES, \* entries of user_processes[] (8 in the code)
  Ops,                \* commands the user types
  KillPids,           \* arguments given to "kill"
  TypeAhead           \* Enter may be acted on while a command is executing

ASSUME SchedAssumption ==
  /\ MAX_USER_PROCESSES \in Nat \ {0}
  /\ Ops \subseteq {"run", "kill", "schedule"}
  /\ KillPids \subseteq Nat
  /\ TypeAhead \in BOOLEAN

Tasks    == 0..2            \* tasks[]: kernel, shell, idle
Contexts == 0..1            \* the two that execute commands
Slots    == 0..(MAX_USER_PROCESSES - 1)
FirstUserPid == 4

None   == -1                \* no slot, no live frame
LOST   == -1                \* the CPU follows a dead or overwritten frame, or
                            \*   one the user program's EBP points at
HALTED == -2                \* the page fault handler stopped the CPU

TaskStates == {"READY", "RUNNING", "TERMINATED"}
Labels == {"poll", "pick", "set", "ready", "mark", "kill", "load", "find",
           "pid", "store", "fill", "active", "start", "enter", "user", "done"}

VARIABLES
  running,      \* the stack the CPU executes on, LOST or HALTED
  eflags_if,    \* the interrupt flag
  current_task, \* what the scheduler believes is running
  state,        \* tasks[t].state
  esp,          \* the stack whose live suspended frame tasks[t].context.esp
                \*   points at; None when the saved value is zero or stale
  pc,           \* where each context is in execute_command
  next_task,    \* the local next_task of schedule_once, per context
  slot,         \* the local i of user_process_start, per context
  pid,          \* the value next_user_pid++ has read, per context
  user_processes, active_user_process, next_user_pid, user_task_state,
  user_return_esp, \* the stack enter_user_mode was called on
  smashed,      \* stacks whose frames a trap from ring 3 has overwritten
  user_ebp      \* EBP is not execute_command's: a user program changed it

cpu    == <<running, eflags_if, user_return_esp, smashed, user_ebp>>
sched  == <<current_task, state, esp>>
locals == <<next_task, slot, pid>>
table  == <<user_processes, active_user_process, next_user_pid, user_task_state>>
vars   == <<cpu, sched, pc, locals, table>>

(* kernel_main has just executed sti: task 0 runs, nothing has saved its   *)
(* esp yet, the frames of tasks 1 and 2 are the ones task_context_init     *)
(* builds.                                                                 *)
Init ==
  /\ running = 0
  /\ eflags_if = TRUE
  /\ current_task = 0
  /\ state = [t \in Tasks |-> IF t = 0 THEN "RUNNING" ELSE "READY"]
  /\ esp = [t \in Tasks |-> IF t = 0 THEN None ELSE t]
  /\ pc = [s \in Contexts |-> "poll"]
  /\ next_task = [s \in Contexts |-> 0]
  /\ slot = [s \in Contexts |-> None]
  /\ pid = [s \in Contexts |-> 0]
  /\ user_processes = [i \in Slots |->
                         [pid |-> 0, state |-> "TERMINATED", used |-> FALSE]]
  /\ active_user_process = None
  /\ next_user_pid = FirstUserPid
  /\ user_task_state = "READY"
  /\ user_return_esp = None
  /\ smashed = {}
  /\ user_ebp = FALSE

At(s, label)   == running = s /\ pc[s] = label
Goto(s, label) == pc' = [pc EXCEPT ![s] = label]
IsFirst(i, S)  == i \in S /\ \A j \in S : i <= j

-----------------------------------------------------------------------------
(* schedule_once: round robin over tasks 0 and 1.                          *)

Candidate(i) == IF current_task + i >= 2 THEN 0 ELSE current_task + i

(* Mutant: the search starts at the current task itself.                   *)
NextTask_FromZero == IF state[current_task] # "TERMINATED" THEN current_task
                                                           ELSE Candidate(1)

NextTask == IF state[Candidate(1)] # "TERMINATED" THEN Candidate(1)
                                                  ELSE Candidate(2)

AllReady(st) == [t \in Tasks |-> IF st[t] = "TERMINATED" THEN st[t] ELSE "READY"]

Marked(t, st) == [AllReady(st) EXCEPT ![t] = "RUNNING"]

Saved == [esp EXCEPT ![current_task] = running]

(* The timer interrupt outside user mode: save the interrupted stack under *)
(* current_task, select, and resume the frame the selected task has saved. *)
(* Popping a frame makes every saved copy of it stale.  (While a user task *)
(* is RUNNING the interrupt only counts a tick.)                           *)
timer_isr ==
  /\ eflags_if
  /\ running \in Contexts
  /\ user_task_state # "RUNNING"
  /\ LET found  == state[NextTask] # "TERMINATED"
         next   == IF found THEN NextTask ELSE current_task
         frame  == Saved[next]
     IN /\ current_task' = next
        /\ state' = IF found THEN Marked(next, state) ELSE state
        /\ running' = IF frame \in Contexts \ smashed THEN frame ELSE LOST
        /\ esp' = [t \in Tasks |-> IF Saved[t] = frame THEN None ELSE Saved[t]]
  /\ UNCHANGED <<eflags_if, user_return_esp, smashed, user_ebp, pc, locals, table>>

-----------------------------------------------------------------------------
(* keyboard_poll reads an Enter and calls execute_command.  Without        *)
(* TypeAhead one command is in progress at a time, which assumes two       *)
(* things: the user waits for the prompt, and no Enter is acted on by both *)
(* contexts.  The code ensures neither; KeyRace shows that one key press   *)
(* can be acted on twice.  With TypeAhead either may happen.               *)
Entry(op) == CASE op = "schedule" -> "pick"
               [] op = "kill"     -> "kill"
               [] op = "run"      -> "load"

EnterKey(s) ==
  /\ At(s, "poll")
  /\ TypeAhead \/ \A c \in Contexts : pc[c] = "poll"
  /\ \E op \in Ops : Goto(s, Entry(op))
  /\ slot' = [slot EXCEPT ![s] = None]
  /\ UNCHANGED <<cpu, sched, next_task, pid, table>>

(* command_done: the prompt is printed and execute_command returns by      *)
(* "leave; ret", that is through EBP.  The frame is gone if a trap from    *)
(* ring 3 used this stack, and not the one found if EBP is the program's.  *)
Return(s) ==
  /\ At(s, "done")
  /\ running' = IF s \in smashed \/ user_ebp THEN LOST ELSE running
  /\ Goto(s, "poll")
  /\ UNCHANGED <<eflags_if, user_return_esp, smashed, user_ebp, sched, locals, table>>

-----------------------------------------------------------------------------
(* The "schedule" command calls schedule_once outside the timer interrupt, *)
(* with interrupts on: pick, set current_task, reset the states, mark.     *)
SchedPick(s) ==
  /\ At(s, "pick")
  /\ next_task' = [next_task EXCEPT ![s] = NextTask]
  /\ Goto(s, IF state[NextTask] = "TERMINATED" THEN "done" ELSE "set")
  /\ UNCHANGED <<cpu, sched, slot, pid, table>>

SchedSet(s) ==
  /\ At(s, "set")
  /\ current_task' = next_task[s]
  /\ Goto(s, "ready")
  /\ UNCHANGED <<cpu, state, esp, locals, table>>

SchedReady(s) ==
  /\ At(s, "ready")
  /\ state' = AllReady(state)
  /\ Goto(s, "mark")
  /\ UNCHANGED <<cpu, current_task, esp, locals, table>>

SchedMark(s) ==
  /\ At(s, "mark")
  /\ state' = [state EXCEPT ![current_task] = "RUNNING"]
  /\ Goto(s, "done")
  /\ UNCHANGED <<cpu, current_task, esp, locals, table>>

-----------------------------------------------------------------------------
(* The "kill" command: task_kill, then user_process_kill.                  *)

user_process_kill(p) ==
  LET hits == {i \in Slots : user_processes[i].used /\ user_processes[i].pid = p}
  IN \/ /\ \A i \in hits : ~IsFirst(i, hits) \/ user_processes[i].state = "TERMINATED"
        /\ UNCHANGED table
     \/ \E i \in hits :
          /\ IsFirst(i, hits)
          /\ user_processes[i].state # "TERMINATED"
          /\ user_processes' = [user_processes EXCEPT ![i].state = "TERMINATED"]
          /\ user_task_state' = IF active_user_process = i THEN "TERMINATED"
                                                          ELSE user_task_state
          /\ UNCHANGED <<active_user_process, next_user_pid>>

task_kill(p) ==
  \/ p \in {1, 2} /\ UNCHANGED <<state, table>>
  \/ p = 3 /\ state' = [state EXCEPT ![2] = "TERMINATED"] /\ UNCHANGED table
  \/ p \notin {1, 2, 3} /\ user_process_kill(p) /\ UNCHANGED state

Kill(s) ==
  /\ At(s, "kill")
  /\ \E p \in KillPids : task_kill(p)
  /\ Goto(s, "done")
  /\ UNCHANGED <<cpu, current_task, esp, locals>>

-----------------------------------------------------------------------------
(* The "run" command.  Loading fails on a missing or malformed program or  *)
(* on arguments that do not fit the user stack.                            *)
Load(s) ==
  /\ At(s, "load")
  /\ \E next \in {"find", "done"} : Goto(s, next)
  /\ UNCHANGED <<cpu, sched, locals, table>>

(* Mutant (FindSlot_ReusesEnded): an entry is free once its process ended. *)
(* user_process_start, with the timer interrupt able to intervene between  *)
(* the search, the read and the write of next_user_pid++, filling the      *)
(* entry and making it the active one.                                     *)
FindSlot_ReusesEnded(s) ==
  LET free == {i \in Slots : user_processes[i].state = "TERMINATED"}
  IN /\ At(s, "find")
     /\ \/ free = {} /\ Goto(s, "done") /\ slot' = slot
        \/ \E i \in free : /\ IsFirst(i, free)
                           /\ slot' = [slot EXCEPT ![s] = i]
                           /\ Goto(s, "pid")
     /\ UNCHANGED <<cpu, sched, next_task, pid, table>>

FindSlot(s) ==
  LET free == {i \in Slots : ~user_processes[i].used}
  IN /\ At(s, "find")
     /\ \/ free = {} /\ Goto(s, "done") /\ slot' = slot
        \/ \E i \in free : /\ IsFirst(i, free)
                           /\ slot' = [slot EXCEPT ![s] = i]
                           /\ Goto(s, "pid")
     /\ UNCHANGED <<cpu, sched, next_task, pid, table>>

ReadPid(s) ==
  /\ At(s, "pid")
  /\ pid' = [pid EXCEPT ![s] = next_user_pid]
  /\ Goto(s, "store")
  /\ UNCHANGED <<cpu, sched, next_task, slot, table>>

(* Mutant: the counter is read but not advanced.                           *)
StorePid_NotAdvanced(s) ==
  /\ At(s, "store")
  /\ user_processes' = [user_processes EXCEPT ![slot[s]].pid = pid[s]]
  /\ Goto(s, "fill")
  /\ UNCHANGED <<cpu, sched, locals, next_user_pid, active_user_process, user_task_state>>

StorePid(s) ==
  /\ At(s, "store")
  /\ next_user_pid' = pid[s] + 1
  /\ user_processes' = [user_processes EXCEPT ![slot[s]].pid = pid[s]]
  /\ Goto(s, "fill")
  /\ UNCHANGED <<cpu, sched, locals, active_user_process, user_task_state>>

FillSlot(s) ==
  /\ At(s, "fill")
  /\ user_processes' = [user_processes EXCEPT ![slot[s]].state = "RUNNING",
                                              ![slot[s]].used  = TRUE]
  /\ Goto(s, "active")
  /\ UNCHANGED <<cpu, sched, locals, active_user_process, next_user_pid, user_task_state>>

MakeActive(s) ==
  /\ At(s, "active")
  /\ active_user_process' = slot[s]
  /\ Goto(s, "start")
  /\ UNCHANGED <<cpu, sched, locals, user_processes, next_user_pid, user_task_state>>

user_task_start(s) ==
  /\ At(s, "start")
  /\ user_task_state' = "RUNNING"
  /\ Goto(s, "enter")
  /\ UNCHANGED <<cpu, sched, locals, user_processes, active_user_process, next_user_pid>>

(* Mutant: the flags are pushed before cli, so they carry IF.              *)
enter_user_mode_FlagsFirst(s) ==
  /\ At(s, "enter")
  /\ user_return_esp' = s
  /\ Goto(s, "user")
  /\ UNCHANGED <<running, eflags_if, smashed, user_ebp, sched, locals, table>>

(* cli comes before pushfd, so the user program starts with interrupts off.*)
enter_user_mode(s) ==
  /\ At(s, "enter")
  /\ user_return_esp' = s
  /\ eflags_if' = FALSE
  /\ Goto(s, "user")
  /\ UNCHANGED <<running, smashed, user_ebp, sched, locals, table>>

-----------------------------------------------------------------------------
(* The user program.  Every trap switches to the stack tss.esp0 points at, *)
(* the top of the boot stack, and overwrites the frames kept there.        *)

(* Mutant: esp0 is the top of the shell task's stack.                      *)
TrapStack_Shell == 1

TrapStack == 0

(* int 0x80 with any number but SYS_EXIT returns to the program, by popa   *)
(* and iretd, with its registers.                                          *)
SysWrite(s) ==
  /\ At(s, "user")
  /\ smashed' = smashed \cup {TrapStack}
  /\ UNCHANGED <<running, eflags_if, user_return_esp, user_ebp, sched, pc, locals, table>>

(* Mutant: active_user_process is cleared before the entry is marked.      *)
user_process_exit_ClearedFirst ==
  /\ active_user_process' = None
  /\ user_task_state' = "TERMINATED"
  /\ UNCHANGED <<user_processes, next_user_pid>>

user_process_exit ==
  /\ user_processes' =
       IF active_user_process \in Slots
       THEN [user_processes EXCEPT ![active_user_process].state = "TERMINATED"]
       ELSE user_processes
  /\ active_user_process' = None
  /\ user_task_state' = "TERMINATED"
  /\ UNCHANGED next_user_pid

(* SYS_EXIT returns by "ret" on the saved kernel stack, not by iretd: the  *)
(* flags the program ran with stay, interrupts off, and of the registers   *)
(* only ESP is the kernel's again.  EBP is what it was at the entry only   *)
(* if the program left it so.                                              *)
SysExit(s) ==
  /\ At(s, "user")
  /\ smashed' = smashed \cup {TrapStack}
  /\ user_process_exit
  /\ running' = user_return_esp
  /\ user_ebp' \in BOOLEAN
  /\ Goto(user_return_esp, "done")
  /\ UNCHANGED <<eflags_if, user_return_esp, sched, locals>>

(* page_fault_isr never returns.                                           *)
UserFault(s) ==
  /\ At(s, "user")
  /\ smashed' = smashed \cup {TrapStack}
  /\ running' = HALTED
  /\ UNCHANGED <<eflags_if, user_return_esp, user_ebp, sched, pc, locals, table>>

-----------------------------------------------------------------------------
KernelStep(s) ==
  \/ SchedPick(s) \/ SchedSet(s) \/ SchedReady(s) \/ SchedMark(s)
  \/ Kill(s)
  \/ Load(s) \/ FindSlot(s) \/ ReadPid(s) \/ StorePid(s) \/ FillSlot(s)
  \/ MakeActive(s) \/ user_task_start(s) \/ enter_user_mode(s)
  \/ Return(s)

UserStep(s) == SysWrite(s) \/ SysExit(s) \/ UserFault(s)

Next == \/ timer_isr
        \/ \E s \in Contexts : EnterKey(s) \/ KernelStep(s) \/ UserStep(s)

Spec == Init /\ [][Next]_vars

(* The PIT keeps interrupting; a time slice executes many instructions, so *)
(* a context that is scheduled again and again makes progress; a user      *)
(* program is assumed to end.  Nobody has to press a key.                  *)
FairSpec ==
  /\ Spec
  /\ WF_vars(timer_isr)
  /\ \A s \in Contexts : SF_vars(KernelStep(s)) /\ WF_vars(SysExit(s) \/ UserFault(s))

-----------------------------------------------------------------------------
(* Properties.                                                             *)

ProcessEntry == [pid : Nat, state : TaskStates, used : BOOLEAN]

(* Every variable has its type, for every command mix: current_task indexes*)
(* a schedulable task, active_user_process an entry or none.               *)
TypeOK ==
  /\ running \in Contexts \cup {LOST, HALTED}
  /\ eflags_if \in BOOLEAN
  /\ current_task \in Contexts
  /\ state \in [Tasks -> TaskStates]
  /\ esp \in [Tasks -> Tasks \cup {None}]
  /\ pc \in [Contexts -> Labels]
  /\ next_task \in [Contexts -> Contexts]
  /\ slot \in [Contexts -> Slots \cup {None}]
  /\ pid \in [Contexts -> Nat]
  /\ user_processes \in [Slots -> ProcessEntry]
  /\ active_user_process \in Slots \cup {None}
  /\ next_user_pid \in Nat
  /\ user_task_state \in TaskStates
  /\ user_return_esp \in Contexts \cup {None}
  /\ smashed \subseteq Contexts
  /\ user_ebp \in BOOLEAN

Other(s) == 1 - s

(* Context switching is sound as long as nobody types "schedule": the task *)
(* the scheduler believes in is the one on the CPU and the only one marked *)
(* RUNNING, and the suspended context can be resumed from its own slot     *)
(* (the first tick apart, nothing has to be: tasks[0] starts without one). *)
SwitchInv ==
  running \in Contexts =>
    /\ current_task = running
    /\ \A t \in Tasks : state[t] = "RUNNING" <=> t = running
    /\ esp[Other(running)] = Other(running)
    /\ state[Other(running)] = "READY"

(* Without "schedule" the CPU is lost only as a "run" returns, in one of   *)
(* two ways: over the frames its own program's traps had overwritten, and  *)
(* that is the boot context, or through an EBP its program had changed.    *)
LostOnlyByRun ==
  running = LOST => ~eflags_if /\ (user_return_esp = TrapStack \/ user_ebp)

(* In user mode the timer cannot switch, the exit path returns to the      *)
(* context that entered, and the active entry is the running process.      *)
UserModeInv ==
  \A s \in Contexts : At(s, "user") =>
    /\ ~eflags_if
    /\ user_return_esp = s
    /\ user_task_state = "RUNNING"
    /\ active_user_process = slot[s]
    /\ user_processes[slot[s]].used
    /\ user_processes[slot[s]].state = "RUNNING"

(* With one command at a time a "kill" can only ever name a process that   *)
(* has ended: no entry is RUNNING when the kill executes.                  *)
NothingLeftToKill ==
  \A s \in Contexts : At(s, "kill") =>
    \A i \in Slots : user_processes[i].state # "RUNNING"

(* What the process table says of user mode agrees with the CPU, both      *)
(* while a program runs and when it has ended, with one command at a time. *)
ProcessesTracked == UserModeInv /\ NothingLeftToKill

(* Two listed processes never share a PID and every listed PID has been    *)
(* handed out, whatever the interleaving of two contexts in "run".         *)
PidsDistinct ==
  /\ \A i, j \in Slots :
       /\ user_processes[i].used
       /\ user_processes[j].used
       /\ user_processes[i].pid = user_processes[j].pid
       => i = j
  /\ \A i \in Slots :
       user_processes[i].used => user_processes[i].pid \in FirstUserPid..(next_user_pid - 1)

(* A listed process that is TERMINATED stays so: neither a later "run" nor *)
(* a racing one brings it back.                                            *)
NoResurrection ==
  [][\A i \in Slots :
       user_processes[i].used /\ user_processes[i].state = "TERMINATED"
         => user_processes'[i].used /\ user_processes'[i].state = "TERMINATED"]_vars

(* The table implements the abstract life cycle with one command at a time.*)
PhaseOf(n) ==
  LET listed == {i \in Slots : /\ user_processes[i].used
                               /\ user_processes[i].pid = n + FirstUserPid - 1}
  IN IF listed = {} THEN "unborn"
     ELSE IF \E i \in listed : user_processes[i].state = "RUNNING" THEN "running"
     ELSE "ended"

Lifecycle == INSTANCE ProcLifecycle
               WITH Max <- MAX_USER_PROCESSES,
                    phase <- [n \in 1..MAX_USER_PROCESSES |-> PhaseOf(n)]

LifecycleSpec == Lifecycle!Spec

(* Until the first program runs, the timer gives each context the CPU again*)
(* and again.                                                              *)
NoStarvation ==
  \A s \in Contexts : (running = s /\ eflags_if) ~> (running = Other(s) \/ ~eflags_if)

(* A "run" executed by the shell context returns to the prompt, unless the *)
(* program faults or gives the kernel its own EBP to return through.       *)
ShellRunReturns ==
  (pc[1] = "load") ~> \/ pc[1] = "poll" /\ running = 1
                      \/ pc[1] = "poll" /\ running = LOST /\ user_ebp
                      \/ running = HALTED

(* User mode is entered and left on the same stack, interrupts off.        *)
UserModePinned ==
  \A s \in Contexts : pc[s] = "user" =>
    /\ ~eflags_if
    /\ user_return_esp = s
    /\ running \in Contexts => running = s

(* Once a program has trapped, the overwritten stack is resumed by no tick: *)
(* the CPU stays on the stack that entered user mode, interrupts off.      *)
SmashedPinned ==
  smashed # {} =>
    /\ smashed = {TrapStack}
    /\ ~eflags_if
    /\ running \in Contexts => running = user_return_esp

(* A program's EBP comes with a trap, so with interrupts off.              *)
EbpFromTrap == user_ebp => smashed # {}

NoScheduleCommand == \A s \in Contexts : pc[s] \notin {"pick", "set", "ready", "mark"}

(* The inductive invariant of a user who never types "schedule".           *)
SwitchCore == SwitchInv /\ LostOnlyByRun /\ UserModePinned /\ SmashedPinned
                /\ EbpFromTrap /\ NoScheduleCommand

(* Without "schedule", in every interleaving of ticks, commands and traps: *)
(* context switching is sound, the CPU is lost only by a return from "run" *)
(* in the boot context or with a changed EBP, and overwritten frames are   *)
(* resumed by no tick.                                                     *)
SchedInv == TypeOK /\ SwitchCore
=============================================================================
