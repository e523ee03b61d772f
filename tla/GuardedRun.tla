------------------------------ MODULE GuardedRun ------------------------------
(***************************************************************************)
(* scripts/run_guarded.sh: invocations that share Slots lock files on one  *)
(* host, the td2hive command each of them runs, and the process that does  *)
(* the command's work: a TPT container that writes CSV files (reader.py),  *)
(* then a DataX JVM (datax/runner.py).  Either may outlive the command.    *)
(***************************************************************************)
EXTENDS Naturals, FiniteSets

CONSTANTS
  Invocations,  \* started by cron, once each
  JobOf,        \* JobOf[i]: the (job, date) whose files i writes
  MaxSlots,     \* TD2HIVE_CONCURRENCY_SLOTS is at most that
  Versions,     \* of the DataX distribution
  NoSlot,
  FaultKinds,   \* what the environment of this instance may do
  MaxFaults     \* bound on how often it does

AllFaults == {"start", "export", "remove", "jvm", "killcmd", "killguard", "ssh"}

ASSUME GuardAssumption ==
  /\ IsFiniteSet(Invocations) /\ MaxSlots \in Nat \ {0} /\ NoSlot \notin Nat
  /\ MaxFaults \in Nat /\ FaultKinds \subseteq AllFaults

VARIABLES
  slots,     \* TD2HIVE_CONCURRENCY_SLOTS, the same for all
  guard,     \* guard[i]: "off", "scanning", "waiting", "running", "done", "killed"
  try,       \* try[i]: the lock file a scan is at
  slot,      \* slot[i]: the lock that i's open file holds, or NoSlot
  cmd,       \* cmd[i]: "none", "start", "export", "write" or "ended"
  tool,      \* tool[i]: "none", "container" (writing), "idle" (container done), "jvm"
  abandoned, \* history: invocations whose tool a kill or a timeout left alone
  faults

runVars == <<slots, guard, try, slot, cmd, tool, abandoned, faults>>

Alive(i)   == cmd[i] \in {"start", "export", "write"}
Held(s)    == \E i \in Invocations : slot[i] = s
Writing(i) == tool[i] \in {"container", "jvm"}

Fault(kind) ==
  kind \in FaultKinds /\ faults < MaxFaults /\ faults' = faults + 1

GuardInit ==
  /\ slots \in 1..MaxSlots
  /\ guard = [i \in Invocations |-> "off"] /\ try = [i \in Invocations |-> 1]
  /\ slot = [i \in Invocations |-> NoSlot] /\ cmd = [i \in Invocations |-> "none"]
  /\ tool = [i \in Invocations |-> "none"] /\ abandoned = {} /\ faults = 0

----------------------------------------------------------------------------
(* try_acquire_slot and the polling loop *)

Scan(i) ==
  /\ guard[i] \in {"off", "waiting"}
  /\ guard' = [guard EXCEPT ![i] = "scanning"] /\ try' = [try EXCEPT ![i] = 1]
  /\ UNCHANGED <<slots, slot, cmd, tool, abandoned, faults>>

FlockIgnored(s) == TRUE                                 \* mutant
FlockSucceeds(s) == ~Held(s)

TakeSlot(i) ==
  /\ guard[i] = "scanning" /\ FlockSucceeds(try[i])
  /\ slot' = [slot EXCEPT ![i] = try[i]]
  /\ guard' = [guard EXCEPT ![i] = "running"] /\ cmd' = [cmd EXCEPT ![i] = "start"]
  /\ UNCHANGED <<slots, try, tool, abandoned, faults>>

NotYetPast(s) == s <= slots                             \* mutant
MoreSlots(s)  == s < slots

SlotBusy(i) ==
  /\ guard[i] = "scanning" /\ ~FlockSucceeds(try[i])
  /\ IF MoreSlots(try[i])
       THEN try' = [try EXCEPT ![i] = @ + 1] /\ UNCHANGED guard
       ELSE guard' = [guard EXCEPT ![i] = "waiting"] /\ UNCHANGED try
  /\ UNCHANGED <<slots, slot, cmd, tool, abandoned, faults>>

ExitKeepingLock(i) ==                                   \* mutant
  /\ guard[i] = "running" /\ cmd[i] = "ended"
  /\ guard' = [guard EXCEPT ![i] = "done"]
  /\ UNCHANGED <<slots, try, slot, cmd, tool, abandoned, faults>>
\* flock -u
FreeSlot(i) ==
  /\ guard[i] = "running" /\ cmd[i] = "ended"
  /\ slot' = [slot EXCEPT ![i] = NoSlot] /\ guard' = [guard EXCEPT ![i] = "done"]
  /\ UNCHANGED <<slots, try, cmd, tool, abandoned, faults>>

\* the command has inherited the open lock file and keeps the lock
KillGuard(i) ==
  /\ guard[i] \in {"scanning", "waiting", "running"} /\ Fault("killguard")
  /\ guard' = [guard EXCEPT ![i] = "killed"]
  /\ slot' = [slot EXCEPT ![i] = IF Alive(i) THEN @ ELSE NoSlot]
  /\ UNCHANGED <<slots, try, cmd, tool, abandoned>>

----------------------------------------------------------------------------
(* the command *)

\* it ends: with its guard gone the lock goes too
CmdBecomes(i, state) ==
  /\ cmd' = [cmd EXCEPT ![i] = state]
  /\ slot' = [slot EXCEPT ![i] = IF state = "ended" /\ guard[i] = "killed" THEN NoSlot ELSE @]

ToolBecomes(i, state) == tool' = [tool EXCEPT ![i] = state]

Leaves(i) == abandoned' = abandoned \cup {i}

\* docker run -d
StartContainer(i) ==
  /\ cmd[i] = "start" /\ CmdBecomes(i, "export") /\ ToolBecomes(i, "container")
  /\ UNCHANGED <<slots, guard, try, abandoned, faults>>

\* ... fails, or exceeds its 60 s while the daemon starts the container
StartFails(i) ==
  /\ cmd[i] = "start" /\ Fault("start") /\ CmdBecomes(i, "ended")
  /\ \/ UNCHANGED <<tool, abandoned>>
     \/ ToolBecomes(i, "container") /\ Leaves(i)
  /\ UNCHANGED <<slots, guard, try>>

\* tbuild is done, its container does not exit by itself
TbuildEnds(i) ==
  /\ tool[i] = "container" /\ ToolBecomes(i, "idle")
  /\ UNCHANGED <<slots, guard, try, slot, cmd, abandoned, faults>>

\* _wait_for_completion sees it in the logs; docker rm -f
ExportEnds(i) ==
  /\ cmd[i] = "export" /\ tool[i] = "idle"
  /\ CmdBecomes(i, "write") /\ ToolBecomes(i, "none")
  /\ UNCHANGED <<slots, guard, try, abandoned, faults>>

ExportFailsUnremoved(i) ==                              \* mutant
  /\ cmd[i] = "export" /\ Fault("export") /\ CmdBecomes(i, "ended")
  /\ UNCHANGED <<slots, guard, try, tool, abandoned>>
\* a failure in the logs, the deadline, or docker logs fails; the finally removes
ExportFails(i) ==
  /\ cmd[i] = "export" /\ Fault("export")
  /\ CmdBecomes(i, "ended") /\ ToolBecomes(i, "none")
  /\ UNCHANGED <<slots, guard, try, abandoned>>

\* docker rm -f exceeds its 60 s, or fails, which nobody looks at
RemoveFails(i) ==
  /\ cmd[i] = "export" /\ Fault("remove") /\ Leaves(i)
  /\ CmdBecomes(i, "ended") \/ (tool[i] = "idle" /\ CmdBecomes(i, "write"))
  /\ UNCHANGED <<slots, guard, try, tool>>

JvmEnds(i) ==
  /\ tool[i] = "jvm" /\ ToolBecomes(i, "none")
  /\ IF cmd[i] = "write" THEN CmdBecomes(i, "ended") ELSE UNCHANGED <<cmd, slot>>
  /\ UNCHANGED <<slots, guard, try, abandoned, faults>>

\* after 3600 s subprocess.run kills datax.py, not the JVM below it
JvmTimesOut(i) ==
  /\ cmd[i] = "write" /\ tool[i] = "jvm" /\ Fault("jvm") /\ CmdBecomes(i, "ended")
  /\ Leaves(i)
  /\ UNCHANGED <<slots, guard, try, tool>>

KillCommand(i) ==
  /\ Alive(i) /\ Fault("killcmd") /\ CmdBecomes(i, "ended")
  /\ IF tool[i] = "none" THEN UNCHANGED abandoned ELSE Leaves(i)
  /\ UNCHANGED <<slots, guard, try, tool>>

GuardStep(i) == Scan(i) \/ TakeSlot(i) \/ SlotBusy(i) \/ FreeSlot(i)
ToolStep(i)  == StartContainer(i) \/ TbuildEnds(i) \/ ExportEnds(i) \/ JvmEnds(i)
RunFault(i)  == \/ KillGuard(i) \/ StartFails(i) \/ ExportFails(i) \/ RemoveFails(i)
                \/ JvmTimesOut(i) \/ KillCommand(i)
=============================================================================
