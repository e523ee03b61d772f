------------------------------ MODULE HostProofs ------------------------------
(***************************************************************************)
(* Proofs about Host for any number of invocations, slots, versions,       *)
(* scripts and failures; those about what `current` points at are for one  *)
(* operator, as two of them can undo each other's work.                    *)
(***************************************************************************)
EXTENDS HostProps, FiniteSetTheorems, TLAPS

----------------------------------------------------------------------------
(* Type correctness *)

\* Types of the variables of the guarded commands, and of the others.
RunTypes ==
  /\ slots \in 1..MaxSlots /\ try \in [Invocations -> 1..slots]
  /\ guard \in [Invocations -> {"off", "scanning", "waiting", "running", "done", "killed"}]
  /\ slot \in [Invocations -> 1..slots \cup {NoSlot}]
  /\ cmd \in [Invocations -> {"none", "start", "export", "write", "ended"}]
  /\ tool \in [Invocations -> {"none", "container", "idle", "jvm"}]
  /\ abandoned \subseteq Invocations /\ faults \in Nat

DeployTypes ==
  /\ scripts \in Nat
  /\ dir \in [Components -> [Versions -> {"absent", "partial", "whole"}]]
  /\ current \in [Components -> Versions] /\ proven \subseteq Components \X Versions
  /\ script \in [Operators -> Scripts]

\* The types of all variables, in two parts.
LEMMA TypeParts ==
  TypeOK <=> RunTypes /\ DeployTypes
  BY DEF TypeOK, RunTypes, DeployTypes

\* The initial state is typed.
LEMMA InitTypes == Init => TypeOK
  <1> SUFFICES ASSUME Init PROVE TypeOK
    OBVIOUS
  <1>1. RunTypes
    BY GuardAssumption DEF Init, GuardInit, RunTypes
  <1>2. DeployTypes
    BY HostAssumption DEF Init, DeployTypes, Components, NoScript, Scripts
  <1> QED
    BY <1>1, <1>2, HostAssumption, TypeParts DEF Init

\* Every step of a guard, a command or a tool keeps their types.
LEMMA RunKeepsTypes ==
  ASSUME RunTypes, NEW i \in Invocations, GuardStep(i) \/ ToolStep(i) \/ RunFault(i)
  PROVE  RunTypes'
  <1> USE DEF RunTypes
  <1>1. CASE Scan(i)
    BY <1>1, GuardAssumption DEF Scan
  <1>2. CASE TakeSlot(i)
    BY <1>2 DEF TakeSlot
  <1>3. CASE SlotBusy(i)
    <2>1. MoreSlots(try[i]) => try[i] + 1 \in 1..slots
      BY GuardAssumption DEF MoreSlots
    <2> QED
      BY <1>3, <2>1 DEF SlotBusy
  <1>4. CASE FreeSlot(i)
    BY <1>4 DEF FreeSlot
  <1>5. CASE KillGuard(i)
    BY <1>5 DEF KillGuard, Fault
  <1>6. CASE StartContainer(i)
    BY <1>6 DEF StartContainer, CmdBecomes, ToolBecomes
  <1>7. CASE StartFails(i)
    BY <1>7 DEF StartFails, CmdBecomes, ToolBecomes, Leaves, Fault
  <1>8. CASE TbuildEnds(i)
    BY <1>8 DEF TbuildEnds, ToolBecomes
  <1>9. CASE ExportEnds(i) \/ ExportFails(i)
    BY <1>9 DEF ExportEnds, ExportFails, CmdBecomes, ToolBecomes, Fault
  <1>10. CASE RemoveFails(i)
    BY <1>10 DEF RemoveFails, CmdBecomes, Leaves, Fault
  <1>11. CASE JvmEnds(i)
    BY <1>11 DEF JvmEnds, CmdBecomes, ToolBecomes
  <1>12. CASE JvmTimesOut(i) \/ KillCommand(i)
    BY <1>12 DEF JvmTimesOut, KillCommand, CmdBecomes, Leaves, Fault
  <1> QED
    BY <1>1, <1>2, <1>3, <1>4, <1>5, <1>6, <1>7, <1>8, <1>9, <1>10, <1>11, <1>12
    DEF GuardStep, ToolStep, RunFault

\* Launching DataX keeps them.
LEMMA LaunchKeepsTypes ==
  ASSUME RunTypes, NEW i \in Invocations, Launch(i)
  PROVE  RunTypes'
  BY DEF Launch, LaunchJvm, LaunchFails, ToolBecomes, CmdBecomes, RunTypes

\* The parts of a script in progress.
LEMMA ScriptParts ==
  ASSUME script \in [Operators -> Scripts], NEW o \in Operators
  PROVE  /\ Comp(o) \in Components /\ Ver(o) \in Versions
         /\ script[o] = <<script[o][1], Comp(o), Ver(o), script[o][4]>>
  BY DEF Scripts, Comp, Ver

\* A step to another part of the script changes that part only.
LEMMA GotoChanges ==
  ASSUME script \in [Operators -> Scripts], NEW o \in Operators,
         NEW step \in {"extract", "fill", "check", "link", "confirm", "remove"}, Goto(o, step)
  PROVE  /\ script' \in [Operators -> Scripts]
         /\ script'[o] = <<script[o][1], Comp(o), Ver(o), step>>
         /\ \A p \in Operators : p # o => script'[p] = script[p]
  <1>1. [script[o] EXCEPT ![4] = step] = <<script[o][1], Comp(o), Ver(o), step>>
    BY ScriptParts
  <1>2. /\ script'[o] = [script[o] EXCEPT ![4] = step]
        /\ script' = [script EXCEPT ![o] = [script[o] EXCEPT ![4] = step]]
    BY DEF Goto
  <1>3. <<script[o][1], Comp(o), Ver(o), step>> \in Scripts
    BY DEF Scripts, Comp, Ver
  <1> QED
    BY <1>1, <1>2, <1>3

\* The directory of a script's version, and no other, becomes `state`.
LEMMA DirChanges ==
  ASSUME DeployTypes, NEW o \in Operators, NEW state \in {"absent", "partial", "whole"},
         DirBecomes(o, state)
  PROVE  /\ dir' \in [Components -> [Versions -> {"absent", "partial", "whole"}]]
         /\ \A c \in Components, v \in Versions :
              dir'[c][v] = IF c = Comp(o) /\ v = Ver(o) THEN state ELSE dir[c][v]
  <1>1. Comp(o) \in Components /\ Ver(o) \in Versions
    BY ScriptParts DEF DeployTypes
  <1> DEFINE old == dir[Comp(o)]
             new == [old EXCEPT ![Ver(o)] = state]
  <1>2. dir' = [dir EXCEPT ![Comp(o)] = new]
    BY DEF DirBecomes
  <1>3. old \in [Versions -> {"absent", "partial", "whole"}]
    BY <1>1 DEF DeployTypes
  <1>4. /\ new \in [Versions -> {"absent", "partial", "whole"}]
        /\ \A v \in Versions : new[v] = IF v = Ver(o) THEN state ELSE dir[Comp(o)][v]
    BY <1>1, <1>3
  <1> HIDE DEF new
  <1> QED
    BY <1>1, <1>2, <1>4 DEF DeployTypes

\* A script that starts is one of the scripts.
LEMMA BeginChanges ==
  ASSUME DeployTypes, NEW o \in Operators, NEW s \in Scripts, Begin(o, s)
  PROVE  /\ script' \in [Operators -> Scripts] /\ script'[o] = s /\ script[o] = NoScript
         /\ \A p \in Operators : p # o => script'[p] = script[p]
         /\ scripts' \in Nat
  BY DEF DeployTypes, Begin

\* The scripts that start with each step of an operator.
LEMMA NewScripts ==
  ASSUME NEW c \in Components, NEW v \in Versions
  PROVE  /\ <<"deploy", c, v, "extract">> \in Scripts
         /\ <<"rollback", c, v, "link">> \in Scripts
         /\ <<"teardown", c, v, "confirm">> \in Scripts
  BY DEF Scripts

\* A script that ends leaves the others as they are.
LEMMA FinishChanges ==
  ASSUME DeployTypes, NEW o \in Operators, Finish(o)
  PROVE  /\ script' \in [Operators -> Scripts] /\ script'[o] = NoScript
         /\ \A p \in Operators : p # o => script'[p] = script[p]
  <1>1. NoScript \in Scripts
    BY HostAssumption DEF NoScript, Scripts, Components
  <1> QED
    BY <1>1 DEF DeployTypes, Finish

\* Every step of a script keeps the types of directories, links and scripts.
LEMMA ScriptKeepsTypes ==
  ASSUME DeployTypes, NEW o \in Operators, ScriptStep(o)
  PROVE  DeployTypes'
  <1>1. /\ Comp(o) \in Components /\ Ver(o) \in Versions
        /\ script \in [Operators -> Scripts]
    BY ScriptParts DEF DeployTypes
  <1>2. ASSUME NEW c \in Components, NEW v \in Versions,
               StartDeploy(o, c, v) \/ StartRollback(o, c, v) \/ StartTeardown(o, c, v)
        PROVE  DeployTypes'
    <2>1. script' \in [Operators -> Scripts] /\ scripts' \in Nat
      BY <1>2, BeginChanges, NewScripts DEF StartDeploy, StartRollback, StartTeardown
    <2> QED
      BY <1>2, <2>1 DEF DeployTypes, StartDeploy, StartRollback, StartTeardown
  <1>3. CASE BeginExtract(o) \/ Confirm(o)
    <2>1. script' \in [Operators -> Scripts]
      BY <1>1, <1>3, GotoChanges DEF BeginExtract, Confirm
    <2>2. dir' \in [Components -> [Versions -> {"absent", "partial", "whole"}]]
      BY <1>3, DirChanges DEF BeginExtract, Confirm
    <2> QED
      BY <1>3, <2>1, <2>2 DEF DeployTypes, BeginExtract, Confirm, Unprove
  <1>4. CASE EndExtract(o)
    <2>1. script' \in [Operators -> Scripts]
      BY <1>1, <1>4, GotoChanges DEF EndExtract
    <2>2. dir' \in [Components -> [Versions -> {"absent", "partial", "whole"}]]
      BY <1>4, DirChanges DEF EndExtract
    <2> QED
      BY <1>4, <2>1, <2>2 DEF DeployTypes, EndExtract
  <1>5. CASE Check(o)
    <2>1. script' \in [Operators -> Scripts]
      BY <1>1, <1>5, GotoChanges, FinishChanges DEF Check
    <2>2. proven' \subseteq Components \X Versions
      BY <1>1, <1>5 DEF Check, DeployTypes
    <2> QED
      BY <1>5, <2>1, <2>2 DEF DeployTypes, Check
  <1>6. CASE Link(o)
    <2>1. script' \in [Operators -> Scripts]
      BY <1>6, FinishChanges DEF Link
    <2>2. current' \in [Components -> Versions]
      BY <1>1, <1>6 DEF Link, DeployTypes
    <2> QED
      BY <1>6, <2>1, <2>2 DEF DeployTypes, Link
  <1>7. CASE Remove(o)
    <2>1. script' \in [Operators -> Scripts]
      BY <1>7, FinishChanges DEF Remove
    <2>2. dir' \in [Components -> [Versions -> {"absent", "partial", "whole"}]]
      BY <1>7, DirChanges DEF Remove
    <2> QED
      BY <1>7, <2>1, <2>2 DEF DeployTypes, Remove
  <1>8. CASE ScriptDies(o)
    <2>1. script' \in [Operators -> Scripts]
      BY <1>8, FinishChanges DEF ScriptDies
    <2> QED
      BY <1>8, <2>1 DEF DeployTypes, ScriptDies
  <1> QED
    BY <1>2, <1>3, <1>4, <1>5, <1>6, <1>7, <1>8 DEF ScriptStep

\* What a script leaves alone.
LEMMA ScriptLeavesRuns ==
  ASSUME RunTypes, NEW o \in Operators, ScriptStep(o)
  PROVE  /\ RunTypes'
         /\ slots' = slots /\ slot' = slot /\ guard' = guard
         /\ cmd' = cmd /\ tool' = tool /\ abandoned' = abandoned
  <1>1. /\ slots' = slots /\ guard' = guard /\ try' = try /\ slot' = slot /\ cmd' = cmd
        /\ tool' = tool /\ abandoned' = abandoned
    BY DEF ScriptStep, StartDeploy, StartRollback, StartTeardown, BeginExtract, Confirm,
       EndExtract, Check, Link, Remove, ScriptDies, runVars
  <1>2. faults' = faults \/ faults' = faults + 1
    BY DEF ScriptStep, StartDeploy, StartRollback, StartTeardown, BeginExtract, Confirm,
       EndExtract, Check, Link, Remove, ScriptDies, Fault, runVars
  <1> QED
    BY <1>1, <1>2 DEF RunTypes

\* What a guarded command leaves alone.
LEMMA RunLeavesScripts ==
  ASSUME NEW i \in Invocations, RunStep(i) \/ OnRun(RunFault(i))
  PROVE  /\ dir' = dir /\ current' = current /\ proven' = proven /\ script' = script
         /\ risky' = risky /\ scripts' = scripts
  BY DEF RunStep, OnRun, Launch, LaunchJvm, LaunchFails, deployVars

\* Every step keeps the types.
LEMMA NextTypes == TypeOK /\ [Next]_vars => TypeOK'
  <1> SUFFICES ASSUME TypeOK, [Next]_vars PROVE TypeOK'
    OBVIOUS
  <1>1. RunTypes /\ DeployTypes
    BY TypeParts
  <1>2. ASSUME RunTypes', DeployTypes' PROVE TypeOK'
    BY <1>2 DEF TypeOK, RunTypes, DeployTypes
  <1>3. CASE UNCHANGED vars
    BY <1>1, <1>2, <1>3 DEF vars, runVars, deployVars, RunTypes, DeployTypes
  <1>4. ASSUME NEW i \in Invocations, RunStep(i) \/ OnRun(RunFault(i)) PROVE TypeOK'
    <2>1. DeployTypes'
      BY <1>1, <1>4, RunLeavesScripts DEF DeployTypes
    <2>2. CASE Launch(i)
      BY <1>1, <1>2, <2>1, <2>2, LaunchKeepsTypes DEF DeployTypes
    <2>3. CASE OnRun(GuardStep(i)) \/ OnRun(ToolStep(i)) \/ OnRun(RunFault(i))
      BY <1>1, <1>2, <2>1, <2>3, RunKeepsTypes DEF OnRun
    <2> QED
      BY <1>4, <2>2, <2>3 DEF RunStep
  <1>5. ASSUME NEW o \in Operators, ScriptStep(o) PROVE TypeOK'
    BY <1>1, <1>2, <1>5, ScriptKeepsTypes, ScriptLeavesRuns
  <1> QED
    BY <1>3, <1>4, <1>5 DEF Next

\* TypeOK holds in every state of a host.
THEOREM HostTypes == Spec => []TypeOK
  BY InitTypes, NextTypes, PTL DEF Spec

----------------------------------------------------------------------------
(* Slots and tools *)

\* A command with its guard gone that ends gives its slot back, and only that one;
\* no other step but TakeSlot, FreeSlot and KillGuard changes who holds what.
LEMMA CmdBecomesKeepsSlots ==
  ASSUME RunTypes, SlotsHold, NEW i \in Invocations,
         NEW state \in {"none", "start", "export", "write", "ended"},
         CmdBecomes(i, state), state \in {"none", "ended"} \/ Alive(i)
  PROVE  SlotsHold'
  <1>1. /\ cmd'[i] = state /\ (slot'[i] = slot[i] \/ (state = "ended" /\ slot'[i] = NoSlot))
        /\ \A j \in Invocations : j # i => cmd'[j] = cmd[j] /\ slot'[j] = slot[j]
    BY DEF CmdBecomes, RunTypes
  <1>2. \A j \in Invocations : Alive(j)' => slot'[j] # NoSlot
    BY <1>1 DEF Alive, SlotsHold
  <1>3. \A j, k \in Invocations : j # k /\ slot'[j] # NoSlot => slot'[j] # slot'[k]
    BY <1>1 DEF SlotsHold
  <1> QED
    BY <1>2, <1>3 DEF SlotsHold

\* The lock that an invocation takes was held by nobody.
LEMMA TakeSlotKeepsSlots ==
  ASSUME RunTypes, SlotsHold, NEW i \in Invocations, TakeSlot(i)
  PROVE  SlotsHold'
  <1>1. /\ slot'[i] = try[i] /\ try[i] \in 1..slots
        /\ \A j \in Invocations : j # i => cmd'[j] = cmd[j] /\ slot'[j] = slot[j]
    BY DEF TakeSlot, RunTypes
  <1>2. \A j \in Invocations : slot[j] # try[i]
    BY DEF TakeSlot, FlockSucceeds, Held
  <1>3. try[i] # NoSlot
    BY <1>1, GuardAssumption
  <1>4. \A j \in Invocations : Alive(j)' => slot'[j] # NoSlot
    BY <1>1, <1>3 DEF Alive, SlotsHold
  <1>5. \A j, k \in Invocations : j # k /\ slot'[j] # NoSlot => slot'[j] # slot'[k]
    BY <1>1, <1>2 DEF SlotsHold
  <1> QED
    BY <1>4, <1>5 DEF SlotsHold

\* Slots are given back by commands that have ended, or by guards without one.
LEMMA GiveBackKeepsSlots ==
  ASSUME RunTypes, SlotsHold, NEW i \in Invocations, FreeSlot(i) \/ KillGuard(i)
  PROVE  SlotsHold'
  <1>1. /\ cmd' = cmd /\ (slot'[i] = slot[i] \/ (slot'[i] = NoSlot /\ ~Alive(i)))
        /\ \A j \in Invocations : j # i => slot'[j] = slot[j]
    BY DEF FreeSlot, KillGuard, RunTypes, Alive
  <1>2. \A j \in Invocations : Alive(j)' => slot'[j] # NoSlot
    BY <1>1 DEF Alive, SlotsHold
  <1>3. \A j, k \in Invocations : j # k /\ slot'[j] # NoSlot => slot'[j] # slot'[k]
    BY <1>1 DEF SlotsHold
  <1> QED
    BY <1>2, <1>3 DEF SlotsHold

\* No step lets two invocations hold one slot, or a command work without one.
LEMMA NextKeepsSlots == TypeOK /\ SlotsHold /\ [Next]_vars => SlotsHold'
  <1> SUFFICES ASSUME TypeOK, SlotsHold, [Next]_vars PROVE SlotsHold'
    OBVIOUS
  <1>1. RunTypes
    BY TypeParts
  <1>2. ASSUME cmd' = cmd, slot' = slot PROVE SlotsHold'
    BY <1>2 DEF SlotsHold, Alive
  <1>3. CASE UNCHANGED vars
    BY <1>2, <1>3 DEF vars, runVars
  <1>4. ASSUME NEW o \in Operators, ScriptStep(o) PROVE SlotsHold'
    BY <1>1, <1>2, <1>4, ScriptLeavesRuns
  <1>5. ASSUME NEW i \in Invocations, RunStep(i) \/ OnRun(RunFault(i)) PROVE SlotsHold'
    <2>1. CASE TakeSlot(i) \/ FreeSlot(i) \/ KillGuard(i)
      BY <1>1, <2>1, TakeSlotKeepsSlots, GiveBackKeepsSlots
    <2>2. CASE Scan(i) \/ SlotBusy(i) \/ TbuildEnds(i) \/ LaunchJvm(i)
      BY <1>2, <2>2 DEF Scan, SlotBusy, TbuildEnds, LaunchJvm
    <2>3. CASE JvmEnds(i) /\ cmd[i] # "write"
      BY <1>2, <2>3 DEF JvmEnds
    <2>4. ASSUME NEW state \in {"export", "write", "ended"},
                 Alive(i), CmdBecomes(i, state)
          PROVE  SlotsHold'
      BY <1>1, <2>4, CmdBecomesKeepsSlots
    <2>5. CASE StartContainer(i) \/ StartFails(i) \/ ExportEnds(i) \/ ExportFails(i)
               \/ RemoveFails(i) \/ (JvmEnds(i) /\ cmd[i] = "write") \/ JvmTimesOut(i)
               \/ KillCommand(i) \/ LaunchFails(i)
      BY <2>4, <2>5 DEF StartContainer, StartFails, ExportEnds, ExportFails, RemoveFails,
         JvmEnds, JvmTimesOut, KillCommand, LaunchFails, Alive
    <2> QED
      BY <1>5, <2>1, <2>2, <2>3, <2>5 DEF RunStep, OnRun, GuardStep, ToolStep, RunFault, Launch
  <1> QED
    BY <1>3, <1>4, <1>5 DEF Next

\* Initially nobody holds a slot.
LEMMA InitSlots == Init => SlotsHold
  BY DEF Init, GuardInit, SlotsHold, Alive

\* SlotsHold bounds the commands at work by the slots: they map one to one into them.
LEMMA SlotsBoundCommands == TypeOK /\ SlotsHold => AtMostSlots
  <1> SUFFICES ASSUME TypeOK, SlotsHold PROVE AtMostSlots
    OBVIOUS
  <1> DEFINE A == {i \in Invocations : Alive(i)}
             f == [i \in A |-> slot[i]]
  <1>1. slots \in Nat /\ slot \in [Invocations -> 1..slots \cup {NoSlot}]
    BY GuardAssumption DEF TypeOK
  <1>2. \A i \in A : slot[i] \in 1..slots
    BY <1>1 DEF SlotsHold
  <1>3. IsFiniteSet(1..slots) /\ Cardinality(1..slots) = slots
    BY <1>1, FS_Interval
  <1>4. \A i, j \in A : i # j => slot[i] # slot[j]
    BY DEF SlotsHold
  <1>5. f \in Injection(A, 1..slots)
    BY <1>2, <1>4 DEF Injection, IsInjective
  <1>6. Cardinality(A) <= Cardinality(1..slots)
    BY <1>3, <1>5, FS_Injection
  <1> QED
    BY <1>3, <1>6 DEF AtMostSlots

\* AtMostSlots holds in every state of a host, whoever is killed.
THEOREM SlotsBoundTheHost == Spec => []AtMostSlots
  BY HostTypes, InitSlots, NextKeepsSlots, SlotsBoundCommands, PTL DEF Spec

\* A step of one invocation's guard, command or tool leaves the others' alone, and
\* what it leaves of its own writes for the command or has been abandoned.
LEMMA RunKeepsTools ==
  ASSUME RunTypes, ToolsHold, NEW i \in Invocations, RunStep(i) \/ OnRun(RunFault(i))
  PROVE  ToolsHold'
  <1> DEFINE Own(j) ==
        /\ guard[j] \in {"off", "scanning", "waiting"} => cmd[j] = "none" /\ tool[j] = "none"
        /\ j \notin abandoned =>
             /\ tool[j] = "container" => cmd[j] = "export"
             /\ tool[j] = "jvm" => cmd[j] = "write"
  <1>1. Own(i)
    BY DEF ToolsHold
  <1>2. /\ Own(i)'
        /\ abandoned' \in {abandoned, abandoned \cup {i}}
        /\ \A j \in Invocations :
             j # i => guard'[j] = guard[j] /\ cmd'[j] = cmd[j] /\ tool'[j] = tool[j]
    <2> SUFFICES /\ Own(i)'
                 /\ abandoned' \in {abandoned, abandoned \cup {i}}
                 /\ \A j \in Invocations \ {i} :
                      guard'[j] = guard[j] /\ cmd'[j] = cmd[j] /\ tool'[j] = tool[j]
      OBVIOUS
    <2> USE DEF RunTypes
    <2>1. CASE Scan(i) \/ SlotBusy(i) \/ FreeSlot(i)
      BY <1>1, <2>1 DEF Scan, SlotBusy, FreeSlot
    <2>2. CASE TakeSlot(i)
      BY <1>1, <2>2 DEF TakeSlot
    <2>3. CASE KillGuard(i)
      BY <1>1, <2>3 DEF KillGuard
    <2>4. CASE StartContainer(i)
      BY <1>1, <2>4 DEF StartContainer, CmdBecomes, ToolBecomes
    <2>5. CASE TbuildEnds(i)
      BY <1>1, <2>5 DEF TbuildEnds, ToolBecomes
    <2>6. CASE ExportEnds(i)
      BY <1>1, <2>6 DEF ExportEnds, CmdBecomes, ToolBecomes
    <2>7. CASE JvmEnds(i)
      BY <1>1, <2>7 DEF JvmEnds, CmdBecomes, ToolBecomes
    <2>8. CASE StartFails(i)
      BY <1>1, <2>8 DEF StartFails, CmdBecomes, ToolBecomes, Leaves
    <2>9. CASE ExportFails(i)
      BY <1>1, <2>9 DEF ExportFails, CmdBecomes, ToolBecomes
    <2>10. CASE RemoveFails(i)
      BY <1>1, <2>10 DEF RemoveFails, CmdBecomes, Leaves
    <2>11. CASE JvmTimesOut(i)
      BY <1>1, <2>11 DEF JvmTimesOut, CmdBecomes, Leaves
    <2>12. CASE KillCommand(i)
      BY <1>1, <2>12 DEF KillCommand, CmdBecomes, Leaves, Alive
    <2>13. CASE LaunchJvm(i)
      BY <1>1, <2>13 DEF LaunchJvm, ToolBecomes
    <2>14. CASE LaunchFails(i)
      BY <1>1, <2>14 DEF LaunchFails, CmdBecomes
    <2> QED
      BY <2>1, <2>2, <2>3, <2>4, <2>5, <2>6, <2>7, <2>8, <2>9, <2>10, <2>11, <2>12, <2>13, <2>14
      DEF RunStep, OnRun, GuardStep, ToolStep, RunFault, Launch
  <1>3. \A j \in Invocations : j # i => Own(j)'
    BY <1>2 DEF ToolsHold
  <1> QED
    BY <1>2, <1>3 DEF ToolsHold

\* Every step keeps ToolsHold.
LEMMA NextKeepsTools == TypeOK /\ ToolsHold /\ [Next]_vars => ToolsHold'
  <1> SUFFICES ASSUME TypeOK, ToolsHold, [Next]_vars PROVE ToolsHold'
    OBVIOUS
  <1>1. RunTypes
    BY TypeParts
  <1>2. CASE UNCHANGED vars
    BY <1>2 DEF vars, runVars, ToolsHold
  <1>3. ASSUME NEW o \in Operators, ScriptStep(o) PROVE ToolsHold'
    BY <1>1, <1>3, ScriptLeavesRuns DEF ToolsHold
  <1>4. ASSUME NEW i \in Invocations, RunStep(i) \/ OnRun(RunFault(i)) PROVE ToolsHold'
    BY <1>1, <1>4, RunKeepsTools
  <1> QED
    BY <1>2, <1>3, <1>4 DEF Next

\* Initially nothing writes.
LEMMA InitTools == Init => ToolsHold
  BY DEF Init, GuardInit, ToolsHold

\* Two writers that nobody abandoned would be two commands in the only slot.
LEMMA OneSlotOneWriter == TypeOK /\ SlotsHold /\ ToolsHold => OneWriterPerJob
  <1> SUFFICES ASSUME TypeOK, SlotsHold, ToolsHold, slots = 1,
                      NEW i \in Invocations, NEW j \in Invocations, i # j,
                      Writing(i), Writing(j), i \notin abandoned, j \notin abandoned
               PROVE  FALSE
    BY DEF OneWriterPerJob
  <1>1. Alive(i) /\ Alive(j)
    BY DEF ToolsHold, Writing, Alive
  <1>2. slot[i] \in 1..1 /\ slot[j] \in 1..1
    BY <1>1 DEF SlotsHold, TypeOK
  <1> QED
    BY <1>1, <1>2 DEF SlotsHold

\* OneWriterPerJob holds in every state of a host.
THEOREM OneSlotKeepsWritersApart == Spec => []OneWriterPerJob
  BY HostTypes, InitSlots, NextKeepsSlots, InitTools, NextKeepsTools, OneSlotOneWriter, PTL
  DEF Spec

----------------------------------------------------------------------------
(* What `current` points at *)

\* The parts of DeployHolds, the last two for the only operator o.
ProvenIsWhole ==
  \A c \in Components, v \in Versions :
    <<c, v>> \in proven => dir[c][v] = "whole" /\ <<c, v>> \in Good
RemovedIsNotWhole(o) == script[o][4] = "remove" => dir[Comp(o)][Ver(o)] # "whole"
CurrentHolds(o) ==
  risky = {} =>
    /\ \A c \in Components : <<c, current[c]>> \in proven
    /\ IF script[o][4] = "link" THEN <<Comp(o), Ver(o)>> \in proven
       ELSE script[o] # NoScript => Ver(o) # current[Comp(o)]

\* What a script does before it touches a directory: only the script changes.
LEMMA StartKeepsDeploy ==
  ASSUME DeployTypes, ProvenIsWhole, NEW o \in Operators, CurrentHolds(o),
         NEW c \in Components, NEW v \in Versions,
         StartDeploy(o, c, v) \/ StartRollback(o, c, v) \/ StartTeardown(o, c, v)
  PROVE  ProvenIsWhole' /\ RemovedIsNotWhole(o)' /\ CurrentHolds(o)'
  <1>1. dir' = dir /\ current' = current /\ proven' = proven /\ risky \subseteq risky'
    BY DEF StartDeploy, StartRollback, StartTeardown, Risk
  <1>2. ProvenIsWhole'
    BY <1>1 DEF ProvenIsWhole
  <1>3. CASE StartDeploy(o, c, v)
    <2>1. script'[o] = <<"deploy", c, v, "extract">>
      BY <1>3, BeginChanges, NewScripts DEF StartDeploy
    <2>2. risky' = {} => current[c] # v
      BY <1>3 DEF StartDeploy, Risk
    <2>3. Comp(o)' = c /\ Ver(o)' = v /\ script'[o][4] = "extract"
      BY <2>1 DEF Comp, Ver
    <2>4. RemovedIsNotWhole(o)'
      BY <2>3 DEF RemovedIsNotWhole
    <2>5. CurrentHolds(o)'
      BY <1>1, <2>2, <2>3 DEF CurrentHolds
    <2> QED
      BY <1>2, <2>4, <2>5
  <1>4. CASE StartRollback(o, c, v)
    <2>1. script'[o] = <<"rollback", c, v, "link">>
      BY <1>4, BeginChanges, NewScripts DEF StartRollback
    <2>2. risky' = {} => <<c, v>> \in proven
      BY <1>4 DEF StartRollback, Risk
    <2>3. Comp(o)' = c /\ Ver(o)' = v /\ script'[o][4] = "link"
      BY <2>1 DEF Comp, Ver
    <2>4. RemovedIsNotWhole(o)'
      BY <2>3 DEF RemovedIsNotWhole
    <2>5. CurrentHolds(o)'
      BY <1>1, <2>2, <2>3 DEF CurrentHolds
    <2> QED
      BY <1>2, <2>4, <2>5
  <1>5. CASE StartTeardown(o, c, v)
    <2>1. script'[o] = <<"teardown", c, v, "confirm">>
      BY <1>5, BeginChanges, NewScripts DEF StartTeardown
    <2>2. current[c] # v
      BY <1>5 DEF StartTeardown, MayRemove
    <2>3. Comp(o)' = c /\ Ver(o)' = v /\ script'[o][4] = "confirm"
      BY <2>1 DEF Comp, Ver
    <2>4. RemovedIsNotWhole(o)'
      BY <2>3 DEF RemovedIsNotWhole
    <2>5. CurrentHolds(o)'
      BY <1>1, <2>2, <2>3 DEF CurrentHolds
    <2> QED
      BY <1>2, <2>4, <2>5
  <1> QED
    BY <1>3, <1>4, <1>5

\* A directory is emptied or filled only when it is not the current one, and is not
\* proven while it is partial.
LEMMA ChangeKeepsDeploy ==
  ASSUME DeployTypes, ProvenIsWhole, NEW o \in Operators, CurrentHolds(o), RemovedIsNotWhole(o),
         BeginExtract(o) \/ Confirm(o) \/ EndExtract(o) \/ Remove(o)
  PROVE  ProvenIsWhole' /\ RemovedIsNotWhole(o)' /\ CurrentHolds(o)'
  <1> DEFINE c == Comp(o)
             v == Ver(o)
  <1>1. c \in Components /\ v \in Versions /\ script \in [Operators -> Scripts]
    BY ScriptParts DEF DeployTypes
  <1>2. CASE BeginExtract(o) \/ Confirm(o)
    <2>1. \E step \in {"fill", "remove"} : script'[o] = <<script[o][1], c, v, step>>
      BY <1>1, <1>2, GotoChanges DEF BeginExtract, Confirm
    <2>2. Comp(o)' = c /\ Ver(o)' = v /\ script'[o][4] # "link"
      BY <2>1 DEF Comp, Ver
    <2>3. /\ \A d \in Components, w \in Versions :
               dir'[d][w] = IF d = c /\ w = v THEN "partial" ELSE dir[d][w]
          /\ proven' = proven \ {<<c, v>>} /\ current' = current /\ risky \subseteq risky'
      BY <1>2, DirChanges DEF BeginExtract, Confirm, Unprove, Risk
    <2>4. script[o] # NoScript /\ script[o][4] # "link"
      <3>1. script[o][4] \in {"extract", "confirm"}
        BY <1>2 DEF BeginExtract, Confirm, At
      <3>2. NoScript[4] = "none"
        BY DEF NoScript
      <3> QED
        BY <3>1, <3>2
    <2>5. ProvenIsWhole'
      BY <2>3 DEF ProvenIsWhole
    <2>6. RemovedIsNotWhole(o)'
      BY <1>1, <2>2, <2>3 DEF RemovedIsNotWhole
    <2>7. CurrentHolds(o)'
      BY <1>1, <2>2, <2>3, <2>4 DEF CurrentHolds
    <2> QED
      BY <2>5, <2>6, <2>7
  <1>3. CASE EndExtract(o)
    <2>1. script'[o] = <<script[o][1], c, v, "check">>
      BY <1>1, <1>3, GotoChanges DEF EndExtract
    <2>2. Comp(o)' = c /\ Ver(o)' = v /\ script'[o][4] = "check"
      BY <2>1 DEF Comp, Ver
    <2>3. /\ \A d \in Components, w \in Versions :
               dir'[d][w] = IF d = c /\ w = v THEN "whole" ELSE dir[d][w]
          /\ proven' = proven /\ current' = current /\ risky' = risky
      BY <1>3, DirChanges DEF EndExtract
    <2>4. script[o] # NoScript /\ script[o][4] = "fill"
      <3>1. script[o][4] = "fill"
        BY <1>3 DEF EndExtract, At
      <3>2. NoScript[4] = "none"
        BY DEF NoScript
      <3> QED
        BY <3>1, <3>2
    <2>5. ProvenIsWhole'
      BY <2>3 DEF ProvenIsWhole
    <2>6. RemovedIsNotWhole(o)'
      BY <2>2 DEF RemovedIsNotWhole
    <2>7. CurrentHolds(o)'
      BY <1>1, <2>2, <2>3, <2>4 DEF CurrentHolds
    <2> QED
      BY <2>5, <2>6, <2>7
  <1>4. CASE Remove(o)
    <2>1. script'[o] = NoScript
      BY <1>4, FinishChanges DEF Remove
    <2>2. script'[o][4] = "none"
      BY <2>1 DEF NoScript
    <2>3. /\ \A d \in Components, w \in Versions :
               dir'[d][w] = IF d = c /\ w = v THEN "absent" ELSE dir[d][w]
          /\ proven' = proven /\ current' = current /\ risky' = risky
      BY <1>4, DirChanges DEF Remove
    <2>4. <<c, v>> \notin proven
      BY <1>1, <1>4 DEF Remove, At, ProvenIsWhole, RemovedIsNotWhole
    <2>5. ProvenIsWhole'
      BY <2>3, <2>4 DEF ProvenIsWhole
    <2> QED
      BY <2>1, <2>2, <2>3, <2>5 DEF RemovedIsNotWhole, CurrentHolds
  <1> QED
    BY <1>2, <1>3, <1>4

\* A check proves what is whole and works, a link points at what was proven.
LEMMA EndKeepsDeploy ==
  ASSUME DeployTypes, ProvenIsWhole, NEW o \in Operators, CurrentHolds(o),
         Check(o) \/ Link(o) \/ ScriptDies(o)
  PROVE  ProvenIsWhole' /\ RemovedIsNotWhole(o)' /\ CurrentHolds(o)'
  <1> DEFINE c == Comp(o)
             v == Ver(o)
  <1>1. c \in Components /\ v \in Versions /\ script \in [Operators -> Scripts]
    BY ScriptParts DEF DeployTypes
  <1>2. CASE Check(o) /\ CheckPasses(o)
    <2>1. script'[o] = <<script[o][1], c, v, "link">>
      BY <1>1, <1>2, GotoChanges DEF Check
    <2>2. Comp(o)' = c /\ Ver(o)' = v /\ script'[o][4] = "link"
      BY <2>1 DEF Comp, Ver
    <2>3. /\ dir' = dir /\ proven' = proven \cup {<<c, v>>}
          /\ current' = current /\ risky' = risky
      BY <1>2 DEF Check
    <2>4. dir[c][v] = "whole" /\ <<c, v>> \in Good
      BY <1>2 DEF CheckPasses
    <2>5. ProvenIsWhole'
      BY <2>3, <2>4 DEF ProvenIsWhole
    <2> QED
      BY <2>2, <2>3, <2>5 DEF RemovedIsNotWhole, CurrentHolds
  <1>3. CASE Finish(o) /\ UNCHANGED <<dir, proven, current, risky>>
    <2>1. script'[o] = NoScript /\ script'[o][4] = "none"
      BY <1>3, FinishChanges DEF NoScript
    <2> QED
      BY <1>3, <2>1 DEF ProvenIsWhole, RemovedIsNotWhole, CurrentHolds
  <1>4. CASE Link(o)
    <2>1. script'[o] = NoScript /\ script'[o][4] = "none"
      BY <1>4, FinishChanges DEF Link, NoScript
    <2>2. script[o][4] = "link"
      BY <1>4 DEF Link, At
    <2>3. /\ dir' = dir /\ proven' = proven /\ risky' = risky
          /\ \A d \in Components : current'[d] = IF d = c THEN v ELSE current[d]
      BY <1>1, <1>4 DEF Link, DeployTypes
    <2> QED
      BY <2>1, <2>2, <2>3 DEF ProvenIsWhole, RemovedIsNotWhole, CurrentHolds
  <1> QED
    BY <1>2, <1>3, <1>4 DEF Check, ScriptDies

\* With one operator every step keeps DeployHolds.
LEMMA NextKeepsDeploy == OneOperator /\ TypeOK /\ DeployHolds /\ [Next]_vars => DeployHolds'
  <1> SUFFICES ASSUME OneOperator, TypeOK, DeployHolds, [Next]_vars PROVE DeployHolds'
    OBVIOUS
  <1>1. DeployTypes
    BY TypeParts
  <1>2. ASSUME UNCHANGED <<dir, current, proven, script, risky>> PROVE DeployHolds'
    BY <1>2 DEF DeployHolds, Comp, Ver
  <1>3. CASE UNCHANGED vars
    BY <1>2, <1>3 DEF vars, deployVars
  <1>4. ASSUME NEW i \in Invocations, RunStep(i) \/ OnRun(RunFault(i)) PROVE DeployHolds'
    BY <1>2, <1>4, RunLeavesScripts
  <1>5. ASSUME NEW o \in Operators, ScriptStep(o) PROVE DeployHolds'
    <2>1. ProvenIsWhole /\ RemovedIsNotWhole(o) /\ CurrentHolds(o)
      BY DEF DeployHolds, ProvenIsWhole, RemovedIsNotWhole, CurrentHolds
    <2>2. ProvenIsWhole' /\ RemovedIsNotWhole(o)' /\ CurrentHolds(o)'
      BY <1>1, <1>5, <2>1, StartKeepsDeploy, ChangeKeepsDeploy, EndKeepsDeploy DEF ScriptStep
    <2>3. \A p \in Operators : p = o
      BY DEF OneOperator
    <2> QED
      BY <2>2, <2>3 DEF DeployHolds, ProvenIsWhole, RemovedIsNotWhole, CurrentHolds
  <1> QED
    BY <1>3, <1>4, <1>5 DEF Next

\* Initially the first version is current, proven, and nothing is under way.
LEMMA InitDeploy == Init => DeployHolds
  <1> SUFFICES ASSUME Init PROVE DeployHolds
    OBVIOUS
  <1>1. \A o \in Operators : script[o] = NoScript /\ script[o][4] = "none"
    BY DEF Init, NoScript
  <1>2. /\ \A c \in Components : current[c] = First
        /\ \A c \in Components : dir[c][First] = "whole"
        /\ proven = Components \X {First} /\ proven \subseteq Good
    BY HostAssumption DEF Init, Good, Components
  <1> QED
    BY <1>1, <1>2, HostAssumption DEF DeployHolds

\* DeployHolds implies that what is current is whole and works.
LEMMA DeployImpliesProven == TypeOK /\ DeployHolds => CurrentIsProven
  BY DEF TypeOK, DeployHolds, CurrentIsProven

\* With one operator CurrentIsProven holds in every state of a host, however many
\* scripts ran and wherever they died.
THEOREM CurrentStaysProven == OneOperator => (Spec => []CurrentIsProven)
  <1> SUFFICES ASSUME OneOperator PROVE Spec => []CurrentIsProven
    OBVIOUS
  <1>1. Init => DeployHolds
    BY InitDeploy
  <1>2. TypeOK /\ DeployHolds /\ [Next]_vars => DeployHolds'
    BY NextKeepsDeploy
  <1> QED
    BY HostTypes, <1>1, <1>2, DeployImpliesProven, PTL DEF Spec

\* The inductive invariant as a whole.
THEOREM HostCorrect == Spec => []HostInv
  <1>1. CASE OneOperator
    <2>1. TypeOK /\ DeployHolds /\ [Next]_vars => DeployHolds'
      BY <1>1, NextKeepsDeploy
    <2>2. TypeOK /\ SlotsHold /\ ToolsHold /\ DeployHolds => HostInv
      BY DEF HostInv
    <2> QED
      BY HostTypes, InitSlots, NextKeepsSlots, InitTools, NextKeepsTools, InitDeploy, <2>1,
         <2>2, PTL DEF Spec
  <1>2. CASE ~OneOperator
    <2>1. TypeOK /\ SlotsHold /\ ToolsHold => HostInv
      BY <1>2 DEF HostInv
    <2> QED
      BY HostTypes, InitSlots, NextKeepsSlots, InitTools, NextKeepsTools, <2>1, PTL DEF Spec
  <1> QED
    BY <1>1, <1>2
=============================================================================
