------------------------------ MODULE HostProps ------------------------------
(* What the guard and the scripts of a host guarantee. *)
EXTENDS Host

Scripts ==
  {"none", "deploy", "rollback", "teardown"} \X Components \X Versions
    \X {"none", "extract", "fill", "check", "link", "confirm", "remove"}

\* The values each variable takes.
TypeOK ==
  /\ slots \in 1..MaxSlots /\ try \in [Invocations -> 1..slots]
  /\ guard \in [Invocations -> {"off", "scanning", "waiting", "running", "done", "killed"}]
  /\ slot \in [Invocations -> 1..slots \cup {NoSlot}]
  /\ cmd \in [Invocations -> {"none", "start", "export", "write", "ended"}]
  /\ tool \in [Invocations -> {"none", "container", "idle", "jvm"}]
  /\ abandoned \subseteq Invocations /\ faults \in Nat /\ scripts \in Nat
  /\ dir \in [Components -> [Versions -> {"absent", "partial", "whole"}]]
  /\ current \in [Components -> Versions]
  /\ proven \subseteq Components \X Versions
  /\ script \in [Operators -> Scripts]

\* No more commands are at work than there are slots, also when a guard was killed
\* and its command goes on without it.
AtMostSlots == Cardinality({i \in Invocations : Alive(i)}) <= slots

\* With one slot two processes write the files of one job at a time only if a kill
\* or a timeout left one of them behind: every other way out of an export removes
\* its container.
OneWriterPerJob ==
  slots = 1 =>
    \A i, j \in Invocations :
      i # j /\ JobOf[i] = JobOf[j] /\ Writing(i) /\ Writing(j) =>
        {i, j} \cap abandoned # {}

\* "never repointed to a distribution that hasn't proven it can write real data":
\* what `current` points at is whole, an app imports and a DataX writes real data,
\* unless an operator rolled back to something unproven or redeployed what is current.
CurrentIsProven ==
  risky = {} =>
    \A c \in Components : dir[c][current[c]] = "whole" /\ <<c, current[c]>> \in Good

\* Every invocation gets its turn, whoever is killed or times out before it.
EveryInvocationRuns == \A i \in Invocations : <>(guard[i] \in {"done", "killed"})

----------------------------------------------------------------------------
(* The inductive invariant behind the safety properties *)

\* A command at work has a slot that no other invocation holds.
SlotsHold ==
  /\ \A i \in Invocations : Alive(i) => slot[i] # NoSlot
  /\ \A i, j \in Invocations : i # j /\ slot[i] # NoSlot => slot[i] # slot[j]

\* A process that writes belongs to a command at work, or was abandoned.
ToolsHold ==
  \A i \in Invocations :
    /\ guard[i] \in {"off", "scanning", "waiting"} => cmd[i] = "none" /\ tool[i] = "none"
    /\ i \notin abandoned =>
         /\ tool[i] = "container" => cmd[i] = "export"
         /\ tool[i] = "jvm" => cmd[i] = "write"

\* With one operator, and unless that one did what no script prevents: what is
\* current has been proven, what a script changes is not current, and what it
\* links has been proven.
OneOperator == \A o, p \in Operators : o = p
DeployHolds ==
  /\ \A c \in Components, v \in Versions :
       <<c, v>> \in proven => dir[c][v] = "whole" /\ <<c, v>> \in Good
  /\ \A o \in Operators : script[o][4] = "remove" => dir[Comp(o)][Ver(o)] # "whole"
  /\ risky = {} =>
       /\ \A c \in Components : <<c, current[c]>> \in proven
       /\ \A o \in Operators :
            IF script[o][4] = "link" THEN <<Comp(o), Ver(o)>> \in proven
            ELSE script[o] # NoScript => Ver(o) # current[Comp(o)]

HostInv ==
  /\ TypeOK /\ SlotsHold /\ ToolsHold
  /\ OneOperator => DeployHolds
=============================================================================
