--------------------------------- MODULE Host ---------------------------------
(***************************************************************************)
(* One ingest host: guarded commands (GuardedRun) launch DataX through the *)
(* `current` link while operators deploy, roll back and tear down versions *)
(* of the app and of the DataX distribution (scripts/*.sh).                *)
(***************************************************************************)
EXTENDS GuardedRun

CONSTANTS
  Operators,
  First,       \* the version deployed and proven at the start
  Offered,     \* <<c, v>> whose tarball or source tree is at hand
  Imports,     \* versions of the app whose modules import
  Writes,      \* versions of DataX that write real data
  Claims,      \* versions of DataX that report success, those and others
  MaxScripts   \* bound on the scripts started

Components == {"app", "datax"}
NoScript   == <<"none", "app", First, "none">>

\* what the check of each component is there to establish
Good == ({"app"} \X Imports) \cup ({"datax"} \X Writes)

ASSUME HostAssumption ==
  /\ Imports \subseteq Versions /\ Writes \subseteq Versions /\ Claims \subseteq Versions
  /\ First \in Imports \cap Writes /\ Offered \subseteq Components \X Versions
  /\ MaxScripts \in Nat

VARIABLES
  dir,      \* dir[c][v]: "absent", "partial", "whole"
  current,  \* current[c]: what the link points at
  proven,   \* history: <<c, v>> whose check passed on what is there now
  script,   \* script[o]: <<script, component, version, step>>
  risky,    \* history: what operators did that no script prevents
  scripts

deployVars == <<dir, current, proven, script, risky, scripts>>
vars == <<runVars, deployVars>>

Init ==
  /\ GuardInit
  /\ dir = [c \in Components |-> [v \in Versions |-> IF v = First THEN "whole" ELSE "absent"]]
  /\ current = [c \in Components |-> First] /\ proven = Components \X {First}
  /\ script = [o \in Operators |-> NoScript]
  /\ risky = {} /\ scripts = 0

----------------------------------------------------------------------------
(* the scripts *)

Begin(o, s) ==
  /\ script[o] = NoScript /\ scripts < MaxScripts
  /\ script' = [script EXCEPT ![o] = s] /\ scripts' = scripts + 1

At(o, name, step) == script[o][1] = name /\ script[o][4] = step
Goto(o, step)     == script' = [script EXCEPT ![o][4] = step]
Finish(o)         == script' = [script EXCEPT ![o] = NoScript]
Comp(o)           == script[o][2]
Ver(o)            == script[o][3]
DirBecomes(o, state) == dir' = [dir EXCEPT ![Comp(o)][Ver(o)] = state]
Unprove(o)        == proven' = proven \ {<<Comp(o), Ver(o)>>}

Risk(what, when)  == risky' = risky \cup IF when THEN {what} ELSE {}

StartDeploy(o, c, v) ==
  /\ <<c, v>> \in Offered /\ Begin(o, <<"deploy", c, v, "extract">>)
  /\ Risk("redeployed current", current[c] = v)
  /\ UNCHANGED <<runVars, dir, current, proven>>

\* rm -rf and tar, or rsync --delete into the directory as it is
BeginExtract(o) ==
  /\ At(o, "deploy", "extract") /\ Goto(o, "fill")
  /\ DirBecomes(o, "partial") /\ Unprove(o)
  /\ UNCHANGED <<runVars, current, risky, scripts>>

EndExtract(o) ==
  /\ At(o, "deploy", "fill") /\ Goto(o, "check") /\ DirBecomes(o, "whole")
  /\ UNCHANGED <<runVars, current, proven, risky, scripts>>

\* deploy_app.sh imports the modules; deploy_datax_dist.sh runs the smoke test of
\* the current app, which reads back what DataX says it wrote
CheckTrustsDatax(o) ==                                  \* mutant
  dir[Comp(o)][Ver(o)] = "whole" /\ Ver(o) \in Claims
CheckPasses(o) ==
  /\ dir[Comp(o)][Ver(o)] = "whole" /\ <<Comp(o), Ver(o)>> \in Good
  /\ Comp(o) = "datax" => Ver(o) \in Claims /\ dir["app"][current["app"]] # "absent"

Check(o) ==
  /\ At(o, "deploy", "check")
  /\ IF CheckPasses(o)
       THEN Goto(o, "link") /\ proven' = proven \cup {<<Comp(o), Ver(o)>>}
       ELSE Finish(o) /\ UNCHANGED proven
  /\ UNCHANGED <<runVars, dir, current, risky, scripts>>

\* ln -sfn
Link(o) ==
  /\ At(o, "deploy", "link") \/ At(o, "rollback", "link")
  /\ current' = [current EXCEPT ![Comp(o)] = Ver(o)] /\ Finish(o)
  /\ UNCHANGED <<runVars, dir, proven, risky, scripts>>

\* any directory that exists will do
StartRollback(o, c, v) ==
  /\ dir[c][v] # "absent" /\ Begin(o, <<"rollback", c, v, "link">>)
  /\ Risk("rolled back to unproven", <<c, v>> \notin proven)
  /\ UNCHANGED <<runVars, dir, current, proven>>

MayRemove(c, v) == current[c] # v /\ dir[c][v] # "absent"

\* it asks for confirmation with what it has seen
StartTeardown(o, c, v) ==
  /\ MayRemove(c, v) /\ Begin(o, <<"teardown", c, v, "confirm">>)
  /\ UNCHANGED <<runVars, dir, current, proven, risky>>

Confirm(o) ==
  /\ At(o, "teardown", "confirm") /\ Goto(o, "remove")
  /\ DirBecomes(o, "partial") /\ Unprove(o)
  /\ UNCHANGED <<runVars, current, risky, scripts>>

Remove(o) ==
  /\ At(o, "teardown", "remove") /\ Finish(o) /\ DirBecomes(o, "absent")
  /\ UNCHANGED <<runVars, current, proven, risky, scripts>>

\* ssh breaks, the operator aborts
ScriptDies(o) ==
  /\ script[o] # NoScript /\ Fault("ssh") /\ Finish(o)
  /\ UNCHANGED <<slots, guard, try, slot, cmd, tool, abandoned, dir, current, proven,
                 risky, scripts>>

ScriptStep(o) ==
  \/ \E c \in Components, v \in Versions :
       StartDeploy(o, c, v) \/ StartRollback(o, c, v) \/ StartTeardown(o, c, v)
  \/ BeginExtract(o) \/ EndExtract(o) \/ Check(o) \/ Link(o) \/ Confirm(o) \/ Remove(o)
  \/ ScriptDies(o)

----------------------------------------------------------------------------
(* A command launches DataX through the link, once: a run of one batch.  The *)
(* JVM goes on looking files up through it: when the link moves or what it    *)
(* points at goes, what it finds is another version's, or nothing, and it     *)
(* ends as it can (JvmEnds, JvmTimesOut).                                     *)

LaunchJvm(i) ==
  /\ cmd[i] = "write" /\ tool[i] # "jvm" /\ dir["datax"][current["datax"]] # "absent"
  /\ ToolBecomes(i, "jvm")
  /\ UNCHANGED <<slots, guard, try, slot, cmd, abandoned, faults, deployVars>>

\* resolve_datax_home, validate_distribution, or no datax.py under the link
LaunchFails(i) ==
  /\ cmd[i] = "write" /\ tool[i] # "jvm" /\ dir["datax"][current["datax"]] # "whole"
  /\ CmdBecomes(i, "ended")
  /\ UNCHANGED <<slots, guard, try, tool, abandoned, faults, deployVars>>

Launch(i) == LaunchJvm(i) \/ LaunchFails(i)
OnRun(A)  == A /\ UNCHANGED deployVars

RunStep(i) == OnRun(GuardStep(i)) \/ OnRun(ToolStep(i)) \/ Launch(i)

Next ==
  \/ \E i \in Invocations : RunStep(i) \/ OnRun(RunFault(i))
  \/ \E o \in Operators : ScriptStep(o)

Spec     == Init /\ [][Next]_vars
FairSpec == Spec /\ \A i \in Invocations : WF_vars(RunStep(i))
=============================================================================
