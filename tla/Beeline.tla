------------------------------- MODULE Beeline -------------------------------
(***************************************************************************)
(* PartitionRegistrar._run_command: a beeline child process, a thread per  *)
(* pipe that moves lines into a queue, and a caller that empties both      *)
(* queues until it has seen the end of both streams and then waits for the *)
(* child.  One command at a time; the caller is another module.            *)
(***************************************************************************)
EXTENDS Integers, Sequences

CONSTANTS
  Streams,   \* {"stdout", "stderr"}, the order in which the caller polls is below
  Printed,   \* Printed[s]: what the child prints on s when nothing goes wrong
  PipeSize,  \* lines a pipe holds before a write to it blocks
  End        \* the None a reader thread puts behind the last line

Line == UNION {{Printed[s][i] : i \in 1..Len(Printed[s])} : s \in Streams}

ASSUME BeelineAssumption ==
  /\ Streams = {"stdout", "stderr"}
  /\ Printed \in [Streams -> Seq(Line)]
  /\ PipeSize \in Nat \ {0}
  /\ End \notin Line

VARIABLES
  caller,  \* "idle", "polling", "waiting", or the outcome "ok" / "error"
  turn,    \* the queue the caller asks next
  child,   \* "none", "running", "closed" (pipes shut, not exited), "hung",
           \* "exited0", "exited1"
  next,    \* next[s]: lines the child has printed on s so far
  pipe, queue, got,   \* the lines in the pipe, in the queue, at the caller
  reading, \* reading[s]: the thread of s has not seen the end of its pipe
  open     \* open[s]: the caller has not taken End from the queue of s

beelineVars == <<caller, turn, child, next, pipe, queue, got, reading, open>>

Callers  == {"idle", "polling", "waiting", "ok", "error"}
Children == {"none", "running", "closed", "hung", "exited0", "exited1"}

Other(s) == CHOOSE o \in Streams : o # s
Nothing  == [s \in Streams |-> <<>>]

BeelineInit ==
  /\ caller = "idle" /\ turn = "stdout" /\ child = "none"
  /\ next = [s \in Streams |-> 0]
  /\ pipe = Nothing /\ queue = Nothing /\ got = Nothing
  /\ reading = [s \in Streams |-> FALSE] /\ open = [s \in Streams |-> FALSE]

\* Popen and the two threads
Launch ==
  /\ caller = "idle"
  /\ caller' = "polling" /\ turn' = "stdout" /\ child' = "running"
  /\ next' = [s \in Streams |-> 0]
  /\ pipe' = Nothing /\ queue' = Nothing /\ got' = Nothing
  /\ reading' = [s \in Streams |-> TRUE] /\ open' = [s \in Streams |-> TRUE]

\* the child blocks on a full pipe
PrintLine(s) ==
  /\ child = "running" /\ next[s] < Len(Printed[s]) /\ Len(pipe[s]) < PipeSize
  /\ next' = [next EXCEPT ![s] = @ + 1]
  /\ pipe' = [pipe EXCEPT ![s] = Append(@, Printed[s][next[s] + 1])]
  /\ UNCHANGED <<caller, turn, child, queue, got, reading, open>>

AllPrinted == \A s \in Streams : next[s] = Len(Printed[s])

ChildEnds(state) ==
  /\ child \in {"running", "closed"} /\ child' = state
  /\ UNCHANGED <<caller, turn, next, pipe, queue, got, reading, open>>

\* the reader threads
MayReadStdoutFirst(s) == reading[s] /\ (s = "stdout" \/ ~reading["stdout"])  \* mutant
MayRead(s) == reading[s]

ReadLine(s) ==
  /\ MayRead(s) /\ pipe[s] # <<>>
  /\ queue' = [queue EXCEPT ![s] = Append(@, Head(pipe[s]))]
  /\ pipe' = [pipe EXCEPT ![s] = Tail(@)]
  /\ UNCHANGED <<caller, turn, child, next, got, reading, open>>

AtEofEarly(s) == child \in {"closed", "exited0", "exited1"}  \* mutant
AtEof(s)      == child \in {"closed", "exited0", "exited1"} /\ pipe[s] = <<>>

ReadEof(s) ==
  /\ reading[s] /\ AtEof(s)
  /\ queue' = [queue EXCEPT ![s] = Append(@, End)]
  /\ reading' = [reading EXCEPT ![s] = FALSE]
  /\ UNCHANGED <<caller, turn, child, next, pipe, got, open>>

\* the loop ends at its head only, before stdout is asked
Polling == caller = "polling" /\ ~(turn = "stdout" /\ \A s \in Streams : ~open[s])

TakeEndAsLine ==  \* mutant
  /\ Polling /\ queue[turn] # <<>>
  /\ got' = [got EXCEPT ![turn] = Append(@, Head(queue[turn]))]
  /\ open' = [open EXCEPT ![turn] = Head(queue[turn]) # End]
  /\ queue' = [queue EXCEPT ![turn] = Tail(@)]
  /\ turn' = Other(turn)
  /\ UNCHANGED <<caller, child, next, pipe, reading>>

TakeLine ==
  /\ Polling /\ queue[turn] # <<>>
  /\ IF Head(queue[turn]) = End
       THEN open' = [open EXCEPT ![turn] = FALSE] /\ UNCHANGED got
       ELSE got' = [got EXCEPT ![turn] = Append(@, Head(queue[turn]))] /\ UNCHANGED open
  /\ queue' = [queue EXCEPT ![turn] = Tail(@)]
  /\ turn' = Other(turn)
  /\ UNCHANGED <<caller, child, next, pipe, reading>>

\* queue.Empty after 1 s, or 0.1 s
PollTimesOut ==
  /\ Polling /\ queue[turn] = <<>>
  /\ turn' = Other(turn)
  /\ UNCHANGED <<caller, child, next, pipe, queue, got, reading, open>>

EndPolling ==
  /\ caller = "polling" /\ turn = "stdout" /\ \A s \in Streams : ~open[s]
  /\ caller' = "waiting"
  /\ UNCHANGED <<turn, child, next, pipe, queue, got, reading, open>>

\* process.wait(timeout) and the exit code
WaitReturns ==
  /\ caller = "waiting" /\ child \in {"exited0", "exited1"}
  /\ caller' = IF child = "exited0" THEN "ok" ELSE "error"
  /\ UNCHANGED <<turn, child, next, pipe, queue, got, reading, open>>

WaitTimesOut ==
  /\ caller = "waiting" /\ child = "closed"
  /\ caller' = "error"
  /\ UNCHANGED <<turn, child, next, pipe, queue, got, reading, open>>

\* the call returns or raises; its locals go
Return(outcome) ==
  /\ caller = outcome
  /\ caller' = "idle" /\ turn' = "stdout" /\ child' = "none"
  /\ next' = [s \in Streams |-> 0]
  /\ pipe' = Nothing /\ queue' = Nothing /\ got' = Nothing
  /\ reading' = [s \in Streams |-> FALSE] /\ open' = [s \in Streams |-> FALSE]

BeelineStep ==
  \/ \E s \in Streams : PrintLine(s) \/ ReadLine(s) \/ ReadEof(s)
  \/ TakeLine \/ PollTimesOut \/ EndPolling \/ WaitReturns \/ WaitTimesOut
=============================================================================
