----------------------------- MODULE BeelineProps -----------------------------
(* What the caller of a beeline command may rely on. *)
EXTENDS Beeline

\* The values each variable takes.
BeelineTypes ==
  /\ caller \in Callers /\ turn \in Streams /\ child \in Children
  /\ next \in [Streams -> Nat]
  /\ pipe \in [Streams -> Seq(Line)] /\ got \in [Streams -> Seq(Line)]
  /\ queue \in [Streams -> Seq(Line \cup {End})]
  /\ reading \in [Streams -> BOOLEAN] /\ open \in [Streams -> BOOLEAN]

\* A beeline call that ends well has handed over every line the child printed,
\* each stream in its order.
OutputIsWhole == caller = "ok" => got = Printed

\* Child, threads and caller never all wait for each other, whatever the sizes of
\* the output and of the pipes: while a call lasts and its child has not hung, the
\* child can go on, a line or an end is there to be taken, or the caller can.
CallMoves ==
  caller \in {"polling", "waiting"} /\ child # "hung" =>
    \/ child = "running" /\ AllPrinted
    \/ \E s \in Streams :
         \/ child = "running" /\ next[s] < Len(Printed[s]) /\ Len(pipe[s]) < PipeSize
         \/ MayRead(s) /\ pipe[s] # <<>>
         \/ reading[s] /\ AtEof(s)
         \/ open[s] /\ queue[s] # <<>>
    \/ caller = "polling" /\ \A s \in Streams : ~open[s]
    \/ caller = "waiting" /\ child \in {"closed", "exited0", "exited1"}

\* What is left to do for a call: three moves for a line still to be printed, two
\* for one in the pipe, one for one in the queue, the end of each stream, the end
\* of the child and the two last steps of the caller.
ThreadWork(s) == IF reading[s] THEN 2 ELSE 0
Moves(unprinted, piped, queued, thread) == 3 * unprinted + 2 * piped + queued + thread
StreamWork(s) ==
  Moves(Len(Printed[s]) - next[s], Len(pipe[s]), Len(queue[s]), ThreadWork(s))
ChildWork  == CASE child = "running" -> 2 [] child = "closed" -> 1 [] OTHER -> 0
CallerWork == CASE caller = "polling" -> 2 [] caller = "waiting" -> 1 [] OTHER -> 0
CallWork   == StreamWork("stdout") + StreamWork("stderr") + ChildWork + CallerWork

----------------------------------------------------------------------------
(* The inductive invariant behind it *)

\* lines in the queue of s, not counting End
Queued(s) == IF open[s] /\ ~reading[s] THEN Len(queue[s]) - 1 ELSE Len(queue[s])

\* What the child has printed is at the caller, behind it in the queue, and behind
\* that in the pipe.
InOrder(s) ==
  /\ Len(got[s]) + Queued(s) + Len(pipe[s]) = next[s] /\ next[s] <= Len(Printed[s])
  /\ \A i \in 1..Len(got[s]) : got[s][i] = Printed[s][i]
  /\ \A i \in 1..Queued(s) : queue[s][i] = Printed[s][Len(got[s]) + i]
  /\ \A i \in 1..Len(pipe[s]) : pipe[s][i] = Printed[s][Len(got[s]) + Queued(s) + i]

\* End is the last entry of a queue whose thread has ended, taken when open is off.
EndsHold(s) ==
  /\ ~reading[s] => pipe[s] = <<>> /\ child \notin {"running", "hung"}
  /\ open[s] /\ ~reading[s] => queue[s] # <<>> /\ queue[s][Len(queue[s])] = End
  /\ ~open[s] => ~reading[s] /\ queue[s] = <<>>

\* The caller stops when both streams have ended; success is the child's.
CallHolds ==
  /\ caller \in {"waiting", "ok", "error"} => \A s \in Streams : ~open[s]
  /\ caller = "ok" => child = "exited0"
  /\ caller = "idle" <=> child = "none"
  /\ child = "exited0" => AllPrinted

LinesHold == CallHolds /\ \A s \in Streams : InOrder(s) /\ EndsHold(s)

BeelineInv == BeelineTypes /\ LinesHold
=============================================================================
