----------------------------- MODULE BeelineProofs -----------------------------
(***************************************************************************)
(* Proofs about Beeline for any output and any size of pipe: what each of  *)
(* its actions keeps, for the module that calls it.                        *)
(***************************************************************************)
EXTENDS BeelineProps, SequenceTheorems, TLAPS

\* What the child prints are lines, as many as a number says.
LEMMA PrintedLines ==
  ASSUME NEW s \in Streams
  PROVE  /\ Printed[s] \in Seq(Line) /\ Len(Printed[s]) \in Nat
         /\ \A i \in 1..Len(Printed[s]) : Printed[s][i] \in Line /\ Printed[s][i] # End
  <1>1. Printed[s] \in Seq(Line) /\ End \notin Line
    BY BeelineAssumption
  <1>2. Len(Printed[s]) \in Nat /\ \A i \in 1..Len(Printed[s]) : Printed[s][i] \in Line
    BY <1>1, LenProperties
  <1> QED
    BY <1>1, <1>2

\* The two streams take turns.
LEMMA OtherIsStream == ASSUME NEW s \in Streams PROVE Other(s) \in Streams
  <1>1. \E o \in Streams : o # s
    BY BeelineAssumption
  <1> QED
    BY <1>1 DEF Other

\* A stream of which a step changes nothing keeps its order and its end, if the
\* step lets no child start.
LEMMA StreamStays ==
  ASSUME NEW t \in Streams, InOrder(t), EndsHold(t),
         next'[t] = next[t], pipe'[t] = pipe[t], queue'[t] = queue[t], got'[t] = got[t],
         reading'[t] = reading[t], open'[t] = open[t],
         child' \in {"running", "hung"} => child \in {"running", "hung"}
  PROVE  InOrder(t)' /\ EndsHold(t)'
  <1>1. Queued(t)' = Queued(t)
    BY DEF Queued
  <1>2. InOrder(t)'
    BY <1>1 DEF InOrder
  <1>3. EndsHold(t)'
    BY DEF EndsHold
  <1> QED
    BY <1>2, <1>3

----------------------------------------------------------------------------
(* One lemma per action *)

\* Steps of others.
LEMMA StutterKeeps == BeelineInv /\ UNCHANGED beelineVars => BeelineInv'
  <1> SUFFICES ASSUME BeelineInv, UNCHANGED beelineVars PROVE BeelineInv'
    OBVIOUS
  <1>1. UNCHANGED <<caller, turn, child, next, pipe, queue, got, reading, open>>
    BY DEF beelineVars
  <1>2. BeelineTypes'
    BY <1>1 DEF BeelineInv, BeelineTypes
  <1>3. \A t \in Streams : InOrder(t)' /\ EndsHold(t)'
    BY <1>1, StreamStays DEF BeelineInv, LinesHold
  <1>4. CallHolds'
    BY <1>1 DEF BeelineInv, LinesHold, CallHolds, AllPrinted
  <1> QED
    BY <1>2, <1>3, <1>4 DEF BeelineInv, LinesHold

\* Launching it starts with empty queues and pipes.
LEMMA LaunchKeeps == BeelineTypes /\ Launch => BeelineInv'
  <1> SUFFICES ASSUME BeelineTypes, Launch PROVE BeelineInv'
    OBVIOUS
  <1>1. <<>> \in Seq(Line) /\ <<>> \in Seq(Line \cup {End}) /\ Len(<<>>) = 0
    BY EmptySeq
  <1>2. BeelineTypes'
    <2>1. Nothing \in [Streams -> Seq(Line)] /\ Nothing \in [Streams -> Seq(Line \cup {End})]
      BY <1>1 DEF Nothing
    <2>2. reading' \in [Streams -> BOOLEAN] /\ open' \in [Streams -> BOOLEAN]
      BY Zenon DEF Launch
    <2> QED
      BY <2>1, <2>2, BeelineAssumption DEF Launch, BeelineTypes, Callers, Children
  <1>3. ASSUME NEW s \in Streams PROVE InOrder(s)' /\ EndsHold(s)'
    <2>1. /\ got'[s] = <<>> /\ queue'[s] = <<>> /\ pipe'[s] = <<>> /\ next'[s] = 0
          /\ reading'[s] = TRUE /\ open'[s] = TRUE
      BY DEF Launch, Nothing
    <2> QED
      BY <1>1, <2>1, PrintedLines DEF InOrder, EndsHold, Queued
  <1>4. CallHolds'
    BY DEF Launch, CallHolds
  <1> QED
    BY <1>2, <1>3, <1>4 DEF BeelineInv, LinesHold

\* Before the first call there is nothing.
LEMMA InitKeeps == BeelineInit => BeelineInv
  <1> SUFFICES ASSUME BeelineInit PROVE BeelineInv
    OBVIOUS
  <1>1. <<>> \in Seq(Line) /\ <<>> \in Seq(Line \cup {End}) /\ Len(<<>>) = 0
    BY EmptySeq
  <1>2. BeelineTypes
    <2>1. Nothing \in [Streams -> Seq(Line)] /\ Nothing \in [Streams -> Seq(Line \cup {End})]
      BY <1>1 DEF Nothing
    <2>2. reading \in [Streams -> BOOLEAN] /\ open \in [Streams -> BOOLEAN]
      BY Zenon DEF BeelineInit
    <2> QED
      BY <2>1, <2>2, BeelineAssumption DEF BeelineInit, BeelineTypes, Callers, Children
  <1>3. ASSUME NEW s \in Streams PROVE InOrder(s) /\ EndsHold(s)
    <2>1. /\ got[s] = <<>> /\ queue[s] = <<>> /\ pipe[s] = <<>> /\ next[s] = 0
          /\ reading[s] = FALSE /\ open[s] = FALSE /\ child = "none"
      BY DEF BeelineInit, Nothing
    <2> QED
      BY <1>1, <2>1, PrintedLines DEF InOrder, EndsHold, Queued
  <1>4. CallHolds
    BY DEF BeelineInit, CallHolds
  <1> QED
    BY <1>2, <1>3, <1>4 DEF BeelineInv, LinesHold

\* When the call returns nothing is left of it.
LEMMA ReturnKeeps ==
  ASSUME NEW outcome, BeelineTypes, Return(outcome) PROVE BeelineInv'
  <1>1. <<>> \in Seq(Line) /\ <<>> \in Seq(Line \cup {End}) /\ Len(<<>>) = 0
    BY EmptySeq
  <1>2. BeelineTypes'
    <2>1. Nothing \in [Streams -> Seq(Line)] /\ Nothing \in [Streams -> Seq(Line \cup {End})]
      BY <1>1 DEF Nothing
    <2>2. reading' \in [Streams -> BOOLEAN] /\ open' \in [Streams -> BOOLEAN]
      BY Zenon DEF Return
    <2> QED
      BY <2>1, <2>2, BeelineAssumption DEF Return, BeelineTypes, Callers, Children
  <1>3. ASSUME NEW s \in Streams PROVE InOrder(s)' /\ EndsHold(s)'
    <2>1. /\ got'[s] = <<>> /\ queue'[s] = <<>> /\ pipe'[s] = <<>> /\ next'[s] = 0
          /\ reading'[s] = FALSE /\ open'[s] = FALSE /\ child' = "none"
      BY DEF Return, Nothing
    <2> QED
      BY <1>1, <2>1, PrintedLines DEF InOrder, EndsHold, Queued
  <1>4. CallHolds'
    BY DEF Return, CallHolds
  <1> QED
    BY <1>2, <1>3, <1>4 DEF BeelineInv, LinesHold

\* A printed line goes behind the others of its pipe.
LEMMA PrintLineKeeps ==
  ASSUME NEW s \in Streams, BeelineInv, PrintLine(s) PROVE BeelineInv'
  <1> DEFINE line == Printed[s][next[s] + 1]
  <1> USE DEF BeelineInv
  <1>1. /\ Len(Printed[s]) \in Nat /\ next[s] \in Nat /\ next[s] + 1 <= Len(Printed[s])
        /\ line \in Line
    BY PrintedLines DEF PrintLine, BeelineTypes
  <1>2. /\ pipe'[s] = Append(pipe[s], line) /\ next'[s] = next[s] + 1
        /\ \A t \in Streams : t # s => pipe'[t] = pipe[t] /\ next'[t] = next[t]
        /\ UNCHANGED <<caller, turn, child, queue, got, reading, open>>
    BY DEF PrintLine, BeelineTypes
  <1> HIDE DEF line
  <1>3. /\ Append(pipe[s], line) \in Seq(Line) /\ Len(Append(pipe[s], line)) = Len(pipe[s]) + 1
        /\ \A i \in 1..Len(pipe[s]) : Append(pipe[s], line)[i] = pipe[s][i]
        /\ Append(pipe[s], line)[Len(pipe[s]) + 1] = line
    BY <1>1, AppendProperties DEF BeelineTypes
  <1>4. BeelineTypes'
    <2>1. pipe' = [pipe EXCEPT ![s] = Append(pipe[s], line)] /\ next' = [next EXCEPT ![s] = @ + 1]
      BY DEF PrintLine, line
    <2>2. pipe' \in [Streams -> Seq(Line)] /\ next' \in [Streams -> Nat]
      BY <1>3, <2>1 DEF BeelineTypes
    <2> QED
      BY <1>2, <2>2 DEF BeelineTypes
  <1>5. ASSUME NEW t \in Streams, t # s PROVE InOrder(t)' /\ EndsHold(t)'
    BY <1>2, <1>5, StreamStays DEF LinesHold
  <1>6. InOrder(s)'
    <2>1. /\ Len(got[s]) \in Nat /\ Len(queue[s]) \in Nat /\ Len(pipe[s]) \in Nat
      BY LenProperties DEF BeelineTypes
    <2>2. Queued(s)' = Queued(s) /\ Queued(s) \in Int
      BY <1>2, <2>1 DEF Queued
    <2>3. InOrder(s)
      BY DEF LinesHold
    <2> DEFINE start == Len(got[s]) + Queued(s)
    <2> HIDE DEF BeelineInv, start
    <2>4. start + Len(pipe[s]) = next[s] /\ start \in Int
      BY <2>1, <2>2, <2>3 DEF InOrder, start
    <2>5. ASSUME NEW i \in 1..Len(pipe'[s]) PROVE pipe'[s][i] = Printed[s][start + i]
      <3>1. CASE i = Len(pipe[s]) + 1
        BY <1>1, <1>2, <1>3, <2>1, <2>4, <3>1 DEF line
      <3>2. CASE i # Len(pipe[s]) + 1
        <4>1. i \in 1..Len(pipe[s])
          BY <1>2, <1>3, <2>1, <3>2
        <4> QED
          BY <1>2, <1>3, <2>3, <4>1 DEF InOrder, start
      <3> QED
        BY <3>1, <3>2
    <2>6. Len(pipe'[s]) = Len(pipe[s]) + 1
      BY <1>2, <1>3
    <2>7. got'[s] = got[s] /\ queue'[s] = queue[s] /\ Len(got'[s]) + Queued(s)' = start
      BY <1>2, <2>2 DEF start
    <2>8. /\ Len(got'[s]) + Queued(s)' + Len(pipe'[s]) = next'[s]
          /\ next'[s] <= Len(Printed[s])
      BY <1>1, <1>2, <2>1, <2>4, <2>6, <2>7
    <2>9. /\ \A i \in 1..Len(got'[s]) : got'[s][i] = Printed[s][i]
          /\ \A i \in 1..Queued(s)' : queue'[s][i] = Printed[s][Len(got'[s]) + i]
      BY <2>2, <2>3, <2>7 DEF InOrder
    <2>10. \A i \in 1..Len(pipe'[s]) :
             pipe'[s][i] = Printed[s][Len(got'[s]) + Queued(s)' + i]
      BY <2>5, <2>7
    <2> QED
      BY <2>8, <2>9, <2>10 DEF InOrder
  <1>7. EndsHold(s)'
    BY <1>2 DEF PrintLine, LinesHold, EndsHold
  <1>8. CallHolds'
    BY <1>1, <1>2 DEF PrintLine, LinesHold, CallHolds
  <1> QED
    BY <1>4, <1>5, <1>6, <1>7, <1>8 DEF LinesHold

\* A thread moves the first line of its pipe behind the last one of its queue.
LEMMA ReadLineKeeps ==
  ASSUME NEW s \in Streams, BeelineInv, ReadLine(s) PROVE BeelineInv'
  <1> DEFINE head == Head(pipe[s])
  <1>1. /\ reading[s] /\ pipe[s] # <<>> /\ pipe[s] \in Seq(Line)
        /\ queue[s] \in Seq(Line \cup {End}) /\ got[s] \in Seq(Line)
    BY DEF ReadLine, MayRead, BeelineInv, BeelineTypes
  <1>2. /\ queue'[s] = Append(queue[s], head) /\ pipe'[s] = Tail(pipe[s])
        /\ \A t \in Streams : t # s => pipe'[t] = pipe[t] /\ queue'[t] = queue[t]
        /\ UNCHANGED <<caller, turn, child, next, got, reading, open>>
    BY DEF ReadLine, BeelineInv, BeelineTypes
  <1>3. /\ head \in Line /\ head = pipe[s][1] /\ Tail(pipe[s]) \in Seq(Line)
        /\ Len(Tail(pipe[s])) = Len(pipe[s]) - 1
        /\ \A i \in 1..Len(Tail(pipe[s])) : Tail(pipe[s])[i] = pipe[s][i + 1]
    BY <1>1, HeadTailProperties
  <1> HIDE DEF head
  <1>4. /\ Append(queue[s], head) \in Seq(Line \cup {End})
        /\ Len(Append(queue[s], head)) = Len(queue[s]) + 1
        /\ \A i \in 1..Len(queue[s]) : Append(queue[s], head)[i] = queue[s][i]
        /\ Append(queue[s], head)[Len(queue[s]) + 1] = head
    BY <1>1, <1>3, AppendProperties
  <1>5. BeelineTypes'
    <2>1. /\ queue' = [queue EXCEPT ![s] = Append(queue[s], head)]
          /\ pipe' = [pipe EXCEPT ![s] = Tail(pipe[s])]
      BY DEF ReadLine, head
    <2>2. pipe' \in [Streams -> Seq(Line)] /\ queue' \in [Streams -> Seq(Line \cup {End})]
      BY <1>3, <1>4, <2>1 DEF BeelineInv, BeelineTypes
    <2> QED
      BY <1>2, <2>2 DEF BeelineInv, BeelineTypes
  <1>6. ASSUME NEW t \in Streams, t # s PROVE InOrder(t)' /\ EndsHold(t)'
    BY <1>2, <1>6, StreamStays DEF BeelineInv, LinesHold
  <1>7. Len(got[s]) \in Nat /\ Len(queue[s]) \in Nat /\ Len(pipe[s]) \in Nat \ {0}
    BY <1>1, EmptySeq, LenProperties
  <1>8. Queued(s) = Len(queue[s]) /\ Queued(s)' = Len(queue[s]) + 1
    BY <1>1, <1>2, <1>4 DEF Queued
  <1>9. InOrder(s)'
    <2> DEFINE g == Len(got[s])
               q == Len(queue[s])
               m == Len(pipe[s])
    <2>2. /\ \A i \in 1..q : queue'[s][i] = queue[s][i]
          /\ queue'[s][q + 1] = pipe[s][1]
          /\ \A i \in 1..(m - 1) : pipe'[s][i] = pipe[s][i + 1]
      BY <1>2, <1>3, <1>4
    <2>3. g \in Nat /\ q \in Nat /\ m \in Nat \ {0}
      BY <1>7
    <2>4. /\ Len(got'[s]) = g /\ Queued(s)' = q + 1 /\ Len(pipe'[s]) = m - 1
          /\ next'[s] = next[s] /\ got'[s] = got[s]
      BY <1>2, <1>3, <1>8
    <2>9. BeelineInv /\ g = Len(got[s]) /\ q = Queued(s) /\ m = Len(pipe[s])
      BY <1>8
    <2> HIDE DEF g, q, m
    <2>1. /\ g + q + m = next[s] /\ next[s] <= Len(Printed[s])
          /\ \A i \in 1..g : got[s][i] = Printed[s][i]
          /\ \A i \in 1..q : queue[s][i] = Printed[s][g + i]
          /\ \A i \in 1..m : pipe[s][i] = Printed[s][g + q + i]
      <3>1. InOrder(s)
        BY <2>9 DEF BeelineInv, LinesHold
      <3>2. g + q + m = next[s] /\ next[s] <= Len(Printed[s])
        BY <2>9, <3>1 DEF InOrder
      <3>3. \A i \in 1..g : got[s][i] = Printed[s][i]
        BY <2>9, <3>1 DEF InOrder
      <3>4. \A i \in 1..q : queue[s][i] = Printed[s][g + i]
        BY <2>9, <3>1 DEF InOrder
      <3>5. \A i \in 1..m : pipe[s][i] = Printed[s][g + q + i]
        BY <2>9, <3>1 DEF InOrder
      <3> QED
        BY <3>2, <3>3, <3>4, <3>5
    <2>5. ASSUME NEW i \in 1..(q + 1) PROVE queue'[s][i] = Printed[s][g + i]
      <3>1. CASE i = q + 1
        <4>1. 1 \in 1..m /\ g + q + 1 = g + i
          BY <2>3, <3>1
        <4>2. pipe[s][1] = Printed[s][g + q + 1]
          BY <2>1, <4>1
        <4> QED
          BY <2>2, <3>1, <4>1, <4>2
      <3>2. CASE i # q + 1
        <4>1. i \in 1..q
          BY <2>3, <3>2
        <4> QED
          BY <2>1, <2>2, <4>1
      <3> QED
        BY <3>1, <3>2
    <2>6. ASSUME NEW i \in 1..(m - 1) PROVE pipe'[s][i] = Printed[s][g + (q + 1) + i]
      <3>1. i + 1 \in 1..m /\ g + q + (i + 1) = g + (q + 1) + i
        BY <2>3
      <3>2. pipe[s][i + 1] = Printed[s][g + q + (i + 1)]
        BY <2>1, <3>1
      <3> QED
        BY <2>2, <3>1, <3>2
    <2>7. g + (q + 1) + (m - 1) = next[s]
      BY <2>1, <2>3
    <2> QED
      BY <2>1, <2>4, <2>5, <2>6, <2>7 DEF InOrder
  <1>10. EndsHold(s)'
    BY <1>1, <1>2 DEF BeelineInv, LinesHold, EndsHold
  <1>11. CallHolds'
    BY <1>2 DEF BeelineInv, LinesHold, CallHolds, AllPrinted
  <1> QED
    BY <1>5, <1>6, <1>9, <1>10, <1>11 DEF BeelineInv, LinesHold

\* A thread that has emptied its pipe puts End behind the last line and stops.
LEMMA ReadEofKeeps ==
  ASSUME NEW s \in Streams, BeelineInv, ReadEof(s) PROVE BeelineInv'
  <1>1. /\ reading[s] /\ open[s] /\ pipe[s] = <<>> /\ child \notin {"running", "hung"}
        /\ queue[s] \in Seq(Line \cup {End})
    BY DEF ReadEof, AtEof, BeelineInv, BeelineTypes, LinesHold, EndsHold
  <1>2. /\ queue'[s] = Append(queue[s], End) /\ reading'[s] = FALSE
        /\ \A t \in Streams : t # s => reading'[t] = reading[t] /\ queue'[t] = queue[t]
        /\ UNCHANGED <<caller, turn, child, next, pipe, got, open>>
    BY DEF ReadEof, BeelineInv, BeelineTypes
  <1>3. /\ Append(queue[s], End) \in Seq(Line \cup {End}) /\ Append(queue[s], End) # <<>>
        /\ Len(Append(queue[s], End)) = Len(queue[s]) + 1
        /\ \A i \in 1..Len(queue[s]) : Append(queue[s], End)[i] = queue[s][i]
        /\ Append(queue[s], End)[Len(queue[s]) + 1] = End
    BY <1>1, AppendProperties
  <1>4. BeelineTypes'
    <2>1. reading' \in [Streams -> BOOLEAN]
      BY Zenon DEF ReadEof, BeelineInv, BeelineTypes
    <2>2. queue' = [queue EXCEPT ![s] = Append(queue[s], End)]
      BY DEF ReadEof
    <2>3. queue' \in [Streams -> Seq(Line \cup {End})]
      BY <1>3, <2>2 DEF BeelineInv, BeelineTypes
    <2> QED
      BY <1>2, <2>1, <2>3 DEF BeelineInv, BeelineTypes
  <1>5. ASSUME NEW t \in Streams, t # s PROVE InOrder(t)' /\ EndsHold(t)'
    BY <1>2, <1>5, StreamStays DEF BeelineInv, LinesHold
  <1>6. Len(queue[s]) \in Nat
    BY <1>1, LenProperties
  <1>7. Queued(s) = Len(queue[s]) /\ Queued(s)' = Len(queue[s])
    BY <1>1, <1>2, <1>3, <1>6 DEF Queued
  <1>8. InOrder(s)'
    <2> DEFINE g == Len(got[s])
               q == Len(queue[s])
               m == Len(pipe[s])
    <2>1. \A i \in 1..q : queue'[s][i] = queue[s][i]
      BY <1>2, <1>3
    <2>2. /\ Len(got'[s]) = g /\ Queued(s)' = q /\ Len(pipe'[s]) = m
          /\ next'[s] = next[s] /\ got'[s] = got[s] /\ pipe'[s] = pipe[s]
      BY <1>2, <1>7
    <2>3. BeelineInv /\ g = Len(got[s]) /\ q = Queued(s) /\ m = Len(pipe[s])
      BY <1>7
    <2> HIDE DEF g, q, m
    <2>4. /\ g + q + m = next[s] /\ next[s] <= Len(Printed[s])
          /\ \A i \in 1..g : got[s][i] = Printed[s][i]
          /\ \A i \in 1..q : queue[s][i] = Printed[s][g + i]
          /\ \A i \in 1..m : pipe[s][i] = Printed[s][g + q + i]
      <3>1. InOrder(s)
        BY <2>3 DEF BeelineInv, LinesHold
      <3>2. g + q + m = next[s] /\ next[s] <= Len(Printed[s])
        BY <2>3, <3>1 DEF InOrder
      <3>3. \A i \in 1..g : got[s][i] = Printed[s][i]
        BY <2>3, <3>1 DEF InOrder
      <3>4. \A i \in 1..q : queue[s][i] = Printed[s][g + i]
        BY <2>3, <3>1 DEF InOrder
      <3>5. \A i \in 1..m : pipe[s][i] = Printed[s][g + q + i]
        BY <2>3, <3>1 DEF InOrder
      <3> QED
        BY <3>2, <3>3, <3>4, <3>5
    <2> QED
      BY <2>1, <2>2, <2>4 DEF InOrder
  <1>9. EndsHold(s)'
    BY <1>1, <1>2, <1>3 DEF EndsHold
  <1>10. CallHolds'
    BY <1>2 DEF BeelineInv, LinesHold, CallHolds, AllPrinted
  <1> QED
    BY <1>4, <1>5, <1>8, <1>9, <1>10 DEF BeelineInv, LinesHold

\* End is not a line, so it is taken as the last entry of its queue.
LEMMA TakeEndKeeps ==
  ASSUME NEW s \in Streams, BeelineInv, TakeLine, s = turn, Head(queue[s]) = End
  PROVE  BeelineInv'
  <1>1. /\ queue[s] # <<>> /\ queue[s] \in Seq(Line \cup {End}) /\ caller = "polling"
        /\ Other(s) \in Streams
    BY OtherIsStream DEF TakeLine, Polling, BeelineInv, BeelineTypes
  <1>2. /\ open' = [open EXCEPT ![s] = FALSE] /\ queue' = [queue EXCEPT ![s] = Tail(@)]
        /\ turn' = Other(s) /\ UNCHANGED <<caller, child, next, pipe, got, reading>>
    BY DEF TakeLine
  <1>3. /\ Tail(queue[s]) \in Seq(Line \cup {End}) /\ Len(queue[s]) \in Nat \ {0}
        /\ Len(Tail(queue[s])) = Len(queue[s]) - 1 /\ queue[s][1] = End
    BY <1>1, HeadTailProperties, EmptySeq
  <1>4. BeelineTypes'
    <2>1. open' \in [Streams -> BOOLEAN]
      BY <1>2, Zenon DEF BeelineInv, BeelineTypes
    <2>2. queue' \in [Streams -> Seq(Line \cup {End})]
      BY <1>2, <1>3 DEF BeelineInv, BeelineTypes
    <2> QED
      BY <1>1, <1>2, <2>1, <2>2 DEF BeelineInv, BeelineTypes
  <1>5. ASSUME NEW t \in Streams, t # s PROVE InOrder(t)' /\ EndsHold(t)'
    <2>1. queue'[t] = queue[t] /\ open'[t] = open[t]
      BY <1>2, <1>5 DEF BeelineInv, BeelineTypes
    <2> QED
      BY <1>2, <2>1, StreamStays DEF BeelineInv, LinesHold
  <1>6. /\ queue'[s] = Tail(queue[s]) /\ open'[s] = FALSE
    BY <1>2 DEF BeelineInv, BeelineTypes
  <1>7. Queued(s) = 0 /\ ~reading[s] /\ Len(queue[s]) = 1
    <2> DEFINE g == Len(got[s])
               q == Queued(s)
    <2>1. g + q <= Len(Printed[s]) /\ g \in Nat /\ q \in Nat
      <3> DEFINE m == Len(pipe[s])
                 n == Len(Printed[s])
      <3>1. g \in Nat /\ m \in Nat /\ n \in Nat
        BY LenProperties, PrintedLines DEF BeelineInv, BeelineTypes
      <3>2. q \in Nat
        BY <1>3 DEF Queued
      <3>3. g + q + m = next[s] /\ next[s] <= n
        BY DEF BeelineInv, LinesHold, InOrder
      <3> HIDE DEF g, q, m, n
      <3>4. g + q <= n
        BY <3>1, <3>2, <3>3
      <3> QED
        BY <3>1, <3>2, <3>4 DEF n
    <2>2. \A i \in 1..q : queue[s][i] = Printed[s][g + i]
      BY DEF BeelineInv, LinesHold, InOrder
    <2> HIDE DEF g, q
    <2>3. q = 0
      <3>1. SUFFICES ASSUME q # 0 PROVE FALSE
        OBVIOUS
      <3>2. 1 \in 1..q /\ g + 1 \in 1..Len(Printed[s])
        BY <2>1, <3>1, PrintedLines
      <3> QED
        BY <1>3, <2>2, <3>2, PrintedLines
    <2>4. open[s] /\ ~reading[s] /\ Len(queue[s]) = 1
      BY <1>1, <1>3, <2>3 DEF q, Queued, BeelineInv, LinesHold, EndsHold
    <2> QED
      BY <2>3, <2>4 DEF q
  <1>8. Tail(queue[s]) = <<>> /\ Queued(s)' = 0
    <2>1. Tail(queue[s]) = <<>>
      <3>1. Len(Tail(queue[s])) = 0
        BY <1>3, <1>7
      <3> QED
        BY <1>3, <3>1, EmptySeq
    <2> QED
      BY <1>2, <1>6, <2>1, EmptySeq DEF Queued
  <1>9. InOrder(s)'
    <2>1. UNCHANGED <<next, pipe, got>> /\ InOrder(s) /\ Queued(s)' = Queued(s)
      BY <1>2, <1>7, <1>8 DEF BeelineInv, LinesHold
    <2>2. \A i \in 1..Queued(s)' : queue'[s][i] = Printed[s][Len(got'[s]) + i]
      BY <1>8
    <2> QED
      BY <2>1, <2>2 DEF InOrder
  <1>10. EndsHold(s)'
    BY <1>2, <1>6, <1>7, <1>8 DEF BeelineInv, LinesHold, EndsHold
  <1>11. CallHolds'
    BY <1>1, <1>2 DEF BeelineInv, LinesHold, CallHolds, AllPrinted
  <1> QED
    BY <1>4, <1>5, <1>9, <1>10, <1>11 DEF BeelineInv, LinesHold

\* Any other entry is the line the child printed behind those the caller has.
LEMMA TakeOneKeeps ==
  ASSUME NEW s \in Streams, BeelineInv, TakeLine, s = turn, Head(queue[s]) # End
  PROVE  BeelineInv'
  <1> DEFINE head == Head(queue[s])
  <1>1. /\ queue[s] # <<>> /\ queue[s] \in Seq(Line \cup {End}) /\ caller = "polling"
        /\ got[s] \in Seq(Line) /\ Other(s) \in Streams
    BY OtherIsStream DEF TakeLine, Polling, BeelineInv, BeelineTypes
  <1>2. /\ got' = [got EXCEPT ![s] = Append(got[s], head)]
        /\ queue' = [queue EXCEPT ![s] = Tail(queue[s])]
        /\ turn' = Other(s) /\ UNCHANGED <<caller, child, next, pipe, reading, open>>
    BY DEF TakeLine
  <1>3. /\ Tail(queue[s]) \in Seq(Line \cup {End}) /\ Len(queue[s]) \in Nat \ {0}
        /\ Len(Tail(queue[s])) = Len(queue[s]) - 1
        /\ \A i \in 1..Len(Tail(queue[s])) : Tail(queue[s])[i] = queue[s][i + 1]
        /\ head \in Line /\ head = queue[s][1]
    BY <1>1, HeadTailProperties, EmptySeq
  <1> HIDE DEF head
  <1>4. /\ Append(got[s], head) \in Seq(Line) /\ Len(Append(got[s], head)) = Len(got[s]) + 1
        /\ \A i \in 1..Len(got[s]) : Append(got[s], head)[i] = got[s][i]
        /\ Append(got[s], head)[Len(got[s]) + 1] = head
    BY <1>1, <1>3, AppendProperties
  <1>5. BeelineTypes'
    <2>1. got' \in [Streams -> Seq(Line)] /\ queue' \in [Streams -> Seq(Line \cup {End})]
      BY <1>2, <1>3, <1>4 DEF BeelineInv, BeelineTypes
    <2> QED
      BY <1>1, <1>2, <2>1 DEF BeelineInv, BeelineTypes
  <1>6. ASSUME NEW t \in Streams, t # s PROVE InOrder(t)' /\ EndsHold(t)'
    <2>1. queue'[t] = queue[t] /\ got'[t] = got[t]
      BY <1>2, <1>6 DEF BeelineInv, BeelineTypes
    <2> QED
      BY <1>2, <2>1, StreamStays DEF BeelineInv, LinesHold
  <1>7. queue'[s] = Tail(queue[s]) /\ got'[s] = Append(got[s], head)
    BY <1>2 DEF BeelineInv, BeelineTypes
  <1>8. open[s] /\ (~reading[s] => Len(queue[s]) > 1 /\ queue[s][Len(queue[s])] = End)
    <2>1. open[s] /\ (~reading[s] => queue[s][Len(queue[s])] = End)
      BY <1>1 DEF BeelineInv, LinesHold, EndsHold
    <2>2. queue[s][1] # End
      BY <1>3 DEF head
    <2> QED
      BY <1>3, <2>1, <2>2
  <1>9. InOrder(s)'
    <2> DEFINE g == Len(got[s])
               q == Queued(s)
               m == Len(pipe[s])
    <2>1. g \in Nat /\ q \in Nat \ {0} /\ q <= Len(queue[s])
      BY <1>1, <1>3, <1>8, LenProperties DEF Queued
    <2>2. m \in Nat
      BY LenProperties DEF BeelineInv, BeelineTypes
    <2>3. /\ Len(got'[s]) = g + 1 /\ Queued(s)' = q - 1 /\ Len(pipe'[s]) = m
          /\ next'[s] = next[s] /\ pipe'[s] = pipe[s]
      BY <1>2, <1>3, <1>4, <1>7 DEF Queued
    <2>4. /\ \A i \in 1..g : got'[s][i] = got[s][i]
          /\ got'[s][g + 1] = queue[s][1]
      BY <1>3, <1>4, <1>7
    <2>5. \A i \in 1..(q - 1) : queue'[s][i] = queue[s][i + 1]
      BY <1>3, <1>7, <2>1
    <2>6. g = Len(got[s]) /\ q = Queued(s) /\ m = Len(pipe[s])
      OBVIOUS
    <2> HIDE DEF g, q, m
    <2>7. /\ g + q + m = next[s] /\ next[s] <= Len(Printed[s])
          /\ \A i \in 1..g : got[s][i] = Printed[s][i]
          /\ \A i \in 1..q : queue[s][i] = Printed[s][g + i]
          /\ \A i \in 1..m : pipe[s][i] = Printed[s][g + q + i]
      <3>1. InOrder(s)
        BY DEF BeelineInv, LinesHold
      <3>2. g + q + m = next[s] /\ next[s] <= Len(Printed[s])
        BY <2>6, <3>1 DEF InOrder
      <3>3. \A i \in 1..g : got[s][i] = Printed[s][i]
        BY <2>6, <3>1 DEF InOrder
      <3>4. \A i \in 1..q : queue[s][i] = Printed[s][g + i]
        BY <2>6, <3>1 DEF InOrder
      <3>5. \A i \in 1..m : pipe[s][i] = Printed[s][g + q + i]
        BY <2>6, <3>1 DEF InOrder
      <3> QED
        BY <3>2, <3>3, <3>4, <3>5
    <2>8. ASSUME NEW i \in 1..(g + 1) PROVE got'[s][i] = Printed[s][i]
      <3>1. queue[s][1] = Printed[s][g + 1]
        BY <2>1, <2>7
      <3>2. i = g + 1 \/ i \in 1..g
        BY <2>1
      <3> QED
        BY <2>4, <2>7, <3>1, <3>2
    <2>9. ASSUME NEW i \in 1..(q - 1) PROVE queue'[s][i] = Printed[s][(g + 1) + i]
      <3>1. i + 1 \in 1..q /\ g + (i + 1) = (g + 1) + i
        BY <2>1
      <3>2. queue[s][i + 1] = Printed[s][g + (i + 1)]
        BY <2>7, <3>1
      <3> QED
        BY <2>5, <3>1, <3>2
    <2>10. (g + 1) + (q - 1) = g + q /\ (g + 1) + (q - 1) + m = next[s]
      BY <2>1, <2>2, <2>7
    <2> QED
      BY <2>3, <2>7, <2>8, <2>9, <2>10 DEF InOrder
  <1>10. EndsHold(s)'
    <2>1. ~reading[s] => Tail(queue[s]) # <<>> /\ Tail(queue[s])[Len(Tail(queue[s]))] = End
      <3>1. SUFFICES ASSUME ~reading[s]
                     PROVE  Tail(queue[s]) # <<>> /\ Tail(queue[s])[Len(Tail(queue[s]))] = End
        OBVIOUS
      <3> DEFINE n == Len(Tail(queue[s]))
      <3>2. n \in Nat \ {0} /\ n + 1 = Len(queue[s])
        BY <1>3, <1>8, <3>1
      <3>3. \A i \in 1..n : Tail(queue[s])[i] = queue[s][i + 1]
        BY <1>3
      <3> HIDE DEF n
      <3>4. Tail(queue[s])[n] = queue[s][Len(queue[s])]
        <4>1. n \in 1..n
          BY <3>2
        <4> QED
          BY <3>2, <3>3, <4>1
      <3> QED
        BY <1>8, <3>1, <3>2, <3>4, EmptySeq DEF n
    <2> QED
      BY <1>2, <1>7, <1>8, <2>1 DEF BeelineInv, LinesHold, EndsHold
  <1>11. CallHolds'
    BY <1>1, <1>2 DEF BeelineInv, LinesHold, CallHolds, AllPrinted
  <1> QED
    BY <1>5, <1>6, <1>9, <1>10, <1>11 DEF BeelineInv, LinesHold

\* Finding a queue empty changes whose turn it is.
LEMMA PollTimesOutKeeps == BeelineInv /\ PollTimesOut => BeelineInv'
  <1> SUFFICES ASSUME BeelineInv, PollTimesOut PROVE BeelineInv'
    OBVIOUS
  <1>1. /\ turn' \in Streams
        /\ UNCHANGED <<caller, child, next, pipe, queue, got, reading, open>>
    BY OtherIsStream DEF PollTimesOut, BeelineInv, BeelineTypes
  <1>2. BeelineTypes'
    BY <1>1 DEF BeelineInv, BeelineTypes
  <1>3. \A t \in Streams : InOrder(t)' /\ EndsHold(t)'
    BY <1>1, StreamStays DEF BeelineInv, LinesHold
  <1>4. CallHolds'
    BY <1>1 DEF BeelineInv, LinesHold, CallHolds, AllPrinted
  <1> QED
    BY <1>2, <1>3, <1>4 DEF BeelineInv, LinesHold

\* The caller stops polling and takes the exit of the child for the outcome.
LEMMA CallerEndsKeeps ==
  BeelineInv /\ (EndPolling \/ WaitReturns \/ WaitTimesOut) => BeelineInv'
  <1> SUFFICES ASSUME BeelineInv, EndPolling \/ WaitReturns \/ WaitTimesOut
               PROVE  BeelineInv'
    OBVIOUS
  <1>1. /\ caller' \in {"waiting", "ok", "error"} /\ caller # "idle"
        /\ \A s \in Streams : ~open[s]
        /\ caller' = "ok" => child = "exited0"
        /\ UNCHANGED <<turn, child, next, pipe, queue, got, reading, open>>
    BY DEF EndPolling, WaitReturns, WaitTimesOut, BeelineInv, LinesHold, CallHolds
  <1>2. BeelineTypes'
    BY <1>1 DEF BeelineInv, BeelineTypes, Callers
  <1>3. \A t \in Streams : InOrder(t)' /\ EndsHold(t)'
    BY <1>1, StreamStays DEF BeelineInv, LinesHold
  <1>4. CallHolds'
    BY <1>1 DEF BeelineInv, LinesHold, CallHolds, AllPrinted
  <1> QED
    BY <1>2, <1>3, <1>4 DEF BeelineInv, LinesHold

\* Every step of the child's output, the threads and the caller.
LEMMA BeelineStepKeeps == BeelineInv /\ BeelineStep => BeelineInv'
  <1> SUFFICES ASSUME BeelineInv, BeelineStep PROVE BeelineInv'
    OBVIOUS
  <1>1. ASSUME TakeLine PROVE BeelineInv'
    <2>1. turn \in Streams
      BY DEF BeelineInv, BeelineTypes
    <2> QED
      BY <1>1, <2>1, TakeEndKeeps, TakeOneKeeps
  <1> QED
    BY <1>1, PrintLineKeeps, ReadLineKeeps, ReadEofKeeps, PollTimesOutKeeps, CallerEndsKeeps
    DEF BeelineStep

\* A child that hangs was running, and one that succeeds has printed everything.
LEMMA ChildEndsKeeps ==
  ASSUME NEW state \in Children \ {"none", "running"}, BeelineInv, ChildEnds(state),
         state = "hung" => child = "running", state = "exited0" => AllPrinted
  PROVE  BeelineInv'
  <1>1. /\ child \in {"running", "closed"} /\ child' = state
        /\ UNCHANGED <<caller, turn, next, pipe, queue, got, reading, open>>
    BY DEF ChildEnds
  <1>2. BeelineTypes'
    BY <1>1 DEF BeelineInv, BeelineTypes
  <1>3. \A t \in Streams : InOrder(t)' /\ EndsHold(t)'
    BY <1>1, StreamStays DEF BeelineInv, LinesHold
  <1>4. CallHolds'
    BY <1>1 DEF BeelineInv, LinesHold, CallHolds, AllPrinted, Children
  <1> QED
    BY <1>2, <1>3, <1>4 DEF BeelineInv, LinesHold

----------------------------------------------------------------------------
(* What the caller gets *)

\* When the call returns "ok", pipes and queues are empty and the lines at the
\* caller are as many as the child printed.
LEMMA InvImpliesWhole == BeelineInv => OutputIsWhole
  <1> SUFFICES ASSUME BeelineInv, caller = "ok" PROVE got = Printed
    BY DEF OutputIsWhole
  <1>1. child = "exited0" /\ AllPrinted /\ \A s \in Streams : ~open[s]
    BY DEF BeelineInv, LinesHold, CallHolds
  <1>2. ASSUME NEW s \in Streams PROVE got[s] = Printed[s]
    <2>1. pipe[s] = <<>> /\ queue[s] = <<>> /\ InOrder(s)
      BY <1>1 DEF BeelineInv, LinesHold, EndsHold
    <2>2. Queued(s) = 0 /\ Len(pipe[s]) = 0
      BY <1>1, <2>1, EmptySeq DEF Queued
    <2> DEFINE g == Len(got[s])
               n == Len(Printed[s])
    <2>3. g \in Nat /\ n \in Nat /\ got[s] \in Seq(Line) /\ Printed[s] \in Seq(Line)
      BY LenProperties, PrintedLines DEF BeelineInv, BeelineTypes
    <2>4. g + 0 + 0 = next[s] /\ next[s] = n
      BY <1>1, <2>1, <2>2 DEF InOrder, AllPrinted
    <2> HIDE DEF g, n
    <2>5. g = n
      BY <2>3, <2>4
    <2>6. Len(got[s]) = Len(Printed[s]) /\ \A i \in 1..Len(got[s]) : got[s][i] = Printed[s][i]
      BY <2>1, <2>5 DEF g, n, InOrder
    <2> QED
      BY <2>3, <2>6, SeqEqual
  <1>3. /\ got = [s \in Streams |-> got[s]] /\ Printed = [s \in Streams |-> Printed[s]]
    BY BeelineAssumption DEF BeelineInv, BeelineTypes
  <1> QED
    BY <1>2, <1>3
----------------------------------------------------------------------------
(* A call gets on *)

\* The work of a stream is a number.
LEMMA MovesAreNumbers ==
  ASSUME NEW u \in Int, NEW p \in Int, NEW q \in Int, NEW t \in Int
  PROVE  Moves(u, p, q, t) \in Int
  BY DEF Moves

\* What a move takes from the work of its stream.
LEMMA MovesFall ==
  ASSUME NEW u \in Int, NEW p \in Int, NEW q \in Int, NEW t \in Int
  PROVE  /\ Moves(u - 1, p + 1, q, t) < Moves(u, p, q, t)
         /\ Moves(u, p - 1, q + 1, t) < Moves(u, p, q, t)
         /\ Moves(u, p, q - 1, t) < Moves(u, p, q, t)
         /\ t = 2 => Moves(u, p, q + 1, 0) < Moves(u, p, q, t)
  BY DEF Moves

\* The numbers of a call.
LEMMA WorkTypes ==
  ASSUME BeelineTypes, NEW s \in Streams
  PROVE  /\ Len(Printed[s]) \in Nat /\ next[s] \in Nat
         /\ Len(pipe[s]) \in Nat /\ Len(queue[s]) \in Nat
         /\ ThreadWork(s) \in Int /\ StreamWork(s) \in Int
  <1>1. Len(Printed[s]) \in Nat
    BY PrintedLines
  <1>2. pipe[s] \in Seq(Line) /\ queue[s] \in Seq(Line \cup {End}) /\ next[s] \in Nat
    BY DEF BeelineTypes
  <1>3. Len(pipe[s]) \in Nat /\ Len(queue[s]) \in Nat
    BY <1>2, LenProperties
  <1>4. ThreadWork(s) \in Int
    BY DEF ThreadWork
  <1>5. Len(Printed[s]) - next[s] \in Int /\ Len(pipe[s]) \in Int /\ Len(queue[s]) \in Int
    BY <1>1, <1>2, <1>3
  <1>6. StreamWork(s) \in Int
    BY <1>4, <1>5, MovesAreNumbers, Zenon DEF StreamWork
  <1> QED
    BY <1>1, <1>2, <1>3, <1>4, <1>6

\* The invariant leaves nobody waiting for everybody: a full pipe has its thread, and
\* an open stream whose thread has ended has its end in the queue.
LEMMA InvImpliesMoves == BeelineInv => CallMoves
  <1> SUFFICES ASSUME BeelineInv, caller \in {"polling", "waiting"}, child # "hung"
               PROVE  CallMoves
    BY DEF CallMoves
  <1> USE DEF BeelineInv, LinesHold
  <1>1. child \in {"running", "closed", "exited0", "exited1"}
    BY DEF BeelineTypes, CallHolds, Children
  <1>2. CASE caller = "waiting"
    <2>1. child # "running"
      BY <1>2, BeelineAssumption DEF CallHolds, EndsHold
    <2> QED
      BY <1>1, <1>2, <2>1 DEF CallMoves
  <1>3. CASE caller = "polling" /\ \E s \in Streams : open[s] /\ ~reading[s]
    BY <1>3 DEF EndsHold, CallMoves
  <1>4. CASE caller = "polling" /\ \A s \in Streams : ~open[s]
    BY <1>4 DEF CallMoves
  <1>5. CASE caller = "polling" /\ \E s \in Streams : reading[s]
    <2>1. PICK s \in Streams : reading[s]
      BY <1>5
    <2>2. CASE child # "running"
      BY <1>1, <2>1, <2>2 DEF CallMoves, AtEof, MayRead
    <2>3. CASE child = "running" /\ ~AllPrinted
      <3>1. PICK t \in Streams : next[t] # Len(Printed[t])
        BY <2>3 DEF AllPrinted
      <3>2. next[t] < Len(Printed[t]) /\ Len(pipe[t]) \in Nat
        BY <3>1, WorkTypes DEF InOrder
      <3>3. CASE Len(pipe[t]) < PipeSize
        BY <2>3, <3>2, <3>3 DEF CallMoves
      <3>4. CASE Len(pipe[t]) >= PipeSize
        <4>1. pipe[t] # <<>>
          BY <3>4, BeelineAssumption, EmptySeq
        <4>2. reading[t]
          BY <4>1 DEF EndsHold, BeelineTypes
        <4> QED
          BY <4>1, <4>2 DEF CallMoves, MayRead
      <3> QED
        BY <3>2, <3>3, <3>4, BeelineAssumption
    <2>4. CASE child = "running" /\ AllPrinted
      BY <2>4 DEF CallMoves
    <2> QED
      BY <2>2, <2>3, <2>4
  <1> QED
    BY <1>2, <1>3, <1>4, <1>5 DEF BeelineTypes

\* They are numbers after a step as well.
LEMMA NextStreamWork ==
  ASSUME BeelineTypes', NEW s \in Streams
  PROVE  StreamWork(s)' \in Int
  <1>1. pipe'[s] \in Seq(Line) /\ queue'[s] \in Seq(Line \cup {End}) /\ next'[s] \in Nat
    BY DEF BeelineTypes
  <1>2. Len(pipe'[s]) \in Nat /\ Len(queue'[s]) \in Nat
    BY <1>1, LenProperties
  <1>3. ThreadWork(s)' \in Int /\ Len(Printed[s]) \in Nat
    BY PrintedLines DEF ThreadWork
  <1>4. Len(Printed[s]) - next'[s] \in Int /\ Len(pipe'[s]) \in Int /\ Len(queue'[s]) \in Int
    BY <1>1, <1>2, <1>3
  <1> QED
    BY <1>3, <1>4, MovesAreNumbers, Zenon DEF StreamWork

\* A sum gets smaller when one of its parts does and the others do not grow.
LEMMA SmallerSum ==
  ASSUME NEW a \in Int, NEW b \in Int, NEW c \in Int, NEW d \in Int,
         NEW p \in Int, NEW q \in Int, NEW r \in Int, NEW s \in Int,
         p <= a, q <= b, r <= c, s <= d, p < a \/ q < b \/ r < c \/ s < d
  PROVE  p + q + r + s < a + b + c + d
  OBVIOUS

\* A step that takes from the work of one stream, or of the child or the caller, and
\* adds to none takes from the work of the call.
LEMMA LessWork ==
  ASSUME BeelineTypes, BeelineTypes',
         \A s \in Streams : StreamWork(s)' <= StreamWork(s),
         ChildWork' <= ChildWork, CallerWork' <= CallerWork,
         \/ \E s \in Streams : StreamWork(s)' < StreamWork(s)
         \/ ChildWork' < ChildWork \/ CallerWork' < CallerWork
  PROVE  CallWork' < CallWork
  <1> DEFINE out == StreamWork("stdout") err == StreamWork("stderr")
             nextOut == StreamWork("stdout")' nextErr == StreamWork("stderr")'
  <1>1. out \in Int /\ err \in Int
    BY WorkTypes, BeelineAssumption
  <1>2. nextOut \in Int /\ nextErr \in Int
    BY NextStreamWork, BeelineAssumption
  <1>3. nextOut <= out /\ nextErr <= err
    BY BeelineAssumption
  <1>4. \/ nextOut < out \/ nextErr < err \/ ChildWork' < ChildWork \/ CallerWork' < CallerWork
    BY BeelineAssumption
  <1>5. /\ ChildWork \in Int /\ ChildWork' \in Int
        /\ CallerWork \in Int /\ CallerWork' \in Int
    BY DEF ChildWork, CallerWork
  <1>6. /\ CallWork = out + err + ChildWork + CallerWork
        /\ CallWork' = nextOut + nextErr + ChildWork' + CallerWork'
    BY DEF CallWork
  <1> HIDE DEF out, err, nextOut, nextErr
  <1> QED
    BY <1>1, <1>2, <1>3, <1>4, <1>5, <1>6, SmallerSum

\* The moves of one stream: a line printed, read or taken, and its end.
LEMMA StreamMoves ==
  ASSUME BeelineInv, BeelineTypes', NEW s \in Streams,
         \/ PrintLine(s) \/ ReadLine(s) \/ ReadEof(s)
         \/ turn = s /\ TakeLine
  PROVE  CallWork' < CallWork
  <1> USE DEF BeelineInv
  <1>1. /\ pipe \in [Streams -> Seq(Line)] /\ queue \in [Streams -> Seq(Line \cup {End})]
        /\ next \in [Streams -> Nat] /\ reading \in [Streams -> BOOLEAN]
    BY DEF BeelineTypes
  <1>2. UNCHANGED <<caller, child>>
    BY DEF PrintLine, ReadLine, ReadEof, TakeLine, Polling
  <1>3. \A t \in Streams \ {s} : UNCHANGED <<next[t], pipe[t], queue[t], reading[t]>>
    BY <1>1 DEF PrintLine, ReadLine, ReadEof, TakeLine
  <1>4. /\ Len(Printed[s]) \in Nat /\ next[s] \in Nat
        /\ Len(pipe[s]) \in Nat /\ Len(queue[s]) \in Nat
        /\ ThreadWork(s) \in Int
    BY WorkTypes
  <1> DEFINE u == Len(Printed[s]) - next[s]
             p == Len(pipe[s])
             q == Len(queue[s])
             t == ThreadWork(s)
  <1>5. StreamWork(s)' < StreamWork(s)
    <2>1. u \in Int /\ p \in Int /\ q \in Int /\ t \in Int
      BY <1>4
    <2>2. StreamWork(s) = Moves(u, p, q, t)
      BY DEF StreamWork
    <2>3. StreamWork(s)' =
            Moves(Len(Printed[s]) - next'[s], Len(pipe'[s]), Len(queue'[s]), ThreadWork(s)')
      BY DEF StreamWork
    <2>4. reading'[s] = reading[s] => ThreadWork(s)' = t
      BY DEF ThreadWork
    <2>5. reading[s] /\ ~reading'[s] => t = 2 /\ ThreadWork(s)' = 0
      BY DEF ThreadWork
    <2>6. CASE PrintLine(s)
      <3>1. /\ next'[s] = next[s] + 1 /\ pipe'[s] = Append(pipe[s], Printed[s][next[s] + 1])
            /\ queue'[s] = queue[s] /\ reading'[s] = reading[s]
        BY <1>1, <2>6 DEF PrintLine
      <3>2. Printed[s][next[s] + 1] \in Line
        BY <1>4, <2>6, PrintedLines DEF PrintLine
      <3>3. Len(pipe'[s]) = p + 1
        BY <1>1, <3>1, <3>2, AppendProperties
      <3>4. Len(Printed[s]) - next'[s] = u - 1
        BY <1>4, <3>1
      <3> HIDE DEF u, p, q, t
      <3>5. StreamWork(s)' = Moves(u - 1, p + 1, q, t)
        BY <2>3, <2>4, <3>1, <3>3, <3>4 DEF q
      <3> QED
        BY <2>1, <2>2, <3>5, MovesFall
    <2>7. CASE ReadLine(s)
      <3>1. /\ pipe[s] # <<>> /\ pipe'[s] = Tail(pipe[s])
            /\ queue'[s] = Append(queue[s], Head(pipe[s]))
            /\ next'[s] = next[s] /\ reading'[s] = reading[s]
        BY <1>1, <2>7 DEF ReadLine
      <3>2. Head(pipe[s]) \in Line /\ Len(pipe'[s]) = p - 1
        BY <1>1, <3>1, HeadTailProperties
      <3>3. Len(queue'[s]) = q + 1
        BY <1>1, <3>1, <3>2, AppendProperties
      <3> HIDE DEF p, q, t
      <3>4. StreamWork(s)' = Moves(u, p - 1, q + 1, t)
        BY <2>3, <2>4, <3>1, <3>2, <3>3
      <3> HIDE DEF u
      <3> QED
        BY <2>1, <2>2, <3>4, MovesFall
    <2>8. CASE ReadEof(s)
      <3>1. /\ reading[s] /\ ~reading'[s] /\ queue'[s] = Append(queue[s], End)
            /\ next'[s] = next[s] /\ pipe'[s] = pipe[s]
        BY <1>1, <2>8 DEF ReadEof
      <3>2. Len(queue'[s]) = q + 1
        BY <1>1, <3>1, AppendProperties
      <3> HIDE DEF q, t
      <3>3. StreamWork(s)' = Moves(u, p, q + 1, 0)
        BY <2>3, <2>5, <3>1, <3>2
      <3> HIDE DEF u, p
      <3> QED
        BY <2>1, <2>2, <2>5, <3>1, <3>3, MovesFall
    <2>9. CASE turn = s /\ TakeLine
      <3>1. /\ queue[s] # <<>> /\ queue'[s] = Tail(queue[s])
            /\ next'[s] = next[s] /\ pipe'[s] = pipe[s] /\ reading'[s] = reading[s]
        BY <1>1, <2>9 DEF TakeLine
      <3>2. Len(queue'[s]) = q - 1
        BY <1>1, <3>1, HeadTailProperties
      <3> HIDE DEF q, t
      <3>3. StreamWork(s)' = Moves(u, p, q - 1, t)
        BY <2>3, <2>4, <3>1, <3>2
      <3> HIDE DEF u, p
      <3> QED
        BY <2>1, <2>2, <3>3, MovesFall
    <2> QED
      BY <2>6, <2>7, <2>8, <2>9
  <1>6. \A r \in Streams : StreamWork(r)' <= StreamWork(r)
    <2>1. ASSUME NEW r \in Streams PROVE StreamWork(r)' <= StreamWork(r)
      <3>1. StreamWork(r) \in Int
        BY WorkTypes
      <3>2. CASE r = s
        <4>1. StreamWork(s)' \in Int
          BY NextStreamWork
        <4> QED
          BY <1>5, <3>1, <3>2, <4>1
      <3>3. CASE r # s
        <4>1. StreamWork(r)' = StreamWork(r)
          BY <1>3, <3>3 DEF StreamWork, ThreadWork
        <4> QED
          BY <3>1, <4>1
      <3> QED
        BY <3>2, <3>3
    <2> QED
      BY <2>1
  <1>7. ChildWork' = ChildWork /\ CallerWork' = CallerWork
    BY <1>2 DEF ChildWork, CallerWork
  <1>8. ChildWork \in Int /\ CallerWork \in Int
    BY DEF ChildWork, CallerWork
  <1> QED
    BY <1>5, <1>6, <1>7, <1>8, LessWork

\* The moves of the caller and of the child leave the streams alone.
LEMMA EndMoves ==
  ASSUME BeelineInv, BeelineTypes',
         \/ EndPolling \/ WaitReturns \/ WaitTimesOut
         \/ \E state \in {"closed", "hung", "exited0", "exited1"} :
              ChildEnds(state) /\ (child = "running" \/ state # "closed")
  PROVE  CallWork' < CallWork
  <1>1. UNCHANGED <<next, pipe, queue, reading>>
    BY DEF EndPolling, WaitReturns, WaitTimesOut, ChildEnds
  <1>2. \A s \in Streams : StreamWork(s)' = StreamWork(s) /\ StreamWork(s) \in Int
    BY <1>1, WorkTypes DEF BeelineInv, StreamWork, ThreadWork
  <1>3. \A s \in Streams : StreamWork(s)' <= StreamWork(s)
    BY <1>2
  <1>4. /\ ChildWork' <= ChildWork /\ CallerWork' <= CallerWork
        /\ ChildWork' < ChildWork \/ CallerWork' < CallerWork
    <2>1. CASE EndPolling
      BY <2>1 DEF EndPolling, ChildWork, CallerWork
    <2>2. CASE WaitReturns
      BY <2>2 DEF WaitReturns, ChildWork, CallerWork
    <2>3. CASE WaitTimesOut
      BY <2>3 DEF WaitTimesOut, ChildWork, CallerWork
    <2>4. ASSUME NEW state \in {"closed", "hung", "exited0", "exited1"},
                 ChildEnds(state), child = "running" \/ state # "closed"
          PROVE  ChildWork' < ChildWork /\ CallerWork' = CallerWork
      BY <2>4 DEF ChildEnds, ChildWork, CallerWork
    <2>5. /\ ChildWork \in Int /\ ChildWork' \in Int
          /\ CallerWork \in Int /\ CallerWork' \in Int
      BY DEF ChildWork, CallerWork
    <2> QED
      BY <2>1, <2>2, <2>3, <2>4, <2>5
  <1> QED
    BY <1>3, <1>4, LessWork DEF BeelineInv

\* Every step of a call but a poll that finds nothing takes from its work.
LEMMA StepTakesWork ==
  ASSUME BeelineInv, BeelineTypes', BeelineStep
  PROVE  CallWork' < CallWork \/ PollTimesOut
  <1>1. CASE \E s \in Streams : PrintLine(s) \/ ReadLine(s) \/ ReadEof(s)
    BY <1>1, StreamMoves
  <1>2. CASE TakeLine
    <2>1. turn \in Streams
      BY DEF BeelineInv, BeelineTypes
    <2> QED
      BY <1>2, <2>1, StreamMoves
  <1>3. CASE EndPolling \/ WaitReturns \/ WaitTimesOut
    BY <1>3, EndMoves
  <1> QED
    BY <1>1, <1>2, <1>3 DEF BeelineStep
=============================================================================
