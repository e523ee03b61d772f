--------------------------- MODULE OnboardingProofs ---------------------------
(***************************************************************************)
(* Proofs about Onboarding, for any columns, orders, types, units, rows    *)
(* and failures: every file fits the table by position, a PASS is earned,  *)
(* what create-target leaves alone and what validate leaves behind.        *)
(*                                                                         *)
(* Columns are lists without some entries, counts are sums of lists.  The  *)
(* first part proves by induction what Without and Total do with lists of  *)
(* any length; the rest uses only those lemmas.                            *)
(***************************************************************************)
EXTENDS OnboardingProps, WellFoundedInduction, TLAPS

(* Induction, sums and lists *)

\* The order of the natural numbers has no infinite descent, as a fact about sets.
LEMMA NatWF == IsWellFoundedOn({ss \in Nat \X Nat : ss[1] < ss[2]}, Nat)
  BY NatLessThanWellFounded DEF OpToRel

\* Induction for a set of numbers: 0, and with each number the next, is everything.
\* A property P is proved for all numbers by taking S = {n \in Nat : P(n)}.
LEMMA NatSetInduction ==
  ASSUME NEW S \in SUBSET Nat, 0 \in S, \A n \in S : n + 1 \in S
  PROVE  S = Nat
  <1> SUFFICES ASSUME Nat \ S # {} PROVE FALSE
    OBVIOUS
  <1> DEFINE R == {ss \in Nat \X Nat : ss[1] < ss[2]}
  <1>1. IsWellFoundedOn(R, Nat)
    BY NatWF
  <1>2. \E x \in Nat \ S : \A y \in Nat \ S : <<y, x>> \notin R
    <2> HIDE DEF R
    <2> QED BY <1>1, WFMin
  <1>3. PICK x \in Nat \ S : \A y \in Nat \ S : <<y, x>> \notin R
    BY <1>2
  <1>4. x # 0 /\ x - 1 \in Nat /\ x - 1 < x  OBVIOUS
  <1>5. x - 1 \notin S
    BY <1>4
  <1> QED BY <1>3, <1>4, <1>5

\* f holds the sums of the first 0 to n entries of s.
SumsUpTo(f, s, n) == f = [i \in 0..n |-> IF i = 0 THEN 0 ELSE f[i-1] + s[i]]

\* Such sums exist, so the recursive function of Total is the one it defines.
LEMMA SumsExist ==
  ASSUME NEW s, NEW n \in Nat PROVE \E f : SumsUpTo(f, s, n)
  <1> DEFINE S == {m \in Nat : \E f : SumsUpTo(f, s, m)}
  <1>1. 0 \in S
    <2> DEFINE g == [i \in 0..0 |-> 0]
    <2>1. SumsUpTo(g, s, 0)
       BY DEF SumsUpTo
    <2> QED BY <2>1
  <1>2. ASSUME NEW m \in S PROVE m + 1 \in S
    <2>1. PICK f : SumsUpTo(f, s, m) OBVIOUS
    <2> DEFINE g == [i \in 0..m+1 |-> IF i = m+1 THEN f[m] + s[m+1] ELSE f[i]]
    <2>2. \A i \in 0..m+1 : g[i] = IF i = 0 THEN 0 ELSE g[i-1] + s[i]
      BY <2>1 DEF SumsUpTo
    <2>3. SumsUpTo(g, s, m + 1)
      BY <2>2 DEF SumsUpTo
    <2> QED BY <2>3
  <1>3. S = Nat 
    <2> HIDE DEF S
    <2>1. S \in SUBSET Nat BY DEF S
    <2> QED BY <1>1, <1>2, <2>1, NatSetInduction
  <1> QED BY <1>3

\* Total is the last of the sums.
LEMMA TotalByParts ==
  ASSUME NEW s, Len(s) \in Nat
  PROVE  \E f : SumsUpTo(f, s, Len(s)) /\ Total(s) = f[Len(s)]
  <1> DEFINE f == CHOOSE f : f = [i \in 0..Len(s) |-> IF i = 0 THEN 0 ELSE f[i-1] + s[i]]
  <1>1. f = [i \in 0..Len(s) |-> IF i = 0 THEN 0 ELSE f[i-1] + s[i]]
    BY SumsExist DEF SumsUpTo
  <1>2. Total(s) = f[Len(s)]
    BY DEF Total
  <1> HIDE DEF f
  <1> QED BY <1>1, <1>2 DEF SumsUpTo

\* A sum of natural numbers is one.
LEMMA TotalType ==
  ASSUME NEW s, Len(s) \in Nat, \A i \in 1..Len(s) : s[i] \in Nat
  PROVE  Total(s) \in Nat
  <1>1. PICK f : SumsUpTo(f, s, Len(s)) /\ Total(s) = f[Len(s)]
    BY TotalByParts
  <1> DEFINE S == {m \in Nat : m <= Len(s) => f[m] \in Nat}
  <1>2. 0 \in S
    BY <1>1 DEF SumsUpTo
  <1>3. ASSUME NEW m \in S PROVE m + 1 \in S
    BY <1>1 DEF SumsUpTo
  <1>4. S = Nat
    <2> HIDE DEF S
    <2>1. S \in SUBSET Nat
      BY DEF S
    <2> QED BY <1>2, <1>3, <2>1, NatSetInduction
  <1> QED BY <1>1, <1>4

\* A sum of zeros is zero.
LEMMA TotalOfZeros ==
  ASSUME NEW s, Len(s) \in Nat, \A i \in 1..Len(s) : s[i] = 0
  PROVE  Total(s) = 0
  <1>1. PICK f : SumsUpTo(f, s, Len(s)) /\ Total(s) = f[Len(s)]
    BY TotalByParts
  <1> DEFINE S == {m \in Nat : m <= Len(s) => f[m] = 0}
  <1>2. 0 \in S
    BY <1>1 DEF SumsUpTo
  <1>3. ASSUME NEW m \in S PROVE m + 1 \in S
    BY <1>1 DEF SumsUpTo
  <1>4. S = Nat
    <2> HIDE DEF S
    <2>1. S \in SUBSET Nat
      BY DEF S
    <2> QED BY <1>2, <1>3, <2>1, NatSetInduction
  <1> QED BY <1>1, <1>4

\* The sum of one number is that number.
LEMMA TotalOfOne == \A x \in Nat : Total(<<x>>) = x
  <1> SUFFICES ASSUME NEW x \in Nat PROVE Total(<<x>>) = x
    OBVIOUS
  <1>1. Len(<<x>>) = 1 /\ <<x>>[1] = x
    OBVIOUS
  <1>2. PICK f : SumsUpTo(f, <<x>>, 1) /\ Total(<<x>>) = f[1]
    BY <1>1, TotalByParts
  <1>3. f[0] = 0 /\ f[1] = f[0] + <<x>>[1]
    BY <1>2 DEF SumsUpTo
  <1> QED BY <1>1, <1>2, <1>3

\* If one entry grows by e, the sum does.
LEMMA TotalOfGrown ==
  ASSUME NEW s, NEW t, Len(s) \in Nat, Len(t) = Len(s),
         \A i \in 1..Len(s) : s[i] \in Nat,
         NEW j \in 1..Len(s), NEW e \in Nat, t[j] = s[j] + e,
         \A i \in 1..Len(s) : i # j => t[i] = s[i]
  PROVE  Total(t) = Total(s) + e
  <1>1. PICK f : SumsUpTo(f, s, Len(s)) /\ Total(s) = f[Len(s)]
    BY TotalByParts
  <1>2. PICK g : SumsUpTo(g, t, Len(s)) /\ Total(t) = g[Len(s)]
    BY TotalByParts
  <1> DEFINE S == {m \in Nat : m <= Len(s) =>
                     f[m] \in Nat /\ g[m] = f[m] + IF m < j THEN 0 ELSE e}
  <1>3. 0 \in S
    BY <1>1, <1>2 DEF SumsUpTo
  <1>4. ASSUME NEW m \in S PROVE m + 1 \in S
    <2> SUFFICES ASSUME m + 1 <= Len(s) PROVE m + 1 \in S
      OBVIOUS
    <2>1. f[m+1] = f[m] + s[m+1] /\ g[m+1] = g[m] + t[m+1]
      BY <1>1, <1>2 DEF SumsUpTo
    <2>2. f[m] \in Nat /\ g[m] = f[m] + (IF m < j THEN 0 ELSE e)
      OBVIOUS
    <2>3. CASE m + 1 = j
      BY <2>1, <2>2, <2>3
    <2>4. CASE m + 1 # j
      <3>1. t[m+1] = s[m+1] /\ s[m+1] \in Nat
        BY <2>4
      <3> QED BY <2>1, <2>2, <2>4, <3>1
    <2> QED BY <2>3, <2>4
  <1>5. S = Nat
    <2> HIDE DEF S
    <2>1. S \in SUBSET Nat
      BY DEF S
    <2> QED BY <1>3, <1>4, <2>1, NatSetInduction
  <1> QED BY <1>1, <1>2, <1>5

\* A sum of smaller numbers is not larger, and smaller if one of them is.
LEMMA TotalIsMonotone ==
  ASSUME NEW s, NEW t, Len(s) \in Nat, Len(t) = Len(s),
         \A i \in 1..Len(s) : s[i] \in Nat /\ t[i] \in Nat /\ s[i] <= t[i]
  PROVE  /\ Total(s) <= Total(t)
         /\ (\E i \in 1..Len(s) : s[i] < t[i]) => Total(s) < Total(t)
  <1>1. PICK f : SumsUpTo(f, s, Len(s)) /\ Total(s) = f[Len(s)]
    BY TotalByParts
  <1>2. PICK g : SumsUpTo(g, t, Len(s)) /\ Total(t) = g[Len(s)]
    BY TotalByParts
  <1> DEFINE S == {m \in Nat : m <= Len(s) =>
                     /\ f[m] \in Nat /\ g[m] \in Nat /\ f[m] <= g[m]
                     /\ (\E i \in 1..m : s[i] < t[i]) => f[m] < g[m]}
  <1>3. 0 \in S
    BY <1>1, <1>2 DEF SumsUpTo
  <1>4. ASSUME NEW m \in S PROVE m + 1 \in S
    <2> SUFFICES ASSUME m + 1 <= Len(s) PROVE m + 1 \in S
      OBVIOUS
    <2>1. f[m+1] = f[m] + s[m+1] /\ g[m+1] = g[m] + t[m+1]
      BY <1>1, <1>2 DEF SumsUpTo
    <2>2. s[m+1] \in Nat /\ t[m+1] \in Nat /\ s[m+1] <= t[m+1]
      OBVIOUS
    <2>3. ASSUME NEW i \in 1..m+1, s[i] < t[i] PROVE f[m+1] < g[m+1]
      <3>1. f[m] \in Nat /\ g[m] \in Nat /\ f[m] <= g[m]
        OBVIOUS
      <3>2. CASE i = m + 1
        BY <2>1, <2>2, <2>3, <3>1, <3>2
      <3>3. CASE i \in 1..m
        <4>1. f[m] < g[m]
          BY <2>3, <3>3
        <4> QED BY <2>1, <2>2, <3>1, <4>1
      <3> QED BY <3>2, <3>3
    <2> QED BY <2>1, <2>2, <2>3
  <1>5. S = Nat
    <2> HIDE DEF S
    <2>1. S \in SUBSET Nat
      BY DEF S
    <2> QED BY <1>3, <1>4, <2>1, NatSetInduction
  <1> QED BY <1>1, <1>2, <1>5
\* f holds what is left of the first 0 to n entries of s.
KeptUpTo(f, s, out, n) ==
  f = [i \in 0..n |-> IF i = 0 THEN <<>>
                      ELSE AppendUnless(f[i-1], s[i], out)]

\* Such lists exist.
LEMMA KeptExist ==
  ASSUME NEW s, NEW out, NEW n \in Nat PROVE \E f : KeptUpTo(f, s, out, n)
  <1> DEFINE S == {m \in Nat : \E f : KeptUpTo(f, s, out, m)}
  <1>1. 0 \in S
    <2> DEFINE g == [i \in 0..0 |-> <<>>]
    <2>1. KeptUpTo(g, s, out, 0)
       BY DEF KeptUpTo
    <2> QED BY <2>1
  <1>2. ASSUME NEW m \in S PROVE m + 1 \in S
    <2>1. PICK f : KeptUpTo(f, s, out, m)
      OBVIOUS
    <2> DEFINE g == [i \in 0..m+1 |->
                       IF i <= m THEN f[i]
                       ELSE AppendUnless(f[m], s[m+1], out)]
    <2>2. \A i \in 0..m+1 : g[i] = IF i = 0 THEN <<>>
                      ELSE AppendUnless(g[i-1], s[i], out)
      BY <2>1 DEF KeptUpTo
    <2>3. KeptUpTo(g, s, out, m + 1)
      BY <2>2 DEF KeptUpTo
    <2> QED BY <2>3
  <1>3. S = Nat 
    <2> HIDE DEF S
    <2>1. S \in SUBSET Nat BY DEF S
    <2> QED BY <1>1, <1>2, <2>1, NatSetInduction
  <1> QED BY <1>3

\* Without is the last of them.
LEMMA WithoutByParts ==
  ASSUME NEW s, NEW out, Len(s) \in Nat
  PROVE  \E f : KeptUpTo(f, s, out, Len(s)) /\ Without(s, out) = f[Len(s)]
  <1> DEFINE f == CHOOSE f : f = [i \in 0..Len(s) |->
                      IF i = 0 THEN <<>>
                      ELSE AppendUnless(f[i-1], s[i], out)]
  <1>1. f = [i \in 0..Len(s) |-> IF i = 0 THEN <<>>
                      ELSE AppendUnless(f[i-1], s[i], out)]
    <2>1. \E g : KeptUpTo(g, s, out, Len(s))
      BY KeptExist
    <2>2. \E g : g = [i \in 0..Len(s) |-> IF i = 0 THEN <<>>
                      ELSE AppendUnless(g[i-1], s[i], out)]
      BY <2>1 DEF KeptUpTo
    <2> QED BY <2>2
  <1>2. Without(s, out) = f[Len(s)]
    BY DEF Without
  <1> HIDE DEF f
  <1> QED BY <1>1, <1>2 DEF KeptUpTo

\* What is left are entries that are not to be left out.
LEMMA WithoutType ==
  ASSUME NEW T, NEW s \in Seq(T), NEW out
  PROVE  Without(s, out) \in Seq(T \ out)
  <1>1. PICK f : KeptUpTo(f, s, out, Len(s)) /\ Without(s, out) = f[Len(s)]
    BY WithoutByParts
  <1> DEFINE S == {m \in Nat : m <= Len(s) => f[m] \in Seq(T \ out)}
  <1>2. 0 \in S
    BY <1>1 DEF KeptUpTo
  <1>3. ASSUME NEW m \in S PROVE m + 1 \in S
    <2> SUFFICES ASSUME m + 1 <= Len(s) PROVE f[m+1] \in Seq(T \ out)
      OBVIOUS
    <2>1. f[m+1] = AppendUnless(f[m], s[m+1], out)
      BY <1>1 DEF KeptUpTo
    <2>2. f[m] \in Seq(T \ out) /\ s[m+1] \in T
      OBVIOUS
    <2> QED BY <2>1, <2>2 DEF AppendUnless
  <1>4. S = Nat
    <2> HIDE DEF S
    <2>1. S \in SUBSET Nat
      BY DEF S
    <2> QED BY <1>2, <1>3, <2>1, NatSetInduction
  <1> QED BY <1>1, <1>4

\* Where nothing is to be left out, nothing is.
LEMMA WithoutNothing ==
  ASSUME NEW T, NEW s \in Seq(T), NEW out, \A i \in 1..Len(s) : s[i] \notin out
  PROVE  Without(s, out) = s
  <1>1. PICK f : KeptUpTo(f, s, out, Len(s)) /\ Without(s, out) = f[Len(s)]
    BY WithoutByParts
  <1> DEFINE S == {m \in Nat : m <= Len(s) => f[m] = SubSeq(s, 1, m)}
  <1>2. 0 \in S
    BY <1>1 DEF KeptUpTo
  <1>3. ASSUME NEW m \in S PROVE m + 1 \in S
    <2> SUFFICES ASSUME m + 1 <= Len(s) PROVE f[m+1] = SubSeq(s, 1, m+1)
      OBVIOUS
    <2>1. f[m+1] = AppendUnless(f[m], s[m+1], out)
      BY <1>1 DEF KeptUpTo
    <2>2. f[m] = SubSeq(s, 1, m) /\ s[m+1] \notin out
      OBVIOUS
    <2> QED BY <2>1, <2>2 DEF AppendUnless
  <1>4. S = Nat
    <2> HIDE DEF S
    <2>1. S \in SUBSET Nat
      BY DEF S
    <2> QED BY <1>2, <1>3, <2>1, NatSetInduction
  <1>5. SubSeq(s, 1, Len(s)) = s
    OBVIOUS
  <1> QED BY <1>1, <1>4, <1>5

\* An entry at the end is kept or left out, and the rest is as without it.
LEMMA WithoutOfAppend ==
  ASSUME NEW T, NEW s \in Seq(T), NEW e \in T, NEW out
  PROVE  Without(Append(s, e), out) =
           IF e \in out THEN Without(s, out) ELSE Append(Without(s, out), e)
  <1> DEFINE t == Append(s, e)
  <1>0. Len(t) = Len(s) + 1 /\ t[Len(s)+1] = e /\ \A i \in 1..Len(s) : t[i] = s[i]
    OBVIOUS
  <1> HIDE DEF t
  <1>1. PICK f : KeptUpTo(f, s, out, Len(s)) /\ Without(s, out) = f[Len(s)]
    BY WithoutByParts
  <1>2. PICK g : KeptUpTo(g, t, out, Len(t)) /\ Without(t, out) = g[Len(t)]
    BY <1>0, WithoutByParts
  <1> DEFINE S == {m \in Nat : m <= Len(s) => f[m] = g[m]}
  <1>3. 0 \in S
    BY <1>0, <1>1, <1>2 DEF KeptUpTo
  <1>4. ASSUME NEW m \in S PROVE m + 1 \in S
    BY <1>0, <1>1, <1>2 DEF KeptUpTo
  <1>5. S = Nat
    <2> HIDE DEF S
    <2>1. S \in SUBSET Nat
      BY DEF S
    <2> QED BY <1>3, <1>4, <2>1, NatSetInduction
  <1>6. f[Len(s)] = g[Len(s)]
    BY <1>5
  <1>7. g[Len(s)+1] = AppendUnless(g[Len(s)], e, out)
    BY <1>0, <1>2 DEF KeptUpTo
  <1> QED BY <1>0, <1>1, <1>2, <1>6, <1>7 DEF t, AppendUnless

\* Only what is in the list matters of what is to be left out.
LEMMA WithoutTheSame ==
  ASSUME NEW s, Len(s) \in Nat, NEW out, NEW others,
         \A i \in 1..Len(s) : s[i] \in out <=> s[i] \in others
  PROVE  Without(s, out) = Without(s, others)
  <1>1. PICK f : KeptUpTo(f, s, out, Len(s)) /\ Without(s, out) = f[Len(s)]
    BY WithoutByParts
  <1>2. PICK g : KeptUpTo(g, s, others, Len(s)) /\ Without(s, others) = g[Len(s)]
    BY WithoutByParts
  <1> DEFINE S == {m \in Nat : m <= Len(s) => f[m] = g[m]}
  <1>3. 0 \in S
    BY <1>1, <1>2 DEF KeptUpTo
  <1>4. ASSUME NEW m \in S PROVE m + 1 \in S
    <2> SUFFICES ASSUME m + 1 <= Len(s) PROVE f[m+1] = g[m+1]
      OBVIOUS
    <2>1. f[m+1] = AppendUnless(f[m], s[m+1], out)
      BY <1>1 DEF KeptUpTo
    <2>2. g[m+1] = AppendUnless(g[m], s[m+1], others)
      BY <1>2 DEF KeptUpTo
    <2> QED BY <2>1, <2>2 DEF AppendUnless
  <1>5. S = Nat
    <2> HIDE DEF S
    <2>1. S \in SUBSET Nat
      BY DEF S
    <2> QED BY <1>3, <1>4, <2>1, NatSetInduction
  <1> QED BY <1>1, <1>2, <1>5

----------------------------------------------------------------------------
(* Types *)

SpecType    == [columns : Seq(Names), dynamic : {<<Key, keyCase>>}]
RequestType == [spec : SpecType, forced : BOOLEAN]

\* TypeOK with sequences for what TypeOK only gives the range of, so that it
\* is inductive; what Real- and TeradataSourceColumns, WrittenColumns and
\* DdlColumns make of a sequence is one.
TypeInv ==
  /\ types \in TypeChoices /\ keyCase \in Spellings
  /\ table = NoTable \/ table \in Seq(Columns \ {Key})
  /\ files \subseteq Seq(Columns)
  /\ registered \in BOOLEAN /\ halfReplaced \in BOOLEAN
  /\ draft \in {NoSpec} \cup SpecType /\ job \in {NoSpec} \cup SpecType
  /\ creating \in [Creators -> {NoSpec} \cup RequestType]
  /\ vstep \in {"off", "ended", "prepare", "write", "register", "count", "cleanup",
                "sweep", "sweep_left"}
  /\ attempted \in Seq(UnitSet) /\ toWrite \in Seq(UnitSet) /\ keep \in BOOLEAN
  /\ verdict \in {"none", "PASS", "FAIL"}
  /\ scratch = NoTable \/ scratch \subseteq UnitSet
  /\ scratchObs \in [UnitSet -> Nat] /\ reported \in Nat /\ refused \subseteq UnitSet
  /\ faults \in Nat

\* The columns alone, of a list of names.
LEMMA IdsType ==
  ASSUME NEW C, NEW names \in Seq(C \X Spellings)
  PROVE  Ids(names) \in Seq(C) /\ Len(Ids(names)) = Len(names)
  BY DEF Ids

\* What scaffold_job reads from DBC.ColumnsV.
LEMMA TeradataColumnsType == TeradataSourceColumns \in Seq(Names)
  <1> DEFINE all == [i \in 1..Len(TdColumns) |-> <<TdColumns[i], "upper">>]
  <1>1. all \in Seq(Names)
    BY OnboardingAssumption DEF Names, Spellings
  <1> HIDE DEF all
  <1>2. Without(all, Static \X {"upper"}) \in Seq(Names \ (Static \X {"upper"}))
    BY <1>1, WithoutType
  <1>3. Without(all, Static \X {"upper"}) \in Seq(Names)
    BY <1>2
  <1> QED BY <1>3 DEF TeradataSourceColumns, all

\* What scaffold_job reads from DESCRIBE.
LEMMA RealColumnsType ==
  ASSUME table \in Seq(Columns \ {Key}) PROVE RealSourceColumns \in Seq(Names)
  BY OnboardingAssumption DEF RealSourceColumns, Names, Spellings

\* The data columns that create-target declares never include the partition column.
LEMMA DdlColumnsType ==
  ASSUME NEW spec \in SpecType PROVE DdlColumns(spec) \in Seq(Columns \ {Key})
  <1> DEFINE out == {Key} \X Spellings
  <1>1. spec.columns \in Seq(Names) /\ spec.dynamic[1] = Key
    BY DEF SpecType
  <1>2. Without(spec.columns, out) \in Seq(Names \ out)
    BY <1>1, WithoutType
  <1>3. Names \ out = (Columns \ {Key}) \X Spellings
    BY DEF Names
  <1>4. Ids(Without(spec.columns, out)) \in Seq(Columns \ {Key})
    BY <1>2, <1>3, IdsType
  <1> QED BY <1>1, <1>4 DEF DdlColumns

\* What hdfswriter writes are columns.
LEMMA WrittenColumnsType ==
  ASSUME NEW spec \in SpecType PROVE WrittenColumns(spec) \in Seq(Columns)
  <1>1. spec.columns \in Seq(Names)
    BY DEF SpecType
  <1>2. Without(spec.columns, {spec.dynamic}) \in Seq(Names \ {spec.dynamic})
    BY <1>1, WithoutType
  <1>3. Without(spec.columns, {spec.dynamic}) \in Seq(Names)
    BY <1>2
  <1> QED BY <1>3, IdsType DEF WrittenColumns, Names

\* The first units, or all if there are fewer.
LEMMA FirstOfType ==
  ASSUME NEW S, NEW s \in Seq(S), NEW n \in Nat
  PROVE  /\ FirstOf(s, n) \in Seq(S)
         /\ Len(FirstOf(s, n)) = IF n < Len(s) THEN n ELSE Len(s)
         /\ \A i \in 1..Len(FirstOf(s, n)) : FirstOf(s, n)[i] = s[i]
  BY DEF FirstOf

\* Reported counts are natural numbers.
LEMMA ReportedForType ==
  ASSUME NEW batch \in Seq(UnitSet), batch # <<>> PROVE ReportedFor(batch) \in Nat
  <1> DEFINE rows == [i \in 1..Len(batch) |-> Rows[batch[i]]]
  <1>1. Len(batch) \in Nat \ {0}
    OBVIOUS
  <1>2. Len(rows) = Len(batch) /\ \A i \in 1..Len(rows) : rows[i] \in Nat
    BY OnboardingAssumption
  <1>3. Total(rows) \in Nat
    <2> HIDE DEF rows
    <2> QED BY <1>1, <1>2, TotalType
  <1>4. \A x \in Nat, n \in Nat \ {0} : n * (x \div n) \in Nat
    OBVIOUS
  <1> QED BY <1>1, <1>3, <1>4 DEF ReportedFor

\* A batch is a piece of the plan, and not an empty one.
LEMMA BatchType ==
  ASSUME toWrite \in Seq(UnitSet), toWrite # <<>>
  PROVE  /\ Batch \in Seq(UnitSet) /\ Batch # <<>> /\ Len(Batch) <= Len(toWrite)
         /\ RangeOf(Batch) \subseteq UnitSet
         /\ BatchRows \in [RangeOf(Batch) -> Nat]
  <1>1. /\ Batch \in Seq(UnitSet)
        /\ Len(Batch) = IF BatchSize < Len(toWrite) THEN BatchSize ELSE Len(toWrite)
    BY FirstOfType, OnboardingAssumption DEF Batch
  <1>2. Len(Batch) # 0 /\ Len(Batch) <= Len(toWrite)
    BY <1>1, OnboardingAssumption
  <1>3. RangeOf(Batch) \subseteq UnitSet
    BY <1>1 DEF RangeOf
  <1>4. BatchRows \in [RangeOf(Batch) -> Nat]
    BY <1>3, OnboardingAssumption DEF BatchRows
  <1> QED BY <1>1, <1>2, <1>3, <1>4

\* Landing rows, and clearing paths, leave a count of rows under each path.
LEMMA LandsType ==
  ASSUME scratchObs \in [UnitSet -> Nat], NEW rows, NEW S, rows \in [S -> Nat], Lands(rows)
  PROVE  scratchObs' \in [UnitSet -> Nat]
  BY DEF Lands

\* Deleting under paths leaves a count under each, that is not larger, and exactly
\* of the paths in refused rows are left when the deletion is not an error.
LEMMA LeavesType ==
  ASSUME scratchObs \in [UnitSet -> Nat], NEW us \in SUBSET UnitSet
  PROVE  /\ [u \in us |-> 0] \in [us -> Nat]
         /\ Leftovers(us) \subseteq [us -> Nat]
         /\ \A left \in [us -> Nat] : Leaves(left) => scratchObs' \in [UnitSet -> Nat]
  <1>1. Leftovers(us) \subseteq [us -> Nat]
    BY DEF Leftovers
  <1>2. \A left \in [us -> Nat] : Leaves(left) => scratchObs' \in [UnitSet -> Nat]
    BY DEF Leaves
  <1> QED BY <1>1, <1>2
LEMMA DeletesType ==
  ASSUME scratchObs \in [UnitSet -> Nat], NEW us \in SUBSET UnitSet, Deletes(us)
  PROVE  /\ scratchObs' \in [UnitSet -> Nat] /\ refused' \subseteq us
         /\ \A u \in us \ refused' : scratchObs'[u] = 0
  <1>1. CASE Leaves([u \in us |-> 0]) /\ refused' = {}
    <2>1. scratchObs' \in [UnitSet -> Nat]
      BY <1>1, LeavesType
    <2>2. \A u \in us : scratchObs'[u] = 0
      BY <1>1 DEF Leaves
    <2> QED BY <1>1, <2>1, <2>2
  <1>2. CASE \E left \in Leftovers(us) : Leaves(left) /\ refused' = {u \in us : left[u] > 0}
    <2>1. PICK left \in Leftovers(us) : Leaves(left) /\ refused' = {u \in us : left[u] > 0}
      BY <1>2
    <2>2. left \in [us -> Nat]
      BY LeavesType
    <2>3. scratchObs' \in [UnitSet -> Nat]
      BY <2>1, <2>2, LeavesType
    <2>4. \A u \in us : scratchObs'[u] = left[u]
      BY <2>1, <2>2 DEF Leaves
    <2>5. \A u \in us \ refused' : left[u] = 0
      BY <2>1, <2>2
    <2> QED BY <2>1, <2>3, <2>4, <2>5
  <1> QED BY <1>1, <1>2 DEF Deletes

\* The initial states are typed.
LEMMA InitTypeInv == Init => TypeInv
  <1> SUFFICES ASSUME Init PROVE TypeInv
    OBVIOUS
  <1>1. table = NoTable \/ table \in Seq(Columns \ {Key})
    BY OnboardingAssumption DEF Init
  <1>2. keyCase \in Spellings
    BY OnboardingAssumption DEF Init
  <1>3. /\ creating \in [Creators -> {NoSpec} \cup RequestType]
        /\ scratchObs \in [UnitSet -> Nat]
        /\ attempted \in Seq(UnitSet) /\ toWrite \in Seq(UnitSet)
    BY DEF Init
  <1> QED BY <1>1, <1>2, <1>3 DEF Init, TypeInv

\* A fault is counted.
LEMMA FaultType ==
  ASSUME faults \in Nat, NEW kind, Fault(kind) PROVE faults' \in Nat
  BY DEF Fault

\* What is left of a process that has ended is nothing.
LEMMA EndsType ==
  ASSUME Ends
  PROVE  /\ attempted' \in Seq(UnitSet) /\ toWrite' \in Seq(UnitSet)
         /\ keep' \in BOOLEAN /\ reported' \in Nat
  <1>1. attempted' = <<>> /\ toWrite' = <<>> /\ reported' = 0
    BY DEF Ends
  <1>2. keep' \in BOOLEAN
    BY Zenon DEF Ends
  <1> QED BY <1>1, <1>2

\* The steps of a validate under way keep the types.
LEMMA ValidateStepTypes ==
  ASSUME TypeInv, ValidateStep \/ ValidateDies \/ ScratchDdlFails PROVE TypeInv'
  <1> DEFINE Steps == {"off", "ended", "prepare", "write", "register", "count", "cleanup",
                       "sweep", "sweep_left"}
             Counts == /\ scratch' = NoTable \/ scratch' \subseteq UnitSet
                       /\ scratchObs' \in [UnitSet -> Nat] /\ reported' \in Nat
                       /\ refused' \subseteq UnitSet
                       /\ attempted' \in Seq(UnitSet) /\ toWrite' \in Seq(UnitSet)
                       /\ keep' \in BOOLEAN
                       /\ verdict' \in {"none", "PASS", "FAIL"}
  <1>1. UNCHANGED <<types, keyCase, table, registered, files, halfReplaced, draft, job,
                    creating>>
    BY DEF ValidateStep, ValidateDies, ScratchDdlFails, Prepare, WriteBatch, StepFails,
       EndWriting, RegisterScratch, Judge, KeepScratch, DropScratch, Sweep, SweepFails,
       Unmoved, tableVars, specVars
  <1>2. faults' \in Nat
    BY FaultType DEF TypeInv, ValidateStep, ValidateDies, ScratchDdlFails, Prepare, WriteBatch,
       StepFails, EndWriting, RegisterScratch, Judge, KeepScratch, DropScratch, Sweep,
       SweepFails, Deletes
  <1>3. vstep' \in Steps
    BY DEF TypeInv, ValidateStep, ValidateDies, ScratchDdlFails, Prepare, WriteBatch,
       StepFails, EndWriting, RegisterScratch, Judge, KeepScratch, DropScratch, Sweep,
       SweepFails, Quits
  <1> SUFFICES Counts
    BY <1>1, <1>2, <1>3 DEF TypeInv, SpecType, RequestType
  <1>4. /\ RangeOf(attempted) \subseteq UnitSet /\ Swept \subseteq UnitSet
        /\ scratchObs \in [UnitSet -> Nat]
    BY DEF TypeInv, RangeOf, Swept
  <1>5. CASE Prepare
    <2>1. scratchObs' \in [UnitSet -> Nat] /\ refused' \subseteq UnitSet
      BY <1>4, <1>5, DeletesType DEF Prepare
    <2> QED BY <1>5, <2>1 DEF Prepare, TypeInv, request
  <1>6. CASE WriteBatch
    <2>1. toWrite \in Seq(UnitSet) /\ toWrite # <<>>
      BY <1>6 DEF WriteBatch, TypeInv
    <2>2. reported' \in Nat
      <3>1. reported' = reported + ReportedFor(Batch) /\ reported \in Nat
        BY <1>6 DEF WriteBatch, TypeInv
      <3>2. ReportedFor(Batch) \in Nat
        BY <2>1, BatchType, ReportedForType
      <3> QED BY <3>1, <3>2
    <2>3. toWrite' \in Seq(UnitSet)
      <3>1. toWrite' = SubSeq(toWrite, Len(Batch) + 1, Len(toWrite))
        BY <1>6 DEF WriteBatch
      <3>2. Len(Batch) \in Nat
        BY <2>1, BatchType
      <3> QED BY <2>1, <3>1, <3>2
    <2>4. scratchObs' \in [UnitSet -> Nat]
      <3>1. CASE Lands(BatchRows)
        BY <2>1, <3>1, BatchType, LandsType DEF TypeInv
      <3>2. CASE ~Lands(BatchRows)
        <4>1. PICK u \in RangeOf(Batch) :
                Rows[u] > 0 /\ Lands([BatchRows EXCEPT ![u] = @ - 1])
          BY <1>6, <3>2 DEF WriteBatch
        <4>2. BatchRows[u] = Rows[u] /\ Rows[u] - 1 \in Nat
          BY <2>1, <4>1, BatchType, OnboardingAssumption DEF BatchRows
        <4>3. [BatchRows EXCEPT ![u] = @ - 1] \in [RangeOf(Batch) -> Nat]
          BY <2>1, <4>2, BatchType
        <4> QED BY <4>1, <4>3, LandsType DEF TypeInv
      <3> QED BY <3>1, <3>2
    <2>5. UNCHANGED <<scratch, verdict, refused, attempted, keep>>
      BY <1>6 DEF WriteBatch
    <2> QED BY <2>2, <2>3, <2>4, <2>5 DEF TypeInv
  <1>7. CASE StepFails
    <2>1. ASSUME vstep = "write", toWrite # <<>>, NEW u \in RangeOf(Batch), NEW n \in 0..Rows[u],
                 Lands([BatchRows EXCEPT ![u] = n])
          PROVE  scratchObs' \in [UnitSet -> Nat]
      <3>1. toWrite \in Seq(UnitSet)
        BY DEF TypeInv
      <3>2. Rows[u] \in Nat
        BY <2>1, <3>1, BatchType, OnboardingAssumption
      <3>3. [BatchRows EXCEPT ![u] = n] \in [RangeOf(Batch) -> Nat]
        BY <2>1, <3>1, <3>2, BatchType
      <3> QED BY <2>1, <3>3, LandsType DEF TypeInv
    <2>2. scratchObs' \in [UnitSet -> Nat]
      <3>1. ASSUME NEW left \in Leftovers(RangeOf(attempted)), Leaves(left)
            PROVE  scratchObs' \in [UnitSet -> Nat]
        BY <1>4, <3>1, LeavesType
      <3> QED BY <1>4, <1>7, <2>1, <3>1 DEF StepFails
    <2>3. UNCHANGED <<scratch, verdict, reported, refused, attempted, keep, toWrite>>
      BY <1>7 DEF StepFails, request, counts
    <2> QED BY <2>2, <2>3 DEF TypeInv
  <1>8. CASE RegisterScratch
    <2>2. scratch' \subseteq UnitSet
      BY <1>4, <1>8 DEF RegisterScratch
    <2>3. UNCHANGED <<scratchObs, verdict, reported, refused, attempted, keep, toWrite>>
      BY <1>8 DEF RegisterScratch, request, counts
    <2> QED BY <2>2, <2>3 DEF TypeInv
  <1>9. CASE Sweep \/ SweepFails
    <2>1. scratchObs' \in [UnitSet -> Nat] /\ refused' \subseteq UnitSet
      <3>1. CASE Sweep
        BY <1>4, <3>1, DeletesType DEF Sweep
      <3>2. CASE SweepFails
        BY <1>4, <3>2, LeavesType DEF SweepFails, Quits
      <3> QED BY <1>9, <3>1, <3>2
    <2>2. UNCHANGED <<scratch, verdict>>
      BY <1>9 DEF Sweep, SweepFails
    <2>3. /\ attempted' \in Seq(UnitSet) /\ toWrite' \in Seq(UnitSet)
          /\ keep' \in BOOLEAN /\ reported' \in Nat
      BY <1>9, EndsType DEF Sweep, SweepFails, Quits
    <2> QED BY <2>1, <2>2, <2>3 DEF TypeInv
  <1>10. CASE EndWriting \/ Judge \/ DropScratch
    <2>1. UNCHANGED <<scratchObs, reported, refused, attempted, toWrite, keep>>
      BY <1>10 DEF EndWriting, Judge, DropScratch, request, counts
    <2>2. scratch' \in {scratch, NoTable}
      BY <1>10 DEF EndWriting, Judge, DropScratch
    <2>3. verdict' \in {verdict, "PASS", "FAIL"}
      BY <1>10 DEF EndWriting, Judge, DropScratch
    <2> QED BY <2>1, <2>2, <2>3 DEF TypeInv
  <1>11. CASE KeepScratch \/ ValidateDies \/ ScratchDdlFails
    <2>1. /\ attempted' \in Seq(UnitSet) /\ toWrite' \in Seq(UnitSet)
          /\ keep' \in BOOLEAN /\ reported' \in Nat /\ refused' \subseteq UnitSet
      BY <1>11, EndsType DEF KeepScratch, ValidateDies, ScratchDdlFails, Quits
    <2>2. /\ scratchObs' = scratchObs /\ scratch' \in {scratch, NoTable}
          /\ verdict' \in {verdict, "none"}
      BY <1>11 DEF KeepScratch, ValidateDies, ScratchDdlFails
    <2> QED BY <2>1, <2>2 DEF TypeInv
  <1> QED BY <1>5, <1>6, <1>7, <1>8, <1>9, <1>10, <1>11 DEF ValidateStep

\* So does every other step.
LEMMA NextTypeInv == TypeInv /\ [Next]_vars => TypeInv'
  <1> SUFFICES ASSUME TypeInv, [Next]_vars PROVE TypeInv'
    OBVIOUS
  <1>1. CASE UNCHANGED vars
    BY <1>1 DEF vars, tableVars, specVars, validateVars, request, counts, TypeInv, SpecType,
       RequestType
  <1> DEFINE ValidateTypes ==
        /\ vstep \in {"off", "ended", "prepare", "write", "register", "count", "cleanup",
                      "sweep", "sweep_left"}
        /\ attempted \in Seq(UnitSet) /\ toWrite \in Seq(UnitSet) /\ keep \in BOOLEAN
        /\ scratch = NoTable \/ scratch \subseteq UnitSet
        /\ scratchObs \in [UnitSet -> Nat] /\ reported \in Nat /\ refused \subseteq UnitSet
  <1>2. ASSUME UNCHANGED validateVars PROVE ValidateTypes'
    BY <1>2 DEF validateVars, request, counts, TypeInv
  <1> HIDE DEF ValidateTypes
  <1>3. CASE Scaffold
    <2>1. PICK columns \in Seq(Names) : DraftAs(columns)
      <3>1. Seen(TRUE) => table # NoTable
        BY DEF Seen
      <3> QED BY <1>3, <3>1, RealColumnsType, TeradataColumnsType DEF Scaffold, TypeInv
    <2>2. SpecOf(columns) \in SpecType
      BY <2>1 DEF SpecOf, SpecType
    <2>3. faults' \in Nat
      BY <1>3 DEF Scaffold, Seen, Fault, TypeInv
    <2>4. UNCHANGED <<types, keyCase, tableVars, job, creating, validateVars>>
      BY <2>1 DEF DraftAs
    <2> QED BY <1>2, <2>1, <2>2, <2>3, <2>4 DEF DraftAs, TypeInv, SpecType, RequestType,
               tableVars, ValidateTypes
  <1>4. CASE Promote
    BY <1>2, <1>4 DEF Promote, TypeInv, SpecType, RequestType, tableVars, ValidateTypes
  <1>5. CASE Load
    <2>1. job \in SpecType
      BY <1>5 DEF Load, TypeInv
    <2>2. files' \subseteq Seq(Columns)
      BY <1>5, <2>1, WrittenColumnsType DEF Load, TypeInv
    <2> QED BY <1>2, <1>5, <2>2 DEF Load, TypeInv, SpecType, RequestType, specVars, ValidateTypes
  <1>6. ASSUME NEW c \in Creators, AskCreate(c) PROVE TypeInv'
    <2>1. creating' \in [Creators -> {NoSpec} \cup RequestType]
      BY <1>6 DEF AskCreate, TypeInv, RequestType
    <2>2. faults' \in Nat
      BY <1>6 DEF AskCreate, Seen, Fault, TypeInv
    <2> QED BY <1>2, <1>6, <2>1, <2>2 DEF AskCreate, TypeInv, SpecType, RequestType, tableVars,
               specVars, ValidateTypes
  <1>7. ASSUME NEW c \in Creators, Create(c) PROVE TypeInv'
    <2>1. creating[c].spec \in SpecType
      BY <1>7 DEF Create, TypeInv, RequestType
    <2>2. table' = NoTable \/ table' \in Seq(Columns \ {Key})
      BY <1>7, <2>1, DdlColumnsType DEF Create, TypeInv
    <2>3. creating' \in [Creators -> {NoSpec} \cup RequestType] /\ registered' \in BOOLEAN
      BY <1>7 DEF Create, TypeInv
    <2> QED BY <1>2, <1>7, <2>2, <2>3 DEF Create, TypeInv, SpecType, RequestType, specVars,
               ValidateTypes
  <1>8. ASSUME NEW c \in Creators, CreateFails(c) PROVE TypeInv'
    <2>1. creating' \in [Creators -> {NoSpec} \cup RequestType]
      BY <1>8 DEF CreateFails, TypeInv
    <2>2. faults' \in Nat
      BY <1>8, FaultType DEF CreateFails, TypeInv
    <2> QED BY <1>2, <1>8, <2>1, <2>2 DEF CreateFails, TypeInv, SpecType, RequestType, specVars,
               ValidateTypes
  <1>9. ASSUME NEW limit \in Limits, NEW kept \in BOOLEAN, StartValidate(limit, kept)
        PROVE  TypeInv'
    <2>1. FirstOf(Units, limit) \in Seq(UnitSet)
      BY OnboardingAssumption, FirstOfType
    <2> QED BY <1>9, <2>1 DEF StartValidate, TypeInv, Unmoved, SpecType, RequestType,
               tableVars, specVars
  <1> QED BY <1>1, <1>3, <1>4, <1>5, <1>6, <1>7, <1>8, <1>9, ValidateStepTypes DEF Next

\* The stronger types give TypeOK.
LEMMA TypeInvSuffices == TypeInv => TypeOK
  BY OnboardingAssumption DEF TypeInv, TypeOK, RangeOf, SpecType, RequestType, Names

\* TypeOK holds: column lists of any length, in any order and spelling, keep
\* being such lists through drafts, tables and files.
THEOREM TypeCorrect == Spec => []TypeOK
  <1>1. Spec => []TypeInv
    BY InitTypeInv, NextTypeInv, PTL DEF Spec
  <1> QED BY <1>1, TypeInvSuffices, PTL

----------------------------------------------------------------------------
(* Columns by position *)

\* Nobody spells the partition column of a table that does not exist yet in
\* lower case, and DESCRIBE answers.
FaithfulNames == "describe" \notin FaultKinds /\ NewSpellings \subseteq {"upper"}

\* The order of the source without its partition columns, and a table's columns
\* as DESCRIBE lists them.
DataOrder    == Ids(Without(TeradataSourceColumns, {Key} \X Spellings))
Described(o) == [i \in 1..Len(o) + 1 |-> <<IF i <= Len(o) THEN o[i] ELSE Key, "lower">>]

Heads(o, f)     == Len(o) <= Len(f) /\ \A i \in 1..Len(o) : f[i] = o[i]
FromTeradata(o) == o = DataOrder /\ keyCase = "upper"

\* One order o governs the table, the drafts of it, those that create-target has
\* loaded, the promoted job and every file: what DESCRIBE shows of a table is turned
\* into a draft whose DDL and whose files have o again, and only while there is no
\* table may the order be Teradata's.
Fits(o, spec) ==
  \/ spec = SpecOf(Described(o))
  \/ FromTeradata(o) /\ spec = SpecOf(TeradataSourceColumns)
KeepsOrder(o) ==
  /\ table \in {NoTable, o} /\ (table = NoTable => FromTeradata(o))
  /\ \A spec \in {draft, job} \ {NoSpec} : Fits(o, spec)
  /\ \A c \in Creators : creating[c] # NoSpec => Fits(o, creating[c].spec)
  /\ \A f \in files : Heads(o, f)
ColumnsInv == ~halfReplaced => \E o \in HiveOrders \cup {DataOrder} : KeepsOrder(o)

\* The names of a list, all spelled the same.
Lower(o) == [i \in 1..Len(o) |-> <<o[i], "lower">>]

\* DESCRIBE appends the partition column to the data columns.
LEMMA DescribedIsAppend ==
  ASSUME NEW o \in Seq(Columns \ {Key})
  PROVE  /\ Lower(o) \in Seq((Columns \ {Key}) \X {"lower"}) /\ Len(Lower(o)) = Len(o)
         /\ Lower(o) \in Seq(Names) /\ <<Key, "lower">> \in Names
         /\ Described(o) = Append(Lower(o), <<Key, "lower">>)
         /\ Ids(Lower(o)) = o
  <1>1. Lower(o) \in Seq((Columns \ {Key}) \X {"lower"}) /\ Len(Lower(o)) = Len(o)
    BY DEF Lower
  <1>2. Lower(o) \in Seq(Names) /\ <<Key, "lower">> \in Names
    BY OnboardingAssumption DEF Lower, Names, Spellings
  <1>3. Described(o) = Append(Lower(o), <<Key, "lower">>)
    <2>1. Described(o) \in Seq(Names)
      BY OnboardingAssumption DEF Described, Names, Spellings
    <2>2. Len(Described(o)) = Len(o) + 1
      BY DEF Described
    <2>3. \A i \in 1..Len(o) + 1 : Described(o)[i] = Append(Lower(o), <<Key, "lower">>)[i]
      BY <1>1 DEF Described, Lower
    <2> QED BY <1>1, <1>2, <2>1, <2>2, <2>3
  <1>4. Ids(Lower(o)) = o
    BY DEF Ids, Lower
  <1> QED BY <1>1, <1>2, <1>3, <1>4

\* Nothing of the data columns is left out on account of the partition column.
LEMMA DataColumnsStay ==
  ASSUME NEW o \in Seq(Columns \ {Key}), NEW out \in SUBSET ({Key} \X Spellings)
  PROVE  Without(Described(o), out) =
           IF <<Key, "lower">> \in out THEN Lower(o) ELSE Append(Lower(o), <<Key, "lower">>)
  <1>1. \A i \in 1..Len(Lower(o)) : Lower(o)[i] \notin out
    BY DEF Lower
  <1>2. Without(Lower(o), out) = Lower(o)
    BY <1>1, DescribedIsAppend, WithoutNothing
  <1>3. Without(Append(Lower(o), <<Key, "lower">>), out) =
          IF <<Key, "lower">> \in out THEN Without(Lower(o), out)
          ELSE Append(Without(Lower(o), out), <<Key, "lower">>)
    BY DescribedIsAppend, WithoutOfAppend
  <1> QED BY <1>2, <1>3, DescribedIsAppend

\* Replacing a table from a draft of it keeps its order.
LEMMA DdlOfDescribed ==
  ASSUME NEW o \in Seq(Columns \ {Key}) PROVE DdlColumns(SpecOf(Described(o))) = o
  <1>1. /\ SpecOf(Described(o)).columns = Described(o)
        /\ SpecOf(Described(o)).dynamic[1] = Key
    BY DEF SpecOf
  <1>2. <<Key, "lower">> \in {Key} \X Spellings
    BY DEF Spellings
  <1>3. Without(Described(o), {Key} \X Spellings) = Lower(o)
    BY <1>2, DataColumnsStay
  <1> QED BY <1>1, <1>3, DescribedIsAppend DEF DdlColumns

\* The files of a job that was drafted from a table begin with the table's columns,
\* whether the partition column behind them is left out or not.
LEMMA WrittenOfDescribed ==
  ASSUME NEW o \in Seq(Columns \ {Key}), keyCase \in Spellings
  PROVE  Heads(o, WrittenColumns(SpecOf(Described(o))))
  <1> DEFINE out == {<<Key, keyCase>>}
             written == Without(Described(o), out)
  <1>1. WrittenColumns(SpecOf(Described(o))) = Ids(written)
    BY DEF WrittenColumns, SpecOf
  <1>2. written \in {Lower(o), Append(Lower(o), <<Key, "lower">>)}
    BY DataColumnsStay
  <1>3. Heads(o, Ids(Lower(o)))
    BY DescribedIsAppend DEF Heads
  <1>4. Heads(o, Ids(Append(Lower(o), <<Key, "lower">>)))
    BY DescribedIsAppend DEF Heads, Ids, Lower
  <1> HIDE DEF written
  <1> QED BY <1>1, <1>2, <1>3, <1>4

\* Where the spelling is the source's, files and DDL leave out the same column.
LEMMA WrittenOfTeradata ==
  ASSUME keyCase = "upper"
  PROVE  WrittenColumns(SpecOf(TeradataSourceColumns)) = DataOrder
  <1> DEFINE all == [i \in 1..Len(TdColumns) |-> <<TdColumns[i], "upper">>]
             cols == TeradataSourceColumns
  <1>1. all \in Seq(Columns \X {"upper"})
    BY OnboardingAssumption
  <1>2. cols \in Seq((Columns \X {"upper"}) \ (Static \X {"upper"}))
    <2> HIDE DEF all
    <2>1. Without(all, Static \X {"upper"}) \in
            Seq((Columns \X {"upper"}) \ (Static \X {"upper"}))
      BY <1>1, WithoutType
    <2> QED BY <2>1 DEF TeradataSourceColumns, all
  <1> HIDE DEF cols
  <1>3. Len(cols) \in Nat /\ \A i \in 1..Len(cols) : cols[i] \in Columns \X {"upper"}
    BY <1>2
  <1>4. \A i \in 1..Len(cols) : cols[i] \in {<<Key, "upper">>} <=> cols[i] \in {Key} \X Spellings
    BY <1>3 DEF Spellings
  <1>5. Without(cols, {<<Key, "upper">>}) = Without(cols, {Key} \X Spellings)
    BY <1>3, <1>4, WithoutTheSame
  <1> QED BY <1>5 DEF WrittenColumns, SpecOf, DataOrder, cols

\* create-target from the source's columns makes a table in their order.
LEMMA DdlOfTeradata == DdlColumns(SpecOf(TeradataSourceColumns)) = DataOrder
  BY DEF DdlColumns, SpecOf, DataOrder

\* Every order that may govern is one of data columns.
LEMMA OrdersAreData == \A o \in HiveOrders \cup {DataOrder} : o \in Seq(Columns \ {Key})
  <1>1. SpecOf(TeradataSourceColumns) \in SpecType
    BY TeradataColumnsType DEF SpecOf, SpecType
  <1>2. DataOrder \in Seq(Columns \ {Key})
    BY <1>1, DdlOfTeradata, DdlColumnsType
  <1> QED BY <1>2, OnboardingAssumption

\* Initially the order is that of the existing table, or the source's.
LEMMA InitColumns == FaithfulNames /\ Init => ColumnsInv
  <1> SUFFICES ASSUME FaithfulNames, Init PROVE ColumnsInv
    OBVIOUS
  <1>1. CASE table = NoTable /\ keyCase \in NewSpellings
    <2>1. KeepsOrder(DataOrder)
      BY <1>1 DEF KeepsOrder, FromTeradata, FaithfulNames, Init
    <2> QED BY <2>1 DEF ColumnsInv
  <1>2. CASE table \in HiveOrders
    <2>1. KeepsOrder(table)
      BY <1>2, OnboardingAssumption DEF KeepsOrder, Init
    <2> QED BY <1>2, <2>1 DEF ColumnsInv
  <1> QED BY <1>1, <1>2 DEF Init

\* What has nothing to do with columns leaves them.
LEMMA OthersKeepColumns ==
  ASSUME ColumnsInv,
         UNCHANGED <<keyCase, table, halfReplaced, draft, job, creating, files>>
  PROVE  ColumnsInv'
  BY DEF ColumnsInv, KeepsOrder, Fits, FromTeradata, SpecOf

\* Every step keeps ColumnsInv.
LEMMA NextColumns ==
  ASSUME FaithfulNames, keyCase \in Spellings, DOMAIN creating = Creators, ColumnsInv,
         [Next]_vars
  PROVE  ColumnsInv'
  <1>0. keyCase' = keyCase
    BY DEF Next, vars, Scaffold, DraftAs, Promote, Load, AskCreate, Create, CreateFails,
       StartValidate, ScratchDdlFails, ValidateStep, ValidateDies, Prepare, WriteBatch, StepFails,
       EndWriting, RegisterScratch, Judge, KeepScratch, DropScratch, Sweep, SweepFails, Unmoved
  <1> SUFFICES ASSUME ~halfReplaced' PROVE ColumnsInv'
    BY DEF ColumnsInv
  <1>1. CASE UNCHANGED <<table, halfReplaced, draft, job, creating, files>>
    BY <1>0, <1>1, OthersKeepColumns
  <1>2. ~halfReplaced
    BY DEF Next, vars, tableVars, Scaffold, DraftAs, Promote, Load, AskCreate, Create,
       CreateFails, StartValidate, ScratchDdlFails, ValidateStep, ValidateDies, Prepare,
       WriteBatch, StepFails, EndWriting, RegisterScratch, Judge, KeepScratch, DropScratch,
       Sweep, SweepFails, Unmoved
  <1>3. PICK o \in HiveOrders \cup {DataOrder} : KeepsOrder(o)
    BY <1>2 DEF ColumnsInv
  <1>4. o \in Seq(Columns \ {Key})
    BY OrdersAreData
  <1> SUFFICES KeepsOrder(o)'
    BY DEF ColumnsInv
  <1> USE <1>0 DEF KeepsOrder, Fits, FromTeradata
  <1>5. CASE Scaffold
    <2>1. CASE Seen(TRUE) /\ DraftAs(RealSourceColumns)
      <3>1. table = o
        BY <1>3, <2>1 DEF Seen
      <3>2. draft' = SpecOf(Described(o))
        BY <2>1, <3>1 DEF DraftAs, RealSourceColumns, Described
      <3> QED BY <1>3, <2>1, <3>2 DEF DraftAs, tableVars, SpecOf
    <2>2. CASE Seen(FALSE) /\ DraftAs(TeradataSourceColumns)
      <3>1. table = NoTable
        BY <2>2 DEF Seen, Fault, FaithfulNames
      <3>2. draft' = SpecOf(TeradataSourceColumns)
        BY <2>2 DEF DraftAs
      <3> QED BY <1>3, <2>2, <3>1, <3>2 DEF DraftAs, tableVars, SpecOf
    <2> QED BY <1>5, <2>1, <2>2 DEF Scaffold
  <1>6. CASE Promote
    BY <1>3, <1>6 DEF Promote, tableVars, SpecOf
  <1>7. CASE Load
    <2>1. Heads(o, WrittenColumns(job))
      <3>1. CASE job = SpecOf(Described(o))
        BY <1>4, <3>1, WrittenOfDescribed
      <3>2. CASE FromTeradata(o) /\ job = SpecOf(TeradataSourceColumns)
        BY <1>4, <3>2, WrittenOfTeradata DEF Heads
      <3> QED BY <1>3, <1>7, <3>1, <3>2 DEF Load
    <2> QED BY <1>3, <1>7, <2>1 DEF Load, specVars, SpecOf
  <1>8. ASSUME NEW c \in Creators, Create(c) PROVE KeepsOrder(o)'
    <2>1. DdlColumns(creating[c].spec) = o
      BY <1>3, <1>4, <1>8, DdlOfDescribed, DdlOfTeradata DEF Create
    <2>2. table' \in {table, o} /\ (table' = NoTable => table = NoTable \/ o = NoTable)
      BY <1>8, <2>1 DEF Create
    <2>3. o # NoTable \/ FromTeradata(o)
      BY OnboardingAssumption, <1>3
    <2> QED BY <1>3, <1>8, <2>2, <2>3 DEF Create, specVars, SpecOf
  <1>9. ASSUME NEW c \in Creators, CreateFails(c) PROVE KeepsOrder(o)'
    <2>1. table' = table
      BY <1>9 DEF CreateFails
    <2> QED BY <1>3, <1>9, <2>1 DEF CreateFails, specVars, SpecOf
  <1>10. ASSUME NEW c \in Creators, AskCreate(c) PROVE KeepsOrder(o)'
    <2>1. /\ draft # NoSpec /\ UNCHANGED <<table, draft, job, files>>
          /\ \E force \in BOOLEAN :
               creating' = [creating EXCEPT ![c] = [spec |-> draft, forced |-> force]]
      BY <1>10 DEF AskCreate, tableVars, specVars
    <2>2. \A d \in Creators :
            creating'[d] # NoSpec =>
              \/ creating'[d].spec = draft
              \/ creating[d] # NoSpec /\ creating'[d] = creating[d]
      BY <2>1
    <2>3. Fits(o, draft)
      BY <1>3, <2>1
    <2> QED BY <1>3, <2>1, <2>2, <2>3 DEF SpecOf
  <1>11. CASE ~(Scaffold \/ Promote \/ Load
                \/ \E c \in Creators : AskCreate(c) \/ Create(c) \/ CreateFails(c))
    <2>1. UNCHANGED <<table, halfReplaced, draft, job, creating, files>>
      BY <1>11 DEF Next, vars, tableVars, specVars, StartValidate, ScratchDdlFails,
         ValidateStep, ValidateDies, Prepare, WriteBatch, StepFails, EndWriting,
         RegisterScratch, Judge, KeepScratch, DropScratch, Sweep, SweepFails, Unmoved
    <2> QED BY <1>3, <2>1 DEF SpecOf
  <1> QED BY <1>5, <1>6, <1>7, <1>8, <1>9, <1>10, <1>11

\* PositionsAgree holds for any columns and orders, over re-scaffolding, replacing
\* and re-promoting, if a partition column that only Teradata knows is spelled as
\* there.
THEOREM FilesFitTheTable == FaithfulNames => (Spec => []PositionsAgree)
  <1> SUFFICES ASSUME FaithfulNames PROVE Spec => []PositionsAgree
    OBVIOUS
  <1>1. Init => TypeInv /\ ColumnsInv
    BY InitTypeInv, InitColumns
  <1>2. TypeInv /\ ColumnsInv /\ [Next]_vars => (TypeInv /\ ColumnsInv)'
    <2>1. TypeInv => keyCase \in Spellings /\ DOMAIN creating = Creators
      BY DEF TypeInv
    <2> QED BY <2>1, NextTypeInv, NextColumns
  <1>3. ColumnsInv => PositionsAgree
    BY DEF ColumnsInv, KeepsOrder, Heads, PositionsAgree
  <1> QED BY <1>1, <1>2, <1>3, PTL DEF Spec

----------------------------------------------------------------------------
(* The verdict of validate *)

\* The rows of the first n units of the plan.
Planned(n) == Total([i \in 1..Len(Units) |-> IF i <= n THEN Rows[Units[i]] ELSE 0])

Judged == {"prepare", "write", "register", "count"}

\* Of n attempted units, w are written and DataX has claimed their rows; each path
\* holds at most its unit's rows, unless earlier ones were kept there.
Progress(n, w) ==
  /\ attempted = SubSeq(Units, 1, n) /\ toWrite = SubSeq(Units, w + 1, n)
  /\ verdict = "none" /\ reported = Planned(w)
  /\ vstep = "prepare" => w = 0
  /\ vstep \in {"register", "count"} => w = n
  /\ vstep # "prepare" /\ refused = {} =>
       /\ \A i \in 1..w : scratchObs[Units[i]] <= Rows[Units[i]]
       /\ \A i \in w+1..n : scratchObs[Units[i]] = 0
  /\ vstep = "count" => \A i \in n+1..Len(Units) : Units[i] \notin scratch

\* A validate on its way to a verdict is such a piece of progress, whatever its
\* scratch paths held before.
CountsInv ==
  /\ vstep \in Judged => \E n \in 0..Len(Units) : \E w \in 0..n : Progress(n, w)
  /\ PassIsEarned

\* No units have no rows.
LEMMA NothingPlanned == Planned(0) = 0
  <1> DEFINE s == [i \in 1..Len(Units) |-> IF i <= 0 THEN Rows[Units[i]] ELSE 0]
  <1>1. Len(Units) \in Nat
    BY OnboardingAssumption
  <1>2. Len(s) = Len(Units) /\ \A i \in 1..Len(s) : s[i] = 0
    BY <1>1
  <1>3. Total(s) = 0
    <2> HIDE DEF s
    <2> QED BY <1>1, <1>2, TotalOfZeros
  <1> QED BY <1>3 DEF Planned

\* One unit more adds its rows.
LEMMA OneMorePlanned ==
  ASSUME NEW w \in Nat, w < Len(Units)
  PROVE  Planned(w + 1) = Planned(w) + Rows[Units[w+1]]
  <1> DEFINE s == [i \in 1..Len(Units) |-> IF i <= w THEN Rows[Units[i]] ELSE 0]
             t == [i \in 1..Len(Units) |-> IF i <= w + 1 THEN Rows[Units[i]] ELSE 0]
  <1>1. Len(Units) \in Nat /\ \A i \in 1..Len(Units) : Rows[Units[i]] \in Nat
    BY OnboardingAssumption
  <1>2. Len(s) = Len(Units) /\ Len(t) = Len(Units)
    BY <1>1
  <1>3. /\ \A i \in 1..Len(s) : s[i] \in Nat
        /\ t[w+1] = s[w+1] + Rows[Units[w+1]]
        /\ \A i \in 1..Len(s) : i # w + 1 => t[i] = s[i]
    BY <1>1, <1>2
  <1>4. w + 1 \in 1..Len(s) /\ Rows[Units[w+1]] \in Nat
    BY <1>1, <1>2
  <1>5. Total(t) = Total(s) + Rows[Units[w+1]]
    <2> HIDE DEF s, t
    <2> QED BY <1>1, <1>2, <1>3, <1>4, TotalOfGrown
  <1> QED BY <1>5 DEF Planned

\* With at most its rows under each written path and nothing else registered, a count
\* as large as what was planned means all rows of each unit.
LEMMA CountIsBounded ==
  ASSUME TypeInv, NEW n \in 0..Len(Units), ScratchCount = Planned(n),
         \A i \in 1..n : scratchObs[Units[i]] <= Rows[Units[i]],
         \A i \in n+1..Len(Units) : Units[i] \notin scratch
  PROVE  \A i \in 1..n : Held(Units[i]) = Rows[Units[i]]
  <1> DEFINE s == [i \in 1..Len(Units) |-> Held(Units[i])]
             t == [i \in 1..Len(Units) |-> IF i <= n THEN Rows[Units[i]] ELSE 0]
  <1>1. Len(Units) \in Nat /\ \A i \in 1..Len(Units) : Units[i] \in UnitSet
    BY OnboardingAssumption
  <1>2. \A i \in 1..Len(Units) : Rows[Units[i]] \in Nat /\ scratchObs[Units[i]] \in Nat
    BY <1>1, OnboardingAssumption DEF TypeInv
  <1>3. Len(s) = Len(Units) /\ Len(t) = Len(Units)
    BY <1>1
  <1>4. \A i \in 1..Len(s) : s[i] \in Nat /\ t[i] \in Nat /\ s[i] <= t[i]
    BY <1>1, <1>2, <1>3 DEF Held
  <1>5. ASSUME NEW i \in 1..n, Held(Units[i]) # Rows[Units[i]]
        PROVE  \E j \in 1..Len(s) : s[j] < t[j]
    <2>1. i \in 1..Len(s) /\ s[i] = Held(Units[i]) /\ t[i] = Rows[Units[i]]
      BY <1>1, <1>3
    <2>2. s[i] < t[i]
      <3>1. s[i] # t[i] /\ s[i] \in Nat /\ t[i] \in Nat /\ s[i] <= t[i]
        BY <1>4, <1>5, <2>1
      <3> HIDE DEF s, t
      <3> QED BY <3>1
    <2> QED BY <2>1, <2>2
  <1>6. Total(s) \in Nat /\ ((\E j \in 1..Len(s) : s[j] < t[j]) => Total(s) < Total(t))
    <2> HIDE DEF s, t
    <2> QED BY <1>1, <1>3, <1>4, TotalType, TotalIsMonotone
  <1>7. Total(s) = Total(t)
    BY DEF ScratchCount, Planned
  <1> HIDE DEF s, t
  <1>8. ~\E j \in 1..Len(s) : s[j] < t[j]
    BY <1>6, <1>7
  <1> QED BY <1>5, <1>8

\* With one unit per DataX run, the batch is the next unit and its share is its rows.
LEMMA BatchOfOne ==
  ASSUME BatchSize = 1, NEW n \in 0..Len(Units), NEW w \in 0..n,
         toWrite = SubSeq(Units, w + 1, n), toWrite # <<>>
  PROVE  /\ w < n /\ RangeOf(Batch) = {Units[w+1]}
         /\ ReportedFor(Batch) = Rows[Units[w+1]]
         /\ SubSeq(toWrite, Len(Batch) + 1, Len(toWrite)) = SubSeq(Units, w + 2, n)
  <1>1. Units \in Seq(UnitSet) /\ Len(Units) \in Nat
    BY OnboardingAssumption
  <1>2. w < n
    BY <1>1
  <1>3. Len(toWrite) = n - w /\ toWrite[1] = Units[w+1]
    BY <1>1, <1>2
  <1>4. Batch = <<Units[w+1]>>
    <2>1. Batch = SubSeq(toWrite, 1, 1)
      BY <1>1, <1>2, <1>3 DEF Batch, FirstOf
    <2>2. toWrite \in Seq(UnitSet)
      BY <1>1, <1>2
    <2>3. Batch \in Seq(UnitSet) /\ Len(Batch) = 1 /\ Batch[1] = toWrite[1]
      BY <1>2, <1>3, <2>1, <2>2
    <2> QED BY <1>3, <2>3
  <1>5. RangeOf(Batch) = {Units[w+1]}
    BY <1>4 DEF RangeOf
  <1>6. ReportedFor(Batch) = Rows[Units[w+1]]
    <2>1. Units[w+1] \in UnitSet
      BY <1>1, <1>2
    <2>2. Rows[Units[w+1]] \in Nat
      BY <2>1, OnboardingAssumption
    <2>3. [i \in 1..Len(Batch) |-> Rows[Batch[i]]] = <<Rows[Units[w+1]]>>
      BY <1>4
    <2>4. Total(<<Rows[Units[w+1]]>>) = Rows[Units[w+1]]
      BY <2>2, TotalOfOne
    <2>5. Len(Batch) = 1
      BY <1>4
    <2>6. \A x \in Nat : 1 * (x \div 1) = x
      OBVIOUS
    <2> QED BY <2>2, <2>3, <2>4, <2>5, <2>6 DEF ReportedFor
  <1>7. SubSeq(toWrite, 2, n - w) = SubSeq(Units, w + 2, n)
    <2>1. Len(SubSeq(Units, w + 2, n)) = n - w - 1
      BY <1>1, <1>2
    <2>2. Len(SubSeq(toWrite, 2, n - w)) = n - w - 1
      BY <1>1, <1>2, <1>3
    <2>3. \A i \in 1..n - w - 1 : SubSeq(toWrite, 2, n - w)[i] = SubSeq(Units, w + 2, n)[i]
      BY <1>1, <1>2, <1>3
    <2>4. SubSeq(toWrite, 2, n - w) \in Seq(UnitSet) /\ SubSeq(Units, w + 2, n) \in Seq(UnitSet)
      BY <1>1, <1>2, <1>3
    <2> QED BY <2>1, <2>2, <2>3, <2>4
  <1> QED BY <1>2, <1>3, <1>4, <1>5, <1>6, <1>7

\* DataX leaves at most a unit's rows, and nothing anywhere else.
LEMMA WriteBounds ==
  ASSUME TypeInv, toWrite # <<>>, NEW u \in UnitSet, RangeOf(Batch) = {u}, WriteBatch,
         scratchObs[u] = 0
  PROVE  /\ scratchObs'[u] <= Rows[u]
         /\ \A v \in UnitSet \ {u} : scratchObs'[v] = scratchObs[v]
  <1>1. Rows[u] \in Nat /\ BatchRows = [v \in {u} |-> Rows[v]]
    BY OnboardingAssumption DEF BatchRows
  <1>2. \A v \in UnitSet : scratchObs[v] \in Nat
    BY DEF TypeInv
  <1> DEFINE Goal == /\ scratchObs'[u] <= Rows[u]
                     /\ \A v \in UnitSet \ {u} : scratchObs'[v] = scratchObs[v]
  <1>3. ASSUME NEW rows, DOMAIN rows = {u}, rows[u] \in Int, rows[u] <= Rows[u], Lands(rows)
        PROVE  Goal
    <2>1. scratchObs'[u] = 0 + rows[u]
      BY <1>3 DEF Lands
    <2>2. \A v \in UnitSet \ {u} : scratchObs'[v] = scratchObs[v] + 0
      BY <1>3 DEF Lands
    <2> QED BY <1>2, <1>3, <2>1, <2>2
  <1> SUFFICES Goal
    OBVIOUS
  <1> HIDE DEF Goal
  <1>4. CASE Lands(BatchRows)
    <2>1. /\ DOMAIN BatchRows = {u} /\ BatchRows[u] = Rows[u]
          /\ BatchRows[u] \in Int /\ BatchRows[u] <= Rows[u]
      BY <1>1
    <2> QED BY <1>3, <1>4, <2>1
  <1>5. CASE Lands([BatchRows EXCEPT ![u] = @ - 1])
    <2> DEFINE rows == [BatchRows EXCEPT ![u] = @ - 1]
    <2>1. DOMAIN rows = {u} /\ rows[u] \in Int /\ rows[u] <= Rows[u]
      <3>1. DOMAIN rows = {u} /\ rows[u] = Rows[u] - 1
        BY <1>1
      <3> HIDE DEF rows
      <3> QED BY <1>1, <3>1
    <2>2. Lands(rows)
      BY <1>5
    <2> HIDE DEF rows
    <2> QED BY <1>3, <2>1, <2>2
  <1>6. Lands(BatchRows) \/ Lands([BatchRows EXCEPT ![u] = @ - 1])
    BY DEF WriteBatch
  <1> QED BY <1>4, <1>5, <1>6

\* What DataX does with the next unit is the next piece of progress.
LEMMA WriteProgress ==
  ASSUME BatchSize = 1, TypeInv, NEW n \in 0..Len(Units), NEW w \in 0..n, Progress(n, w),
         WriteBatch
  PROVE  w + 1 \in 0..n /\ Progress(n, w + 1)'
  <1> DEFINE u == Units[w+1]
  <1>0. /\ Units \in Seq(UnitSet) /\ Len(Units) \in Nat /\ n <= Len(Units)
        /\ \A i \in 1..Len(Units) : Units[i] \in UnitSet
    BY OnboardingAssumption
  <1>1. vstep = "write" /\ toWrite # <<>> /\ toWrite = SubSeq(Units, w + 1, n)
    BY DEF WriteBatch, Progress
  <1>2. /\ w < n /\ RangeOf(Batch) = {u} /\ ReportedFor(Batch) = Rows[u]
        /\ SubSeq(toWrite, Len(Batch) + 1, Len(toWrite)) = SubSeq(Units, w + 2, n)
    BY <1>1, BatchOfOne
  <1>3. w + 1 \in 1..Len(Units) /\ w + 1 \in w+1..n /\ u \in UnitSet
    BY <1>0, <1>2
  <1>4. /\ vstep' = "write" /\ attempted' = attempted /\ verdict' = verdict
        /\ toWrite' = SubSeq(Units, w + 2, n) /\ refused' = refused
        /\ reported' = reported + Rows[u]
    BY <1>1, <1>2 DEF WriteBatch
  <1>5. reported' = Planned(w + 1)
    BY <1>0, <1>2, <1>4, OneMorePlanned DEF Progress, u
  <1>6. ASSUME refused = {}
        PROVE  /\ \A i \in 1..w+1 : scratchObs'[Units[i]] <= Rows[Units[i]]
               /\ \A i \in w+2..n : scratchObs'[Units[i]] = 0
    <2>1. /\ \A i \in 1..w : scratchObs[Units[i]] <= Rows[Units[i]]
          /\ \A i \in w+1..n : scratchObs[Units[i]] = 0
      BY <1>1, <1>6 DEF Progress
    <2>2. scratchObs[u] = 0
      BY <1>3, <2>1
    <2>3. /\ scratchObs'[u] <= Rows[u]
          /\ \A v \in UnitSet \ {u} : scratchObs'[v] = scratchObs[v]
      <3> HIDE DEF u
      <3> QED BY <1>1, <1>2, <1>3, <2>2, WriteBounds
    <2>4. \A i \in 1..n : i # w + 1 => scratchObs'[Units[i]] = scratchObs[Units[i]]
      <3> SUFFICES ASSUME NEW i \in 1..n, i # w + 1
                   PROVE  scratchObs'[Units[i]] = scratchObs[Units[i]]
        OBVIOUS
      <3>1. i \in 1..Len(Units)
        BY <1>0
      <3>2. Units[i] # u /\ Units[i] \in UnitSet
        BY <1>0, <1>3, <3>1, OnboardingAssumption
      <3> HIDE DEF u
      <3> QED BY <2>3, <3>2
    <2>5. \A i \in 1..w+1 : scratchObs'[Units[i]] <= Rows[Units[i]]
      <3> SUFFICES ASSUME NEW i \in 1..w+1
                   PROVE  scratchObs'[Units[i]] <= Rows[Units[i]]
        OBVIOUS
      <3>1. CASE i = w + 1
        BY <2>3, <3>1
      <3>2. CASE i \in 1..w
        <4>1. i \in 1..n /\ i # w + 1
          BY <1>2, <3>2
        <4>2. scratchObs'[Units[i]] = scratchObs[Units[i]]
          BY <2>4, <4>1
        <4> QED BY <2>1, <3>2, <4>2
      <3> QED BY <3>1, <3>2
    <2>6. \A i \in w+2..n : i \in w+1..n /\ i \in 1..n /\ i # w + 1
      OBVIOUS
    <2> QED BY <2>1, <2>4, <2>5, <2>6
  <1>7. w + 1 \in 0..n /\ w + 1 + 1 = w + 2
    BY <1>2
  <1> QED BY <1>4, <1>5, <1>6, <1>7 DEF Progress

\* Clearing the paths of a validate's units starts its count at nothing, unless some
\* of it stays.
LEMMA PrepareProgress ==
  ASSUME TypeInv, NEW n \in 0..Len(Units), NEW w \in 0..n, Progress(n, w), Prepare
  PROVE  Progress(n, w)'
  <1>0. Units \in Seq(UnitSet) /\ Len(Units) \in Nat /\ n <= Len(Units)
    BY OnboardingAssumption
  <1>1. vstep = "prepare" /\ vstep' = "write" /\ w = 0
    BY DEF Prepare, Progress
  <1>2. /\ UNCHANGED <<attempted, toWrite, verdict, reported>>
        /\ Deletes(RangeOf(attempted))
    BY DEF Prepare, request
  <1>3. ASSUME refused' = {}, NEW i \in 1..n PROVE scratchObs'[Units[i]] = 0
    <2>1. attempted = SubSeq(Units, 1, n)
      BY DEF Progress
    <2>2. Len(attempted) = n /\ attempted[i] = Units[i]
      BY <1>0, <2>1
    <2>3. DOMAIN attempted = 1..n
      BY <1>0, <2>1
    <2>4. Units[i] \in RangeOf(attempted)
      BY <2>2, <2>3 DEF RangeOf
    <2>5. RangeOf(attempted) \subseteq UnitSet /\ scratchObs \in [UnitSet -> Nat]
      BY DEF TypeInv, RangeOf
    <2> QED BY <1>2, <1>3, <2>4, <2>5, DeletesType
  <1> QED BY <1>1, <1>2, <1>3 DEF Progress

\* Only paths of attempted units are registered.
LEMMA RegisterProgress ==
  ASSUME TypeInv, NEW n \in 0..Len(Units), NEW w \in 0..n, Progress(n, w), RegisterScratch
  PROVE  Progress(n, w)'
  <1>0. Units \in Seq(UnitSet) /\ Len(Units) \in Nat /\ n <= Len(Units)
    BY OnboardingAssumption
  <1>1. vstep = "register" /\ vstep' = "count" /\ w = n
    BY DEF RegisterScratch, Progress
  <1>2. /\ UNCHANGED <<attempted, toWrite, verdict, reported, refused, scratchObs>>
        /\ scratch' \subseteq RangeOf(attempted)
    BY DEF RegisterScratch, request, counts
  <1>3. \A i \in n+1..Len(Units) : Units[i] \notin scratch'
    <2> SUFFICES ASSUME NEW i \in n+1..Len(Units), Units[i] \in RangeOf(attempted) PROVE FALSE
      BY <1>2
    <2>1. attempted = SubSeq(Units, 1, n)
      BY DEF Progress
    <2>2. DOMAIN attempted = 1..n /\ \A j \in 1..n : attempted[j] = Units[j]
      BY <1>0, <2>1
    <2>3. PICK j \in 1..n : Units[i] = Units[j]
      BY <2>2 DEF RangeOf
    <2>4. i \in 1..Len(Units) /\ j \in 1..Len(Units) /\ i # j
      BY <1>0
    <2> QED BY <2>3, <2>4, OnboardingAssumption
  <1> QED BY <1>1, <1>2, <1>3 DEF Progress

\* Equal counts above zero, and no rows kept from before: every row is there.
LEMMA JudgeIsRight ==
  ASSUME TypeInv, NEW n \in 0..Len(Units), NEW w \in 0..n, Progress(n, w), Judge
  PROVE  PassIsEarned'
  <1>0. UNCHANGED <<attempted, scratch, scratchObs, refused>>
    BY DEF Judge, request, counts
  <1>1. ScratchCount' = ScratchCount
    BY <1>0 DEF ScratchCount, Held
  <1> SUFFICES ASSUME verdict' = "PASS"
               PROVE  /\ ScratchCount > 0
                      /\ refused = {} => \A u \in RangeOf(attempted) : Held(u) = Rows[u]
    BY <1>0, <1>1 DEF PassIsEarned, Held, RangeOf
  <1>2. PICK counted \in {0, ScratchCount} : counted > 0 /\ counted = reported
    BY DEF Judge
  <1>3. counted = ScratchCount
    BY <1>2
  <1>4. ASSUME refused = {}, NEW u \in RangeOf(attempted) PROVE Held(u) = Rows[u]
    <2>1. /\ w = n /\ reported = Planned(n)
          /\ \A i \in 1..n : scratchObs[Units[i]] <= Rows[Units[i]]
          /\ \A i \in n+1..Len(Units) : Units[i] \notin scratch
          /\ attempted = SubSeq(Units, 1, n)
      BY <1>4 DEF Judge, Progress
    <2>2. \A i \in 1..n : Held(Units[i]) = Rows[Units[i]]
      BY <1>2, <1>3, <2>1, CountIsBounded
    <2>3. PICK i \in 1..n : u = Units[i]
      BY <1>4, <2>1, OnboardingAssumption DEF RangeOf
    <2> QED BY <2>2, <2>3
  <1> QED BY <1>2, <1>3, <1>4

\* Every step keeps CountsInv when each DataX run writes one unit.
LEMMA NextCounts ==
  ASSUME BatchSize = 1, TypeInv, CountsInv, [Next]_vars
  PROVE  CountsInv'
  <1> DEFINE Underway == vstep \in Judged => \E n \in 0..Len(Units) : \E w \in 0..n : Progress(n, w)
  <1> USE DEF CountsInv
  <1>1. ASSUME UNCHANGED <<validateVars, verdict>> PROVE CountsInv'
    BY <1>1 DEF validateVars, request, counts, Progress, PassIsEarned, ScratchCount,
       Held
  <1>2. CASE UNCHANGED vars \/ Promote \/ Load
             \/ \E c \in Creators : AskCreate(c) \/ Create(c) \/ CreateFails(c)
    BY <1>1, <1>2 DEF vars, Promote, Load, AskCreate, Create, CreateFails
  <1>3. CASE vstep' \notin Judged /\ (vstep' = "cleanup" => verdict' # "PASS")
    BY <1>3 DEF PassIsEarned
  <1>4. CASE Scaffold
    BY <1>3, <1>4 DEF Scaffold, DraftAs, validateVars, Judged
  <1>5. ASSUME NEW limit \in Limits, NEW kept \in BOOLEAN, StartValidate(limit, kept)
        PROVE  CountsInv'
    <2>1. CASE vstep' = "cleanup"
      BY <1>3, <1>5, <2>1 DEF StartValidate, Judged
    <2>2. CASE vstep' = "prepare"
      <3> DEFINE n == IF limit < Len(Units) THEN limit ELSE Len(Units)
      <3>1. n \in 0..Len(Units)
        BY OnboardingAssumption
      <3>2. Progress(n, 0)'
        BY <1>5, <2>2, NothingPlanned DEF StartValidate, Progress, FirstOf
      <3>3. 0 \in 0..n
        BY <3>1
      <3> HIDE DEF n
      <3> QED BY <2>2, <3>1, <3>2, <3>3 DEF PassIsEarned
    <2> QED BY <1>5, <2>1, <2>2 DEF StartValidate
  <1>6. CASE vstep \in Judged
    <2>1. PICK n \in 0..Len(Units) : \E w \in 0..n : Progress(n, w)
      BY <1>6
    <2>2. PICK w \in 0..n : Progress(n, w)
      BY <2>1
    <2>3. verdict = "none"
      BY <2>2 DEF Progress
    <2>4. CASE Prepare
      BY <2>2, <2>4, PrepareProgress DEF Prepare, PassIsEarned
    <2>5. CASE WriteBatch
      <3>1. w + 1 \in 0..n /\ Progress(n, w + 1)'
        BY <2>2, <2>5, WriteProgress
      <3> QED BY <2>5, <3>1 DEF WriteBatch, PassIsEarned
    <2>6. CASE StepFails \/ ValidateDies \/ ScratchDdlFails
      BY <1>3, <2>3, <2>6 DEF StepFails, ValidateDies, ScratchDdlFails, Quits, Judged
    <2>7. CASE EndWriting
      <3>1. w = n
        <4>1. toWrite = <<>> /\ toWrite = SubSeq(Units, w + 1, n)
          BY <2>2, <2>7 DEF EndWriting, Progress
        <4> QED BY <4>1, OnboardingAssumption
      <3>2. vstep = "write" /\ vstep' = "register"
        BY <2>7 DEF EndWriting
      <3>3. Progress(n, w)'
        BY <2>2, <2>7, <3>1, <3>2 DEF EndWriting, Progress, request, counts
      <3> QED BY <2>2, <3>2, <3>3 DEF PassIsEarned
    <2>8. CASE RegisterScratch
      BY <2>2, <2>8, RegisterProgress DEF RegisterScratch, PassIsEarned
    <2>9. CASE Judge
      BY <2>2, <2>9, JudgeIsRight DEF Judge, Judged
    <2>10. CASE KeepScratch \/ DropScratch \/ Sweep \/ SweepFails
      BY <1>6, <2>10 DEF KeepScratch, DropScratch, Sweep, SweepFails, Quits, Judged
    <2> QED BY <1>2, <1>4, <1>5, <2>4, <2>5, <2>6, <2>7, <2>8, <2>9, <2>10 DEF Next, ValidateStep
  <1>7. CASE vstep \notin Judged /\ (ValidateStep \/ ValidateDies \/ ScratchDdlFails)
    BY <1>3, <1>7 DEF ValidateStep, ValidateDies, ScratchDdlFails, Prepare, WriteBatch, StepFails,
       EndWriting, RegisterScratch, Judge, KeepScratch, DropScratch, Sweep, SweepFails, Quits,
       Judged
  <1> QED BY <1>2, <1>4, <1>5, <1>6, <1>7 DEF Next

\* PassIsEarned holds for any units, rows, failures and leftovers of earlier validations,
\* when each DataX run writes one unit, so that its share of the count is its own: also
\* where deletions are incomplete and nobody notices, there is a row, and where they are
\* not, every row.
THEOREM PassesAreEarned == BatchSize = 1 => (Spec => []PassIsEarned)
  <1> SUFFICES ASSUME BatchSize = 1 PROVE Spec => []PassIsEarned
    OBVIOUS
  <1>1. Init => TypeInv /\ CountsInv
    <2>1. Init => CountsInv
      BY DEF Init, CountsInv, Judged, PassIsEarned
    <2> QED BY <2>1, InitTypeInv
  <1>2. TypeInv /\ CountsInv /\ [Next]_vars => (TypeInv /\ CountsInv)'
    BY NextTypeInv, NextCounts
  <1>3. CountsInv => PassIsEarned
    BY DEF CountsInv
  <1> QED BY <1>1, <1>2, <1>3, PTL DEF Spec

----------------------------------------------------------------------------
(* What create-target leaves alone *)

\* Only one operator runs create-target, and DESCRIBE answers.
CarefulCreator == "describe" \notin FaultKinds /\ \A c, d \in Creators : c = d

\* A create-target that was not forced found no table.
AskedOnlyForNew ==
  /\ DOMAIN creating = Creators
  /\ \A c \in Creators : creating[c] # NoSpec /\ ~creating[c].forced => table = NoTable

\* Initially no create-target is under way.
LEMMA InitAsked == Init => AskedOnlyForNew
  BY DEF Init, AskedOnlyForNew

\* DESCRIBE tells the truth where it does not fail.
LEMMA SeenIsThere ==
  ASSUME CarefulCreator, NEW exists \in BOOLEAN, Seen(exists)
  PROVE  exists = (table # NoTable)
  BY DEF Seen, Fault, CarefulCreator

\* What steps other than create-target's and Load change of a table: nothing.
LEMMA OthersLeaveTable ==
  ASSUME Scaffold \/ Promote \/ ScratchDdlFails \/ ValidateStep \/ ValidateDies
         \/ (\E limit \in Limits, kept \in BOOLEAN : StartValidate(limit, kept))
  PROVE  UNCHANGED <<table, registered, creating>>
  BY DEF Scaffold, DraftAs, Promote, ScratchDdlFails, ValidateStep, ValidateDies,
     StartValidate, Prepare, WriteBatch, StepFails, EndWriting, RegisterScratch, Judge,
     KeepScratch, DropScratch, Sweep, SweepFails, Unmoved, tableVars, validateVars

\* Every step keeps AskedOnlyForNew and changes a table as TableStaysUnlessForced says.
LEMMA NextAsked ==
  ASSUME CarefulCreator, AskedOnlyForNew, [Next]_vars
  PROVE  /\ AskedOnlyForNew'
         /\ table # NoTable /\ (table' # table \/ (registered /\ ~registered')) =>
              \E c \in Creators :
                creating[c] # NoSpec /\ creating[c].forced /\ creating'[c] = NoSpec
  <1> DEFINE Goal ==
        /\ AskedOnlyForNew'
        /\ table # NoTable /\ (table' # table \/ (registered /\ ~registered')) =>
             \E c \in Creators :
                creating[c] # NoSpec /\ creating[c].forced /\ creating'[c] = NoSpec
  <1> SUFFICES Goal
    OBVIOUS
  <1>1. ASSUME UNCHANGED <<table, registered, creating>> PROVE Goal
    BY <1>1 DEF AskedOnlyForNew
  <1>2. CASE UNCHANGED vars
    BY <1>1, <1>2 DEF vars, tableVars
  <1>3. CASE Load
    BY <1>3 DEF Load, AskedOnlyForNew
  <1>4. ASSUME NEW c \in Creators, AskCreate(c) PROVE Goal
    <2>1. PICK exists \in BOOLEAN, force \in BOOLEAN :
            /\ Seen(exists) /\ MayReplace(exists, force)
            /\ creating' = [creating EXCEPT ![c] = [spec |-> draft, forced |-> force]]
      BY <1>4 DEF AskCreate
    <2>2. ~force => table = NoTable
      BY <2>1, SeenIsThere DEF MayReplace
    <2>3. table' = table /\ registered' = registered
      BY <1>4 DEF AskCreate, tableVars
    <2> QED
      BY <2>1, <2>2, <2>3 DEF AskedOnlyForNew
  <1>5. ASSUME NEW c \in Creators, Create(c) \/ CreateFails(c) PROVE Goal
    <2>1. creating[c] # NoSpec /\ creating' = [creating EXCEPT ![c] = NoSpec]
      BY <1>5 DEF Create, CreateFails
    <2>2. \A d \in Creators : creating'[d] = NoSpec
      BY <2>1 DEF AskedOnlyForNew, CarefulCreator
    <2>3. AskedOnlyForNew'
      BY <2>1, <2>2 DEF AskedOnlyForNew
    <2>4. table # NoTable => creating[c].forced
      BY <2>1 DEF AskedOnlyForNew
    <2> QED
      BY <2>1, <2>2, <2>3, <2>4
  <1> QED
    BY <1>1, <1>2, <1>3, <1>4, <1>5, OthersLeaveTable DEF Next

\* TableStaysUnlessForced holds for one careful operator.
THEOREM TablesStay == CarefulCreator => (Spec => TableStaysUnlessForced)
  <1> SUFFICES ASSUME CarefulCreator PROVE Spec => TableStaysUnlessForced
    OBVIOUS
  <1>1. AskedOnlyForNew /\ [Next]_vars => AskedOnlyForNew'
    BY NextAsked
  <1>2. AskedOnlyForNew /\ [Next]_vars =>
          [table # NoTable /\ (table' # table \/ (registered /\ ~registered')) =>
             \E c \in Creators :
                creating[c] # NoSpec /\ creating[c].forced /\ creating'[c] = NoSpec]_vars
    BY NextAsked
  <1> QED
    BY InitAsked, <1>1, <1>2, PTL DEF Spec, TableStaysUnlessForced

----------------------------------------------------------------------------
(* What validate leaves behind *)

\* The scratch table is gone before the sweep that counts as a clean end.
SweepHolds ==
  /\ vstep = "sweep" => scratch = NoTable
  /\ ScratchIsCleared

\* Every step keeps SweepHolds when the table's name has no upper case.
LEMMA NextSweeps ==
  ASSUME LowerTableName, scratchObs \in [UnitSet -> Nat], SweepHolds, [Next]_vars
  PROVE  SweepHolds'
  <1> USE DEF SweepHolds, ScratchIsCleared
  <1>1. CASE UNCHANGED <<vstep, scratch, scratchObs, refused>>
    BY <1>1
  <1>2. CASE Sweep
    <2>1. vstep' = "ended" => vstep = "sweep"
      BY <1>2 DEF Sweep
    <2>2. scratch' = scratch /\ vstep' \in {"ended", "off"}
      BY <1>2 DEF Sweep
    <2>3. \A u \in UnitSet \ refused' : scratchObs'[u] = 0
      BY <1>2, DeletesType DEF Sweep, Swept
    <2> QED
      BY <2>1, <2>2, <2>3
  <1>3. CASE DropScratch
    BY <1>3 DEF DropScratch
  <1>4. CASE vstep' \notin {"sweep", "ended"}
    BY <1>4
  <1>5. CASE ValidateStep \/ ValidateDies \/ ScratchDdlFails
    BY <1>1, <1>2, <1>3, <1>4, <1>5 DEF ValidateStep, ValidateDies, ScratchDdlFails, Prepare,
       WriteBatch, StepFails, EndWriting, RegisterScratch, Judge, KeepScratch, SweepFails,
       Quits
  <1>6. ASSUME NEW limit \in Limits, NEW kept \in BOOLEAN, StartValidate(limit, kept)
        PROVE  SweepHolds'
    BY <1>4, <1>6 DEF StartValidate
  <1>7. CASE Scaffold \/ Promote \/ Load \/ UNCHANGED vars
             \/ \E c \in Creators : AskCreate(c) \/ Create(c) \/ CreateFails(c)
    BY <1>1, <1>7 DEF Scaffold, DraftAs, Promote, Load, AskCreate, Create, CreateFails,
       validateVars, counts, vars
  <1> QED
    BY <1>5, <1>6, <1>7 DEF Next

\* ScratchIsCleared holds, whatever died or was kept before and whatever the object
\* store refuses, as long as the table's name has no upper case.
THEOREM ValidateCleansUp == LowerTableName => (Spec => []ScratchIsCleared)
  <1> SUFFICES ASSUME LowerTableName PROVE Spec => []ScratchIsCleared
    OBVIOUS
  <1>1. Init => TypeInv /\ SweepHolds
    BY InitTypeInv DEF Init, SweepHolds, ScratchIsCleared
  <1>2. TypeInv /\ SweepHolds /\ [Next]_vars => (TypeInv /\ SweepHolds)'
    BY NextTypeInv, NextSweeps DEF TypeInv
  <1>3. SweepHolds => ScratchIsCleared
    BY DEF SweepHolds
  <1> QED
    BY <1>1, <1>2, <1>3, PTL DEF Spec
===============================================================================
