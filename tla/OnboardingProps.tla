--------------------------- MODULE OnboardingProps ---------------------------
(* What the way from the legacy configuration to jobs/ guarantees. *)
EXTENDS Onboarding

Names == Columns \X Spellings

\* The values each variable takes.
TypeOK ==
  /\ keyCase \in Spellings /\ types \in TypeChoices
  /\ (table = NoTable \/ RangeOf(table) \subseteq Columns \ {Key})
  /\ \A f \in files : RangeOf(f) \subseteq Columns
  /\ {registered, keep, halfReplaced} \subseteq BOOLEAN
  /\ \A s \in {draft, job} \ {NoSpec} :
       s.dynamic \in Names /\ RangeOf(s.columns) \subseteq Names
  /\ \A c \in Creators : creating[c] # NoSpec =>
       creating[c].forced \in BOOLEAN /\ RangeOf(creating[c].spec.columns) \subseteq Names
  /\ vstep \in {"off", "ended", "prepare", "write", "register", "count", "cleanup",
                "sweep", "sweep_left"}
  /\ verdict \in {"none", "PASS", "FAIL"} /\ reported \in Nat /\ faults \in Nat
  /\ (scratch = NoTable \/ scratch \subseteq UnitSet) /\ refused \subseteq UnitSet
  /\ scratchObs \in [UnitSet -> Nat]

\* Every file under the table's location holds, at the position of each of the
\* table's columns, that column: over re-scaffolding, replacing and re-promoting
\* and however the partition column is spelled, unless a replacement ended
\* between DROP and CREATE.
PositionsAgree ==
  table # NoTable /\ ~halfReplaced =>
    \A f \in files : Len(table) <= Len(f) /\ \A i \in 1..Len(table) : f[i] = table[i]

\* PASS: the scratch table holds some rows, and of each attempted unit all of them and
\* no more, whatever earlier validations that died or kept their scratch left under
\* the same paths, unless the object store refused to delete some of that and nobody
\* noticed: what is left then may stand in for what DataX loses.
PassIsEarned ==
  vstep = "cleanup" /\ verdict = "PASS" =>
    ScratchCount > 0 /\ (refused = {} => \A u \in RangeOf(attempted) : Held(u) = Rows[u])

\* "Tears the scratch Hive table + OBS data down afterward": a validate whose
\* cleanup did not fail leaves nothing, also of those that died before it, but what
\* the object store itself refused to delete just then.
ScratchIsCleared ==
  vstep = "ended" => scratch = NoTable /\ \A u \in UnitSet \ refused : scratchObs[u] = 0

\* "Refuses to touch an already-existing table unless --force is passed": no
\* other step changes a table that is there or takes its partitions away.
TableStaysUnlessForced ==
  [][table # NoTable /\ (table' # table \/ (registered /\ ~registered')) =>
       \E c \in Creators :
         creating[c] # NoSpec /\ creating[c].forced /\ creating'[c] = NoSpec]_vars

\* A validate that has started comes to its end, through its cleanup, whatever
\* fails on the way.
ValidateEnds == vstep = "prepare" ~> vstep \in {"off", "ended"}
=============================================================================
