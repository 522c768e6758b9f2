---------------------------- MODULE PartsProofs -----------------------------
(***************************************************************************)
(* The run of all parts is a run of each.  What the other modules prove of *)
(* a part therefore holds in MCParts, whose bounds on what two commands do *)
(* at once only take steps away.                                           *)
(***************************************************************************)
EXTENDS MCParts, ContentProofs, ServiceProofs, ConfigProofs

-----------------------------------------------------------------------------
(* Each part begins as in its own module.  The wire of a behaviour that is *)
(* about something else has the empty tree.                                *)

LEMMA EmptyTreeIsSent == <<>> \in SomeTrees
<1> DEFINE TreesOver(ps) == [ps -> {File(s, c) : s \in {0, 24}, c \in {<<>>} \cup {<<h>> : h \in Said}}
                                   \cup {Dir(h) : h \in Said}]
           Shown == {q \in SUBSET (PathNames \ BadPaths) :
                       IsFiniteSet(q) /\ Cardinality(q) <= MaxEntries}
<1>1. {} \in Shown
  BY FS_EmptySet, WireAssumption
<1>2. SomeTrees = UNION {TreesOver(ps) : ps \in Shown}
  BY DEF SomeTrees
<1>3. <<>> \in TreesOver({})
  <2>1. DOMAIN <<>> = {}
    OBVIOUS
  <2> QED
    BY <2>1
<1> QED
  BY <1>1, <1>2, <1>3

LEMMA PartsBegin ==
  PartsInit => /\ Init /\ WatchInit /\ UpkeepInit /\ ConfigInit /\ ReplicasInit
               /\ WireInit
<1> SUFFICES ASSUME PartsInit PROVE WireInit
  BY DEF PartsInit
<1>1. CASE scene = "wire"
  BY <1>1 DEF PartsInit
<1>2. CASE scene # "wire"
  <2>1. object = [kind |-> "tree", value |-> <<>>] /\ wire = Encode(object) /\ edits = 0
    BY <1>2 DEF PartsInit
  <2> QED
    BY <2>1, EmptyTreeIsSent DEF WireInit
<1> QED
  BY <1>1, <1>2

-----------------------------------------------------------------------------
(* A step of the run is one of each part, or leaves the part alone.        *)

LEMMA MergeStands == [PartsNext]_partsVars => [Step]_vars
BY DEF PartsNext, Frozen, partsVars

LEMMA WatchStands == [PartsNext]_partsVars => [WatchNext]_watchVars
BY DEF PartsNext, Frozen, partsVars

LEMMA UpkeepStands == [PartsNext]_partsVars => [UpkeepNext]_upkeepVars
BY DEF PartsNext, Frozen, partsVars

LEMMA ConfigStands == [PartsNext]_partsVars => [ConfigNext]_configVars
BY DEF PartsNext, Frozen, partsVars

LEMMA ReplicasStand == [PartsNext]_partsVars => [ReplicasNext]_replicasVars
BY DEF PartsNext, Frozen, partsVars

LEMMA WireStands == [PartsNext]_partsVars => [WireNext]_wireVars
BY DEF PartsNext, Frozen, partsVars

\* The run implements every part, but for the fairness of the watcher, which
\* it grants where the watcher is what runs.
THEOREM RunIsOfEachPart ==
  PartsSpec => Spec /\ WatchSteps /\ UpkeepSpec /\ ConfigSpec /\ ReplicasSpec /\ WireSpec
BY PartsBegin, MergeStands, WatchStands, UpkeepStands, ConfigStands, ReplicasStand,
   WireStands, PTL
DEF PartsSpec, Spec, WatchSteps, UpkeepSpec, ConfigSpec, ReplicasSpec, WireSpec

\* Whichever part runs keeps its types.
THEOREM PartsTypes == PartsSpec => []PartsTypeOK
<1>1. TypeOK /\ WatchTypeOK /\ UpkeepTypeOK /\ ConfigTypeOK /\ ReplicasTypeOK /\ WireTypeOK
        => PartsTypeOK
  BY DEF PartsTypeOK
<1> QED
  BY <1>1, RunIsOfEachPart, LoopTypes, TypesOfSteps, UpkeepTypes, ConfigTypes,
     ReplicasTypes, WireTypes, PTL

\* All the safety that the run checks, for every value of the constants; what
\* is said of a merge, where none has touched the two folders before.
THEOREM PartsAreSafe ==
  PartsSpec =>
    /\ []Tracked /\ Debounced
    /\ []RegistryIsNewest /\ []RetentionHolds /\ []GapBounded /\ SnapshotsApart
    /\ []KeyKept /\ []Openable /\ []PlainKeyGone /\ []MinAgrees /\ []SignatureCovers
    /\ []NotedStays /\ []PreferredFirst /\ []LossIsCritical
    /\ []OneWirePerObject
    /\ Apart => []KeepsOurs /\ []KeepsTheirs /\ []CountsConflicts /\ []Remerging
<1>1. PartsSpec =>
        /\ []Tracked /\ Debounced
        /\ []RegistryIsNewest /\ []RetentionHolds /\ []GapBounded /\ SnapshotsApart
  BY RunIsOfEachPart, TrackedBySteps, ApartBySteps, RegistryStaysNewest, RetentionIsKept,
     GapIsBounded, SnapshotsStayApart, PTL
<1>2. PartsSpec =>
        []KeyKept /\ []Openable /\ []PlainKeyGone /\ []MinAgrees /\ []SignatureCovers
  BY RunIsOfEachPart, KeyIsKept, StaysOpenable, PlainKeyIsGone, PolicyAgrees,
     SignaturesCover, PTL
<1>3. PartsSpec => []NotedStays /\ []PreferredFirst /\ []LossIsCritical /\ []OneWirePerObject
  BY RunIsOfEachPart, NotesStay, PreferredGoFirst, LossIsReported, WiresAreCanonical, PTL
<1>4. Apart /\ PartsSpec => []KeepsOurs /\ []KeepsTheirs /\ []CountsConflicts /\ []Remerging
  BY RunIsOfEachPart, OursStay, TheirsAreKept, CountIsExact, MergingAgainChangesNothing, PTL
<1> QED
  BY <1>1, <1>2, <1>3, <1>4, PTL
=============================================================================
