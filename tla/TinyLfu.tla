------------------------------- MODULE TinyLfu -------------------------------
(***************************************************************************)
(* The admission filter of src/db/admission/tiny_lfu.rs: shards, each a    *)
(* doorkeeper (door_keeper.rs) in front of a count-min sketch.  A call is  *)
(* one step here: what threads may do to each other inside the sketch is   *)
(* the subject of Sketch.tla.  The counters of a sketch are its lanes.     *)
(***************************************************************************)
EXTENDS SketchLayout, FiniteSets, FiniteSetsExt

CONSTANTS
  NumShards,  \* shards.len()
  ShardOf,    \* hash -> h & mask
  Bits,       \* bits of a doorkeeper
  Probes      \* hash -> the bits of its three mixed indices

Shards == 0..(NumShards - 1)

ASSUME LfuConstants ==
  /\ NumShards \in Nat \ {0}
  /\ ShardOf \in [Hashes -> Shards]
  /\ \A h \in Hashes : Probes[h] \subseteq Bits /\ Probes[h] # {}

VARIABLES
  door,   \* shard -> bits set
  count,  \* shard -> lane -> counter
  added,  \* shard -> increments since the last aging
  freq    \* history: how often a hash was recorded, capped

lfuVars == <<door, count, added, freq>>

LfuInit ==
  /\ door = [s \in Shards |-> {}]
  /\ count = [s \in Shards |-> [i \in Lanes |-> 0]]
  /\ added = [s \in Shards |-> 0]
  /\ freq = [h \in Hashes |-> 0]

-----------------------------------------------------------------------------

\* probably_seen: all probed bits are set.
ProbablySeen_Any(h) == Probes[h] \cap door[ShardOf[h]] # {}
ProbablySeen(h) == Probes[h] \subseteq door[ShardOf[h]]

\* maybe_reset and reset: the lanes are halved, the doorkeeper is not touched.
Aged_Never(s) == [lanes |-> count[s], adds |-> IF added[s] >= ResetAt THEN 0 ELSE added[s]]
Aged(s) ==
  IF added[s] >= ResetAt
  THEN [lanes |-> [i \in Lanes |-> count[s][i] \div 2], adds |-> 0]
  ELSE [lanes |-> count[s], adds |-> added[s]]

\* inc_at of one index after the other; an index that occurs twice counts twice.
Counted(lanes, h) ==
  LET Times(i) == Cardinality({j \in 1..Len(Indices[h]) : Indices[h][j] = i}) IN
  [i \in Lanes |-> Min({lanes[i] + Times(i), Top})]

\* record: the first sighting only opens the door.
Record(h) ==
  LET s == ShardOf[h]  aged == Aged(s) IN
  /\ freq' = [freq EXCEPT ![h] = Min({@ + 1, Top + 1})]
  /\ IF ProbablySeen(h)
     THEN /\ count' = [count EXCEPT ![s] = Counted(aged.lanes, h)]
          /\ added' = [added EXCEPT ![s] = aged.adds + 1]
          /\ UNCHANGED door
     ELSE /\ door' = [door EXCEPT ![s] = @ \cup Probes[h]]
          /\ UNCHANGED <<count, added>>

\* estimate in the sketch of shard s
EstimateIn(s, h) == Min({count[s][Indices[h][i]] : i \in 1..Len(Indices[h])})

\* allow: both estimates come from the sketch of the candidate's shard.
Allow(c, v) ==
  /\ ProbablySeen(c)
  /\ EstimateIn(ShardOf[c], c) > EstimateIn(ShardOf[c], v)

LfuNext == \E h \in Hashes : Record(h)

LfuSpec == LfuInit /\ [][LfuNext]_lfuVars

\* Requests keep coming.
FairSpec == LfuSpec /\ WF_lfuVars(LfuNext)

-----------------------------------------------------------------------------
(* Properties *)

\* The doorkeeper keeps one-hit wonders out: a key is admitted only if all
\* its counters count keys that were recorded twice, where no key's bits are
\* covered by those of the others.
DoorSeparates ==
  \A h \in Hashes :
    ~(Probes[h] \subseteq UNION {Probes[g] : g \in {g \in Hashes \ {h} : ShardOf[g] = ShardOf[h]}})
CountedIn(h, i) == \E j \in 1..Len(Indices[h]) : Indices[h][j] = i
OneHitWondersStayOut ==
  DoorSeparates =>
    \A c, v \in Hashes : Allow(c, v) =>
      \A i \in Lanes : CountedIn(c, i) =>
        \E g \in Hashes : ShardOf[g] = ShardOf[c] /\ freq[g] >= 2 /\ CountedIn(g, i)

\* Aging forgets: once one key is asked for and the others no more, it may
\* replace every key it does not share all counters with, again and again,
\* however popular that key has been.
NewcomersWin ==
  \A c, v \in Hashes :
    /\ ShardOf[c] = ShardOf[v]
    /\ \E i \in Lanes : CountedIn(v, i) /\ ~CountedIn(c, i)
    => ([]<><<Record(c)>>_lfuVars /\ <>[][Record(c)]_lfuVars => []<>Allow(c, v))
=============================================================================
