------------------------------- MODULE Sketch -------------------------------
(***************************************************************************)
(* The count-min sketch of src/db/admission/count_min_sketch.rs: 4-bit     *)
(* counters ("lanes") packed into 64-bit words, incremented and halved by  *)
(* bounded compare-and-swap loops of any number of threads.  A word is the *)
(* packed integer, as in the code (SketchLayout.tla).  Each load, each     *)
(* compare-and-swap and each access to adds or aging_active is a step.     *)
(***************************************************************************)
EXTENDS SketchLayout, FiniteSets, FiniteSetsExt

CONSTANTS
  Threads,
  MaxTries,   \* MAX_CAS_TRIES
  MaxAdds     \* bound: adds is not counted beyond this

ASSUME SketchConstants ==
  /\ IsFiniteSet(Threads)
  /\ MaxTries \in Nat \ {0}
  /\ MaxAdds \in Nat /\ MaxAdds >= ResetAt

VARIABLES
  words,  \* the packed counters
  adds,   \* increments since the last aging
  aging,  \* aging_active
  pc,
  hash,   \* the argument of its call
  nth,    \* which index of the hash it is to increment
  at,     \* the word a thread works on
  old,    \* the value it has loaded
  tries,  \* its attempts at this word
  seen,       \* history: the calls that counted a hash, halved with each aging
  overlapped  \* history: two calls have been in flight at once

sketchVars == <<words, adds, aging, pc, hash, nth, at, old, tries, seen>>

GetAt(i) == LaneOf(words[WordOf(i)], i % WordLanes)

Init ==
  /\ words = [w \in Words |-> 0]
  /\ adds = 0
  /\ aging = FALSE
  /\ pc = [t \in Threads |-> "idle"]
  /\ hash = [t \in Threads |-> CHOOSE h \in Hashes : TRUE]
  /\ nth = [t \in Threads |-> 1]
  /\ at = [t \in Threads |-> 0]
  /\ old = [t \in Threads |-> 0]
  /\ tries = [t \in Threads |-> 0]
  /\ seen = [h \in Hashes |-> 0]

Goto(t, from, to) == pc[t] = from /\ pc' = [pc EXCEPT ![t] = to]

-----------------------------------------------------------------------------
(* increment: maybe_reset first *)

Increment(t, h) ==
  /\ Goto(t, "idle", IF adds < ResetAt THEN "inc" ELSE "guard")
  /\ hash' = [hash EXCEPT ![t] = h]
  /\ UNCHANGED <<words, adds, aging, nth, at, old, tries, seen>>

\* Whoever wins aging_active may age.
Guard(t) ==
  /\ Goto(t, "guard", IF aging THEN "inc" ELSE "recheck")
  /\ aging' = TRUE
  /\ UNCHANGED <<words, adds, hash, nth, at, old, tries, seen>>

\* "Double-check under the guard."
Due_Assumed(t) == t \in Threads
Due(t) == adds >= ResetAt

Recheck(t) ==
  /\ Goto(t, "recheck", IF Due(t) THEN "age" ELSE "release")
  /\ at' = [at EXCEPT ![t] = 0]
  /\ UNCHANGED <<words, adds, aging, hash, nth, old, tries, seen>>

-----------------------------------------------------------------------------
(* reset: the words in order, each halved lane by lane *)

\* new = (old >> 1) & MASK_NIBBLES_64
Halved_Carry(word) == word \div 2
Halved(word) == Masked(word \div 2)

AgeLoad(t) ==
  /\ Goto(t, "age", "age_cas")
  /\ old' = [old EXCEPT ![t] = words[at[t]]]
  /\ UNCHANGED <<words, adds, aging, hash, nth, at, tries, seen>>

\* This word is done or given up on.
NextWord(t) ==
  /\ pc[t] = "age_cas"
  /\ tries' = [tries EXCEPT ![t] = 0]
  /\ IF at[t] + 1 \in Words
     THEN at' = [at EXCEPT ![t] = @ + 1] /\ pc' = [pc EXCEPT ![t] = "age"]
     ELSE at' = [at EXCEPT ![t] = 0] /\ pc' = [pc EXCEPT ![t] = "zero"]
  /\ UNCHANGED <<adds, aging, hash, nth, seen>>

AgeSwap(t) ==
  /\ words[at[t]] = old[t]
  /\ words' = [words EXCEPT ![at[t]] = Halved(@)]
  /\ old' = [old EXCEPT ![t] = 0]
  /\ NextWord(t)

\* A lost compare-and-swap: again, as often as MaxTries says.
Again(t) == tries[t] + 1 < MaxTries
Retry(t, from, to) ==
  /\ Again(t)
  /\ Goto(t, from, to)
  /\ tries' = [tries EXCEPT ![t] = Min({@ + 1, MaxTries})]
  /\ UNCHANGED <<words, adds, aging, hash, nth, at, seen>>

AgeLost(t) ==
  /\ pc[t] = "age_cas"
  /\ words[at[t]] # old[t]
  /\ old' = [old EXCEPT ![t] = 0]
  /\ \/ Retry(t, "age_cas", "age")
     \/ ~Again(t) /\ NextWord(t) /\ UNCHANGED words

Zero(t) ==
  /\ Goto(t, "zero", "release")
  /\ adds' = 0
  /\ seen' = [h \in Hashes |-> seen[h] \div 2]
  /\ UNCHANGED <<words, aging, hash, nth, at, old, tries>>

Release(t) ==
  /\ Goto(t, "release", "inc")
  /\ aging' = FALSE
  /\ UNCHANGED <<words, adds, hash, nth, at, old, tries, seen>>

-----------------------------------------------------------------------------
(* inc_at, once for every index of the hash *)

MoreLanes(t) == nth[t] <= Len(Indices[hash[t]])
Lane(t) == Indices[hash[t]][nth[t]]

\* This lane is done or given up on.
NextLane(t) ==
  /\ nth' = [nth EXCEPT ![t] = @ + 1]
  /\ tries' = [tries EXCEPT ![t] = 0]
  /\ UNCHANGED <<adds, aging, hash, at, seen>>

Saturated_Early(t) == GetAt(Lane(t)) >= Top - 1
Saturated(t) == GetAt(Lane(t)) = Top

IncLoad(t) ==
  /\ MoreLanes(t)
  /\ IF Saturated(t)
     THEN pc[t] = "inc" /\ NextLane(t) /\ UNCHANGED <<pc, old>>
     ELSE /\ Goto(t, "inc", "inc_cas")
          /\ old' = [old EXCEPT ![t] = words[WordOf(Lane(t))]]
          /\ UNCHANGED <<adds, aging, hash, nth, at, tries, seen>>
  /\ UNCHANGED words

IncSwap(t) ==
  LET i == Lane(t)  w == WordOf(i) IN
  /\ Goto(t, "inc_cas", "inc")
  /\ words[w] = old[t]
  /\ words' = [words EXCEPT ![w] = (@ + One(i)) % Place(WordLanes)]
  /\ old' = [old EXCEPT ![t] = 0]
  /\ NextLane(t)

IncLost(t) ==
  /\ pc[t] = "inc_cas"
  /\ words[WordOf(Lane(t))] # old[t]
  /\ old' = [old EXCEPT ![t] = 0]
  /\ \/ Retry(t, "inc_cas", "inc")
     \/ ~Again(t) /\ Goto(t, "inc_cas", "inc") /\ NextLane(t) /\ UNCHANGED words

IncDone(t) ==
  /\ ~MoreLanes(t)
  /\ Goto(t, "inc", "idle")
  /\ adds' = Min({adds + 1, MaxAdds})
  /\ seen' = [seen EXCEPT ![hash[t]] = Min({@ + 1, Top})]
  /\ nth' = [nth EXCEPT ![t] = 1]
  /\ UNCHANGED <<words, aging, hash, at, old, tries>>

-----------------------------------------------------------------------------

Continue(t) ==
  \/ Guard(t) \/ Recheck(t)
  \/ AgeLoad(t) \/ AgeSwap(t) \/ AgeLost(t) \/ Zero(t) \/ Release(t)
  \/ IncLoad(t) \/ IncSwap(t) \/ IncLost(t) \/ IncDone(t)

Next == \E t \in Threads : (\E h \in Hashes : Increment(t, h)) \/ Continue(t)

Spec == Init /\ [][Next]_sketchVars

\* The same, with an eye on whether the calls have taken turns so far.
Busy == {t \in Threads : pc[t] # "idle"}
TurnsInit == Init /\ overlapped = FALSE
TurnsNext == Next /\ overlapped' = (overlapped \/ Cardinality(Busy') > 1)
TurnsSpec == TurnsInit /\ [][TurnsNext]_<<sketchVars, overlapped>>

\* estimate
Estimate(h) == Min({GetAt(Indices[h][i]) : i \in 1..Len(Indices[h])})

-----------------------------------------------------------------------------
(* Properties *)

\* Whatever two threads do to a word at the same time, its lanes change as
\* separate counters: one lane by one, or all of them halved.  No increment
\* carries into the neighbour and no halving shifts a bit into it.
Separately(a, b) ==
  \/ \E j \in DOMAIN a : a[j] < Top /\ b = [a EXCEPT ![j] = @ + 1]
  \/ b = [j \in DOMAIN a |-> a[j] \div 2]
LaneSteps ==
  [][\A w \in Words :
       words'[w] # words[w] => Separately(Unpacked(words[w]), Unpacked(words'[w]))]_sketchVars

\* Threads age in turns, and only when a whole window of increments has passed: a
\* thread that found the window full before another one aged does not halve
\* the counters again ("Triggers aging once per window").
AgingEarned ==
  LET Agers == {t \in Threads : pc[t] \in {"age", "age_cas", "zero"}} IN
  /\ Cardinality(Agers) <= 1
  /\ Agers # {} => adds >= ResetAt

\* Between two calls the sketch never counts less than was seen (up to
\* saturation, halved with every aging): the promise of a count-min sketch.
NeverUndercounts ==
  (\A t \in Threads : pc[t] = "idle") => \A h \in Hashes : Estimate(h) >= seen[h]

\* Calls that take turns never undercount, through saturation and aging.  (A
\* contended increment may give up.)
SequentialNeverUndercounts == ~overlapped => NeverUndercounts
=============================================================================
