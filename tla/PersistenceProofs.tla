-------------------------- MODULE PersistenceProofs -------------------------
(***************************************************************************)
(* Proofs about dump and load, for any number of shards, versions to keep, *)
(* lives of the process and I/O errors.                                    *)
(***************************************************************************)
EXTENDS Persistence, SequenceTheorems, WellFoundedInduction, TLAPS

Dir == [num : 1..MaxRuns, files : SUBSET File]
Dump == [run : 1..MaxRuns, num : 1..MaxRuns, ok : BOOLEAN, snap : [Shards -> Values]]

-----------------------------------------------------------------------------
(* Directories *)

\* Numbers, FilesOf and the uniqueness of numbers for any sequence of directories.
NumbersIn(D) == {D[i].num : i \in DOMAIN D}
FilesIn(D, n) == UNION {D[i].files : i \in {j \in DOMAIN D : D[j].num = n}}
Distinct(D) == \A i, j \in DOMAIN D : D[i].num = D[j].num => i = j

\* Dropping the i-th element.
LEMMA RemoveAtProps ==
  ASSUME NEW S, NEW q \in Seq(S), NEW i \in 1..Len(q)
  PROVE  /\ RemoveAt(q, i) \in Seq(S)
         /\ Len(RemoveAt(q, i)) = Len(q) - 1
         /\ \A j \in 1..(Len(q) - 1) :
              RemoveAt(q, i)[j] = IF j < i THEN q[j] ELSE q[j + 1]
<1> DEFINE a == SubSeq(q, 1, i - 1)
           b == SubSeq(q, i + 1, Len(q))
<1>1. /\ a \in Seq(S) /\ Len(a) = i - 1
      /\ \A j \in 1..(i - 1) : a[j] = q[j]
  BY SubSeqProperties
<1>2. /\ b \in Seq(S) /\ Len(b) = Len(q) - i
      /\ \A j \in 1..(Len(q) - i) : b[j] = q[i + j]
  BY SubSeqProperties
<1> HIDE DEF a, b
<1>3. Len(q) \in Nat /\ Len(a) \in Nat /\ Len(b) \in Nat
  BY <1>1, <1>2
<1>4. /\ a \o b \in Seq(S)
      /\ Len(a \o b) = Len(a) + Len(b)
      /\ \A j \in 1..(Len(a) + Len(b)) :
           (a \o b)[j] = IF j <= Len(a) THEN a[j] ELSE b[j - Len(a)]
  BY <1>1, <1>2, ConcatProperties
<1>5. ASSUME NEW j \in 1..(Len(q) - 1)
      PROVE  (a \o b)[j] = IF j < i THEN q[j] ELSE q[j + 1]
  <2>1. CASE j < i
    BY <2>1, <1>1, <1>2, <1>3, <1>4
  <2>2. CASE ~(j < i)
    <3>1. (a \o b)[j] = b[j - (i - 1)]
      BY <2>2, <1>1, <1>2, <1>3, <1>4
    <3>2. j - (i - 1) \in 1..(Len(q) - i)
      BY <2>2, <1>3
    <3>3. i + (j - (i - 1)) = j + 1
      BY <1>3
    <3> QED
      BY <3>1, <3>2, <3>3, <2>2, <1>2
  <2> QED
    BY <2>1, <2>2
<1>6. RemoveAt(q, i) = a \o b
  BY DEF RemoveAt, a, b
<1>7. Len(a) + Len(b) = Len(q) - 1
  BY <1>1, <1>2, <1>3
<1> QED
  BY <1>4, <1>5, <1>6, <1>7

\* A directory is known by its number.
LEMMA DirView ==
  ASSUME NEW D \in Seq(Dir), Distinct(D)
  PROVE  /\ \A i \in DOMAIN D : D[i].num \in NumbersIn(D) /\ FilesIn(D, D[i].num) = D[i].files
         /\ \A n \in NumbersIn(D) : \E i \in DOMAIN D : D[i].num = n /\ D[i].files = FilesIn(D, n)
         /\ \A n : n \notin NumbersIn(D) => FilesIn(D, n) = {}
         /\ \A n : FilesIn(D, n) \subseteq File
         /\ NumbersIn(D) \subseteq 1..MaxRuns
<1>0. DOMAIN D = 1..Len(D) /\ \A i \in DOMAIN D : D[i] \in Dir
  BY LenProperties, ElementOfSeq
<1>1. \A i \in DOMAIN D : D[i].num \in NumbersIn(D)
  BY DEF NumbersIn
<1>2. ASSUME NEW i \in DOMAIN D PROVE FilesIn(D, D[i].num) = D[i].files
  <2>1. {j \in DOMAIN D : D[j].num = D[i].num} = {i}
    BY DEF Distinct
  <2> QED
    BY <2>1 DEF FilesIn
<1>3. ASSUME NEW n \in NumbersIn(D)
      PROVE  \E i \in DOMAIN D : D[i].num = n /\ D[i].files = FilesIn(D, n)
  BY <1>2 DEF NumbersIn
<1>4. ASSUME NEW n, n \notin NumbersIn(D) PROVE FilesIn(D, n) = {}
  <2>1. {j \in DOMAIN D : D[j].num = n} = {}
    BY <1>4 DEF NumbersIn
  <2> QED
    BY <2>1 DEF FilesIn
<1>5. ASSUME NEW n PROVE FilesIn(D, n) \subseteq File
  BY <1>0 DEF FilesIn, Dir
<1>6. NumbersIn(D) \subseteq 1..MaxRuns
  BY <1>0 DEF NumbersIn, Dir
<1> QED
  BY <1>1, <1>2, <1>3, <1>4, <1>5, <1>6

LEMMA Views ==
  /\ Numbers = NumbersIn(dirs) /\ Numbers' = NumbersIn(dirs')
  /\ \A n : FilesOf(n) = FilesIn(dirs, n) /\ FilesOf(n)' = FilesIn(dirs', n)
BY DEF Numbers, NumbersIn, FilesOf, FilesIn

\* What Others leaves: the directory is gone, the order is kept.
LEMMA OthersProps ==
  ASSUME dirs \in Seq(Dir), Distinct(dirs), NEW n
  PROVE  /\ Others(n) \in Seq(Dir) /\ Distinct(Others(n))
         /\ NumbersIn(Others(n)) = Numbers \ {n}
         /\ \A m : m # n => FilesIn(Others(n), m) = FilesOf(m)
         /\ n \notin Numbers => Others(n) = dirs
         /\ n \in Numbers => \E k \in 1..Len(dirs) :
              /\ dirs[k].num = n /\ Len(Others(n)) = Len(dirs) - 1
              /\ \A j \in 1..(Len(dirs) - 1) :
                   Others(n)[j] = IF j < k THEN dirs[j] ELSE dirs[j + 1]
<1>0. DOMAIN dirs = 1..Len(dirs) /\ Len(dirs) \in Nat
  BY LenProperties
<1>1. CASE n \notin Numbers
  BY <1>1, Views DEF Others
<1>2. CASE n \in Numbers
  <2> DEFINE k == CHOOSE i \in DOMAIN dirs : dirs[i].num = n
             O == Others(n)
  <2>1. k \in 1..Len(dirs) /\ dirs[k].num = n
    BY <1>0, <1>2 DEF Numbers
  <2>2. O = RemoveAt(dirs, k)
    BY <1>2 DEF Others
  <2> HIDE DEF k, O
  <2>3. /\ O \in Seq(Dir) /\ Len(O) = Len(dirs) - 1
        /\ \A j \in 1..(Len(dirs) - 1) : O[j] = IF j < k THEN dirs[j] ELSE dirs[j + 1]
    BY <2>1, <2>2, RemoveAtProps
  <2>4. DOMAIN O = 1..(Len(dirs) - 1)
    BY <2>3, LenProperties
  <2>5. \A i \in DOMAIN O : O[i] = dirs[IF i < k THEN i ELSE i + 1] /\ (IF i < k THEN i ELSE i + 1) \in DOMAIN dirs \ {k}
    BY <1>0, <2>1, <2>3, <2>4
  <2>6. \A i \in DOMAIN dirs \ {k} : \E j \in DOMAIN O : i = (IF j < k THEN j ELSE j + 1) /\ O[j] = dirs[i]
    <3> SUFFICES ASSUME NEW i \in DOMAIN dirs \ {k}
                 PROVE  \E j \in DOMAIN O : i = (IF j < k THEN j ELSE j + 1)
      BY <2>5
    <3>1. CASE i < k
      BY <1>0, <2>1, <2>4, <3>1
    <3>2. CASE i > k
      <4>1. i - 1 \in DOMAIN O /\ ~(i - 1 < k) /\ i = (i - 1) + 1
        BY <1>0, <2>1, <2>4, <3>2
      <4> QED
        BY <4>1
    <3> QED
      BY <1>0, <2>1, <3>1, <3>2
  <2>7. Distinct(O)
    <3> SUFFICES ASSUME NEW i \in DOMAIN O, NEW j \in DOMAIN O, O[i].num = O[j].num
                 PROVE  i = j
      BY DEF Distinct
    <3>1. (IF i < k THEN i ELSE i + 1) = (IF j < k THEN j ELSE j + 1)
      BY <2>5 DEF Distinct
    <3> QED
      BY <2>1, <2>4, <3>1
  <2>8. NumbersIn(O) = Numbers \ {n}
    <3>1. \A i \in DOMAIN dirs \ {k} : dirs[i].num # n
      BY <1>0, <2>1 DEF Distinct
    <3> QED
      BY <2>1, <2>5, <2>6, <3>1 DEF NumbersIn, Numbers
  <2>9. ASSUME NEW m, m # n PROVE FilesIn(O, m) = FilesOf(m)
    <3>1. {O[i].files : i \in {j \in DOMAIN O : O[j].num = m}}
            = {dirs[i].files : i \in {j \in DOMAIN dirs : dirs[j].num = m}}
      BY <2>1, <2>5, <2>6, <2>9
    <3> QED
      BY <3>1 DEF FilesIn, FilesOf
  <2> QED
    BY <1>2, <2>1, <2>3, <2>7, <2>8, <2>9 DEF O
<1> QED
  BY <1>1, <1>2

\* What Touched leaves: the directory has its new files and comes last.
LEMMA TouchedProps ==
  ASSUME dirs \in Seq(Dir), Distinct(dirs), NEW n \in 1..MaxRuns, NEW F \in SUBSET File
  PROVE  /\ Touched(n, F) \in Seq(Dir) /\ Distinct(Touched(n, F))
         /\ NumbersIn(Touched(n, F)) = Numbers \cup {n}
         /\ FilesIn(Touched(n, F), n) = F
         /\ \A m : m # n => FilesIn(Touched(n, F), m) = FilesOf(m)
         /\ Len(Touched(n, F)) = Len(Others(n)) + 1
         /\ Touched(n, F)[Len(Others(n)) + 1].num = n
         /\ \A j \in 1..Len(Others(n)) : Touched(n, F)[j] = Others(n)[j]
<1> DEFINE O == Others(n)
           d == [num |-> n, files |-> F]
           T == Touched(n, F)
<1>1. /\ O \in Seq(Dir) /\ Distinct(O) /\ NumbersIn(O) = Numbers \ {n}
      /\ \A m : m # n => FilesIn(O, m) = FilesOf(m)
  BY OthersProps
<1>2. d \in Dir /\ d.num = n /\ d.files = F /\ T = Append(O, d)
  BY DEF Dir, Touched
<1> HIDE DEF O, d, T
<1>3. /\ T \in Seq(Dir) /\ Len(T) = Len(O) + 1 /\ Len(O) \in Nat
      /\ T[Len(O) + 1] = d /\ \A j \in 1..Len(O) : T[j] = O[j]
      /\ DOMAIN T = 1..(Len(O) + 1) /\ DOMAIN O = 1..Len(O)
  BY <1>1, <1>2, AppendProperties, LenProperties
<1>4. \A i \in DOMAIN O : O[i].num # n
  BY <1>1 DEF NumbersIn
<1>5. Distinct(T)
  BY <1>1, <1>2, <1>3, <1>4 DEF Distinct
<1>6. NumbersIn(T) = Numbers \cup {n}
  <2>1. NumbersIn(T) = NumbersIn(O) \cup {n}
    BY <1>2, <1>3 DEF NumbersIn
  <2> QED
    BY <1>1, <2>1
<1>7. FilesIn(T, n) = F
  <2>1. {j \in DOMAIN T : T[j].num = n} = {Len(O) + 1}
    BY <1>2, <1>3, <1>4
  <2> QED
    BY <1>2, <1>3, <2>1 DEF FilesIn
<1>8. ASSUME NEW m, m # n PROVE FilesIn(T, m) = FilesOf(m)
  <2>1. {T[i].files : i \in {j \in DOMAIN T : T[j].num = m}} = {O[i].files : i \in {j \in DOMAIN O : O[j].num = m}}
    BY <1>2, <1>3, <1>8
  <2> QED
    BY <1>1, <1>8, <2>1 DEF FilesIn
<1> QED
  BY <1>2, <1>3, <1>5, <1>6, <1>7, <1>8 DEF O, T
-----------------------------------------------------------------------------
(* The invariant in terms of numbers and their files *)

GoodFiles(D) ==
  \A n \in NumbersIn(D) : \A f, g \in FilesIn(D, n) :
    (f.name = "dump" => f.whole) /\ f.stamp = g.stamp /\ (f.shard = g.shard => f = g)

Holds(D, d) ==
  /\ d.num \in NumbersIn(D)
  /\ \A s \in Shards : \E f \in FilesIn(D, d.num) :
       f.shard = s /\ f.name = "dump" /\ f.stamp = d.run /\ f.val = d.snap[s]

LEMMA RangeView ==
  ASSUME NEW D \in Seq(Dir), Distinct(D)
  PROVE  /\ \A e \in Range(D) : e.num \in NumbersIn(D) /\ e.files = FilesIn(D, e.num)
         /\ \A n \in NumbersIn(D) : \E e \in Range(D) : e.num = n /\ e.files = FilesIn(D, n)
BY DirView DEF Range

LEMMA GoodView ==
  ASSUME NEW D \in Seq(Dir), Distinct(D)
  PROVE  GoodFiles(D) <=>
           /\ \A e \in Range(D) : \A f \in e.files : f.name = "dump" => f.whole
           /\ \A e \in Range(D) : \A f, g \in e.files : f.stamp = g.stamp
           /\ \A n \in NumbersIn(D) : \A f, g \in FilesIn(D, n) : f.shard = g.shard => f = g
BY RangeView DEF GoodFiles

LEMMA HoldsView ==
  ASSUME NEW D \in Seq(Dir), Distinct(D), NEW d
  PROVE  Holds(D, d) <=>
           \E e \in Range(D) :
             /\ e.num = d.num
             /\ \A s \in Shards : \E f \in e.files :
                  f.shard = s /\ f.name = "dump" /\ f.stamp = d.run /\ f.val = d.snap[s]
BY RangeView DEF Holds

\* The invariant in these terms.
Disk == dirs \in Seq(Dir) /\ Distinct(dirs) /\ GoodFiles(dirs)

Vars ==
  /\ run \in 0..MaxRuns
  /\ main \in {"down", "serving", "exiting"}
  /\ token \in BOOLEAN
  /\ app \in {"off", "bind", "serve", "number", "collect", "write", "rotate", "done"}
  /\ mem \in [Shards -> Values]
  /\ load \in [at : {"pick", "read", "done"}, from : 0..MaxRuns, left : SUBSET Shards, ok : BOOLEAN]
  /\ own \in 0..MaxRuns
  /\ walked \in 0..NShards
  /\ snap \in [Shards -> Values]
  /\ writer \in [Shards -> {"none", "queued", "open", "flushed"}]
  /\ failures \in BOOLEAN
  /\ faults \in 0..MaxFaults
  /\ torn \in {"no", "now", "left"}

Marked ==
  /\ doomed \in Seq(1..MaxRuns)
  /\ \A i \in DOMAIN doomed : doomed[i] \in Numbers
  /\ \A i, j \in DOMAIN doomed : doomed[i] = doomed[j] => i = j

Dumps ==
  /\ made \in Seq(Dump)
  /\ \A n \in Numbers : n <= Len(made)
  /\ Len(made) <= IF app \in {"bind", "serve", "number"} THEN run - 1 ELSE run
  /\ app \in {"collect", "write", "rotate"} \/ writer # NoWriters =>
       /\ made # <<>>
       /\ Last(made).num = own /\ Last(made).run = run /\ ~Last(made).ok
  /\ app \in {"collect", "write"} \/ writer # NoWriters =>
       own \in Numbers /\ \A f \in FilesOf(own) : f.stamp = run

Survives ==
  \A i \in DOMAIN made : made[i].ok /\ torn # "left" /\ Protected(i) => Holds(dirs, made[i])

Inv == Vars /\ Disk /\ Marked /\ Dumps /\ StagesOK /\ OrderOK /\ Survives /\ WrittenOK /\ LoadOK

LEMMA InvView == IndInv <=> Inv
<1>1. TypeOK <=> /\ Vars /\ dirs \in Seq(Dir) /\ Distinct(dirs) /\ made \in Seq(Dump)
                 /\ doomed \in Seq(1..MaxRuns) /\ \A i \in DOMAIN doomed : doomed[i] \in Numbers
  BY DEF TypeOK, Vars, Distinct, Dir, Dump, Numbers
<1>2. ASSUME dirs \in Seq(Dir), Distinct(dirs)
      PROVE  /\ GoodFiles(dirs) <=>
                  /\ OnlyWholeFiles /\ DirsApart
                  /\ \A n \in Numbers : \A f, g \in FilesOf(n) : f.shard = g.shard => f = g
             /\ Survives <=> DumpSurvives
  BY <1>2, Views, GoodView, HoldsView
     DEF OnlyWholeFiles, DirsApart, Survives, DumpSurvives, Complete, Protected
<1> QED
  BY <1>1, <1>2 DEF IndInv, Inv, Disk, Marked, Dumps, DumpsOK
-----------------------------------------------------------------------------
(* Steps that leave the disk alone *)

\* What depends on the directories alone.
LEMMA SameDirs ==
  ASSUME dirs' = dirs
  PROVE  /\ Numbers' = Numbers /\ \A n : FilesOf(n)' = FilesOf(n)
         /\ Disk => Disk'
         /\ \A d : Holds(dirs', d) <=> Holds(dirs, d)
<1>1. Numbers' = Numbers /\ \A n : FilesOf(n)' = FilesOf(n)
  BY Views
<1>2. Disk => Disk'
  BY DEF Disk
<1> QED
  BY <1>1, <1>2

\* The server, the signal and the load: only app, token, mem, load and faults
\* change.
LEMMA FrontKeeps ==
  ASSUME Inv, UNCHANGED <<diskVars, run, main, dumpVars, made>>, Vars', LoadOK',
         app' = app \/ (app \in {"bind", "serve"} /\ app' \in {"serve", "number"})
  PROVE  Inv'
<1>1. /\ dirs' = dirs /\ doomed' = doomed /\ torn' = torn /\ run' = run /\ main' = main
      /\ own' = own /\ snap' = snap /\ writer' = writer /\ failures' = failures /\ made' = made
  BY DEF diskVars, dumpVars
<1>2. Disk' /\ Marked' /\ OrderOK' /\ Survives'
  BY <1>1, SameDirs DEF Inv, Marked, OrderOK, Survives, Protected
<1>3. StagesOK'
  BY <1>1 DEF Inv, StagesOK, NoWriters
<1>4. Dumps'
  <2>1. app' \in {"bind", "serve", "number"} \/ app' = app
    OBVIOUS
  <2>2. run \in Int /\ Len(made) \in Nat
    BY LenProperties DEF Inv, Vars, Dumps
  <2>3. app \in {"bind", "serve"} => writer = NoWriters
    BY DEF Inv, StagesOK
  <2>4. Numbers' = Numbers /\ FilesOf(own)' = FilesOf(own) /\ NoWriters' = NoWriters
    BY <1>1, SameDirs DEF NoWriters, FilesOf
  <2> QED
    BY <1>1, <2>1, <2>2, <2>3, <2>4 DEF Inv, Dumps
<1>5. WrittenOK'
  <2>1. FilesOf(own)' = FilesOf(own)
    BY <1>1 DEF FilesOf
  <2> QED
    BY <1>1, <2>1 DEF Inv, WrittenOK
<1> QED
  BY <1>2, <1>3, <1>4, <1>5 DEF Inv

LEMMA BindKeeps == ASSUME Inv, NEW ok \in BOOLEAN, Bind(ok) PROVE Inv'
<1>1. UNCHANGED <<diskVars, run, main, token, mem, load, dumpVars, made, faults>>
      /\ app = "bind" /\ app' \in {"serve", "number"}
  BY DEF Bind
<1>2. Vars'
  BY <1>1 DEF Inv, Vars, diskVars, dumpVars
<1>3. LoadOK'
  BY <1>1 DEF Inv, LoadOK, diskVars
<1> QED
  BY <1>1, <1>2, <1>3, FrontKeeps

LEMMA ServeKeeps == ASSUME Inv, NEW s \in Shards, Serve(s) PROVE Inv'
<1>1. UNCHANGED <<diskVars, run, main, token, app, load, dumpVars, made, faults>>
      /\ mem' = [mem EXCEPT ![s] = run] /\ mem \in [Shards -> Values] /\ run \in Values
  BY DEF Serve, Inv, Vars, Values
<1>2. Vars'
  BY <1>1 DEF Inv, Vars, diskVars, dumpVars
<1>3. \A t \in Shards : mem'[t] \in {mem[t], run}
  BY <1>1
<1>4. LoadOK'
  BY <1>1, <1>3 DEF Inv, LoadOK, diskVars
<1> QED
  BY <1>1, <1>2, <1>4, FrontKeeps

LEMMA InterruptKeeps == ASSUME Inv, Interrupt PROVE Inv'
<1>1. UNCHANGED <<diskVars, run, main, app, mem, load, dumpVars, made, faults>> /\ token' = TRUE
  BY DEF Interrupt
<1>2. Vars'
  BY <1>1 DEF Inv, Vars, diskVars, dumpVars
<1>3. LoadOK'
  BY <1>1 DEF LoadOK
<1> QED
  BY <1>1, <1>2, <1>3, FrontKeeps

LEMMA DrainedKeeps == ASSUME Inv, Drained PROVE Inv'
<1>1. UNCHANGED <<diskVars, run, main, token, mem, load, dumpVars, made, faults>>
      /\ app = "serve" /\ app' = "number"
  BY DEF Drained
<1>2. Vars'
  BY <1>1 DEF Inv, Vars, diskVars, dumpVars
<1>3. LoadOK'
  BY <1>1 DEF LoadOK
<1> QED
  BY <1>1, <1>2, <1>3, FrontKeeps

-----------------------------------------------------------------------------
(* The load *)

\* Without a removal under way or given up, the newest directory is the last
\* dump's.
LEMMA NewestIsLast ==
  ASSUME Inv, doomed = <<>>, torn # "left", made # <<>>
  PROVE  /\ Len(dirs) \in 1..Len(dirs) /\ dirs[Len(dirs)].num = Len(made)
         /\ Len(made) \in Numbers
         /\ made[Len(made)] = Last(made) /\ Last(made).num = Len(made) /\ Len(made) \in DOMAIN made
<1>1. /\ dirs \in Seq(Dir) /\ DOMAIN dirs = 1..Len(dirs) /\ Len(dirs) \in Nat
      /\ \A i \in DOMAIN dirs : dirs[i].num \in Nat
  <2>1. dirs \in Seq(Dir)
    BY DEF Inv, Disk
  <2>2. DOMAIN dirs = 1..Len(dirs) /\ Len(dirs) \in Nat /\ \A i \in DOMAIN dirs : dirs[i] \in Dir
    BY <2>1, LenProperties, ElementOfSeq
  <2> QED
    BY <2>1, <2>2 DEF Dir
<1>2. /\ made \in Seq(Dump) /\ Len(made) \in 1..Len(made) /\ Len(made) \in DOMAIN made
  <2>1. made \in Seq(Dump)
    BY DEF Inv, Dumps
  <2> QED
    BY <2>1, LenProperties
<1>3. torn = "no"
  BY DEF Inv, Vars, StagesOK
<1>4. Len(made) \in Numbers /\ \A n \in Numbers : n <= Len(made)
  BY DEF Inv, OrderOK, Dumps
<1>5. PICK k \in DOMAIN dirs : dirs[k].num = Len(made)
  BY <1>4 DEF Numbers
<1>6. Len(dirs) \in DOMAIN dirs
  BY <1>1, <1>5
<1>7. dirs[Len(dirs)].num - dirs[k].num >= Len(dirs) - k
  BY <1>1, <1>3, <1>5, <1>6 DEF Inv, OrderOK
<1>8. dirs[Len(dirs)].num <= Len(made)
  BY <1>4, <1>6 DEF Numbers
<1>9. dirs[Len(dirs)].num = Len(made)
  BY <1>1, <1>2, <1>5, <1>6, <1>7, <1>8
<1>10. Last(made) = made[Len(made)] /\ Last(made).num = Len(made)
  BY <1>2 DEF Inv, OrderOK, Last
<1> QED
  BY <1>1, <1>2, <1>4, <1>6, <1>9, <1>10
\* What a load finds in the directory of a last dump that returned Ok.
LEMMA LastHeld ==
  ASSUME Inv, doomed = <<>>, torn # "left", made # <<>>, Last(made).ok, NEW s \in Shards
  PROVE  /\ \E f \in DumpFiles(Len(made)) : f.shard = s
         /\ \A f \in DumpFiles(Len(made)) : f.shard = s => f.val = Last(made).snap[s]
<1> DEFINE n == Len(made)
<1>1. n \in Numbers /\ n \in DOMAIN made /\ made[n] = Last(made) /\ Last(made).num = n
  BY NewestIsLast
<1>2. Protected(n)
  <2>1. Len(made) \in Nat
    BY LenProperties DEF Inv, Dumps
  <2> QED
    BY <2>1, PersistenceConstants DEF Protected
<1>3. Holds(dirs, made[n])
  BY <1>1, <1>2 DEF Inv, Survives
<1>4. PICK f \in FilesOf(n) : f.shard = s /\ f.name = "dump" /\ f.val = Last(made).snap[s]
  BY <1>1, <1>3, Views DEF Holds
<1>5. /\ FilesOf(n) \subseteq File
      /\ \A g \in FilesOf(n) : g.stamp = f.stamp /\ (g.shard = f.shard => g = f)
  BY <1>1, <1>4, Views, DirView DEF Inv, Disk, GoodFiles
<1>6. \A g \in FilesOf(n) : g.stamp \in Nat
  BY <1>5 DEF File
<1>7. f \in DumpFiles(n)
  BY <1>4, <1>5, <1>6 DEF DumpFiles
<1>8. \A g \in DumpFiles(n) : g \in FilesOf(n)
  BY DEF DumpFiles
<1> QED
  BY <1>4, <1>5, <1>7, <1>8

LEMMA LoadPickKeeps == ASSUME Inv, LoadPick PROVE Inv'
<1> DEFINE n == LatestVersion
           left == {f.shard : f \in DumpFiles(n)}
           R == [at : {"pick", "read", "done"}, from : 0..MaxRuns, left : SUBSET Shards, ok : BOOLEAN]
<1>1. /\ UNCHANGED <<diskVars, run, main, token, app, mem, dumpVars, made, faults>>
      /\ load.at = "pick" /\ load \in R
      /\ load' = IF left = {} THEN [load EXCEPT !.at = "done", !.ok = FALSE]
                 ELSE [load EXCEPT !.at = "read", !.from = n, !.left = left]
  BY DEF LoadPick, Inv, Vars
<1>2. n \in 0..MaxRuns
  <2>1. dirs \in Seq(Dir)
    BY DEF Inv, Disk
  <2>2. CASE dirs = <<>>
    BY <2>2, PersistenceConstants DEF LatestVersion
  <2>3. CASE dirs # <<>>
    <3>1. Len(dirs) \in 1..Len(dirs)
      BY <2>1, <2>3, LenProperties
    <3>2. dirs[Len(dirs)] \in Dir
      BY <2>1, <3>1, ElementOfSeq
    <3> QED
      BY <2>3, <3>2 DEF LatestVersion, Last, Dir
  <2> QED
    BY <2>2, <2>3
<1>3. left \in SUBSET Shards
  <2>1. DumpFiles(n) \subseteq File
    BY Views, DirView DEF DumpFiles, Inv, Disk
  <2> QED
    BY <2>1 DEF File
<1> HIDE DEF n, left
<1>4. load' \in R
  BY <1>1, <1>2, <1>3
<1>5. Vars'
  BY <1>1, <1>4 DEF Inv, Vars, diskVars, dumpVars
<1>6. LoadOK'
  <2> SUFFICES ASSUME app' \in {"bind", "serve"}, ~token', load'.ok, torn' # "left",
                      made' # <<>>, Last(made').ok
               PROVE  /\ load'.at = "read" => load'.from = Len(made')
                      /\ \A s \in Shards :
                           mem'[s] \in {run', IF load'.at = "pick" \/ (load'.at = "read" /\ s \in load'.left)
                                              THEN 0 ELSE Last(made').snap[s]}
    BY DEF LoadOK
  <2>1. /\ app \in {"bind", "serve"} /\ ~token /\ torn # "left" /\ made # <<>> /\ Last(made).ok
        /\ mem' = mem /\ run' = run /\ made' = made
    BY <1>1 DEF diskVars
  <2>2. doomed = <<>>
    BY <2>1 DEF Inv, StagesOK
  <2>3. n = Len(made)
    <3>1. dirs # <<>>
      BY <2>1, <2>2, NewestIsLast
    <3> QED
      BY <2>1, <2>2, <3>1, NewestIsLast DEF n, LatestVersion, Last
  <2>4. left = Shards /\ left # {}
    <3>1. \A s \in Shards : s \in left
      BY <2>1, <2>2, <2>3, LastHeld DEF left
    <3>2. 1 \in Shards
      BY PersistenceConstants DEF Shards
    <3> QED
      BY <1>3, <3>1, <3>2
  <2>5. load'.at = "read" /\ load'.from = n /\ load'.left = Shards /\ load.ok
    BY <1>1, <2>4
  <2>6. \A s \in Shards : mem[s] \in {run, 0}
    BY <1>1, <2>1, <2>5 DEF Inv, LoadOK
  <2> QED
    BY <2>1, <2>3, <2>5, <2>6
<1> QED
  BY <1>1, <1>5, <1>6, FrontKeeps

LEMMA LoadFileKeeps == ASSUME Inv, NEW s \in Shards, LoadFile(s) PROVE Inv'
<1> DEFINE left == load.left \ {s}
           R == [at : {"pick", "read", "done"}, from : 0..MaxRuns, left : SUBSET Shards, ok : BOOLEAN]
<1>1. /\ UNCHANGED <<diskVars, run, main, token, app, dumpVars, made, faults>>
      /\ load.at = "read" /\ load \in R /\ s \in load.left /\ mem \in [Shards -> Values]
      /\ load' = [load EXCEPT !.left = left, !.at = IF left = {} THEN "done" ELSE "read",
                              !.ok = load.ok /\ TRUE]
  BY DEF LoadFile, LoadTask, Inv, Vars
<1>2. PICK f \in DumpFiles(load.from) :
        f.shard = s /\ mem' = IF token \/ f.val = 0 THEN mem ELSE [mem EXCEPT ![s] = f.val]
  BY DEF LoadFile
<1>3. f \in File
  BY <1>2, Views, DirView DEF DumpFiles, Inv, Disk
<1>4. mem' \in [Shards -> Values] /\ load' \in R
  BY <1>1, <1>2, <1>3 DEF File
<1>5. Vars'
  BY <1>1, <1>4 DEF Inv, Vars, diskVars, dumpVars
<1>6. LoadOK'
  <2> SUFFICES ASSUME app' \in {"bind", "serve"}, ~token', load'.ok, torn' # "left",
                      made' # <<>>, Last(made').ok
               PROVE  /\ load'.at = "read" => load'.from = Len(made')
                      /\ \A t \in Shards :
                           mem'[t] \in {run', IF load'.at = "pick" \/ (load'.at = "read" /\ t \in load'.left)
                                              THEN 0 ELSE Last(made').snap[t]}
    BY DEF LoadOK
  <2>1. /\ app \in {"bind", "serve"} /\ ~token /\ torn # "left" /\ made # <<>> /\ Last(made).ok
        /\ run' = run /\ made' = made
    BY <1>1 DEF diskVars
  <2>2. /\ load.ok /\ load'.from = load.from /\ load'.left = left
        /\ load'.at = IF left = {} THEN "done" ELSE "read"
    BY <1>1
  <2>3. doomed = <<>>
    BY <2>1 DEF Inv, StagesOK
  <2>4. /\ load.from = Len(made)
        /\ \A t \in Shards : mem[t] \in {run, IF t \in load.left THEN 0 ELSE Last(made).snap[t]}
    BY <1>1, <2>1, <2>2 DEF Inv, LoadOK
  <2>5. f.val = Last(made).snap[s]
    BY <1>2, <2>1, <2>3, <2>4, LastHeld
  <2>6. mem'[s] \in {run, Last(made).snap[s]}
    BY <1>1, <1>2, <2>1, <2>4, <2>5
  <2>7. \A t \in Shards \ {s} : mem'[t] = mem[t]
    BY <1>1, <1>2
  <2> QED
    BY <2>1, <2>2, <2>4, <2>6, <2>7
<1> QED
  BY <1>1, <1>5, <1>6, FrontKeeps

LEMMA FaultTypes == ASSUME faults \in 0..MaxFaults, Fault PROVE faults' \in 0..MaxFaults
BY PersistenceConstants DEF Fault

\* LoadMisses and LoadFails: the load will not return Ok.
LEMMA LoadSpoiled ==
  ASSUME Inv, NEW s \in Shards, LoadMisses(s) \/ LoadFails(s)
  PROVE  Inv'
<1> DEFINE left == load.left \ {s}
           R == [at : {"pick", "read", "done"}, from : 0..MaxRuns, left : SUBSET Shards, ok : BOOLEAN]
<1>1. /\ UNCHANGED <<diskVars, run, main, token, app, mem, dumpVars, made>> /\ load \in R
      /\ load' = [load EXCEPT !.left = left, !.at = IF left = {} THEN "done" ELSE "read",
                              !.ok = load.ok /\ FALSE]
  BY DEF LoadMisses, LoadFails, LoadTask, Inv, Vars
<1>2. faults' \in 0..MaxFaults
  <2>1. faults \in 0..MaxFaults
    BY DEF Inv, Vars
  <2>2. CASE LoadMisses(s)
    BY <2>1, <2>2 DEF LoadMisses
  <2>3. CASE LoadFails(s)
    BY <2>1, <2>3, FaultTypes DEF LoadFails
  <2> QED
    BY <2>2, <2>3
<1>3. load' \in R /\ ~load'.ok
  BY <1>1
<1>4. Vars'
  BY <1>1, <1>2, <1>3 DEF Inv, Vars, diskVars, dumpVars
<1>5. LoadOK'
  BY <1>3 DEF LoadOK
<1> QED
  BY <1>1, <1>4, <1>5, FrontKeeps

-----------------------------------------------------------------------------
(* The process *)

LoadRecord == [at : {"pick", "read", "done"}, from : 0..MaxRuns, left : SUBSET Shards, ok : BOOLEAN]

\* What a life begins and ends with.
LEMMA BlankTypes ==
  /\ Empty \in [Shards -> Values] /\ NoWriters \in [Shards -> {"none", "queued", "open", "flushed"}]
  /\ LoadStarted \in LoadRecord /\ NoLoad \in LoadRecord
  /\ 0 \in 0..MaxRuns /\ 0 \in 0..NShards
<1>1. 0 \in 0..MaxRuns /\ 0 \in 0..NShards
  BY PersistenceConstants
<1>2. Empty \in [Shards -> Values]
  BY <1>1 DEF Empty, Values
<1>3. NoWriters \in [Shards -> {"none", "queued", "open", "flushed"}]
  BY DEF NoWriters
<1>4. LoadStarted \in LoadRecord /\ NoLoad \in LoadRecord
  BY <1>1 DEF LoadRecord, LoadStarted, NoLoad
<1> QED
  BY <1>1, <1>2, <1>3, <1>4

LEMMA StartKeeps == ASSUME Inv, Start PROVE Inv'
<1>1. /\ dirs' = dirs /\ doomed' = doomed /\ torn' = torn /\ made' = made /\ faults' = faults
      /\ run < MaxRuns /\ run' = run + 1 /\ main' = "serving" /\ token' = FALSE /\ app' = "bind"
      /\ mem' = Empty /\ load' = LoadStarted
      /\ own' = 0 /\ walked' = 0 /\ snap' = Empty /\ writer' = NoWriters /\ failures' = FALSE
      /\ main = "down"
  BY DEF Start, diskVars
<1>2. app = "off" /\ doomed = <<>>
  BY <1>1 DEF Inv, StagesOK
<1>3. run' \in 0..MaxRuns /\ faults' \in 0..MaxFaults /\ torn' \in {"no", "now", "left"}
  BY <1>1, PersistenceConstants DEF Inv, Vars
<1>4. Vars'
  BY <1>1, <1>3, BlankTypes DEF LoadRecord, Vars
<1>5. Disk' /\ Marked' /\ OrderOK' /\ Survives'
  BY <1>1, SameDirs DEF Inv, Marked, OrderOK, Survives, Protected
<1>6. StagesOK'
  BY <1>1, <1>2 DEF Inv, StagesOK, NoWriters
<1>7. Dumps'
  <2>1. Len(made) \in Nat /\ run \in Nat /\ Len(made) <= run
    BY <1>2, LenProperties DEF Inv, Vars, Dumps
  <2>2. writer' = NoWriters'
    BY <1>1 DEF NoWriters
  <2> QED
    BY <1>1, <2>1, <2>2, SameDirs DEF Inv, Dumps
<1>8. WrittenOK'
  BY <1>1 DEF WrittenOK
<1>9. LoadOK'
  BY <1>1 DEF LoadOK, LoadStarted, Empty
<1> QED
  BY <1>4, <1>5, <1>6, <1>7, <1>8, <1>9 DEF Inv

\* The directories and the history stay, some removals are dropped: what is
\* under way goes on or is given up.
LEMMA QuietDisk ==
  ASSUME Inv, dirs' = dirs, made' = made, torn' = torn \/ torn' = "left",
         \A i \in DOMAIN doomed' : \E j \in DOMAIN doomed : doomed'[i] = doomed[j],
         torn' = "now" => Head(doomed') = Head(doomed)
  PROVE  Disk' /\ OrderOK' /\ Survives'
<1>1. Disk' /\ Numbers' = Numbers /\ \A d : Holds(dirs', d) <=> Holds(dirs, d)
  BY SameDirs DEF Inv
<1>2. \A i : Protected(i)' <=> Protected(i)
  BY DEF Protected
<1>3. Survives'
  BY <1>1, <1>2 DEF Inv, Survives
<1>4. CASE torn' = "left"
  BY <1>1, <1>3, <1>4 DEF OrderOK
<1>5. CASE torn' # "left"
  <2>1. torn' = torn /\ torn # "left"
    BY <1>5
  <2>2. \A i \in DOMAIN doomed' : ~Protected(doomed'[i])
    BY <2>1 DEF Inv, OrderOK
  <2> QED
    BY <1>1, <1>2, <1>3, <2>1, <2>2 DEF Inv, OrderOK
<1> QED
  BY <1>4, <1>5

\* Exit and Crash.
LEMMA ClearedKeeps ==
  ASSUME Inv, Cleared, dirs' = dirs, made' = made, run' = run, faults' = faults, doomed' = <<>>,
         torn' \in {"no", "left"}, torn' = torn \/ torn' = "left"
  PROVE  Inv'
<1>1. Vars'
  BY BlankTypes DEF Inv, Vars, Cleared, LoadRecord
<1>2. Marked'
  <2>1. <<>> \in Seq(1..MaxRuns) /\ DOMAIN <<>> = {}
    BY EmptySeq
  <2> QED
    BY <2>1 DEF Marked
<1>3. Disk' /\ OrderOK' /\ Survives'
  BY QuietDisk
<1>4. StagesOK'
  BY DEF Cleared, StagesOK, NoWriters
<1>5. Dumps'
  <2>1. Len(made) \in Nat /\ run \in Nat
    BY LenProperties DEF Inv, Vars, Dumps
  <2>2. writer' = NoWriters' /\ app' = "off" /\ Numbers' = Numbers
    BY SameDirs DEF NoWriters, Cleared
  <2>3. Len(made) <= run
    BY <2>1 DEF Inv, Dumps
  <2> QED
    BY <2>1, <2>2, <2>3 DEF Inv, Dumps
<1>6. WrittenOK' /\ LoadOK'
  BY DEF Cleared, WrittenOK, LoadOK
<1> QED
  BY <1>1, <1>2, <1>3, <1>4, <1>5, <1>6 DEF Inv

LEMMA ExitKeeps == ASSUME Inv, Exit PROVE Inv'
<1>1. /\ Cleared /\ doomed = <<>>
      /\ dirs' = dirs /\ made' = made /\ run' = run /\ faults' = faults /\ doomed' = doomed /\ torn' = torn
  BY DEF Exit, diskVars
<1>2. torn \in {"no", "left"}
  BY <1>1 DEF Inv, Vars, StagesOK
<1> QED
  BY <1>1, <1>2, ClearedKeeps

LEMMA CrashKeeps == ASSUME Inv, Crash PROVE Inv'
<1>1. /\ Cleared /\ dirs' = dirs /\ made' = made /\ run' = run /\ faults' = faults /\ doomed' = <<>>
      /\ torn' = IF torn = "now" THEN "left" ELSE torn
  BY DEF Crash
<1>2. torn \in {"no", "now", "left"}
  BY DEF Inv, Vars
<1> QED
  BY <1>1, <1>2, ClearedKeeps

\* What is left of the removals when the dump is dropped: the one under way.
LEMMA HeadProps ==
  ASSUME NEW S, NEW q \in Seq(S), q # <<>>
  PROVE  Head(q) \in S /\ Head(q) = q[1] /\ 1 \in DOMAIN q
<1>1. Len(q) \in Nat /\ Len(q) # 0 /\ DOMAIN q = 1..Len(q)
  BY LenProperties, EmptySeq
<1>2. 1 \in 1..Len(q)
  BY <1>1
<1>3. q[1] \in S
  BY <1>2, ElementOfSeq
<1> QED
  BY <1>1, <1>2, <1>3

LEMMA SingleProps ==
  ASSUME NEW S, NEW x \in S
  PROVE  <<x>> \in Seq(S) /\ DOMAIN <<x>> = {1} /\ <<x>>[1] = x
<1>1. <<x>> \in Seq(S)
  OBVIOUS
<1>2. DOMAIN <<x>> = 1..1
  OBVIOUS
<1> QED
  BY <1>1, <1>2

LEMMA CutProps ==
  ASSUME Marked, dirs' = dirs, doomed' = IF doomed = <<>> THEN <<>> ELSE <<Head(doomed)>>
  PROVE  /\ Marked'
         /\ \A i \in DOMAIN doomed' : \E j \in DOMAIN doomed : doomed'[i] = doomed[j]
         /\ doomed # <<>> => doomed' # <<>> /\ Head(doomed') = Head(doomed)
<1>1. doomed \in Seq(1..MaxRuns) /\ Numbers' = Numbers
  BY SameDirs DEF Marked
<1>2. CASE doomed = <<>>
  BY <1>1, <1>2 DEF Marked
<1>3. CASE doomed # <<>>
  <2>1. /\ Head(doomed) \in 1..MaxRuns /\ 1 \in DOMAIN doomed /\ Head(doomed) = doomed[1]
    BY <1>1, <1>3, HeadProps
  <2>2. doomed' = <<doomed[1]>>
    BY <1>3, <2>1
  <2>3. doomed' \in Seq(1..MaxRuns) /\ DOMAIN doomed' = {1} /\ doomed'[1] = doomed[1]
    BY <2>1, <2>2, SingleProps
  <2>4. doomed' # <<>> /\ Head(doomed') = Head(doomed)
    BY <2>1, <2>2
  <2> QED
    BY <1>1, <2>1, <2>3, <2>4 DEF Marked
<1> QED
  BY <1>2, <1>3

\* MainReturns and DumpTimeout: the app's task ends, files that are open and
\* the removal under way remain.
LEMMA DroppedKeeps ==
  ASSUME Inv, Vars', dirs' = dirs, made' = made, run' = run, own' = own, torn' = torn,
         doomed' = IF doomed = <<>> THEN <<>> ELSE <<Head(doomed)>>,
         token', app' \in {"off", "done"}, main' # "down",
         writer' # NoWriters => writer # NoWriters
  PROVE  Inv'
<1>1. /\ Marked'
      /\ \A i \in DOMAIN doomed' : \E j \in DOMAIN doomed : doomed'[i] = doomed[j]
      /\ doomed # <<>> => doomed' # <<>> /\ Head(doomed') = Head(doomed)
  BY CutProps DEF Inv
<1>2. torn = "now" => doomed # <<>>
  BY DEF Inv, StagesOK
<1>3. Disk' /\ OrderOK' /\ Survives'
  BY <1>1, <1>2, QuietDisk
<1>4. NoWriters' = NoWriters
  BY DEF NoWriters
<1>5. StagesOK'
  <2>1. writer # NoWriters => doomed = <<>>
    BY DEF Inv, StagesOK
  <2> QED
    BY <1>1, <1>2, <1>4, <2>1 DEF StagesOK
<1>6. Dumps'
  <2>1. Len(made) \in Nat /\ run \in Nat
    BY LenProperties DEF Inv, Vars, Dumps
  <2>2. Numbers' = Numbers /\ FilesOf(own)' = FilesOf(own)
    BY SameDirs DEF FilesOf
  <2>3. Len(made) <= run
    BY <2>1 DEF Inv, Dumps
  <2> QED
    BY <1>4, <2>1, <2>2, <2>3 DEF Inv, Dumps
<1>7. WrittenOK' /\ LoadOK'
  BY DEF WrittenOK, LoadOK
<1> QED
  BY <1>1, <1>3, <1>5, <1>6, <1>7 DEF Inv

LEMMA MainReturnsKeeps == ASSUME Inv, MainReturns PROVE Inv'
<1>1. /\ dirs' = dirs /\ run' = run /\ token' = token /\ own' = own /\ walked' = walked
      /\ snap' = snap /\ failures' = failures /\ made' = made /\ torn' = torn /\ faults' = faults
      /\ token /\ main' = "exiting" /\ app' \in {"off", "done"} /\ mem' = Empty /\ load' = NoLoad
      /\ writer' = [s \in Shards |-> IF writer[s] = "queued" THEN "none" ELSE writer[s]]
      /\ doomed' = IF doomed = <<>> THEN <<>> ELSE <<Head(doomed)>>
  BY DEF MainReturns
<1>2. writer \in [Shards -> {"none", "queued", "open", "flushed"}]
  BY DEF Inv, Vars
<1>3. writer' \in [Shards -> {"none", "queued", "open", "flushed"}]
  BY <1>1, <1>2
<1>4. writer' # NoWriters => writer # NoWriters
  BY <1>1, <1>2 DEF NoWriters
<1>5. Vars'
  BY <1>1, <1>3, BlankTypes DEF Inv, Vars, LoadRecord
<1> QED
  BY <1>1, <1>4, <1>5, DroppedKeeps

LEMMA DumpTimeoutKeeps == ASSUME Inv, DumpTimeout PROVE Inv'
<1>1. /\ dirs' = dirs /\ run' = run /\ main' = main /\ mem' = mem /\ load' = load
      /\ own' = own /\ walked' = walked /\ snap' = snap /\ writer' = writer /\ failures' = failures
      /\ made' = made /\ torn' = torn /\ faults' = faults
      /\ app # "off" /\ app' = "done" /\ token' = TRUE
      /\ doomed' = IF doomed = <<>> THEN <<>> ELSE <<Head(doomed)>>
  BY DEF DumpTimeout, Closed, dumpVars
<1>2. main # "down"
  BY <1>1 DEF Inv, StagesOK
<1>3. Vars'
  BY <1>1 DEF Inv, Vars
<1> QED
  BY <1>1, <1>2, <1>3, DroppedKeeps

-----------------------------------------------------------------------------
(* The dump *)

\* The largest of a bounded set of numbers: the least of the differences from
\* the bound, since the order of the naturals is well-founded.
LEMMA MaxProps ==
  ASSUME NEW N \in Nat, NEW S, S \subseteq 0..N, S # {}
  PROVE  Max(S) \in S /\ \A y \in S : y <= Max(S)
<1> DEFINE T == {N - x : x \in S}
           R == OpToRel(<, Nat)
<1>1. IsWellFoundedOn(R, Nat)
  BY NatLessThanWellFounded
<1>2. T \subseteq Nat /\ T # {}
  <2>1. \A x \in S : N - x \in Nat
    OBVIOUS
  <2>2. PICK x \in S : TRUE
    OBVIOUS
  <2> HIDE DEF R
  <2> QED
    BY <2>1, <2>2
<1>3. PICK t \in T : \A u \in T : ~(<<u, t>> \in R)
  <2> HIDE DEF R, T
  <2> QED BY <1>1, <1>2, WFMin
<1>4. PICK x \in S : t = N - x
  OBVIOUS
<1>5. ASSUME NEW y \in S PROVE x >= y
  <2>1. N - y \in T /\ N - y \in Nat /\ t \in Nat
    OBVIOUS
  <2>2. ~(N - y < t)
    BY <1>3, <2>1 DEF OpToRel
  <2> QED
    BY <1>4, <2>1, <2>2
<1> QED
  BY <1>5 DEF Max

\* The number of the next directory: a new one, that of the dump if no removal
\* was given up.
LEMMA NextVersionProps ==
  ASSUME Inv
  PROVE  /\ NextVersion \in 1..(Len(made) + 1) /\ NextVersion \notin Numbers
         /\ (doomed = <<>> /\ torn # "left") => NextVersion = Len(made) + 1
<1> DEFINE S == Numbers \cup {0}
<1>1. Len(made) \in Nat
  BY LenProperties DEF Inv, Dumps
<1>2. Numbers \subseteq 1..MaxRuns /\ \A n \in Numbers : n <= Len(made)
  BY Views, DirView DEF Inv, Disk, Dumps
<1>3. S \subseteq 0..Len(made) /\ S # {}
  BY <1>1, <1>2
<1>4. PICK m \in S : m = Max(S) /\ \A y \in S : y <= m
  <2> HIDE DEF S
  <2> QED
    BY <1>1, <1>3, MaxProps
<1>5. NextVersion = m + 1
  BY <1>4 DEF NextVersion
<1> HIDE DEF S
<1>6. NextVersion \in 1..(Len(made) + 1)
  BY <1>1, <1>3, <1>4, <1>5
<1>7. ASSUME NextVersion \in Numbers PROVE FALSE
  <2>1. m + 1 \in S
    BY <1>5, <1>7 DEF S
  <2>2. m \in Nat
    BY <1>3, <1>4
  <2>3. m + 1 <= m
    BY <1>4, <2>1
  <2> QED
    BY <2>2, <2>3
<1>8. ASSUME doomed = <<>>, torn # "left" PROVE NextVersion = Len(made) + 1
  <2>1. Len(made) \in S
    <3>1. CASE made = <<>>
      BY <3>1, EmptySeq DEF S
    <3>2. CASE made # <<>>
      BY <1>8, <3>2 DEF S, Inv, OrderOK
    <3> QED
      BY <3>1, <3>2
  <2> QED
    BY <1>1, <1>3, <1>4, <1>5, <2>1
<1> QED
  BY <1>6, <1>7, <1>8

LEMMA MakeDirKeeps == ASSUME Inv, MakeDir PROVE Inv'
<1>0. PICK n : n = NextVersion
  OBVIOUS
<1> DEFINE d == [run |-> run, num |-> n, ok |-> FALSE, snap |-> Empty]
<1>1. /\ app = "number" /\ app' = "collect" /\ own' = n
      /\ dirs' = Touched(n, FilesOf(n)) /\ made' = Append(made, d)
      /\ run' = run /\ main' = main /\ token' = token /\ mem' = mem /\ load' = load
      /\ walked' = walked /\ snap' = snap /\ writer' = writer /\ failures' = failures
      /\ doomed' = doomed /\ torn' = torn /\ faults' = faults
  BY <1>0 DEF MakeDir
<1>2. writer = NoWriters /\ doomed = <<>> /\ torn # "now"
  BY <1>1 DEF Inv, StagesOK
<1>3. /\ made \in Seq(Dump) /\ Len(made) \in Nat /\ Len(made) <= run - 1 /\ run \in 0..MaxRuns
      /\ dirs \in Seq(Dir) /\ Distinct(dirs)
  BY <1>1, LenProperties DEF Inv, Dumps, Vars, Disk
<1>4. /\ n \in 1..(Len(made) + 1) /\ n \notin Numbers
      /\ torn # "left" => n = Len(made) + 1
  BY <1>0, <1>2, NextVersionProps
<1>5. n \in 1..MaxRuns /\ run \in 1..MaxRuns
  BY <1>3, <1>4, PersistenceConstants
<1>6. FilesOf(n) = {}
  BY <1>3, <1>4, Views, DirView
<1>7. /\ dirs' \in Seq(Dir) /\ Distinct(dirs') /\ Numbers' = Numbers \cup {n} /\ FilesIn(dirs', n) = {}
      /\ \A m : m # n => FilesIn(dirs', m) = FilesOf(m)
  <2>1. dirs' = Touched(n, {}) /\ {} \in SUBSET File
    BY <1>1, <1>6
  <2> QED
    BY <1>3, <1>5, <2>1, TouchedProps, Views
<1>8. /\ Len(dirs) \in Nat /\ Len(dirs') = Len(dirs) + 1 /\ dirs'[Len(dirs) + 1].num = n
      /\ \A j \in 1..Len(dirs) : dirs'[j] = dirs[j]
      /\ DOMAIN dirs' = 1..(Len(dirs) + 1) /\ DOMAIN dirs = 1..Len(dirs)
  <2>1. Others(n) = dirs
    BY <1>4 DEF Others
  <2> QED
    BY <1>1, <1>3, <1>5, <1>6, <1>7, <2>1, TouchedProps, LenProperties
<1>9. d \in Dump /\ ~d.ok /\ d.num = n /\ d.run = run
  BY <1>5, BlankTypes DEF Dump
<1> HIDE DEF d
<1>10. /\ made' \in Seq(Dump) /\ Len(made') = Len(made) + 1 /\ made'[Len(made) + 1] = d
       /\ \A j \in 1..Len(made) : made'[j] = made[j]
       /\ DOMAIN made' = 1..(Len(made) + 1) /\ DOMAIN made = 1..Len(made)
  BY <1>1, <1>3, <1>9, AppendProperties, LenProperties
<1>11. made' # <<>> /\ Last(made') = d
  BY <1>3, <1>10, EmptySeq DEF Last
<1>12. Vars'
  <2>1. own' \in 0..MaxRuns
    BY <1>1, <1>5
  <2> QED
    BY <1>1, <2>1 DEF Inv, Vars
<1>13. Disk'
  BY <1>3, <1>7, Views DEF Inv, Disk, GoodFiles
<1>14. Marked'
  BY <1>1, <1>7 DEF Inv, Marked
<1>15. Dumps'
  <2>1. \A m \in Numbers' : m <= Len(made')
    <3>1. \A m \in Numbers : m \in Nat /\ m <= Len(made)
      BY <1>3, Views, DirView DEF Inv, Dumps
    <3> QED
      BY <1>3, <1>4, <1>7, <1>10, <3>1
  <2>2. Len(made') <= run
    BY <1>3, <1>10
  <2>3. writer' = NoWriters'
    BY <1>1, <1>2 DEF NoWriters
  <2>4. own' \in Numbers' /\ FilesOf(own)' = {}
    BY <1>1, <1>7 DEF FilesOf, FilesIn
  <2> QED
    BY <1>1, <1>9, <1>10, <1>11, <2>1, <2>2, <2>3, <2>4 DEF Dumps
<1>16. StagesOK'
  BY <1>1, <1>2 DEF Inv, StagesOK, NoWriters
<1>17. OrderOK'
  <2> SUFFICES ASSUME torn # "left" PROVE OrderOK'
    BY <1>1 DEF OrderOK
  <2>1. n = Len(made) + 1
    BY <1>4
  <2>2. \A i \in DOMAIN made' : made'[i].num = i
    BY <1>3, <1>9, <1>10, <2>1 DEF Inv, OrderOK
  <2>3. Len(made') \in Numbers'
    BY <1>7, <1>10, <2>1
  <2>4. ASSUME NEW i \in DOMAIN dirs', NEW j \in DOMAIN dirs', i <= j
        PROVE  dirs'[j].num - dirs'[i].num >= j - i
    <3>1. \A k \in DOMAIN dirs : dirs[k].num \in Nat /\ dirs[k].num <= Len(made)
      <4>1. Numbers \subseteq 1..MaxRuns
        BY <1>3, Views, DirView
      <4>2. \A k \in DOMAIN dirs : dirs[k].num \in Numbers
        BY DEF Numbers
      <4>3. \A m \in Numbers : m \in Nat /\ m <= Len(made)
        BY <4>1 DEF Inv, Dumps
      <4> QED
        BY <4>2, <4>3
    <3>2. \A k, l \in DOMAIN dirs : k <= l => dirs[l].num - dirs[k].num >= l - k
      BY <1>2 DEF Inv, OrderOK
    <3>3. CASE j \in DOMAIN dirs
      <4>1. i \in DOMAIN dirs
        BY <1>8, <2>4, <3>3
      <4> QED
        BY <1>8, <2>4, <3>2, <3>3, <4>1
    <3>4. CASE j \notin DOMAIN dirs
      <4>1. j = Len(dirs) + 1 /\ dirs'[j].num = Len(made) + 1
        BY <1>8, <2>1, <3>4
      <4>2. CASE i = j
        BY <1>3, <1>8, <4>1, <4>2
      <4>3. CASE i # j
        <5>1. i \in DOMAIN dirs /\ Len(dirs) \in DOMAIN dirs /\ i <= Len(dirs) /\ dirs'[i] = dirs[i]
          BY <1>8, <2>4, <4>1, <4>3
        <5>2. dirs[Len(dirs)].num - dirs[i].num >= Len(dirs) - i
          BY <3>2, <5>1
        <5>3. dirs[Len(dirs)].num \in Nat /\ dirs[i].num \in Nat /\ dirs[Len(dirs)].num <= Len(made)
          BY <3>1, <5>1
        <5>4. i \in Int /\ Len(dirs) \in Int /\ Len(made) \in Int
          BY <1>3, <1>8, <5>1
        <5>5. (Len(made) + 1) - dirs[i].num >= (Len(dirs) + 1) - i
          BY <5>2, <5>3, <5>4, SMTT(30)
        <5> QED
          BY <4>1, <5>1, <5>5
      <4> QED
        BY <4>2, <4>3
    <3> QED
      BY <3>3, <3>4
  <2>5. DOMAIN doomed' = {} /\ torn' # "now"
    BY <1>1, <1>2, EmptySeq
  <2> QED
    BY <2>2, <2>3, <2>4, <2>5 DEF OrderOK
<1>18. Survives'
  <2> SUFFICES ASSUME NEW i \in DOMAIN made', made'[i].ok, torn' # "left", Protected(i)'
               PROVE  Holds(dirs', made'[i])
    BY DEF Survives
  <2>1. i \in DOMAIN made /\ made'[i] = made[i]
    BY <1>3, <1>9, <1>10
  <2>2. Protected(i)
    BY <1>3, <1>10, <2>1, PersistenceConstants DEF Protected
  <2>3. Holds(dirs, made[i])
    BY <1>1, <2>1, <2>2 DEF Inv, Survives
  <2>4. made[i].num \in Numbers /\ made[i].num # n
    BY <1>4, <2>3, Views DEF Holds
  <2> QED
    BY <1>7, <2>1, <2>3, <2>4, Views DEF Holds
<1>19. WrittenOK' /\ LoadOK'
  BY <1>1 DEF WrittenOK, LoadOK
<1> QED
  BY <1>12, <1>13, <1>14, <1>15, <1>16, <1>17, <1>18, <1>19 DEF Inv

LEMMA CollectKeeps == ASSUME Inv, Collect PROVE Inv'
<1>1. /\ app = "collect" /\ walked < NShards /\ walked' = walked + 1
      /\ snap' = [snap EXCEPT ![walked'] = mem[walked']]
      /\ app' = IF walked' = NShards THEN "write" ELSE "collect"
      /\ writer' = IF walked' = NShards THEN [s \in Shards |-> "queued"] ELSE writer
      /\ dirs' = dirs /\ doomed' = doomed /\ torn' = torn /\ run' = run /\ main' = main
      /\ token' = token /\ mem' = mem /\ load' = load /\ own' = own /\ failures' = failures
      /\ made' = made /\ faults' = faults
  BY DEF Collect, diskVars
<1>2. writer = NoWriters /\ doomed = <<>> /\ NoWriters' = NoWriters
  BY <1>1 DEF Inv, StagesOK, NoWriters
<1>3. Vars'
  <2>1. /\ walked \in 0..NShards /\ snap \in [Shards -> Values] /\ mem \in [Shards -> Values]
        /\ writer \in [Shards -> {"none", "queued", "open", "flushed"}]
    BY DEF Inv, Vars
  <2>2. walked' \in 0..NShards /\ walked' \in Shards
    BY <1>1, <2>1, PersistenceConstants DEF Shards
  <2>3. snap' \in [Shards -> Values]
    BY <1>1, <2>1, <2>2
  <2>4. writer' \in [Shards -> {"none", "queued", "open", "flushed"}]
    BY <1>1, <2>1
  <2>5. app' \in {"collect", "write"}
    BY <1>1
  <2> QED
    BY <1>1, <2>2, <2>3, <2>4, <2>5 DEF Inv, Vars
<1>4. Disk' /\ OrderOK' /\ Survives'
  BY <1>1, QuietDisk
<1>5. Marked'
  BY <1>1, SameDirs DEF Inv, Marked
<1>6. StagesOK'
  BY <1>1, <1>2 DEF Inv, StagesOK
<1>7. Dumps'
  <2>1. Numbers' = Numbers /\ FilesOf(own)' = FilesOf(own) /\ app' \in {"collect", "write"}
    BY <1>1, SameDirs DEF FilesOf
  <2> QED
    BY <1>1, <2>1 DEF Inv, Dumps
<1>8. WrittenOK'
  <2>1. app' \in {"write", "rotate"} => \A s \in Shards : writer'[s] = "queued"
    BY <1>1
  <2> QED
    BY <2>1 DEF WrittenOK
<1>9. LoadOK'
  BY <1>1 DEF LoadOK
<1> QED
  BY <1>3, <1>4, <1>5, <1>6, <1>7, <1>8, <1>9 DEF Inv

\* When a writer is at work: its directory is there, no removal is under way.
LEMMA WriterAtWork ==
  ASSUME Inv, NEW s \in Shards, writer[s] # "none"
  PROVE  /\ writer # NoWriters /\ doomed = <<>> /\ main # "down"
         /\ app \in {"off", "write", "done"}
         /\ made # <<>> /\ Last(made).num = own /\ Last(made).run = run /\ ~Last(made).ok
         /\ own \in Numbers /\ \A f \in FilesOf(own) : f.stamp = run
<1>1. writer # NoWriters
  BY DEF NoWriters
<1>2. doomed = <<>> /\ main # "down" /\ app \in {"off", "write", "done"}
  BY <1>1 DEF Inv, StagesOK, Vars
<1>3. /\ made # <<>> /\ Last(made).num = own /\ Last(made).run = run /\ ~Last(made).ok
      /\ own \in Numbers /\ \A f \in FilesOf(own) : f.stamp = run
  BY <1>1 DEF Inv, Dumps
<1> QED
  BY <1>1, <1>2, <1>3

LEMMA WriteFailsKeeps == ASSUME Inv, NEW s \in Shards, WriteFails(s) PROVE Inv'
<1>1. /\ writer[s] # "none" /\ writer' = [writer EXCEPT ![s] = "none"] /\ failures' = TRUE /\ Fault
      /\ dirs' = dirs /\ doomed' = doomed /\ torn' = torn /\ run' = run /\ main' = main
      /\ token' = token /\ app' = app /\ mem' = mem /\ load' = load /\ own' = own
      /\ walked' = walked /\ snap' = snap /\ made' = made
  BY DEF WriteFails, diskVars
<1>2. /\ writer # NoWriters /\ doomed = <<>> /\ main # "down" /\ app \in {"off", "write", "done"}
      /\ made # <<>> /\ Last(made).num = own /\ Last(made).run = run /\ ~Last(made).ok
      /\ own \in Numbers /\ \A f \in FilesOf(own) : f.stamp = run
  BY <1>1, WriterAtWork
<1>3. Vars'
  <2>1. faults' \in 0..MaxFaults
    BY <1>1, FaultTypes DEF Inv, Vars
  <2>2. writer' \in [Shards -> {"none", "queued", "open", "flushed"}]
    BY <1>1 DEF Inv, Vars
  <2> QED
    BY <1>1, <2>1, <2>2 DEF Inv, Vars
<1>4. Disk' /\ OrderOK' /\ Survives'
  BY <1>1, QuietDisk
<1>5. Marked'
  BY <1>1, SameDirs DEF Inv, Marked
<1>6. StagesOK'
  BY <1>1, <1>2 DEF Inv, StagesOK
<1>7. Dumps'
  <2>1. Numbers' = Numbers /\ FilesOf(own)' = FilesOf(own)
    BY <1>1, SameDirs DEF FilesOf
  <2> QED
    BY <1>1, <1>2, <2>1 DEF Inv, Dumps
<1>8. WrittenOK' /\ LoadOK'
  BY <1>1, <1>2 DEF WrittenOK, LoadOK
<1> QED
  BY <1>3, <1>4, <1>5, <1>6, <1>7, <1>8 DEF Inv

\* What Rotate marks: directories that exist, each once, none of a dump that
\* is to be kept.
LEMMA OutdatedProps ==
  ASSUME Inv, doomed = <<>>
  PROVE  /\ Outdated \in Seq(1..MaxRuns)
         /\ \A i \in DOMAIN Outdated : Outdated[i] \in Numbers
         /\ \A i, j \in DOMAIN Outdated : Outdated[i] = Outdated[j] => i = j
         /\ torn # "left" => \A i \in DOMAIN Outdated : ~Protected(Outdated[i])
<1> DEFINE L == Len(dirs)
           pos(i) == L - MaxVersions + 1 - i
<1>1. dirs \in Seq(Dir) /\ Distinct(dirs) /\ DOMAIN dirs = 1..L /\ L \in Nat
  BY LenProperties DEF Inv, Disk
<1>2. CASE MaxVersions = 0 \/ L <= MaxVersions
  <2>1. Outdated = <<>>
    BY <1>2 DEF Outdated
  <2>2. Outdated \in Seq(1..MaxRuns) /\ DOMAIN Outdated = {}
    BY <2>1, EmptySeq
  <2> QED
    BY <2>2
<1>3. CASE ~(MaxVersions = 0 \/ L <= MaxVersions)
  <2>1. MaxVersions \in Nat /\ MaxVersions > 0 /\ L - MaxVersions \in Nat
    BY <1>1, <1>3, PersistenceConstants
  <2>2. Outdated = [i \in 1..(L - MaxVersions) |-> dirs[pos(i)].num]
    BY <1>3 DEF Outdated
  <2>3. \A i \in 1..(L - MaxVersions) : pos(i) \in DOMAIN dirs
    BY <1>1, <2>1
  <2>4. \A i \in DOMAIN dirs : dirs[i].num \in Numbers
    BY DEF Numbers
  <2>5. Numbers \subseteq 1..MaxRuns
    BY <1>1, Views, DirView
  <2>6. DOMAIN Outdated = 1..(L - MaxVersions) /\ \A i \in DOMAIN Outdated : Outdated[i] = dirs[pos(i)].num
    BY <2>2
  <2>7. \A i \in DOMAIN Outdated : Outdated[i] \in Numbers
    BY <2>3, <2>4, <2>6
  <2>8. Outdated \in [1..(L - MaxVersions) -> 1..MaxRuns]
    BY <2>2, <2>3, <2>4, <2>5
  <2>9. Outdated \in Seq(1..MaxRuns)
    BY <2>1, <2>8, SeqDef
  <2>10. ASSUME NEW i \in DOMAIN Outdated, NEW j \in DOMAIN Outdated, Outdated[i] = Outdated[j]
         PROVE  i = j
    <3>1. pos(i) = pos(j)
      <4> HIDE DEF pos
      <4> QED
        BY <1>1, <2>3, <2>6, <2>10 DEF Distinct
    <3> QED
      BY <1>1, <2>1, <2>6, <3>1
  <2>11. ASSUME torn # "left", NEW i \in DOMAIN Outdated PROVE ~Protected(Outdated[i])
    <3>1. torn = "no"
      BY <2>11 DEF Inv, Vars, StagesOK
    <3>2. pos(i) \in DOMAIN dirs /\ L \in DOMAIN dirs /\ pos(i) <= L /\ L - pos(i) >= MaxVersions
      BY <1>1, <2>1, <2>6
    <3>3. dirs[L].num - dirs[pos(i)].num >= L - pos(i)
      <4> HIDE DEF pos
      <4> QED
        BY <2>11, <3>1, <3>2 DEF Inv, OrderOK
    <3> HIDE DEF pos
    <3>4. dirs[L].num \in Nat /\ dirs[pos(i)].num \in Nat
      <4>1. \A n \in Numbers : n \in Nat
        BY <2>5
      <4> QED
        BY <2>4, <3>2, <4>1
    <3>5. dirs[L].num <= Len(made) /\ Len(made) \in Nat
      BY <2>4, <3>2, LenProperties DEF Inv, Dumps
    <3>6. L - pos(i) \in Int
      BY <1>1, <3>2
    <3>7. Len(made) - dirs[pos(i)].num >= MaxVersions
      BY <2>1, <3>2, <3>3, <3>4, <3>5, <3>6
    <3> QED
      BY <2>1, <2>6, <3>4, <3>5, <3>7 DEF Protected
  <2> QED
    BY <2>7, <2>9, <2>10, <2>11
<1> QED
  BY <1>2, <1>3

LEMMA RotateKeeps == ASSUME Inv, Rotate PROVE Inv'
<1>1. /\ app = "write" /\ writer = NoWriters /\ doomed' = Outdated /\ app' = "rotate"
      /\ dirs' = dirs /\ run' = run /\ main' = main /\ token' = token /\ mem' = mem
      /\ load' = load /\ own' = own /\ walked' = walked /\ snap' = snap /\ writer' = writer
      /\ failures' = failures /\ made' = made /\ torn' = torn /\ faults' = faults
  BY DEF Rotate, dumpVars
<1>2. doomed = <<>> /\ torn # "now" /\ NoWriters' = NoWriters
  BY <1>1 DEF Inv, StagesOK, NoWriters
<1>3. Vars'
  BY <1>1 DEF Inv, Vars
<1>4. Disk' /\ Numbers' = Numbers /\ \A n : FilesOf(n)' = FilesOf(n)
  BY <1>1, SameDirs DEF Inv
<1>5. Marked'
  BY <1>1, <1>2, <1>4, OutdatedProps DEF Marked
<1>6. Dumps'
  BY <1>1, <1>2, <1>4 DEF Inv, Dumps
<1>7. StagesOK'
  BY <1>1, <1>2 DEF Inv, StagesOK
<1>8. OrderOK'
  <2>1. \A i : Protected(i)' <=> Protected(i)
    BY <1>1 DEF Protected
  <2>2. torn # "left" => \A i \in DOMAIN doomed' : ~Protected(doomed'[i])
    BY <1>1, <1>2, OutdatedProps
  <2> QED
    BY <1>1, <1>2, <1>4, <2>1, <2>2 DEF Inv, OrderOK
<1>9. Survives'
  BY <1>1, SameDirs DEF Inv, Survives, Protected
<1>10. WrittenOK'
  <2>1. FilesOf(own)' = FilesOf(own)
    BY <1>1 DEF FilesOf
  <2> QED
    BY <1>1, <2>1 DEF Inv, WrittenOK
<1>11. LoadOK'
  BY <1>1 DEF LoadOK
<1> QED
  BY <1>3, <1>4, <1>5, <1>6, <1>7, <1>8, <1>9, <1>10, <1>11 DEF Inv

\* A dump that returns Ok without failures has left all its files.
LEMMA DumpReturnsKeeps == ASSUME Inv, DumpReturns PROVE Inv'
<1> DEFINE L == Len(made)
           d == [made[L] EXCEPT !.ok = ~failures, !.snap = snap]
<1>1. /\ app = "rotate" /\ doomed = <<>> /\ app' = "done" /\ token' = TRUE
      /\ made' = [made EXCEPT ![L].ok = ~failures, ![L].snap = snap]
      /\ dirs' = dirs /\ doomed' = doomed /\ torn' = torn /\ run' = run /\ main' = main
      /\ mem' = mem /\ load' = load /\ own' = own /\ walked' = walked /\ snap' = snap
      /\ writer' = writer /\ failures' = failures /\ faults' = faults
  BY DEF DumpReturns, Closed, diskVars, dumpVars
<1>2. /\ writer = NoWriters /\ torn # "now" /\ NoWriters' = NoWriters
      /\ made # <<>> /\ Last(made).num = own /\ Last(made).run = run
      /\ L <= run /\ \A n \in Numbers : n <= L
  BY <1>1 DEF Inv, StagesOK, Dumps, NoWriters
<1>3. made \in Seq(Dump) /\ L \in Nat /\ DOMAIN made = 1..L /\ L \in DOMAIN made
  <2>1. made \in Seq(Dump)
    BY DEF Inv, Dumps
  <2> QED
    BY <1>2, <2>1, LenProperties, EmptySeq
<1>4. made[L] \in Dump /\ Last(made) = made[L]
  BY <1>3, ElementOfSeq DEF Last
<1>5. d \in Dump /\ d.num = own /\ d.run = run /\ d.snap = snap /\ d.ok = ~failures
  BY <1>2, <1>4 DEF Dump, Inv, Vars
<1>6. made' = [made EXCEPT ![L] = d]
  BY <1>1, <1>3
<1> HIDE DEF d
<1>7. /\ made' \in Seq(Dump) /\ Len(made') = L /\ DOMAIN made' = 1..L
      /\ made'[L] = d /\ \A i \in 1..L : i # L => made'[i] = made[i]
  BY <1>3, <1>5, <1>6, ExceptSeq
<1>8. Vars'
  BY <1>1 DEF Inv, Vars
<1>9. Disk' /\ Numbers' = Numbers /\ \A n : FilesOf(n)' = FilesOf(n)
  BY <1>1, SameDirs DEF Inv
<1>10. Marked'
  BY <1>1, <1>9 DEF Inv, Marked
<1>11. StagesOK'
  BY <1>1, <1>2 DEF Inv, StagesOK
<1>12. Dumps'
  BY <1>1, <1>2, <1>7, <1>9 DEF Dumps
<1>13. \A i : Protected(i)' <=> Protected(i)
  BY <1>7 DEF Protected
<1>14. OrderOK'
  <2> SUFFICES ASSUME torn # "left" PROVE OrderOK'
    BY <1>1 DEF OrderOK
  <2>1. \A i \in DOMAIN made' : made'[i].num = i
    BY <1>2, <1>3, <1>4, <1>5, <1>7 DEF Inv, OrderOK
  <2>2. made # <<>> => Len(made) \in Numbers
    BY DEF Inv, OrderOK
  <2>3. \A i, j \in DOMAIN dirs : i <= j => dirs[j].num - dirs[i].num >= j - i
    BY <1>2 DEF Inv, OrderOK
  <2>4. DOMAIN doomed' = {}
    BY <1>1, EmptySeq
  <2> QED
    BY <1>1, <1>2, <1>7, <1>9, <2>1, <2>2, <2>3, <2>4 DEF OrderOK
<1>15. Survives'
  <2> SUFFICES ASSUME NEW i \in DOMAIN made', made'[i].ok, torn # "left", Protected(i)
               PROVE  Holds(dirs, made'[i])
    BY <1>1, <1>13 DEF Survives
  <2>1. CASE i # L
    BY <1>3, <1>7, <2>1 DEF Inv, Survives
  <2>2. CASE i = L
    <3>1. ~failures
      BY <1>5, <1>7, <2>2
    <3>2. \A s \in Shards : \E f \in FilesOf(own) :
            f.shard = s /\ f.name = "dump" /\ f.stamp = run /\ f.val = snap[s]
      BY <1>1, <1>2, <3>1 DEF Inv, WrittenOK, NoWriters
    <3>3. own \in Numbers
      BY <1>2, <1>3, <1>4 DEF Inv, OrderOK
    <3> QED
      BY <1>5, <1>7, <2>2, <3>2, <3>3, Views, ZenonT(60) DEF Holds
  <2> QED
    BY <2>1, <2>2
<1>16. WrittenOK' /\ LoadOK'
  BY <1>1 DEF WrittenOK, LoadOK
<1> QED
  BY <1>8, <1>9, <1>10, <1>11, <1>12, <1>14, <1>15, <1>16 DEF Inv

\* A writer replaces its shard's file in its directory, which is the newest
\* already: the order of the directories stays, and so do the other dumps.
LEMMA ReplacedKeeps ==
  ASSUME Inv, NEW s \in Shards, writer[s] # "none",
         NEW f \in File, f.shard = s, f.stamp = run, f.name = "dump" => f.whole,
         dirs' = Replaced(s, f), made' = made, torn' = torn, doomed' = doomed
  PROVE  /\ Disk' /\ OrderOK' /\ Survives' /\ Numbers' = Numbers
         /\ FilesIn(dirs', own) = {g \in FilesOf(own) : g.shard # s} \cup {f}
<1> DEFINE F == {g \in FilesOf(own) : g.shard # s} \cup {f}
<1>1. /\ doomed = <<>> /\ made # <<>> /\ Last(made).num = own /\ ~Last(made).ok
      /\ own \in Numbers /\ \A g \in FilesOf(own) : g.stamp = run
  BY WriterAtWork
<1>2. dirs \in Seq(Dir) /\ Distinct(dirs) /\ GoodFiles(dirs)
  BY DEF Inv, Disk
<1>3. FilesOf(own) \subseteq File /\ own \in 1..MaxRuns
  BY <1>1, <1>2, Views, DirView
<1>4. dirs' = Touched(own, F)
  <2>1. (FilesOf(own) \ OwnFiles(s)) \cup {f} = F
    BY <1>1 DEF OwnFiles
  <2> QED
    BY <2>1 DEF Replaced
<1>5. F \in SUBSET File
  BY <1>3
<1>6. PICK n \in 1..MaxRuns, G \in SUBSET File : n = own /\ G = F
  BY <1>3, <1>5
<1> HIDE DEF F
<1>7. /\ dirs' \in Seq(Dir) /\ Distinct(dirs') /\ NumbersIn(dirs') = Numbers
      /\ FilesIn(dirs', n) = G /\ \A m : m # n => FilesIn(dirs', m) = FilesOf(m)
  <2>1. dirs' = Touched(n, G)
    BY <1>4, <1>6
  <2>2. /\ dirs' \in Seq(Dir) /\ Distinct(dirs') /\ NumbersIn(dirs') = Numbers \cup {n}
        /\ FilesIn(dirs', n) = G /\ \A m : m # n => FilesIn(dirs', m) = FilesOf(m)
    BY <1>2, <2>1, TouchedProps
  <2>3. Numbers \cup {n} = Numbers
    BY <1>1, <1>6
  <2> QED
    BY <2>2, <2>3
<1>8. /\ Len(dirs) \in Nat /\ Len(dirs') = Len(dirs)
      /\ DOMAIN dirs = 1..Len(dirs) /\ DOMAIN dirs' = 1..Len(dirs)
      /\ \E k \in 1..Len(dirs) :
           /\ dirs[k].num = n
           /\ dirs'[Len(dirs)].num = n
           /\ \A j \in 1..(Len(dirs) - 1) : dirs'[j] = IF j < k THEN dirs[j] ELSE dirs[j + 1]
  <2>1. dirs' = Touched(n, G) /\ n \in Numbers
    BY <1>1, <1>4, <1>6
  <2>2. PICK k \in 1..Len(dirs) :
          /\ dirs[k].num = n /\ Len(Others(n)) = Len(dirs) - 1
          /\ \A j \in 1..(Len(dirs) - 1) : Others(n)[j] = IF j < k THEN dirs[j] ELSE dirs[j + 1]
    BY <1>2, <2>1, OthersProps
  <2>3. /\ Len(dirs') = Len(Others(n)) + 1 /\ dirs'[Len(Others(n)) + 1].num = n
        /\ \A j \in 1..Len(Others(n)) : dirs'[j] = Others(n)[j]
    BY <1>2, <2>1, TouchedProps
  <2>4. Len(dirs) \in Nat /\ DOMAIN dirs = 1..Len(dirs) /\ DOMAIN dirs' = 1..Len(dirs')
    BY <1>2, <1>7, LenProperties
  <2>5. Len(dirs') = Len(dirs) /\ dirs'[Len(dirs)].num = n
    BY <2>2, <2>3, <2>4
  <2>6. \A j \in 1..(Len(dirs) - 1) : dirs'[j] = IF j < k THEN dirs[j] ELSE dirs[j + 1]
    BY <2>2, <2>3
  <2> QED
    BY <2>2, <2>4, <2>5, <2>6
<1>9. Numbers' = Numbers
  BY <1>7, Views
<1>10. GoodFiles(dirs')
  <2> SUFFICES ASSUME NEW m \in Numbers, NEW g \in FilesIn(dirs', m), NEW h \in FilesIn(dirs', m)
               PROVE  (g.name = "dump" => g.whole) /\ g.stamp = h.stamp /\ (g.shard = h.shard => g = h)
    BY <1>7 DEF GoodFiles
  <2>1. CASE m # n
    BY <1>2, <1>7, <2>1, Views DEF GoodFiles
  <2>2. CASE m = n
    <3>1. g \in F /\ h \in F
      BY <1>6, <1>7, <2>2
    <3>2. \A x, y \in FilesOf(own) : (x.name = "dump" => x.whole) /\ (x.shard = y.shard => x = y)
      BY <1>1, <1>2, Views DEF GoodFiles
    <3> QED
      BY <1>1, <3>1, <3>2 DEF F
  <2> QED
    BY <2>1, <2>2
<1>11. OrderOK'
  <2> SUFFICES ASSUME torn # "left" PROVE OrderOK'
    BY DEF OrderOK
  <2>1. dirs[Len(dirs)].num = Len(made) /\ Last(made).num = Len(made) /\ Len(dirs) \in 1..Len(dirs)
    BY <1>1, NewestIsLast
  <2>2. n = Len(made)
    BY <1>1, <1>6, <2>1
  <2>3. PICK k \in 1..Len(dirs) :
          /\ dirs[k].num = n
          /\ dirs'[Len(dirs)].num = n
          /\ \A j \in 1..(Len(dirs) - 1) : dirs'[j] = IF j < k THEN dirs[j] ELSE dirs[j + 1]
    BY <1>8
  <2>4. k = Len(dirs)
    <3>1. k \in DOMAIN dirs /\ Len(dirs) \in DOMAIN dirs /\ dirs[k].num = dirs[Len(dirs)].num
      BY <1>8, <2>1, <2>2, <2>3
    <3> QED
      BY <1>2, <3>1 DEF Distinct
  <2>5. \A j \in DOMAIN dirs' : dirs'[j].num = dirs[j].num
    BY <1>8, <2>1, <2>2, <2>3, <2>4
  <2>6. torn # "now" /\ torn' # "now" /\ DOMAIN doomed' = {}
    BY <1>1, EmptySeq DEF Inv, StagesOK
  <2>7. \A i, j \in DOMAIN dirs : i <= j => dirs[j].num - dirs[i].num >= j - i
    BY <2>6 DEF Inv, OrderOK
  <2>8. \A i, j \in DOMAIN dirs' : i <= j => dirs'[j].num - dirs'[i].num >= j - i
    BY <1>8, <2>5, <2>7
  <2>9. (\A i \in DOMAIN made : made[i].num = i) /\ Len(made) \in Numbers
    BY <1>1 DEF Inv, OrderOK
  <2> QED
    BY <1>9, <2>6, <2>8, <2>9 DEF OrderOK
<1>12. Survives'
  <2> SUFFICES ASSUME NEW i \in DOMAIN made, made[i].ok, torn # "left", Protected(i)
               PROVE  Holds(dirs', made[i])
    BY DEF Survives, Protected
  <2>1. Holds(dirs, made[i]) /\ made[i].num = i
    BY DEF Inv, Survives, OrderOK
  <2>2. made[Len(made)] = Last(made) /\ Last(made).num = Len(made)
    BY <1>1, NewestIsLast
  <2>3. made[i].num # n
    BY <1>1, <1>6, <2>1, <2>2
  <2> QED
    BY <1>7, <2>1, <2>3, Views DEF Holds
<1> QED
  BY <1>6, <1>7, <1>9, <1>10, <1>11, <1>12 DEF F, Disk

\* What the steps of a writer leave, given what they do to the disk: the file
\* is there when the writer ends.
LEMMA WriterKeeps ==
  ASSUME Inv, NEW s \in Shards, writer[s] # "none", NEW w \in {"none", "open", "flushed"},
         writer' = [writer EXCEPT ![s] = w],
         UNCHANGED <<run, main, token, app, mem, load, own, walked, snap, failures, doomed, made, torn, faults>>,
         Disk', OrderOK', Survives', Numbers' = Numbers,
         \A g \in FilesIn(dirs', own) : g.stamp = run,
         \A g \in FilesOf(own) : g.shard # s => g \in FilesIn(dirs', own),
         w = "none" => \E g \in FilesIn(dirs', own) :
                         g.shard = s /\ g.name = "dump" /\ g.stamp = run /\ g.val = snap[s]
  PROVE  Inv'
<1>1. /\ writer # NoWriters /\ doomed = <<>> /\ main # "down" /\ app \in {"off", "write", "done"}
      /\ made # <<>> /\ Last(made).num = own /\ Last(made).run = run /\ ~Last(made).ok
      /\ own \in Numbers
  BY WriterAtWork
<1>2. /\ run' = run /\ main' = main /\ app' = app /\ own' = own /\ snap' = snap
      /\ failures' = failures /\ doomed' = doomed /\ made' = made /\ torn' = torn
  OBVIOUS
<1>3. FilesOf(own)' = FilesIn(dirs', own)
  BY <1>2 DEF FilesOf, FilesIn
<1>4. writer \in [Shards -> {"none", "queued", "open", "flushed"}]
  BY DEF Inv, Vars
<1>5. Vars'
  <2>1. writer' \in [Shards -> {"none", "queued", "open", "flushed"}]
    BY <1>4
  <2> QED
    BY <2>1 DEF Inv, Vars
<1>6. Marked'
  BY <1>2 DEF Inv, Marked
<1>7. Dumps'
  BY <1>1, <1>2, <1>3 DEF Inv, Dumps
<1>8. StagesOK'
  BY <1>1, <1>2 DEF Inv, StagesOK
<1>9. WrittenOK'
  <2> SUFFICES ASSUME app \in {"write", "rotate"}, ~failures, torn # "left",
                      NEW t \in Shards, writer'[t] = "none"
               PROVE  \E g \in FilesIn(dirs', own) :
                        g.shard = t /\ g.name = "dump" /\ g.stamp = run /\ g.val = snap[t]
    BY <1>2, <1>3 DEF WrittenOK
  <2>1. CASE t = s
    BY <1>4, <2>1
  <2>2. CASE t # s
    <3>1. writer[t] = "none"
      BY <1>4, <2>2
    <3>2. PICK g \in FilesOf(own) : g.shard = t /\ g.name = "dump" /\ g.stamp = run /\ g.val = snap[t]
      BY <3>1 DEF Inv, WrittenOK
    <3> QED
      BY <2>2, <3>2
  <2> QED
    BY <2>1, <2>2
<1>10. LoadOK'
  BY <1>1, <1>2 DEF LoadOK
<1> QED
  BY <1>5, <1>6, <1>7, <1>8, <1>9, <1>10 DEF Inv

LEMMA WriteStepKeeps == ASSUME Inv, NEW s \in Shards, WriteStep(s) PROVE Inv'
<1> DEFINE same == UNCHANGED <<run, main, token, app, mem, load, own, walked, snap, failures, doomed, made, torn, faults>>
<1>1. same
  BY DEF WriteStep
<1>2. made' = made /\ torn' = torn /\ doomed' = doomed /\ own' = own
  BY <1>1
<1> HIDE DEF same
<1>3. /\ run \in 1..MaxRuns /\ snap[s] \in Values /\ 0 \in Values
  <2>1. run \in 0..MaxRuns /\ snap \in [Shards -> Values]
    BY DEF Inv, Vars
  <2>2. CASE writer[s] = "none"
    BY <2>2 DEF WriteStep, Create, Flush, Rename, Ready
  <2>3. CASE writer[s] # "none"
    <3>1. made # <<>> /\ Last(made).run = run
      BY <2>3, WriterAtWork
    <3>2. made \in Seq(Dump)
      BY DEF Inv, Dumps
    <3>3. Len(made) \in 1..Len(made)
      BY <3>1, <3>2, LenProperties, EmptySeq
    <3>4. Last(made) \in Dump
      BY <3>2, <3>3, ElementOfSeq DEF Last
    <3>5. run \in 1..MaxRuns
      BY <3>1, <3>4 DEF Dump
    <3> QED
      BY <2>1, <3>5, BlankTypes DEF Values
  <2> QED
    BY <2>2, <2>3
<1>4. CASE Create(s)
  <2>1. writer[s] = "queued" /\ writer' = [writer EXCEPT ![s] = "open"]
    BY <1>4 DEF Create
  <2>2. PICK f \in File : f = Named(s, "tmp", FALSE) /\ f.shard = s /\ f.stamp = run /\ f.name = "tmp"
    <3>1. Named(s, "tmp", FALSE) \in File
      BY <1>3 DEF Named, File
    <3> QED
      BY <3>1 DEF Named
  <2>3. dirs' = Replaced(s, f)
    BY <1>4, <2>2 DEF Create
  <2>4. /\ Disk' /\ OrderOK' /\ Survives' /\ Numbers' = Numbers
        /\ FilesIn(dirs', own) = {g \in FilesOf(own) : g.shard # s} \cup {f}
    BY <1>2, <2>1, <2>2, <2>3, ReplacedKeeps
  <2>5. \A g \in FilesOf(own) : g.stamp = run
    BY <2>1, WriterAtWork
  <2>6. \A g \in FilesIn(dirs', own) : g.stamp = run
    BY <2>2, <2>4, <2>5
  <2>7. \A g \in FilesOf(own) : g.shard # s => g \in FilesIn(dirs', own)
    BY <2>4
  <2> QED
    BY <1>1, <2>1, <2>4, <2>6, <2>7, WriterKeeps DEF same
<1>5. CASE Flush(s)
  <2>1. writer[s] = "open" /\ writer' = [writer EXCEPT ![s] = "flushed"] /\ dirs' = dirs
    BY <1>5 DEF Flush
  <2>2. Disk' /\ OrderOK' /\ Survives'
    BY <1>2, <2>1, QuietDisk
  <2>3. \A g \in FilesOf(own) : g.stamp = run
    BY <2>1, WriterAtWork
  <2>4. Numbers' = Numbers /\ FilesIn(dirs', own) = FilesOf(own)
    BY <2>1, Views
  <2> QED
    BY <1>1, <2>1, <2>2, <2>3, <2>4, WriterKeeps DEF same
<1>6. CASE Rename(s)
  <2>1. writer[s] = "flushed" /\ writer' = [writer EXCEPT ![s] = "none"]
    BY <1>6 DEF Rename, Ready
  <2>2. PICK f \in File : /\ f = Named(s, "dump", TRUE) /\ f.shard = s /\ f.stamp = run
                          /\ f.name = "dump" /\ f.whole /\ f.val = snap[s]
    <3>1. Named(s, "dump", TRUE) \in File
      BY <1>3 DEF Named, File
    <3> QED
      BY <3>1 DEF Named
  <2>3. dirs' = Replaced(s, f)
    BY <1>6, <2>1, <2>2 DEF Rename
  <2>4. /\ Disk' /\ OrderOK' /\ Survives' /\ Numbers' = Numbers
        /\ FilesIn(dirs', own) = {g \in FilesOf(own) : g.shard # s} \cup {f}
    BY <1>2, <2>1, <2>2, <2>3, ReplacedKeeps
  <2>5. \A g \in FilesOf(own) : g.stamp = run
    BY <2>1, WriterAtWork
  <2>6. \A g \in FilesIn(dirs', own) : g.stamp = run
    BY <2>2, <2>4, <2>5
  <2>7. /\ \A g \in FilesOf(own) : g.shard # s => g \in FilesIn(dirs', own)
        /\ f \in FilesIn(dirs', own)
    BY <2>4
  <2> QED
    BY <1>1, <2>1, <2>2, <2>4, <2>6, <2>7, WriterKeeps DEF same
<1> QED
  BY <1>4, <1>5, <1>6 DEF WriteStep

-----------------------------------------------------------------------------
(* Rotation *)

\* Positions after the k-th has been dropped.
Skip(k, i) == IF i < k THEN i ELSE i + 1

LEMMA SkipProps ==
  ASSUME NEW L \in Nat, NEW k \in 1..L, NEW i \in 1..(L - 1), NEW j \in 1..(L - 1), i <= j
  PROVE  /\ Skip(k, i) \in 1..L /\ Skip(k, j) \in 1..L /\ Skip(k, i) <= Skip(k, j)
         /\ Skip(k, j) - Skip(k, i) >= j - i
         /\ k = L => Skip(k, j) < L
BY DEF Skip

\* The directories other than the one being removed are in order.
LEMMA OthersInOrder ==
  ASSUME Inv, doomed # <<>>, torn # "left"
  PROVE  \A i, j \in DOMAIN Others(Head(doomed)) :
           i <= j => Others(Head(doomed))[j].num - Others(Head(doomed))[i].num >= j - i
<1>1. dirs \in Seq(Dir) /\ Distinct(dirs) /\ Len(dirs) \in Nat /\ DOMAIN dirs = 1..Len(dirs)
  BY LenProperties DEF Inv, Disk
<1>2. PICK h \in Numbers : h = Head(doomed)
  BY HeadProps DEF Inv, Marked
<1>3. PICK k \in 1..Len(dirs) :
        /\ dirs[k].num = h /\ Len(Others(h)) = Len(dirs) - 1
        /\ \A j \in 1..(Len(dirs) - 1) : Others(h)[j] = IF j < k THEN dirs[j] ELSE dirs[j + 1]
  <2>1. h \in Numbers
    OBVIOUS
  <2> QED
    BY <1>1, <2>1, OthersProps
<1>4. DOMAIN Others(h) = 1..(Len(dirs) - 1)
  BY <1>1, <1>3, OthersProps, LenProperties
<1>5. torn = "now" => k = Len(dirs)
  <2> SUFFICES ASSUME torn = "now" PROVE k = Len(dirs)
    OBVIOUS
  <2>1. dirs # <<>> /\ Last(dirs).num = Head(doomed)
    BY DEF Inv, OrderOK
  <2>2. k \in DOMAIN dirs /\ Len(dirs) \in DOMAIN dirs /\ dirs[k].num = dirs[Len(dirs)].num
    BY <1>1, <1>2, <1>3, <2>1 DEF Last
  <2> QED
    BY <1>1, <2>2 DEF Distinct
<1>6. \A i, j \in DOMAIN dirs :
        i <= j /\ (torn = "now" => j < Len(dirs)) => dirs[j].num - dirs[i].num >= j - i
  BY DEF Inv, OrderOK
<1>7. ASSUME NEW i \in DOMAIN Others(h), NEW j \in DOMAIN Others(h), i <= j
      PROVE  Others(h)[j].num - Others(h)[i].num >= j - i
  <2> DEFINE p(x) == Skip(k, x)
  <2>1. Others(h)[i] = dirs[p(i)] /\ Others(h)[j] = dirs[p(j)]
    BY <1>3, <1>4 DEF Skip
  <2>2. /\ p(i) \in DOMAIN dirs /\ p(j) \in DOMAIN dirs /\ p(i) <= p(j)
        /\ p(j) - p(i) >= j - i /\ (k = Len(dirs) => p(j) < Len(dirs))
    <3>1. i \in 1..(Len(dirs) - 1) /\ j \in 1..(Len(dirs) - 1)
      BY <1>4
    <3> QED
      BY <1>1, <1>7, <3>1, SkipProps
  <2> HIDE DEF p
  <2>3. dirs[p(j)].num - dirs[p(i)].num >= p(j) - p(i)
    BY <1>5, <1>6, <2>2
  <2>4. dirs[p(j)].num \in Nat /\ dirs[p(i)].num \in Nat
    <3>1. \A x \in DOMAIN dirs : dirs[x] \in Dir
      BY <1>1, ElementOfSeq
    <3> QED
      BY <2>2, <3>1 DEF Dir
  <2>5. p(i) \in Int /\ p(j) \in Int /\ i \in Int /\ j \in Int
    <3>1. i \in 1..(Len(dirs) - 1) /\ j \in 1..(Len(dirs) - 1)
      BY <1>4
    <3>2. p(i) \in 1..Len(dirs) /\ p(j) \in 1..Len(dirs)
      BY <1>1, <2>2
    <3> QED
      BY <3>1, <3>2
  <2>6. dirs[p(j)].num - dirs[p(i)].num >= j - i
    BY <2>2, <2>3, <2>4, <2>5
  <2> QED
    BY <2>1, <2>6
<1> QED
  BY <1>2, <1>7

\* A step of the removal of h leaves the other directories, and h is not that
\* of a dump to be kept.
LEMMA RemovalKeeps ==
  ASSUME Inv, doomed # <<>>, NEW h, h = Head(doomed),
         UNCHANGED <<run, main, token, app, mem, load, dumpVars, made>>,
         faults' \in 0..MaxFaults, torn' \in {"no", "now", "left"}, torn = "left" => torn' = "left",
         Disk', Marked', Numbers \ {h} \subseteq Numbers', Numbers' \subseteq Numbers,
         \A m : m # h => FilesIn(dirs', m) = FilesOf(m),
         \A i \in DOMAIN doomed' : \E j \in DOMAIN doomed : doomed'[i] = doomed[j],
         doomed' = <<>> => torn' # "now",
         torn' # "left" =>
           /\ \A i, j \in DOMAIN dirs' :
                i <= j /\ (torn' = "now" => j < Len(dirs')) => dirs'[j].num - dirs'[i].num >= j - i
           /\ torn' = "now" => dirs' # <<>> /\ Last(dirs').num = Head(doomed')
  PROVE  Inv'
<1>1. /\ run' = run /\ main' = main /\ token' = token /\ app' = app /\ mem' = mem /\ load' = load
      /\ own' = own /\ walked' = walked /\ snap' = snap /\ writer' = writer /\ failures' = failures
      /\ made' = made
  BY DEF dumpVars
<1>2. /\ writer = NoWriters /\ NoWriters' = NoWriters /\ main # "down"
      /\ app \in {"off", "rotate", "done"}
  BY DEF Inv, StagesOK, Vars, NoWriters
<1>3. Vars'
  BY <1>1 DEF Inv, Vars
<1>4. StagesOK'
  BY <1>1, <1>2 DEF Inv, StagesOK
<1>5. Dumps'
  BY <1>1, <1>2 DEF Inv, Dumps
<1>6. \A i : Protected(i)' <=> Protected(i)
  BY <1>1 DEF Protected
<1>7. torn # "left" => ~Protected(h)
  <2>1. 1 \in DOMAIN doomed /\ h = doomed[1]
    BY HeadProps DEF Inv, Marked
  <2> QED
    BY <2>1 DEF Inv, OrderOK
<1>8. Protected(Len(made))
  <2>1. Len(made) \in Nat
    BY LenProperties DEF Inv, Dumps
  <2> QED
    BY <2>1, PersistenceConstants DEF Protected
<1>9. OrderOK'
  <2> SUFFICES ASSUME torn' # "left", torn # "left" PROVE OrderOK'
    BY DEF OrderOK
  <2>1. \A i \in DOMAIN made' : made'[i].num = i
    BY <1>1 DEF Inv, OrderOK
  <2>2. made' # <<>> => Len(made') \in Numbers'
    BY <1>1, <1>7, <1>8 DEF Inv, OrderOK
  <2>3. \A i \in DOMAIN doomed' : ~Protected(doomed'[i])
    BY DEF Inv, OrderOK
  <2> QED
    BY <1>6, <2>1, <2>2, <2>3 DEF OrderOK
<1>10. Survives'
  <2> SUFFICES ASSUME NEW i \in DOMAIN made, made[i].ok, torn # "left", Protected(i)
               PROVE  Holds(dirs', made[i])
    BY <1>1, <1>6 DEF Survives
  <2>1. Holds(dirs, made[i]) /\ made[i].num = i
    BY DEF Inv, Survives, OrderOK
  <2>2. i # h
    BY <1>7
  <2> QED
    BY <2>1, <2>2, Views DEF Holds
<1>11. WrittenOK'
  <2> SUFFICES ASSUME app = "rotate", ~failures, torn # "left", NEW s \in Shards
               PROVE  \E f \in FilesIn(dirs', own) :
                        f.shard = s /\ f.name = "dump" /\ f.stamp = run /\ f.val = snap[s]
    <3>1. FilesOf(own)' = FilesIn(dirs', own)
      BY <1>1 DEF FilesOf, FilesIn
    <3> QED
      BY <1>1, <1>2, <3>1 DEF WrittenOK
  <2>1. own = Len(made)
    <3>1. made # <<>> /\ Last(made).num = own /\ made \in Seq(Dump)
      BY DEF Inv, Dumps
    <3>2. Len(made) \in DOMAIN made
      BY <3>1, LenProperties, EmptySeq
    <3> QED
      BY <3>1, <3>2 DEF Inv, OrderOK, Last
  <2>2. FilesIn(dirs', own) = FilesOf(own)
    BY <1>7, <1>8, <2>1
  <2> QED
    BY <1>2, <2>2 DEF Inv, WrittenOK, NoWriters
<1>12. LoadOK'
  BY <1>1, <1>2 DEF LoadOK
<1> QED
  BY <1>3, <1>4, <1>5, <1>9, <1>10, <1>11, <1>12 DEF Inv

\* The removals that remain once the first is over.
LEMMA TailProps ==
  ASSUME Marked, doomed # <<>>
  PROVE  /\ Tail(doomed) \in Seq(1..MaxRuns)
         /\ \A i \in DOMAIN Tail(doomed) : \E j \in DOMAIN doomed : Tail(doomed)[i] = doomed[j]
         /\ \A i \in DOMAIN Tail(doomed) : Tail(doomed)[i] \in Numbers /\ Tail(doomed)[i] # Head(doomed)
         /\ \A i, j \in DOMAIN Tail(doomed) : Tail(doomed)[i] = Tail(doomed)[j] => i = j
<1>1. doomed \in Seq(1..MaxRuns) /\ Len(doomed) \in Nat /\ DOMAIN doomed = 1..Len(doomed)
  BY LenProperties DEF Marked
<1>2. PICK t \in Seq(1..MaxRuns) : /\ t = Tail(doomed) /\ Len(t) = Len(doomed) - 1
                                   /\ \A i \in 1..Len(t) : t[i] = doomed[i + 1]
  BY <1>1, HeadTailProperties
<1>3. DOMAIN t = 1..Len(t) /\ \A i \in 1..Len(t) : i + 1 \in 1..Len(doomed)
  BY <1>1, <1>2, LenProperties
<1>4. Head(doomed) = doomed[1] /\ 1 \in DOMAIN doomed
  BY <1>1, HeadProps
<1>5. \A i \in DOMAIN t : i + 1 \in DOMAIN doomed /\ t[i] = doomed[i + 1] /\ i + 1 # 1
  BY <1>1, <1>2, <1>3
<1>6. \A i \in DOMAIN t : t[i] \in Numbers /\ t[i] # Head(doomed)
  BY <1>4, <1>5 DEF Marked
<1>7. ASSUME NEW i \in DOMAIN t, NEW j \in DOMAIN t, t[i] = t[j] PROVE i = j
  <2>1. i + 1 = j + 1
    BY <1>5, <1>7 DEF Marked
  <2> QED
    BY <1>3, <2>1
<1> QED
  BY <1>2, <1>5, <1>6, <1>7

LEMMA RemoveFileKeeps == ASSUME Inv, RemoveFile PROVE Inv'
<1>1. /\ doomed # <<>> /\ torn' = (IF torn = "left" THEN "left" ELSE "now")
      /\ UNCHANGED <<run, main, token, app, mem, load, dumpVars, made>>
      /\ doomed' = doomed /\ faults' = faults
  BY DEF RemoveFile
<1>2. PICK h \in Numbers : h = Head(doomed)
  BY <1>1, HeadProps DEF Inv, Marked
<1>3. PICK f \in FilesOf(h) : dirs' = Touched(h, FilesOf(h) \ {f})
  BY <1>2 DEF RemoveFile
<1>4. dirs \in Seq(Dir) /\ Distinct(dirs) /\ GoodFiles(dirs)
  BY DEF Inv, Disk
<1>5. h \in 1..MaxRuns /\ FilesOf(h) \subseteq File
  BY <1>4, Views, DirView
<1>6. PICK F \in SUBSET File : F = FilesOf(h) \ {f}
  BY <1>5
<1>7. /\ dirs' \in Seq(Dir) /\ Distinct(dirs') /\ NumbersIn(dirs') = Numbers \cup {h}
      /\ FilesIn(dirs', h) = F /\ \A m : m # h => FilesIn(dirs', m) = FilesOf(m)
      /\ Len(dirs') = Len(Others(h)) + 1 /\ dirs'[Len(Others(h)) + 1].num = h
      /\ \A j \in 1..Len(Others(h)) : dirs'[j] = Others(h)[j]
  <2>1. dirs' = Touched(h, F)
    BY <1>3, <1>6
  <2> QED
    BY <1>4, <1>5, <2>1, TouchedProps
<1>8. Numbers' = Numbers
  BY <1>7, Views
<1>9. Disk'
  <2>1. \A m \in Numbers : FilesIn(dirs', m) \subseteq FilesOf(m)
    BY <1>6, <1>7
  <2>2. NumbersIn(dirs') = Numbers
    BY <1>7
  <2> QED
    BY <1>4, <1>7, <2>1, <2>2, Views DEF Disk, GoodFiles
<1>10. Marked'
  BY <1>1, <1>8 DEF Inv, Marked
<1>11. /\ Len(Others(h)) \in Nat /\ DOMAIN Others(h) = 1..Len(Others(h))
       /\ DOMAIN dirs' = 1..(Len(Others(h)) + 1)
  <2>1. Others(h) \in Seq(Dir)
    BY <1>4, OthersProps
  <2> QED
    BY <1>7, <2>1, LenProperties
<1>12. ASSUME torn' # "left"
       PROVE  /\ \A i, j \in DOMAIN dirs' :
                   i <= j /\ (torn' = "now" => j < Len(dirs')) => dirs'[j].num - dirs'[i].num >= j - i
              /\ torn' = "now" => dirs' # <<>> /\ Last(dirs').num = Head(doomed')
  <2>1. torn # "left" /\ torn' = "now"
    BY <1>1, <1>12
  <2>2. \A i, j \in DOMAIN Others(h) : i <= j => Others(h)[j].num - Others(h)[i].num >= j - i
    BY <1>1, <1>2, <2>1, OthersInOrder
  <2>3. ASSUME NEW i \in DOMAIN dirs', NEW j \in DOMAIN dirs', i <= j, j < Len(dirs')
        PROVE  dirs'[j].num - dirs'[i].num >= j - i
    <3>1. i \in DOMAIN Others(h) /\ j \in DOMAIN Others(h)
      BY <1>7, <1>11, <2>3
    <3> QED
      BY <1>7, <1>11, <2>2, <2>3, <3>1
  <2>4. dirs' # <<>>
    BY <1>7, <1>11, EmptySeq
  <2>5. Last(dirs').num = Head(doomed')
    BY <1>1, <1>2, <1>7 DEF Last
  <2> QED
    BY <2>1, <2>3, <2>4, <2>5
<1>13. faults' \in 0..MaxFaults /\ torn' \in {"no", "now", "left"}
  BY <1>1 DEF Inv, Vars
<1> QED
  BY <1>1, <1>2, <1>7, <1>8, <1>9, <1>10, <1>12, <1>13, RemovalKeeps

LEMMA RemoveDirKeeps == ASSUME Inv, RemoveDir PROVE Inv'
<1>1. /\ doomed # <<>> /\ torn' = (IF torn = "left" THEN "left" ELSE "no")
      /\ UNCHANGED <<run, main, token, app, mem, load, dumpVars, made>>
      /\ doomed' = Tail(doomed) /\ faults' = faults /\ dirs' = Others(Head(doomed))
  BY DEF RemoveDir, Popped
<1>2. PICK h \in Numbers : h = Head(doomed)
  BY <1>1, HeadProps DEF Inv, Marked
<1>3. dirs \in Seq(Dir) /\ Distinct(dirs) /\ GoodFiles(dirs)
  BY DEF Inv, Disk
<1>4. /\ dirs' \in Seq(Dir) /\ Distinct(dirs') /\ NumbersIn(dirs') = Numbers \ {h}
      /\ \A m : m # h => FilesIn(dirs', m) = FilesOf(m)
  <2>1. dirs' = Others(h)
    BY <1>1, <1>2
  <2> QED
    BY <1>3, <2>1, OthersProps
<1>5. Numbers' = Numbers \ {h}
  BY <1>4, Views
<1>6. Disk'
  <2>1. \A m \in NumbersIn(dirs') : m \in Numbers /\ FilesIn(dirs', m) = FilesOf(m)
    BY <1>4
  <2> QED
    BY <1>3, <1>4, <2>1, Views DEF Disk, GoodFiles
<1>7. /\ Tail(doomed) \in Seq(1..MaxRuns)
      /\ \A i \in DOMAIN Tail(doomed) : \E j \in DOMAIN doomed : Tail(doomed)[i] = doomed[j]
      /\ \A i \in DOMAIN Tail(doomed) : Tail(doomed)[i] \in Numbers /\ Tail(doomed)[i] # h
      /\ \A i, j \in DOMAIN Tail(doomed) : Tail(doomed)[i] = Tail(doomed)[j] => i = j
  BY <1>1, <1>2, TailProps DEF Inv
<1>8. Marked'
  BY <1>1, <1>5, <1>7 DEF Marked
<1>9. ASSUME torn' # "left"
      PROVE  \A i, j \in DOMAIN dirs' : i <= j => dirs'[j].num - dirs'[i].num >= j - i
  BY <1>1, <1>9, OthersInOrder
<1>10. faults' \in 0..MaxFaults /\ torn' \in {"no", "left"}
  BY <1>1 DEF Inv, Vars
<1> QED
  BY <1>1, <1>2, <1>4, <1>5, <1>6, <1>7, <1>8, <1>9, <1>10, RemovalKeeps

LEMMA RemoveFailsKeeps == ASSUME Inv, RemoveFails PROVE Inv'
<1>1. /\ doomed # <<>> /\ torn' = (IF torn = "now" THEN "left" ELSE torn)
      /\ UNCHANGED <<run, main, token, app, mem, load, dumpVars, made>>
      /\ doomed' = Tail(doomed) /\ Fault /\ dirs' = dirs
  BY DEF RemoveFails, Popped
<1>2. PICK h : h = Head(doomed)
  OBVIOUS
<1>3. Disk' /\ Numbers' = Numbers /\ \A m : FilesIn(dirs', m) = FilesOf(m)
  BY <1>1, SameDirs, Views DEF Inv
<1>4. /\ Tail(doomed) \in Seq(1..MaxRuns)
      /\ \A i \in DOMAIN Tail(doomed) : \E j \in DOMAIN doomed : Tail(doomed)[i] = doomed[j]
      /\ \A i \in DOMAIN Tail(doomed) : Tail(doomed)[i] \in Numbers
      /\ \A i, j \in DOMAIN Tail(doomed) : Tail(doomed)[i] = Tail(doomed)[j] => i = j
  BY <1>1, TailProps DEF Inv
<1>5. Marked'
  BY <1>1, <1>3, <1>4 DEF Marked
<1>6. faults' \in 0..MaxFaults
  BY <1>1, FaultTypes DEF Inv, Vars
<1>7. torn' \in {"no", "left"} /\ (torn = "left" => torn' = "left")
  BY <1>1 DEF Inv, Vars
<1>8. ASSUME torn' # "left"
      PROVE  \A i, j \in DOMAIN dirs' : i <= j => dirs'[j].num - dirs'[i].num >= j - i
  BY <1>1, <1>8 DEF Inv, OrderOK
<1> QED
  BY <1>1, <1>2, <1>3, <1>4, <1>5, <1>6, <1>7, <1>8, RemovalKeeps

-----------------------------------------------------------------------------
(* The theorems *)

LEMMA InitInv == Init => Inv
<1> SUFFICES ASSUME Init PROVE Inv
  OBVIOUS
<1>1. /\ run = 1 /\ main = "down" /\ token = FALSE /\ app = "off" /\ mem = Empty /\ load = NoLoad
      /\ own = 0 /\ walked = 0 /\ snap = Empty /\ writer = NoWriters /\ failures = FALSE
      /\ doomed = <<>> /\ faults = 0 /\ torn = "no"
      /\ \/ dirs = <<>> /\ made = <<>>
         \/ dirs = <<WholeDir>> /\ made = <<WholeDump>>
  BY DEF Init
<1>2. 1 \in 1..MaxRuns /\ 1 \in 0..MaxRuns /\ 0 \in 0..MaxFaults
  BY PersistenceConstants
<1>3. Vars
  BY <1>1, <1>2, BlankTypes DEF Vars, LoadRecord
<1>4. DOMAIN doomed = {} /\ doomed \in Seq(1..MaxRuns)
  BY <1>1, EmptySeq
<1>5. Marked
  BY <1>4 DEF Marked
<1>6. StagesOK /\ WrittenOK /\ LoadOK
  BY <1>1 DEF StagesOK, WrittenOK, LoadOK
<1>7. CASE dirs = <<>> /\ made = <<>>
  <2>1. dirs \in Seq(Dir) /\ made \in Seq(Dump) /\ DOMAIN dirs = {} /\ DOMAIN made = {} /\ Len(made) = 0
    BY <1>7, EmptySeq
  <2>2. Numbers = {} /\ NumbersIn(dirs) = {}
    BY <2>1 DEF Numbers, NumbersIn
  <2>3. Disk
    BY <2>1, <2>2 DEF Disk, Distinct, GoodFiles
  <2>4. Dumps
    BY <1>1, <2>1, <2>2 DEF Dumps
  <2>5. OrderOK /\ Survives
    BY <1>1, <1>4, <1>7, <2>1 DEF OrderOK, Survives
  <2> QED
    BY <1>3, <1>5, <1>6, <2>3, <2>4, <2>5 DEF Inv
<1>8. CASE dirs = <<WholeDir>> /\ made = <<WholeDump>>
  <2>1. /\ WholeDir.num = 1
        /\ WholeDir.files = {[shard |-> s, stamp |-> 1, name |-> "dump", whole |-> TRUE, val |-> 1] : s \in Shards}
        /\ WholeDump.run = 1 /\ WholeDump.num = 1 /\ WholeDump.ok = TRUE
        /\ WholeDump.snap = [s \in Shards |-> 1]
    BY DEF WholeDir, WholeDump
  <2>2. WholeDir \in Dir /\ WholeDump \in Dump
    <3>1. \A s \in Shards : [shard |-> s, stamp |-> 1, name |-> "dump", whole |-> TRUE, val |-> 1] \in File
      BY <1>2 DEF File, Values
    <3>2. [s \in Shards |-> 1] \in [Shards -> Values]
      BY <1>2 DEF Values
    <3> QED
      BY <1>2, <3>1, <3>2 DEF WholeDir, WholeDump, Dir, Dump
  <2>3. /\ dirs \in Seq(Dir) /\ DOMAIN dirs = {1} /\ dirs[1] = WholeDir
        /\ made \in Seq(Dump) /\ DOMAIN made = {1} /\ made[1] = WholeDump
    BY <1>8, <2>2, SingleProps
  <2>4. Len(dirs) = 1 /\ Len(made) = 1 /\ made # <<>>
    BY <1>8
  <2>5. Distinct(dirs)
    BY <2>3 DEF Distinct
  <2>6. Numbers = {1} /\ NumbersIn(dirs) = {1} /\ FilesIn(dirs, 1) = WholeDir.files
    <3>1. NumbersIn(dirs) = {1}
      BY <2>1, <2>3 DEF NumbersIn
    <3>2. FilesIn(dirs, dirs[1].num) = dirs[1].files
      BY <2>3, <2>5, DirView
    <3> QED
      BY <2>1, <2>3, <3>1, <3>2, Views
  <2>7. Disk
    <3> DEFINE F == WholeDir.files
    <3>1. \A f \in F : f.shard \in Shards /\ f = [shard |-> f.shard, stamp |-> 1, name |-> "dump", whole |-> TRUE, val |-> 1]
      BY <2>1
    <3>2. \A f \in F : f.name = "dump" /\ f.whole /\ f.stamp = 1
      BY <2>1
    <3>3. \A f, g \in F : f.shard = g.shard => f = g
      BY <3>1, Zenon
    <3> HIDE DEF F
    <3>4. GoodFiles(dirs)
      <4>1. NumbersIn(dirs) = {1} /\ FilesIn(dirs, 1) = F
        BY <2>6 DEF F
      <4> QED
        BY <3>2, <3>3, <4>1 DEF GoodFiles
    <3> QED
      BY <2>3, <2>5, <3>4 DEF Disk
  <2>8. Dumps
    BY <1>1, <2>3, <2>4, <2>6 DEF Dumps
  <2>9. OrderOK
    BY <1>1, <1>4, <2>1, <2>3, <2>4, <2>6 DEF OrderOK
  <2>10. Survives
    <3>1. Holds(dirs, WholeDump)
      <4>1. \A s \in Shards : \E f \in WholeDir.files :
              f.shard = s /\ f.name = "dump" /\ f.stamp = 1 /\ f.val = 1
        <5> SUFFICES ASSUME NEW s \in Shards
                     PROVE  \E f \in WholeDir.files :
                              f.shard = s /\ f.name = "dump" /\ f.stamp = 1 /\ f.val = 1
          OBVIOUS
        <5> DEFINE f == [shard |-> s, stamp |-> 1, name |-> "dump", whole |-> TRUE, val |-> 1]
        <5>1. f \in WholeDir.files
          BY <2>1
        <5>2. f.shard = s /\ f.name = "dump" /\ f.stamp = 1 /\ f.val = 1
          OBVIOUS
        <5> HIDE DEF f
        <5> QED
          BY <5>1, <5>2
      <4>2. \A s \in Shards : WholeDump.snap[s] = 1
        BY <2>1
      <4>3. WholeDump.num = 1 /\ WholeDump.run = 1
        BY <2>1
      <4> QED
        BY <2>6, <4>1, <4>2, <4>3 DEF Holds
    <3> QED
      BY <2>3, <3>1 DEF Survives
  <2> QED
    BY <1>3, <1>5, <1>6, <2>7, <2>8, <2>9, <2>10 DEF Inv
<1> QED
  BY <1>1, <1>7, <1>8

LEMMA StutterKeeps == ASSUME Inv, UNCHANGED vars PROVE Inv'
<1>1. UNCHANGED <<diskVars, run, main, dumpVars, made>> /\ app' = app
  BY DEF vars, diskVars, dumpVars
<1>2. Vars'
  BY DEF Inv, Vars, vars
<1>3. LoadOK'
  BY DEF Inv, LoadOK, vars
<1> QED
  BY <1>1, <1>2, <1>3, FrontKeeps

LEMMA NextInv == Inv /\ [Next]_vars => Inv'
<1> SUFFICES ASSUME Inv, [Next]_vars PROVE Inv'
  OBVIOUS
<1>1. CASE Start
  BY <1>1, StartKeeps
<1>2. CASE \E ok \in BOOLEAN : Bind(ok)
  BY <1>2, BindKeeps
<1>3. CASE Interrupt
  BY <1>3, InterruptKeeps
<1>4. CASE MainReturns
  BY <1>4, MainReturnsKeeps
<1>5. CASE Exit
  BY <1>5, ExitKeeps
<1>6. CASE Crash
  BY <1>6, CrashKeeps
<1>7. CASE LoadPick
  BY <1>7, LoadPickKeeps
<1>8. CASE \E s \in Shards : Serve(s) \/ Reader(s) \/ Writer(s)
  <2>1. PICK s \in Shards : Serve(s) \/ Reader(s) \/ Writer(s)
    BY <1>8
  <2>2. CASE Serve(s)
    BY <2>2, ServeKeeps
  <2>3. CASE Reader(s)
    BY <2>3, LoadFileKeeps, LoadSpoiled DEF Reader
  <2>4. CASE Writer(s)
    BY <2>4, WriteStepKeeps, WriteFailsKeeps DEF Writer
  <2> QED
    BY <2>1, <2>2, <2>3, <2>4
<1>9. CASE Removal
  BY <1>9, RemoveFileKeeps, RemoveDirKeeps, RemoveFailsKeeps DEF Removal
<1>10. CASE AppTask
  BY <1>10, DrainedKeeps, MakeDirKeeps, CollectKeeps, RotateKeeps, DumpReturnsKeeps,
     DumpTimeoutKeeps DEF AppTask
<1>11. CASE UNCHANGED vars
  BY <1>11, StutterKeeps
<1> QED
  BY <1>1, <1>2, <1>3, <1>4, <1>5, <1>6, <1>7, <1>8, <1>9, <1>10, <1>11 DEF Next

\* The inductive invariant holds for any number of shards, versions, lives and
\* I/O errors.
THEOREM Inductive == Spec => []IndInv
<1>1. Init => Inv
  BY InitInv
<1>2. Inv /\ [Next]_vars => Inv'
  BY NextInv
<1>3. Inv => IndInv
  BY InvView
<1> QED
  BY <1>1, <1>2, <1>3, PTL DEF Spec

\* Directories keep distinct numbers and every removal that is marked is of a
\* directory that is there.
THEOREM PersistenceTypes == Spec => []TypeOK
<1>1. IndInv => TypeOK
  BY DEF IndInv
<1> QED
  BY <1>1, Inductive, PTL

\* A file with the name by which a load finds it holds all its entries.
THEOREM LoadsSeeWholeFiles == Spec => []OnlyWholeFiles
<1>1. IndInv => OnlyWholeFiles
  BY DEF IndInv
<1> QED
  BY <1>1, Inductive, PTL

\* No two dumps ever write into one directory.
THEOREM DumpsStayApart == Spec => []DirsApart
<1>1. IndInv => DirsApart
  BY DEF IndInv
<1> QED
  BY <1>1, Inductive, PTL

\* A dump that has returned Ok stays complete until max_versions later ones
\* have begun, unless a removal was given up half done.
THEOREM DumpsSurvive == Spec => []DumpSurvives
<1>1. IndInv => DumpSurvives
  BY DEF IndInv
<1> QED
  BY <1>1, Inductive, PTL

\* After a load that returned Ok, the process serves what the last dump held.
THEOREM RestartsRestore == Spec => []RestartRestores
<1>1. IndInv => RestartRestores
  <2>1. LoadOK => RestartRestores
    BY DEF LoadOK, RestartRestores
  <2> QED
    BY <2>1 DEF IndInv
<1> QED
  BY <1>1, Inductive, PTL
=============================================================================
