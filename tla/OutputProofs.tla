---------------------------- MODULE OutputProofs ----------------------------
(***************************************************************************)
(* What is proved of the threads that write the output (OutputWriting):    *)
(* every step keeps the invariant, and with it no row is torn or shifted,  *)
(* a finished run has every row once, and birth states are on disk before  *)
(* anything is computed from their clusters.                               *)
(***************************************************************************)
EXTENDS OutputWriting, SequenceLemmas

-----------------------------------------------------------------------------
(* The inductive invariant. done[o][f] is the keys of the rows written     *)
(* whole to file f, in their order: with HDF5 output o is the thread whose *)
(* file it is, with ascii output it is nobody. What the files hold, and the*)
(* rows the threads have still to write, are told by it and by how far each*)
(* thread has come with its row.                                           *)

Key == Trials \X (0 .. NTimes) \X Nat
FileNames ==
  {"clusters", "cluster_spectra", "cluster_phot", "cluster_yields", "cluster_feedback", "cluster_neb_lines",
   "galaxy", "galaxy_spectra", "galaxy_phot", "galaxy_yields", "galaxy_feedback", "galaxy_neb_lines"}
KeyedRow == [table : FileNames, key : Key]

\* The tables rows are written to; the files of the emission lines come with them.
RowTables == FileNames \ {"cluster_neb_lines", "galaxy_neb_lines"}

Owner(t) == IF IsAscii THEN NoThread ELSE t
Owners == Threads \cup {NoThread}

\* What is left of a sequence after its first m elements.
From(s, m) == [i \in 1 .. Len(s) - m |-> s[m + i]]

WritingTo(t, f) == pc[t] = "writing" /\ Head(todo[t]).table = f
\* How many of the steps of its row a thread has made.
Put0(t) == Len(Cells(Head(todo[t]))) - Len(cells[t])

\* The variables have their types, and nothing is under way but in a running program.
Types ==
  /\ controls \in Configs
  /\ phase \in {"opening", "running", "closed", "refused"}
  /\ toOpen \in Seq(FileNames) /\ open \subseteq FileNames
  /\ ~IsAscii => open \subseteq RowTables /\ Range(toOpen) \subseteq RowTables
  /\ next \in Nat /\ 0 .. next - 1 \subseteq Trials
  /\ todo \in [Threads -> Seq(KeyedRow)]
  /\ pc \in [Threads -> {"free", "computing", "writing"}]
  /\ DOMAIN cells = Threads
  /\ lock \in [Sections -> Owners]
  /\ DOMAIN lines = DOMAIN EmptyLines
  /\ DOMAIN file = Threads /\ file = [t \in Threads |-> file[t]]
  /\ DOMAIN flushed = Threads
  /\ maxTrial \in Nat

\* Files are opened before the first trial, those of a table together.
Opening ==
  /\ phase # "running" => \A t \in Threads : pc[t] = "free" /\ todo[t] = <<>>
  /\ phase \in {"opening", "refused"} => next = 0
  /\ phase \in {"running", "closed"} => toOpen = <<>>
  /\ phase = "closed" => next \notin Trials
  /\ ~IsAscii /\ toOpen # <<>> => open = {}
  /\ ~IsGalaxy => (open \cup Range(toOpen)) \cap Range(GalaxyTables) = {}
  /\ IsAscii => \A table \in open \cup Range(toOpen) : Range(FilesOf(table)) \subseteq open \cup Range(toOpen)

\* A thread that writes is in the section of its file.
Exclusion ==
  \A t \in Threads :
    /\ pc[t] # "free" => todo[t] # <<>>
    /\ pc[t] = "writing" => lock[Section(Head(todo[t]).table)] = t

\* A thread has written the first k rows of its trial.
InPlace(done) ==
  \A t \in Threads : todo[t] # <<>> =>
    \E trial \in 0 .. next - 1, k \in Nat :
      /\ k < Len(Rows(trial)) /\ todo[t] = From(Rows(trial), k)
      /\ \A j \in 1 .. k : Rows(trial)[j].key \in Range(done[Owner(t)][Rows(trial)[j].table])

\* A thread that writes has made the first steps of its row.
StepsLeft(t) ==
  LET all == Cells(Head(todo[t])) IN Put0(t) \in 0 .. Len(all) /\ cells[t] = From(all, Put0(t))
CellsLeft == \A t \in Threads : pc[t] = "writing" => StepsLeft(t)

\* Every row of a trial that has been begun is to be written, or has been, once.
Books(done) ==
  /\ done \in [Owners -> [FileNames -> Seq(Key)]]
  /\ \A o \in Owners, f \in FileNames : IsInjective(done[o][f])
  /\ \A o, p \in Owners, f \in FileNames : o # p => Range(done[o][f]) \cap Range(done[p][f]) = {}
  /\ \A t \in Threads, o \in Owners : \A row \in Range(todo[t]) : row.key \notin Range(done[o][row.table])
  /\ \A t, u \in Threads : t # u => Range(todo[t]) \cap Range(todo[u]) = {}
  /\ \A o \in Owners, f \in FileNames : \A key \in Range(done[o][f]) :
       key[1] < next /\ [table |-> f, key |-> key] \in Range(Rows(key[1]))
  /\ \A trial \in 0 .. next - 1 : \A row \in Range(Rows(trial)) :
       \/ \E t \in Threads : row \in Range(todo[t])
       \/ \E o \in Owners : row.key \in Range(done[o][row.table])
  /\ \A o \in Owners : IsAscii => (o # NoThread => done[o] = [f \in FileNames |-> <<>>])
  /\ ~IsAscii => done[NoThread] = [f \in FileNames |-> <<>>]

Entries(keys, width) == [i \in 1 .. Len(keys) |-> <<keys[i], width>>]
DatasetNames(g) == {H5!Datasets(g)[i][1] : i \in DOMAIN H5!Datasets(g)}

\* The k-th dataset of a group has an entry for every row written whole, and for the one
\* that is being written once it has been put there.
KeysIn(done, t, g, k) ==
  IF WritingTo(t, g) /\ k <= Put0(t) THEN Append(done[t][g], Head(todo[t]).key) ELSE done[t][g]
Groups(done) ==
  /\ \A t \in Threads : DOMAIN file[t] = IF IsAscii THEN {} ELSE open
  /\ ~IsAscii => \A t \in Threads, g \in open :
       /\ DOMAIN file[t][g] = DatasetNames(g)
       /\ \A k \in 1 .. Len(H5!Row(g)) :
            file[t][g][H5!Row(g)[k][1]] = Entries(KeysIn(done, t, g, k), H5!Row(g)[k][2])

\* The clusters that have been written are safe.
Safe(done) == ~IsAscii => \A t \in Threads : Range(done[t]["clusters"]) \subseteq flushed[t]

\* The largest trial of which a row has been begun.
TrialsSeen(done) ==
  {key[1] : key \in UNION {Range(done[o][f]) : o \in Owners, f \in FileNames}} \cup
  {Head(todo[t]).key[1] : t \in {u \in Threads : pc[u] = "writing"}}
LargestSeen(done) ==
  ~IsAscii =>
    /\ \A trial \in TrialsSeen(done) : trial <= maxTrial
    /\ maxTrial \in TrialsSeen(done) \/ (maxTrial = 0 /\ TrialsSeen(done) = {})

Tagged(line, key) == [k \in DOMAIN line |-> line[k] \o <<key>>]
\* The p-th line of a file with the rows of these keys.
TextAt(f, keys, p) ==
  LET n == Len(LinesOf(f)) IN Tagged(LinesOf(f)[((p - 1) % n) + 1], keys[((p - 1) \div n) + 1])
\* So it has them, c lines and perhaps one that is not ended.
Content(text, f, keys, c, half) ==
  /\ Len(text) = c + 1 /\ text = [p \in 1 .. c + 1 |-> text[p]]
  /\ \A p \in 1 .. c : text[p] = TextAt(f, keys, p)
  /\ text[c + 1] = IF half = 1 THEN TextAt(f, keys, c + 1) ELSE <<>>
\* The last of the rows may be there only in its first put steps.
TextIs(text, f, keys, whole, put) ==
  Content(text, f, keys, Len(LinesOf(f)) * whole + (put \div 2), put % 2)
Text(f, keys, whole, put) == TextIs(lines[f], f, keys, whole, put)
Texts(done) ==
  /\ \A f \in DOMAIN lines : f \notin open => lines[f] \in {<<>>, <<<<"earlier">>>>}
  /\ IsAscii => \A f \in open :
       LET keys == done[NoThread][f]
       IN /\ (\A t \in Threads : ~WritingTo(t, f)) => Text(f, keys, Len(keys), 0)
          /\ \A t \in Threads : WritingTo(t, f) =>
               Text(f, Append(keys, Head(todo[t]).key), Len(keys), Put0(t))

\* The consolidated file has the rows of all of the threads' files.
Merged(done) ==
  IF phase = "closed" /\ ~IsAscii
  THEN /\ DOMAIN merged = open
       /\ \A g \in open : DOMAIN merged[g] = DatasetNames(g) /\
            \E keys \in Seq(Key) :
              /\ IsInjective(keys) /\ Range(keys) = UNION {Range(done[t][g]) : t \in Threads}
              /\ \A k \in 1 .. Len(H5!Row(g)) :
                   merged[g][H5!Row(g)[k][1]] = Entries(keys, H5!Row(g)[k][2])
  ELSE merged = <<>>

WritingInv(done) ==
  /\ InPlace(done) /\ Books(done) /\ Groups(done) /\ Safe(done)
  /\ LargestSeen(done) /\ Texts(done) /\ Merged(done)
IInv == Types /\ Opening /\ Exclusion /\ CellsLeft /\ \E done \in [Owners -> [FileNames -> Seq(Key)]] : WritingInv(done)

-----------------------------------------------------------------------------
(* The rows of one object at one time.                                     *)

\* The names of the tables are told apart.
LEMMA TableNames ==
  /\ \A i \in 1 .. 5 : ClusterTables[i] \in FileNames /\ GalaxyTables[i] \in FileNames
  /\ \A i, k \in 1 .. 5 : ClusterTables[i] # GalaxyTables[k]
  /\ \A i, k \in 1 .. 5 : ClusterTables[i] = ClusterTables[k] => i = k
  /\ \A i, k \in 1 .. 5 : GalaxyTables[i] = GalaxyTables[k] => i = k
<1>1. \A i \in 1 .. 5 : i = 1 \/ i = 2 \/ i = 3 \/ i = 4 \/ i = 5  OBVIOUS
<1>2. \A i \in 1 .. 5 : ClusterTables[i] \in FileNames /\ GalaxyTables[i] \in FileNames
  BY <1>1 DEF ClusterTables, GalaxyTables, FileNames
<1>3. \A i, k \in 1 .. 5 : ClusterTables[i] # GalaxyTables[k]
  BY <1>1 DEF ClusterTables, GalaxyTables
<1>4. \A i, k \in 1 .. 5 : ClusterTables[i] = ClusterTables[k] => i = k
  BY <1>1 DEF ClusterTables, GalaxyTables
<1>5. \A i, k \in 1 .. 5 : GalaxyTables[i] = GalaxyTables[k] => i = k
  BY <1>1 DEF ClusterTables, GalaxyTables
<1> QED BY <1>2, <1>3, <1>4, <1>5

\* A cluster's row of a table, unless it is not written.
InClusterRows(tables, table, trial, time, uid, row) ==
  /\ table \in tables /\ ~ (table \in {"cluster_spectra", "cluster_phot"} /\ Disrupted(uid, time))
  /\ row = RowOf(table, trial, time, uid)

\* The row, once, or nothing.
LEMMA ClusterRowsElements ==
  ASSUME NEW tables, NEW table \in FileNames, NEW trial \in Trials, NEW time \in 0 .. NTimes, NEW uid \in Nat
  PROVE  /\ ClusterRows(tables, table, trial, time, uid) \in Seq(KeyedRow)
         /\ IsInjective(ClusterRows(tables, table, trial, time, uid))
         /\ \A row : row \in Range(ClusterRows(tables, table, trial, time, uid)) <=>
              InClusterRows(tables, table, trial, time, uid, row)
<1> DEFINE row == RowOf(table, trial, time, uid)
           rows == ClusterRows(tables, table, trial, time, uid)
<1>1. row \in KeyedRow  BY DEF RowOf, KeyedRow, Key
<1>2. rows = <<>> \/ rows = <<row>>  BY DEF ClusterRows
<1>3. rows \in Seq(KeyedRow)
  <2> HIDE DEF row
  <2>1. <<>> \in Seq(KeyedRow) /\ <<row>> \in Seq(KeyedRow)  BY <1>1
  <2> QED BY <1>2, <2>1
<1>4. IsInjective(rows)
  <2> HIDE DEF row
  <2>1. IsInjective(<<>>) /\ IsInjective(<<row>>)  BY DEF IsInjective
  <2> QED BY <1>2, <2>1
<1>5. Range(<<>>) = {} /\ Range(<<row>>) = {row}
  <2> HIDE DEF row
  <2> QED BY DEF Range
<1> QED BY <1>3, <1>4, <1>5 DEF ClusterRows, InClusterRows

\* The clusters alive at a time, each of them once.
LEMMA AliveElements ==
  ASSUME NEW trial \in Trials, NEW time
  PROVE  /\ AliveClusters(trial, time) \in Seq(Nat) /\ IsInjective(AliveClusters(trial, time))
         /\ Range(AliveClusters(trial, time)) = {u \in Clusters[trial] : ~Disrupted(u, time)}
<1> DEFINE S == {u \in Clusters[trial] : ~Disrupted(u, time)}
<1>1. IsFiniteSet(Clusters[trial]) /\ Clusters[trial] \subseteq Nat  BY OutputAssumption DEF Trials
<1>2. IsFiniteSet(S) /\ S \subseteq Nat  BY <1>1, FS_Subset
<1> HIDE DEF S
<1>3. SetToSeq(S) \in Seq(S) /\ IsInjective(SetToSeq(S)) /\ Range(SetToSeq(S)) = S
  BY <1>2, SetToSeqElements
<1>4. SetToSeq(S) \in Seq(Nat)  BY <1>2, <1>3, SeqMonotonic
<1> QED BY <1>3, <1>4 DEF S, AliveClusters

\* A cluster simulation has one cluster in each trial.
LEMMA TheClusterIn ==
  ASSUME NEW trial \in Trials
  PROVE  TheCluster(trial) \in Clusters[trial] /\ TheCluster(trial) \in Nat
<1>1. Clusters[trial] # {} /\ Clusters[trial] \subseteq Nat  BY OutputAssumption DEF Trials
<1>2. \E u \in Clusters[trial] : \A v \in Clusters[trial] : u <= v  BY <1>1, LeastNatural
<1> QED BY <1>1, <1>2 DEF TheCluster

-----------------------------------------------------------------------------
(* The rows of a galaxy.                                                   *)

\* The rows the i-th writer leaves at one time: the galaxy's own, and one for each of
\* its clusters that is alive, unless the writer has returned early.
InGalaxyRows(tables, i, trial, time, row) ==
  /\ ~ (controls.format = "h5" /\ i <= 3 /\ GalaxyTables[i] \notin tables)
  /\ \/ GalaxyTables[i] \in tables /\ row = RowOf(GalaxyTables[i], trial, time, 0)
     \/ ClusterTables[i] \in tables /\ \E u \in Clusters[trial] :
          ~Disrupted(u, time) /\ row = RowOf(ClusterTables[i], trial, time, u)

\* What the writers of a galaxy leave, one by one.
LEMMA GalaxyRowsElements ==
  ASSUME NEW tables, NEW i \in 1 .. 5, NEW trial \in Trials, NEW time \in 1 .. NTimes
  PROVE  /\ GalaxyRows(tables, i, trial, time) \in Seq(KeyedRow)
         /\ IsInjective(GalaxyRows(tables, i, trial, time))
         /\ \A row : row \in Range(GalaxyRows(tables, i, trial, time)) <=> InGalaxyRows(tables, i, trial, time, row)
<1> DEFINE alive == AliveClusters(trial, time)
           G == GalaxyTables[i]
           C == ClusterTables[i]
           own == IF G \in tables THEN <<RowOf(G, trial, time, 0)>> ELSE <<>>
           of == [c \in DOMAIN alive |-> ClusterRows(tables, C, trial, time, alive[c])]
           n == Len(alive)
<1>1. /\ alive \in Seq(Nat) /\ IsInjective(alive)
      /\ Range(alive) = {u \in Clusters[trial] : ~Disrupted(u, time)}
  BY AliveElements
<1>2. n \in Nat /\ DOMAIN alive = 1 .. n  BY <1>1, LenProperties
<1>3. NTimes \in Nat /\ time \in 0 .. NTimes  BY OutputAssumption
<1>4. G \in FileNames /\ C \in FileNames /\ G # C  BY TableNames
<1> HIDE DEF alive, G, C, n
<1>5. ASSUME NEW c \in 1 .. n
      PROVE  /\ alive[c] \in Nat /\ ~Disrupted(alive[c], time)
             /\ of[c] \in Seq(KeyedRow) /\ IsInjective(of[c])
             /\ Range(of[c]) = IF C \in tables THEN {RowOf(C, trial, time, alive[c])} ELSE {}
  <2>1. alive[c] \in Range(alive)  BY <1>2 DEF Range
  <2>2. alive[c] \in Nat /\ ~Disrupted(alive[c], time)  BY <1>1, <1>2, <2>1
  <2>3. of[c] = ClusterRows(tables, C, trial, time, alive[c])  BY <1>2
  <2> HIDE DEF of
  <2>4. PICK u \in Nat : u = alive[c]  BY <2>2
  <2>5. /\ ClusterRows(tables, C, trial, time, u) \in Seq(KeyedRow)
        /\ IsInjective(ClusterRows(tables, C, trial, time, u))
        /\ \A row : row \in Range(ClusterRows(tables, C, trial, time, u)) <=>
             InClusterRows(tables, C, trial, time, u, row)
    BY <1>3, <1>4, ClusterRowsElements
  <2>6. of[c] = ClusterRows(tables, C, trial, time, u) /\ ~Disrupted(u, time)  BY <2>2, <2>3, <2>4
  <2>7. Range(of[c]) = IF C \in tables THEN {RowOf(C, trial, time, u)} ELSE {}
    BY <2>5, <2>6 DEF InClusterRows
  <2> QED BY <2>2, <2>4, <2>5, <2>6, <2>7
<1>6. SeqOfSeqs(of, n, KeyedRow)
  <2>1. of = [c \in 1 .. n |-> of[c]]  BY <1>2
  <2> HIDE DEF of
  <2> QED BY <1>2, <1>5, <2>1 DEF SeqOfSeqs
<1> HIDE DEF of
<1> DEFINE F == FlattenSeq(of)
<1>7. F \in Seq(KeyedRow) /\ Range(F) = UNION {Range(of[c]) : c \in 1 .. n}  BY <1>6, FlattenRange
<1>8. IsInjective(F)
  <2>1. ASSUME NEW c \in 1 .. n, NEW d \in 1 .. n, c < d PROVE Range(of[c]) \cap Range(of[d]) = {}
    <3>1. alive[c] # alive[d]  BY <1>1, <1>2, <2>1 DEF IsInjective
    <3>2. RowOf(C, trial, time, alive[c]) # RowOf(C, trial, time, alive[d])  BY <3>1 DEF RowOf
    <3> QED BY <1>5, <3>2
  <2> QED BY <1>5, <1>6, <2>1, FlattenInjective
<1> HIDE DEF F
<1>9. own \in Seq(KeyedRow) /\ IsInjective(own) /\ (\A row : row \in Range(own) <=> G \in tables /\ row = RowOf(G, trial, time, 0))
  <2>1. RowOf(G, trial, time, 0) \in KeyedRow  BY <1>3, <1>4 DEF RowOf, KeyedRow, Key
  <2>2. PICK r : r = RowOf(G, trial, time, 0)  OBVIOUS
  <2>3. own = IF G \in tables THEN <<r>> ELSE <<>>  BY <2>2
  <2>4. r \in KeyedRow  BY <2>1, <2>2
  <2> HIDE DEF own
  <2>5. <<r>> \in Seq(KeyedRow) /\ <<>> \in Seq(KeyedRow)  BY <2>4
  <2>6. IsInjective(<<r>>) /\ IsInjective(<<>>) /\ Range(<<r>>) = {r} /\ Range(<<>>) = {}
    BY DEF IsInjective, Range
  <2> QED BY <2>2, <2>3, <2>5, <2>6
<1>10. own = <<>> <=> G \notin tables  OBVIOUS
<1> HIDE DEF own
<1>11. \A row : row \in Range(F) <=> C \in tables /\ \E u \in Clusters[trial] : ~Disrupted(u, time) /\ row = RowOf(C, trial, time, u)
  <2>1. ASSUME NEW row, row \in Range(F)
        PROVE  C \in tables /\ \E u \in Clusters[trial] : ~Disrupted(u, time) /\ row = RowOf(C, trial, time, u)
    <3>1. PICK c \in 1 .. n : row \in Range(of[c])  BY <1>7, <2>1
    <3>2. C \in tables /\ row = RowOf(C, trial, time, alive[c])  BY <1>5, <3>1
    <3>3. alive[c] \in Range(alive)  BY <1>2 DEF Range
    <3> QED BY <1>1, <3>2, <3>3
  <2>2. ASSUME C \in tables, NEW u \in Clusters[trial], ~Disrupted(u, time)
        PROVE  RowOf(C, trial, time, u) \in Range(F)
    <3>1. PICK c \in 1 .. n : alive[c] = u  BY <1>1, <1>2, <2>2 DEF Range
    <3>2. RowOf(C, trial, time, u) \in Range(of[c])  BY <1>5, <2>2, <3>1
    <3> QED BY <1>7, <3>2
  <2> QED BY <2>1, <2>2
<1>12. Range(own) \cap Range(F) = {}
  <2>1. \A u : RowOf(G, trial, time, 0) # RowOf(C, trial, time, u)  BY <1>4 DEF RowOf
  <2> QED BY <1>9, <1>11, <2>1
<1>13. own \o F \in Seq(KeyedRow) /\ IsInjective(own \o F) /\ Range(own \o F) = Range(own) \cup Range(F)
  BY <1>7, <1>8, <1>9, <1>12, JoinedElements
<1>14. GalaxyRows(tables, i, trial, time) =
         IF controls.format = "h5" /\ i <= 3 /\ G \notin tables THEN <<>> ELSE own \o F
  BY <1>10 DEF GalaxyRows, ReturnsEarly, own, F, of, alive, G, C
<1>15. <<>> \in Seq(KeyedRow) /\ IsInjective(<<>>) /\ Range(<<>>) = {}  BY DEF IsInjective, Range
<1>16. \A row : InGalaxyRows(tables, i, trial, time, row) <=>
         /\ ~ (controls.format = "h5" /\ i <= 3 /\ G \notin tables)
         /\ \/ G \in tables /\ row = RowOf(G, trial, time, 0)
            \/ C \in tables /\ \E u \in Clusters[trial] : ~Disrupted(u, time) /\ row = RowOf(C, trial, time, u)
  BY DEF InGalaxyRows, G, C
<1>17. CASE controls.format = "h5" /\ i <= 3 /\ G \notin tables  BY <1>14, <1>15, <1>16, <1>17
<1>18. CASE ~ (controls.format = "h5" /\ i <= 3 /\ G \notin tables)
  <2>1. GalaxyRows(tables, i, trial, time) = own \o F  BY <1>14, <1>18
  <2>2. \A row : row \in Range(own \o F) <=> InGalaxyRows(tables, i, trial, time, row)
    BY <1>9, <1>11, <1>13, <1>16, <1>18
  <2> QED BY <1>13, <2>1, <2>2
<1> QED BY <1>17, <1>18

\* The object, the time and the table of a row tell which of the writers left it.
LEMMA GalaxyRowsKey ==
  ASSUME NEW tables, NEW i \in 1 .. 5, NEW trial, NEW time, NEW row, InGalaxyRows(tables, i, trial, time, row)
  PROVE  /\ row.key[1] = trial /\ row.key[2] = time
         /\ row.table = GalaxyTables[i] \/ row.table = ClusterTables[i]
         /\ row.table \in tables
BY DEF InGalaxyRows, RowOf

\* The rows of all the writers at one time.
AtTime(tables, trial, time) == FlattenSeq([i \in 1 .. 5 |-> GalaxyRows(tables, i, trial, time)])
InAtTime(tables, trial, time, row) == \E i \in 1 .. 5 : InGalaxyRows(tables, i, trial, time, row)

\* The five writers in turn.
LEMMA AtTimeElements ==
  ASSUME NEW tables, NEW trial \in Trials, NEW time \in 1 .. NTimes
  PROVE  /\ SeqOfSeqs([i \in 1 .. 5 |-> GalaxyRows(tables, i, trial, time)], 5, KeyedRow)
         /\ AtTime(tables, trial, time) \in Seq(KeyedRow)
         /\ IsInjective(AtTime(tables, trial, time))
         /\ \A row : row \in Range(AtTime(tables, trial, time)) <=> InAtTime(tables, trial, time, row)
<1> DEFINE seqs == [i \in 1 .. 5 |-> GalaxyRows(tables, i, trial, time)]
           F == FlattenSeq(seqs)
<1>1. ASSUME NEW i \in 1 .. 5
      PROVE  /\ seqs[i] \in Seq(KeyedRow) /\ IsInjective(seqs[i])
             /\ \A row : row \in Range(seqs[i]) <=> InGalaxyRows(tables, i, trial, time, row)
  <2>1. seqs[i] = GalaxyRows(tables, i, trial, time)  OBVIOUS
  <2> HIDE DEF seqs
  <2> QED BY <2>1, GalaxyRowsElements
<1>2. SeqOfSeqs(seqs, 5, KeyedRow)
  <2>1. seqs = [i \in 1 .. 5 |-> seqs[i]]  OBVIOUS
  <2> HIDE DEF seqs
  <2> QED BY <1>1, <2>1 DEF SeqOfSeqs
<1> HIDE DEF seqs
<1>3. F \in Seq(KeyedRow) /\ Range(F) = UNION {Range(seqs[i]) : i \in 1 .. 5}  BY <1>2, FlattenRange
<1>4. IsInjective(F)
  <2>1. ASSUME NEW i \in 1 .. 5, NEW k \in 1 .. 5, i < k, NEW row, row \in Range(seqs[i]), row \in Range(seqs[k])
        PROVE  FALSE
    <3>1. InGalaxyRows(tables, i, trial, time, row) /\ InGalaxyRows(tables, k, trial, time, row)
      BY <1>1, <2>1
    <3>2. row.table = GalaxyTables[i] \/ row.table = ClusterTables[i]  BY <3>1, GalaxyRowsKey
    <3>3. row.table = GalaxyTables[k] \/ row.table = ClusterTables[k]  BY <3>1, GalaxyRowsKey
    <3> QED BY <2>1, <3>2, <3>3, TableNames
  <2>2. \A i, k \in 1 .. 5 : i < k => Range(seqs[i]) \cap Range(seqs[k]) = {}  BY <2>1
  <2> QED BY <1>1, <1>2, <2>2, FlattenInjective
<1>5. \A row : row \in Range(F) <=> \E i \in 1 .. 5 : InGalaxyRows(tables, i, trial, time, row)
  BY <1>1, <1>3
<1>6. F = AtTime(tables, trial, time)  BY DEF F, seqs, AtTime
<1> HIDE DEF F
<1>7. \A row : row \in Range(F) <=> InAtTime(tables, trial, time, row)  BY <1>5 DEF InAtTime
<1> QED BY <1>2, <1>3, <1>4, <1>6, <1>7 DEF seqs

InGalaxyTrial(tables, trial, row) == \E time \in 1 .. NTimes : InAtTime(tables, trial, time, row)

\* All of it, at every time.
LEMMA GalaxyTrialElements ==
  ASSUME NEW tables, NEW trial \in Trials
  PROVE  /\ GalaxyTrial(tables, trial) = FlattenSeq([time \in 1 .. NTimes |-> AtTime(tables, trial, time)])
         /\ SeqOfSeqs([time \in 1 .. NTimes |-> AtTime(tables, trial, time)], NTimes, KeyedRow)
         /\ GalaxyTrial(tables, trial) \in Seq(KeyedRow)
         /\ IsInjective(GalaxyTrial(tables, trial))
         /\ \A row : row \in Range(GalaxyTrial(tables, trial)) <=> InGalaxyTrial(tables, trial, row)
<1> DEFINE seqs == [time \in 1 .. NTimes |-> AtTime(tables, trial, time)]
           F == FlattenSeq(seqs)
<1>0. NTimes \in Nat  BY OutputAssumption
<1>1. ASSUME NEW time \in 1 .. NTimes
      PROVE  /\ seqs[time] \in Seq(KeyedRow) /\ IsInjective(seqs[time])
             /\ \A row : row \in Range(seqs[time]) <=> InAtTime(tables, trial, time, row)
  <2>1. seqs[time] = AtTime(tables, trial, time)  OBVIOUS
  <2> HIDE DEF seqs
  <2> QED BY <2>1, AtTimeElements
<1>2. SeqOfSeqs(seqs, NTimes, KeyedRow)
  <2>1. seqs = [time \in 1 .. NTimes |-> seqs[time]]  OBVIOUS
  <2> HIDE DEF seqs
  <2> QED BY <1>0, <1>1, <2>1 DEF SeqOfSeqs
<1> HIDE DEF seqs
<1>3. F \in Seq(KeyedRow) /\ Range(F) = UNION {Range(seqs[time]) : time \in 1 .. NTimes}
  BY <1>2, FlattenRange
<1>4. IsInjective(F)
  <2>1. ASSUME NEW i \in 1 .. NTimes, NEW k \in 1 .. NTimes, i < k,
               NEW row, row \in Range(seqs[i]), row \in Range(seqs[k])
        PROVE  FALSE
    <3>1. InAtTime(tables, trial, i, row) /\ InAtTime(tables, trial, k, row)  BY <1>1, <2>1
    <3>2. row.key[2] = i  BY <3>1, GalaxyRowsKey DEF InAtTime
    <3>3. row.key[2] = k  BY <3>1, GalaxyRowsKey DEF InAtTime
    <3> QED BY <2>1, <3>2, <3>3
  <2>2. \A i, k \in 1 .. NTimes : i < k => Range(seqs[i]) \cap Range(seqs[k]) = {}  BY <2>1
  <2> QED BY <1>1, <1>2, <2>2, FlattenInjective
<1>5. \A row : row \in Range(F) <=> \E time \in 1 .. NTimes : InAtTime(tables, trial, time, row)
  BY <1>1, <1>3
<1>6. F = GalaxyTrial(tables, trial)  BY DEF F, seqs, AtTime, GalaxyTrial
<1>8. F = FlattenSeq([time \in 1 .. NTimes |-> AtTime(tables, trial, time)])  BY DEF F, seqs
<1> HIDE DEF F
<1>7. \A row : row \in Range(F) <=> InGalaxyTrial(tables, trial, row)  BY <1>5 DEF InGalaxyTrial
<1> QED BY <1>2, <1>3, <1>4, <1>6, <1>7, <1>8 DEF seqs

-----------------------------------------------------------------------------
(* The rows of a cluster simulation.                                       *)

\* The results of the cluster at one time.
ResultsAt(tables, trial, time) ==
  FlattenSeq([i \in 1 .. 4 |-> ClusterRows(tables, ClusterTables[i + 1], trial, time, TheCluster(trial))])
InResultsAt(tables, trial, time, row) ==
  \E i \in 2 .. 5 : InClusterRows(tables, ClusterTables[i], trial, time, TheCluster(trial), row)

\* The writers of the results in turn.
LEMMA ResultsAtElements ==
  ASSUME NEW tables, NEW trial \in Trials, NEW time \in 1 .. NTimes
  PROVE  /\ ResultsAt(tables, trial, time) \in Seq(KeyedRow)
         /\ IsInjective(ResultsAt(tables, trial, time))
         /\ \A row : row \in Range(ResultsAt(tables, trial, time)) <=> InResultsAt(tables, trial, time, row)
<1> DEFINE uid == TheCluster(trial)
           seqs == [i \in 1 .. 4 |-> ClusterRows(tables, ClusterTables[i + 1], trial, time, uid)]
           F == FlattenSeq(seqs)
<1>0. time \in 0 .. NTimes /\ uid \in Nat  BY OutputAssumption, TheClusterIn
<1>1. ASSUME NEW i \in 1 .. 4
      PROVE  /\ seqs[i] \in Seq(KeyedRow) /\ IsInjective(seqs[i])
             /\ \A row : row \in Range(seqs[i]) <=>
                  InClusterRows(tables, ClusterTables[i + 1], trial, time, uid, row)
  <2>1. seqs[i] = ClusterRows(tables, ClusterTables[i + 1], trial, time, uid)  OBVIOUS
  <2>2. i + 1 \in 1 .. 5  OBVIOUS
  <2>3. PICK C \in FileNames : C = ClusterTables[i + 1]  BY <2>2, TableNames
  <2>4. PICK u \in Nat : u = uid  BY <1>0
  <2> HIDE DEF seqs, uid
  <2>5. /\ ClusterRows(tables, C, trial, time, u) \in Seq(KeyedRow)
        /\ IsInjective(ClusterRows(tables, C, trial, time, u))
        /\ \A row : row \in Range(ClusterRows(tables, C, trial, time, u)) <=>
             InClusterRows(tables, C, trial, time, u, row)
    BY <1>0, ClusterRowsElements
  <2> QED BY <2>1, <2>3, <2>4, <2>5
<1>2. SeqOfSeqs(seqs, 4, KeyedRow)
  <2>1. seqs = [i \in 1 .. 4 |-> seqs[i]]  OBVIOUS
  <2> HIDE DEF seqs
  <2> QED BY <1>1, <2>1 DEF SeqOfSeqs
<1> HIDE DEF seqs
<1>3. F \in Seq(KeyedRow) /\ Range(F) = UNION {Range(seqs[i]) : i \in 1 .. 4}  BY <1>2, FlattenRange
<1>4. IsInjective(F)
  <2>1. ASSUME NEW i \in 1 .. 4, NEW k \in 1 .. 4, i < k, NEW row, row \in Range(seqs[i]), row \in Range(seqs[k])
        PROVE  FALSE
    <3>3. \A l \in 1 .. 4 : row \in Range(seqs[l]) => row.table = ClusterTables[l + 1]
      BY <1>1 DEF InClusterRows, RowOf
    <3>1. row.table = ClusterTables[i + 1] /\ row.table = ClusterTables[k + 1]  BY <2>1, <3>3
    <3>2. i + 1 \in 1 .. 5 /\ k + 1 \in 1 .. 5 /\ i + 1 # k + 1  BY <2>1
    <3> QED BY <3>1, <3>2, TableNames
  <2>2. \A i, k \in 1 .. 4 : i < k => Range(seqs[i]) \cap Range(seqs[k]) = {}  BY <2>1
  <2> QED BY <1>1, <1>2, <2>2, FlattenInjective
<1>5. ASSUME NEW row PROVE row \in Range(F) <=> InResultsAt(tables, trial, time, row)
  <2>1. ASSUME row \in Range(F) PROVE InResultsAt(tables, trial, time, row)
    <3>1. PICK i \in 1 .. 4 : InClusterRows(tables, ClusterTables[i + 1], trial, time, uid, row)
      BY <1>1, <1>3, <2>1
    <3>2. i + 1 \in 2 .. 5  OBVIOUS
    <3> QED BY <3>1, <3>2 DEF InResultsAt
  <2>2. ASSUME InResultsAt(tables, trial, time, row) PROVE row \in Range(F)
    <3>1. PICK i \in 2 .. 5 : InClusterRows(tables, ClusterTables[i], trial, time, uid, row)
      BY <2>2 DEF InResultsAt
    <3>2. PICK k \in 1 .. 4 : k + 1 = i
      <4>1. i - 1 \in 1 .. 4 /\ (i - 1) + 1 = i  OBVIOUS
      <4> QED BY <4>1
    <3>3. row \in Range(seqs[k])  BY <1>1, <3>1, <3>2
    <3> QED BY <1>3, <3>2, <3>3
  <2> QED BY <2>1, <2>2
<1>6. F = ResultsAt(tables, trial, time)  BY DEF F, seqs, ResultsAt
<1> QED BY <1>3, <1>4, <1>5, <1>6

InClusterTrial(tables, trial, row) ==
  \/ InClusterRows(tables, "clusters", trial, 0, TheCluster(trial), row)
  \/ \E time \in 1 .. NTimes : InResultsAt(tables, trial, time, row)

\* Its birth, then its results at every time.
LEMMA ClusterTrialElements ==
  ASSUME NEW tables, NEW trial \in Trials
  PROVE  /\ ClusterTrial(tables, trial) \in Seq(KeyedRow)
         /\ IsInjective(ClusterTrial(tables, trial))
         /\ \A row : row \in Range(ClusterTrial(tables, trial)) <=> InClusterTrial(tables, trial, row)
         /\ \E results \in Seq(KeyedRow) :
              /\ ClusterTrial(tables, trial) =
                   Joined(ClusterRows(tables, "clusters", trial, 0, TheCluster(trial)), results)
<1> DEFINE uid == TheCluster(trial)
           seqs == [time \in 1 .. NTimes |-> ResultsAt(tables, trial, time)]
           F == FlattenSeq(seqs)
           birth == ClusterRows(tables, "clusters", trial, 0, uid)
<1>0. NTimes \in Nat /\ 0 \in 0 .. NTimes /\ "clusters" \in FileNames /\ uid \in Nat
  BY OutputAssumption, TheClusterIn DEF FileNames
<1>1. ASSUME NEW time \in 1 .. NTimes
      PROVE  /\ seqs[time] \in Seq(KeyedRow) /\ IsInjective(seqs[time])
             /\ \A row : row \in Range(seqs[time]) <=> InResultsAt(tables, trial, time, row)
  <2>1. seqs[time] = ResultsAt(tables, trial, time)  OBVIOUS
  <2> HIDE DEF seqs
  <2> QED BY <2>1, ResultsAtElements
<1>2. SeqOfSeqs(seqs, NTimes, KeyedRow)
  <2>1. seqs = [time \in 1 .. NTimes |-> seqs[time]]  OBVIOUS
  <2> HIDE DEF seqs
  <2> QED BY <1>0, <1>1, <2>1 DEF SeqOfSeqs
<1> HIDE DEF seqs
<1>3. F \in Seq(KeyedRow) /\ Range(F) = UNION {Range(seqs[time]) : time \in 1 .. NTimes}
  BY <1>2, FlattenRange
<1>4. IsInjective(F)
  <2>1. ASSUME NEW i \in 1 .. NTimes, NEW k \in 1 .. NTimes, i < k,
               NEW row, row \in Range(seqs[i]), row \in Range(seqs[k])
        PROVE  FALSE
    <3>1. InResultsAt(tables, trial, i, row) /\ InResultsAt(tables, trial, k, row)  BY <1>1, <2>1
    <3>2. row.key[2] = i  BY <3>1 DEF InResultsAt, InClusterRows, RowOf
    <3>3. row.key[2] = k  BY <3>1 DEF InResultsAt, InClusterRows, RowOf
    <3> QED BY <2>1, <3>2, <3>3
  <2>2. \A i, k \in 1 .. NTimes : i < k => Range(seqs[i]) \cap Range(seqs[k]) = {}  BY <2>1
  <2> QED BY <1>1, <1>2, <2>2, FlattenInjective
<1>5. \A row : row \in Range(F) <=> \E time \in 1 .. NTimes : InResultsAt(tables, trial, time, row)
  BY <1>1, <1>3
<1>6. /\ birth \in Seq(KeyedRow) /\ IsInjective(birth)
      /\ \A row : row \in Range(birth) <=> InClusterRows(tables, "clusters", trial, 0, uid, row)
  <2>1. PICK C \in FileNames : C = "clusters"  BY <1>0
  <2>2. PICK u \in Nat : u = uid  BY <1>0
  <2> HIDE DEF uid
  <2>3. /\ ClusterRows(tables, C, trial, 0, u) \in Seq(KeyedRow)
        /\ IsInjective(ClusterRows(tables, C, trial, 0, u))
        /\ \A row : row \in Range(ClusterRows(tables, C, trial, 0, u)) <=>
             InClusterRows(tables, C, trial, 0, u, row)
    BY <1>0, ClusterRowsElements
  <2> QED BY <2>1, <2>2, <2>3
<1> HIDE DEF birth, F
<1>7. Range(birth) \cap Range(F) = {}
  <2>1. ASSUME NEW row, row \in Range(birth), row \in Range(F) PROVE FALSE
    <3>1. row.key[2] = 0  BY <1>6, <2>1 DEF InClusterRows, RowOf
    <3>2. PICK time \in 1 .. NTimes : InResultsAt(tables, trial, time, row)  BY <1>5, <2>1
    <3>3. row.key[2] = time  BY <3>2 DEF InResultsAt, InClusterRows, RowOf
    <3> QED BY <3>1, <3>3
  <2> QED BY <2>1
<1>8. birth \o F \in Seq(KeyedRow) /\ IsInjective(birth \o F) /\ Range(birth \o F) = Range(birth) \cup Range(F)
  BY <1>3, <1>4, <1>6, <1>7, JoinedElements
<1>9. ClusterTrial(tables, trial) = birth \o F  BY DEF ClusterTrial, birth, F, seqs, ResultsAt
<1>10. \A row : row \in Range(birth \o F) <=> InClusterTrial(tables, trial, row)
  BY <1>5, <1>6, <1>8 DEF InClusterTrial
<1>11. birth \o F = Joined(birth, F)  BY DEF Joined
<1> QED BY <1>3, <1>8, <1>9, <1>10, <1>11 DEF birth

-----------------------------------------------------------------------------
(* The rows of a trial, in order.                                          *)

ControlsOK == controls \in Configs

\* What a run's controls are.
LEMMA ControlsTyped ==
  ASSUME ControlsOK
  PROVE  /\ controls.format \in {"ascii", "h5"} /\ controls.simType \in {"cluster", "galaxy"}
         /\ Filters \in Seq(STRING) /\ controls.isotopes \in Seq(STRING) /\ controls.channels \in Seq(STRING)
         /\ Extinct \in BOOLEAN /\ Nebular \in BOOLEAN /\ controls.lbol \in BOOLEAN
         /\ controls.decomposed \in BOOLEAN /\ controls.specsyn \in BOOLEAN
BY WritingAssumption DEF ControlsOK, Filters, Extinct, Nebular

InTrialRows(tables, trial, row) ==
  IF IsGalaxy THEN InGalaxyTrial(tables, trial, row) ELSE InClusterTrial(tables, trial, row)

\* The rows of a trial, each once.
LEMMA TrialRowsElements ==
  ASSUME NEW tables, NEW trial \in Trials
  PROVE  /\ TrialRows(tables, trial) \in Seq(KeyedRow)
         /\ IsInjective(TrialRows(tables, trial))
         /\ \A row : row \in Range(TrialRows(tables, trial)) <=> InTrialRows(tables, trial, row)
<1>1. CASE IsGalaxy
  <2>1. TrialRows(tables, trial) = GalaxyTrial(tables, trial)  BY <1>1 DEF TrialRows
  <2>2. \A row : InTrialRows(tables, trial, row) <=> InGalaxyTrial(tables, trial, row)
    BY <1>1 DEF InTrialRows
  <2> QED BY <2>1, <2>2, GalaxyTrialElements
<1>2. CASE ~IsGalaxy
  <2>1. TrialRows(tables, trial) = ClusterTrial(tables, trial)  BY <1>2 DEF TrialRows
  <2>2. \A row : InTrialRows(tables, trial, row) <=> InClusterTrial(tables, trial, row)
    BY <1>2 DEF InTrialRows
  <2> QED BY <2>1, <2>2, ClusterTrialElements
<1> QED BY <1>1, <1>2

\* The tables that are computed from clusters, in which a program may abort.
Spectral == {"cluster_spectra", "galaxy_spectra", "cluster_phot", "galaxy_phot"}

\* row, the p-th of all of them, is computed from the cluster u.
UsesCluster(tables, all, p, row, u) ==
  /\ Seen(u, row.key[2])
  /\ p \in 1 .. Len(all) /\ row = all[p] /\ "clusters" \in tables
  /\ row.table \in Spectral /\ u \in ComputedFrom(row)
BornBefore(all, p, trial, time, u) ==
  \E o \in 1 .. p - 1, s \in 0 .. time : all[o] = RowOf("clusters", trial, s, u)

\* In a galaxy simulation the writer of the clusters comes first, at every output time.
LEMMA GalaxyBirthsFirst ==
  ASSUME NEW tables, NEW trial \in Trials, NEW all, NEW p, NEW row, NEW u
  PROVE  IsGalaxy /\ UsesCluster(tables, all, p, row, u) /\ all = GalaxyTrial(tables, trial) /\ GalaxyTables[1] \in tables
         => BornBefore(all, p, trial, row.key[2], u)
<1>0. SUFFICES ASSUME /\ UsesCluster(tables, all, p, row, u) /\ all = GalaxyTrial(tables, trial)
                      /\ IsGalaxy /\ GalaxyTables[1] \in tables
               PROVE  BornBefore(all, p, trial, row.key[2], u)
  OBVIOUS
<1>18. /\ all = GalaxyTrial(tables, trial) /\ p \in 1 .. Len(all) /\ row = all[p]
       /\ "clusters" \in tables /\ "galaxy" \in tables
       /\ row.table \in Spectral /\ u \in ComputedFrom(row)
  <2>1. GalaxyTables[1] = "galaxy"  BY DEF GalaxyTables
  <2> QED BY <1>0, <2>1 DEF UsesCluster
<1>17. \A k \in 1 .. 5 : \A t, r : InGalaxyRows(tables, k, trial, t, r) =>
         r.key[1] = trial /\ r.key[2] = t /\ (r.table = GalaxyTables[k] \/ r.table = ClusterTables[k])
  BY GalaxyRowsKey
<1> DEFINE times == [time \in 1 .. NTimes |-> AtTime(tables, trial, time)]
<1>1. all = FlattenSeq(times) /\ SeqOfSeqs(times, NTimes, KeyedRow)  BY <1>18, GalaxyTrialElements
<1>2. PICK time \in 1 .. NTimes : \E q \in 1 .. Len(times[time]) : PlaceOf(times, NTimes, p, time, q)
  <2> HIDE DEF times
  <2> QED BY <1>18, <1>1, FlattenPlace
<1> DEFINE writers == [i \in 1 .. 5 |-> GalaxyRows(tables, i, trial, time)]
<1>3. times[time] = FlattenSeq(writers) /\ SeqOfSeqs(writers, 5, KeyedRow)
  BY AtTimeElements DEF AtTime
<1> HIDE DEF times
<1>16. PICK now : now = times[time]  OBVIOUS
<1>4. PICK q \in 1 .. Len(now) :
        /\ row = now[q]
        /\ \A r \in 1 .. Len(now) : r < q => \E o \in 1 .. p - 1 : all[o] = now[r]
  BY <1>18, <1>1, <1>2, <1>16 DEF PlaceOf
<1>5. PICK i \in 1 .. 5 : \E r \in 1 .. Len(writers[i]) : PlaceOf(writers, 5, q, i, r)
  <2> HIDE DEF writers
  <2> QED BY <1>3, <1>16, FlattenPlace
<1>6. ASSUME NEW k \in 1 .. 5
      PROVE  /\ DOMAIN writers[k] = 1 .. Len(writers[k])
             /\ \A x : x \in Range(writers[k]) <=> InGalaxyRows(tables, k, trial, time, x)
  <2>1. writers[k] = GalaxyRows(tables, k, trial, time)  OBVIOUS
  <2> HIDE DEF writers
  <2>2. writers[k] \in Seq(KeyedRow) /\ \A x : x \in Range(writers[k]) <=> InGalaxyRows(tables, k, trial, time, x)
    BY <2>1, GalaxyRowsElements
  <2> QED BY <2>2, LenProperties
<1> HIDE DEF writers
<1>7. InGalaxyRows(tables, i, trial, time, row)
  <2>1. PICK r \in 1 .. Len(writers[i]) : now[q] = writers[i][r]  BY <1>3, <1>5, <1>16 DEF PlaceOf
  <2>2. row = writers[i][r]  BY <1>4, <2>1
  <2> QED BY <1>6, <2>2 DEF Range
<1>8. i > 1
  <2>1. \A t \in Spectral : t # GalaxyTables[1] /\ t # ClusterTables[1]
    BY DEF Spectral, GalaxyTables, ClusterTables
  <2>2. row.table = GalaxyTables[i] \/ row.table = ClusterTables[i]  BY <1>7, <1>17
  <2>3. row.table \in Spectral  BY <1>18
  <2>4. i # 1  BY <2>1, <2>2, <2>3
  <2> QED BY <2>4
<1>9. row.key[2] = time /\ row.key[1] = trial  BY <1>7, <1>17
<1>10. u \in Clusters[trial]
  <2>1. CASE row = RowOf(GalaxyTables[i], trial, time, 0)
    <3>1. row.table = GalaxyTables[i]  BY <2>1 DEF RowOf
    <3>2. row.table \notin Range(ClusterTables)
      <4>1. DOMAIN ClusterTables = 1 .. 5  BY DEF ClusterTables
      <4> QED BY <3>1, <4>1, TableNames DEF Range
    <3> QED BY <1>18, <1>9, <3>2 DEF ComputedFrom
  <2>2. ASSUME NEW v \in Clusters[trial], row = RowOf(ClusterTables[i], trial, time, v)
        PROVE  u = v
    <3>1. row.table = ClusterTables[i] /\ row.key[3] = v  BY <2>2 DEF RowOf
    <3>2. row.table \in Range(ClusterTables)
      <4>1. DOMAIN ClusterTables = 1 .. 5  BY DEF ClusterTables
      <4> QED BY <3>1, <4>1 DEF Range
    <3> QED BY <1>18, <3>1, <3>2 DEF ComputedFrom
  <2> QED BY <1>7, <2>1, <2>2 DEF InGalaxyRows
<1>19. PICK s0 \in 1 .. time : ~Disrupted(u, s0)  BY <1>0, <1>9 DEF UsesCluster, Seen
<1>20. s0 \in 1 .. NTimes /\ s0 \in 0 .. time /\ (s0 = time \/ s0 < time)  BY OutputAssumption
<1>21. PICK birth : birth = RowOf("clusters", trial, s0, u)  OBVIOUS
<1>11. InGalaxyRows(tables, 1, trial, s0, birth)
  <2>1. GalaxyTables[1] = "galaxy" /\ ClusterTables[1] = "clusters"
    BY DEF GalaxyTables, ClusterTables
  <2> QED BY <1>18, <1>10, <1>19, <1>21, <2>1 DEF InGalaxyRows
<1>22. CASE s0 = time
  <2>1. PICK s \in 1 .. Len(writers[1]) : writers[1][s] = birth  BY <1>6, <1>11, <1>22 DEF Range
  <2>2. PICK r \in 1 .. q - 1 : now[r] = birth
    <3>1. now = FlattenSeq(writers) /\ 1 < i  BY <1>3, <1>8, <1>16
    <3>2. \E r \in 1 .. q - 1 : now[r] = writers[1][s]  BY <1>5, <2>1, <3>1 DEF PlaceOf
    <3> QED BY <2>1, <3>2
  <2>3. Len(now) \in Nat
    <3>1. now \in Seq(KeyedRow)  BY <1>3, <1>16, FlattenRange
    <3> QED BY <3>1, LenProperties
  <2>4. r \in 1 .. Len(now) /\ r < q  BY <1>4, <2>2, <2>3
  <2>5. PICK o \in 1 .. p - 1 : all[o] = now[r]  BY <1>4, <2>4
  <2> QED BY <1>9, <1>20, <1>21, <2>2, <2>5 DEF BornBefore
<1>23. CASE s0 < time
  <2>1. PICK then : then = times[s0]  OBVIOUS
  <2>2. /\ then \in Seq(KeyedRow)
        /\ \A x : x \in Range(then) <=> InAtTime(tables, trial, s0, x)
    BY <1>20, <2>1, AtTimeElements DEF times
  <2>3. InAtTime(tables, trial, s0, birth)  BY <1>11 DEF InAtTime
  <2>4. birth \in Range(then) /\ DOMAIN then = 1 .. Len(then)  BY <2>2, <2>3, LenProperties
  <2>5. PICK r \in 1 .. Len(then) : then[r] = birth  BY <2>4 DEF Range
  <2>6. \E o \in 1 .. p - 1 : all[o] = then[r]  BY <1>1, <1>2, <1>20, <1>23, <2>1, <2>5 DEF PlaceOf
  <2> QED BY <1>9, <1>20, <1>21, <2>5, <2>6 DEF BornBefore
<1> QED BY <1>20, <1>22, <1>23

\* In a cluster simulation its row is the first of the trial.
LEMMA ClusterBirthFirst ==
  ASSUME NEW tables, NEW trial \in Trials, NEW all, NEW p, NEW row, NEW u
  PROVE  UsesCluster(tables, all, p, row, u) /\ all = ClusterTrial(tables, trial)
         => BornBefore(all, p, trial, row.key[2], u)
<1>10. SUFFICES ASSUME UsesCluster(tables, all, p, row, u) /\ all = ClusterTrial(tables, trial)
                PROVE  BornBefore(all, p, trial, row.key[2], u)
  OBVIOUS
<1>0. /\ all = ClusterTrial(tables, trial) /\ p \in 1 .. Len(all) /\ row = all[p] /\ "clusters" \in tables
      /\ row.table \in Spectral /\ u \in ComputedFrom(row)
  BY <1>10 DEF UsesCluster
<1> DEFINE uid == TheCluster(trial)
           birth == ClusterRows(tables, "clusters", trial, 0, uid)
<1>1. PICK results \in Seq(KeyedRow) : all = Joined(birth, results)  BY <1>0, ClusterTrialElements
<1>2. birth = <<RowOf("clusters", trial, 0, uid)>>  BY <1>0 DEF ClusterRows
<1>3. all \in Seq(KeyedRow) /\ \A r : r \in Range(all) <=> InClusterTrial(tables, trial, r)
  BY <1>0, ClusterTrialElements
<1>4. DOMAIN all = 1 .. Len(all) /\ Len(all) \in Nat  BY <1>3, LenProperties
<1>5. InClusterTrial(tables, trial, row)  BY <1>0, <1>3, <1>4 DEF Range
<1>6. PICK C \in Range(ClusterTables) : \E time : row = RowOf(C, trial, time, uid)
  <2>1. DOMAIN ClusterTables = 1 .. 5 /\ ClusterTables[1] = "clusters"  BY DEF ClusterTables
  <2>2. CASE InClusterRows(tables, "clusters", trial, 0, uid, row)
    BY <2>1, <2>2 DEF InClusterRows, Range
  <2>3. ASSUME NEW time \in 1 .. NTimes, InResultsAt(tables, trial, time, row)
        PROVE  \E C \in Range(ClusterTables) : row = RowOf(C, trial, time, uid)
    <3>1. PICK i \in 2 .. 5 : InClusterRows(tables, ClusterTables[i], trial, time, uid, row)
      BY <2>3 DEF InResultsAt
    <3>2. ClusterTables[i] \in Range(ClusterTables)  BY <2>1 DEF Range
    <3> QED BY <3>1, <3>2 DEF InClusterRows
  <2> QED BY <1>5, <2>2, <2>3 DEF InClusterTrial
<1>7. u = uid  BY <1>0, <1>6 DEF ComputedFrom, RowOf
<1>8. all[1] = RowOf("clusters", trial, 0, uid)
  <2>1. RowOf("clusters", trial, 0, uid) \in KeyedRow
    <3>1. 0 \in 0 .. NTimes  BY OutputAssumption
    <3> QED BY <3>1, TheClusterIn DEF RowOf, KeyedRow, Key, FileNames
  <2>2. PICK r \in KeyedRow : r = RowOf("clusters", trial, 0, uid)  BY <2>1
  <2>5. <<r>> \in Seq(KeyedRow) /\ Len(<<r>>) = 1 /\ <<r>>[1] = r  BY <2>2
  <2>6. birth = <<r>>  BY <1>2, <2>2
  <2>3. birth \in Seq(KeyedRow) /\ Len(birth) = 1 /\ birth[1] = r  BY <2>5, <2>6
  <2> HIDE DEF birth
  <2>4. \A o \in 1 .. Len(birth) : Joined(birth, results)[o] = birth[o]  BY <2>3, ConcatElements
  <2> QED BY <1>1, <2>2, <2>3, <2>4
<1>9. p # 1
  <2>1. all[1].table = "clusters"  BY <1>8 DEF RowOf
  <2>2. row.table # "clusters"  BY <1>0 DEF Spectral
  <2> QED BY <1>0, <2>1, <2>2
<1>11. 0 \in 0 .. row.key[2]
  <2>1. row \in KeyedRow  BY <1>0, <1>3
  <2> QED BY <2>1, OutputAssumption DEF KeyedRow, Key
<1>12. 1 \in 1 .. p - 1  BY <1>0, <1>4, <1>9
<1> QED BY <1>7, <1>8, <1>11, <1>12 DEF BornBefore

OfTrial(tables, trial, row) == row.key[1] = trial /\ row.table \in tables /\ row.table \in RowTables

\* They are of the trial, and of the tables asked for.
LEMMA TrialRowsTable ==
  ASSUME NEW tables, NEW trial, NEW row
  PROVE  InTrialRows(tables, trial, row) => OfTrial(tables, trial, row)
<1>1. \A i \in 1 .. 5 : ClusterTables[i] \in RowTables /\ GalaxyTables[i] \in RowTables
  <2>1. \A i \in 1 .. 5 : i = 1 \/ i = 2 \/ i = 3 \/ i = 4 \/ i = 5  OBVIOUS
  <2> QED BY <2>1 DEF ClusterTables, GalaxyTables, FileNames, RowTables
<1>2. "clusters" \in RowTables  BY DEF RowTables, FileNames
<1>3. ASSUME NEW i \in 1 .. 5, NEW time, InGalaxyRows(tables, i, trial, time, row)
      PROVE  OfTrial(tables, trial, row)
  BY <1>1, <1>3 DEF OfTrial, InGalaxyRows, RowOf
<1>4. ASSUME NEW i \in 2 .. 5, NEW time, NEW uid, InClusterRows(tables, ClusterTables[i], trial, time, uid, row)
      PROVE  OfTrial(tables, trial, row)
  <2>1. ClusterTables[i] \in RowTables  BY <1>1
  <2> QED BY <1>4, <2>1 DEF OfTrial, InClusterRows, RowOf
<1>5. ASSUME NEW uid, InClusterRows(tables, "clusters", trial, 0, uid, row)
      PROVE  OfTrial(tables, trial, row)
  BY <1>2, <1>5 DEF OfTrial, InClusterRows, RowOf
<1> QED BY <1>3, <1>4, <1>5 DEF InTrialRows, InGalaxyTrial, InAtTime, InClusterTrial, InResultsAt

\* The files of a table: itself, and for a spectrum perhaps that of the emission lines.
LEMMA FilesOfTable ==
  ASSUME NEW table \in RowTables
  PROVE  /\ FilesOf(table) \in Seq(FileNames) /\ IsInjective(FilesOf(table))
         /\ table \in Range(FilesOf(table))
         /\ DOMAIN FilesOf(table) = 1 .. Len(FilesOf(table))
         /\ \A f \in Range(FilesOf(table)) \ {table} :
              f = IF table = "cluster_spectra" THEN "cluster_neb_lines" ELSE "galaxy_neb_lines"
         /\ \A f \in Range(FilesOf(table)) \ {table} : table \in {"cluster_spectra", "galaxy_spectra"}
         /\ \A f \in Range(FilesOf(table)) \ {table} : Nebular
<1>1. PICK t : t = table  OBVIOUS
<1>2. ASSUME NEW a \in FileNames
      PROVE  /\ <<a>> \in Seq(FileNames) /\ IsInjective(<<a>>) /\ Range(<<a>>) = {a}
             /\ DOMAIN <<a>> = 1 .. Len(<<a>>)
  BY DEF IsInjective, Range
<1>3. ASSUME NEW a \in FileNames, NEW b \in FileNames, a # b
      PROVE  /\ <<a, b>> \in Seq(FileNames) /\ IsInjective(<<a, b>>) /\ Range(<<a, b>>) = {a, b}
             /\ DOMAIN <<a, b>> = 1 .. Len(<<a, b>>)
  BY <1>3 DEF IsInjective, Range
<1>4. CASE table = "cluster_spectra" /\ Nebular  BY <1>3, <1>4 DEF FilesOf, FileNames
<1>5. CASE table = "galaxy_spectra" /\ Nebular  BY <1>3, <1>5 DEF FilesOf, FileNames
<1>6. CASE ~ Nebular \/ table \notin {"cluster_spectra", "galaxy_spectra"}
  <2>1. FilesOf(table) = <<table>> /\ table \in FileNames  BY <1>6 DEF FilesOf, RowTables
  <2> QED BY <1>2, <2>1
<1> QED BY <1>4, <1>5, <1>6

\* Two tables have no file in common.
LEMMA FilesApart ==
  ASSUME NEW a \in RowTables, NEW b \in RowTables
  PROVE  Range(FilesOf(a)) \cap Range(FilesOf(b)) # {} => a = b
<1>1. SUFFICES ASSUME NEW f, f \in Range(FilesOf(a)), f \in Range(FilesOf(b)) PROVE a = b
  OBVIOUS
<1>2. f = a \/ (a = "cluster_spectra" /\ f = "cluster_neb_lines") \/ (a = "galaxy_spectra" /\ f = "galaxy_neb_lines")
  BY <1>1, FilesOfTable
<1>3. f = b \/ (b = "cluster_spectra" /\ f = "cluster_neb_lines") \/ (b = "galaxy_spectra" /\ f = "galaxy_neb_lines")
  BY <1>1, FilesOfTable
<1> QED BY <1>2, <1>3 DEF RowTables


\* A row of a table, in one of the files of the table.
LinesOfRow(r, row) ==
  row \in KeyedRow /\ row.key = r.key /\ row.table \in Range(FilesOf(r.table))

\* The row, once in each file of its table.
LEMMA WithLinesElements ==
  ASSUME NEW r \in KeyedRow
  PROVE  r.table \in RowTables =>
           /\ WithLines(r) \in Seq(KeyedRow) /\ IsInjective(WithLines(r))
           /\ \A row : row \in Range(WithLines(r)) <=> LinesOfRow(r, row)
<1>0. SUFFICES ASSUME r.table \in RowTables
               PROVE  /\ WithLines(r) \in Seq(KeyedRow) /\ IsInjective(WithLines(r))
                      /\ \A row : row \in Range(WithLines(r)) <=> LinesOfRow(r, row)
  OBVIOUS
<1>1. PICK t \in RowTables : t = r.table  BY <1>0
<1>2. PICK files \in Seq(FileNames) : files = FilesOf(t) /\ IsInjective(files)  BY FilesOfTable
<1>3. DOMAIN files = 1 .. Len(files) /\ Len(files) \in Nat /\ \A i \in 1 .. Len(files) : files[i] \in FileNames
  BY <1>2, LenProperties, ElementOfSeq
<1> DEFINE W == [i \in 1 .. Len(files) |-> [r EXCEPT !.table = files[i]]]
<1>4. WithLines(r) = W  BY <1>1, <1>2, <1>3 DEF WithLines
<1>5. \A i \in 1 .. Len(files) : W[i] \in KeyedRow /\ W[i].table = files[i] /\ W[i].key = r.key
  BY <1>3 DEF KeyedRow
<1>6. DOMAIN W = 1 .. Len(files)  OBVIOUS
<1>7. W = [i \in 1 .. Len(files) |-> W[i]]  OBVIOUS
<1> HIDE DEF W
<1>8. W \in Seq(KeyedRow)
  <2>1. W \in [1 .. Len(files) -> KeyedRow]  BY <1>5, <1>7
  <2> QED BY <1>3, <2>1, SeqDef
<1>9. IsInjective(W)  BY <1>2, <1>3, <1>5, <1>6 DEF IsInjective
<1>10. ASSUME NEW row PROVE row \in Range(W) <=> LinesOfRow(r, row)
  <2>1. ASSUME row \in Range(W) PROVE LinesOfRow(r, row)
    BY <1>1, <1>2, <1>3, <1>5, <1>6, <2>1 DEF LinesOfRow, Range
  <2>2. ASSUME LinesOfRow(r, row) PROVE row \in Range(W)
    <3>1. PICK i \in 1 .. Len(files) : files[i] = row.table
      BY <1>1, <1>2, <1>3, <2>2 DEF LinesOfRow, Range
    <3>2. W[i] = row  BY <1>5, <2>2, <3>1 DEF LinesOfRow, KeyedRow
    <3> QED BY <1>6, <3>2 DEF Range
  <2> QED BY <2>1, <2>2
<1> QED BY <1>4, <1>8, <1>9, <1>10

\* A row is told by its table and its key.
LEMMA SameRow ==
  ASSUME NEW a, NEW b
  PROVE  a \in KeyedRow /\ b \in KeyedRow /\ a.table = b.table /\ a.key = b.key => a = b
BY DEF KeyedRow

InRows(trial, row) ==
  IF IsAscii THEN \E r \in KeyedRow : InTrialRows(open, trial, r) /\ LinesOfRow(r, row)
  ELSE InTrialRows(open, trial, row)

\* What a thread has to write of a trial: each row once in each of its files.
LEMMA RowsElements ==
  ASSUME NEW trial \in Trials
  PROVE  /\ Rows(trial) \in Seq(KeyedRow) /\ IsInjective(Rows(trial))
         /\ \A row : row \in Range(Rows(trial)) <=> InRows(trial, row)
<1> DEFINE rows == TrialRows(open, trial)
           n == Len(rows)
           seqs == [i \in DOMAIN rows |-> WithLines(rows[i])]
           F == FlattenSeq(seqs)
<1>1. /\ rows \in Seq(KeyedRow) /\ IsInjective(rows)
      /\ \A row : row \in Range(rows) <=> InTrialRows(open, trial, row)
  BY TrialRowsElements
<1>2. CASE ~IsAscii
  <2>1. Rows(trial) = rows  BY <1>2 DEF Rows
  <2>2. \A row : InRows(trial, row) <=> InTrialRows(open, trial, row)  BY <1>2 DEF InRows
  <2> HIDE DEF rows
  <2> QED BY <1>1, <2>1, <2>2
<1>3. CASE IsAscii
  <2>1. Rows(trial) = F  BY <1>3 DEF Rows
  <2> HIDE DEF rows
  <2>2. DOMAIN rows = 1 .. n /\ n \in Nat /\ \A i \in 1 .. n : rows[i] \in KeyedRow
    BY <1>1, LenProperties, ElementOfSeq
  <2>3. ASSUME NEW i \in 1 .. n
        PROVE  /\ rows[i].table \in RowTables
               /\ InTrialRows(open, trial, rows[i])
               /\ seqs[i] \in Seq(KeyedRow) /\ IsInjective(seqs[i])
               /\ \A row : row \in Range(seqs[i]) <=> LinesOfRow(rows[i], row)
    <3>1. rows[i] \in Range(rows)  BY <2>2 DEF Range
    <3>2. InTrialRows(open, trial, rows[i])  BY <1>1, <3>1
    <3>3. rows[i].table \in RowTables  BY <3>2, TrialRowsTable DEF OfTrial
    <3>4. PICK r \in KeyedRow : r = rows[i]  BY <2>2
    <3>5. r.table \in RowTables  BY <3>3, <3>4
    <3>6. /\ WithLines(r) \in Seq(KeyedRow) /\ IsInjective(WithLines(r))
          /\ \A row : row \in Range(WithLines(r)) <=> LinesOfRow(r, row)
      BY <3>5, WithLinesElements
    <3>7. seqs[i] = WithLines(r)  BY <2>2, <3>4
    <3> HIDE DEF seqs
    <3> QED BY <3>2, <3>3, <3>4, <3>6, <3>7
  <2>4. SeqOfSeqs(seqs, n, KeyedRow)
    <3>1. seqs = [i \in 1 .. n |-> seqs[i]]  BY <2>2
    <3> HIDE DEF seqs
    <3> QED BY <2>2, <2>3, <3>1 DEF SeqOfSeqs
  <2> HIDE DEF seqs
  <2>5. F \in Seq(KeyedRow) /\ Range(F) = UNION {Range(seqs[i]) : i \in 1 .. n}
    BY <2>4, FlattenRange
  <2>6. IsInjective(F)
    <3>1. ASSUME NEW i \in 1 .. n, NEW k \in 1 .. n, i < k, NEW row, row \in Range(seqs[i]), row \in Range(seqs[k])
          PROVE  FALSE
      <4>1. LinesOfRow(rows[i], row) /\ LinesOfRow(rows[k], row)  BY <2>3, <3>1
      <4>2. rows[i].table = rows[k].table
        <5>1. row.table \in Range(FilesOf(rows[i].table)) \cap Range(FilesOf(rows[k].table))
          BY <4>1 DEF LinesOfRow
        <5> QED BY <2>3, <5>1, FilesApart
      <4>3. rows[i] = rows[k]
        <5>1. rows[i].key = rows[k].key  BY <4>1 DEF LinesOfRow
        <5>2. rows[i] \in KeyedRow /\ rows[k] \in KeyedRow  BY <2>2
        <5> QED BY <4>2, <5>1, <5>2, SameRow
      <4>4. i = k  BY <1>1, <2>2, <4>3 DEF IsInjective
      <4> QED BY <3>1, <4>4
    <3>2. \A i, k \in 1 .. n : i < k => Range(seqs[i]) \cap Range(seqs[k]) = {}  BY <3>1
    <3> QED BY <2>3, <2>4, <3>2, FlattenInjective
  <2>7. ASSUME NEW row PROVE row \in Range(F) <=> InRows(trial, row)
    <3>1. ASSUME row \in Range(F) PROVE InRows(trial, row)
      <4>1. PICK i \in 1 .. n : row \in Range(seqs[i])  BY <2>5, <3>1
      <4>2. LinesOfRow(rows[i], row) /\ InTrialRows(open, trial, rows[i])  BY <2>3, <4>1
      <4>3. rows[i] \in KeyedRow  BY <2>2
      <4> QED BY <1>3, <4>2, <4>3 DEF InRows
    <3>2. ASSUME InRows(trial, row) PROVE row \in Range(F)
      <4>1. PICK r \in KeyedRow : InTrialRows(open, trial, r) /\ LinesOfRow(r, row)
        BY <1>3, <3>2 DEF InRows
      <4>2. PICK i \in 1 .. n : rows[i] = r  BY <1>1, <2>2, <4>1 DEF Range
      <4>3. row \in Range(seqs[i])  BY <2>3, <4>1, <4>2
      <4> QED BY <2>5, <4>3
    <3> QED BY <3>1, <3>2
  <2> QED BY <2>1, <2>5, <2>6, <2>7
<1> QED BY <1>2, <1>3


\* The galaxy's table that the HDF5 writer of a cluster table is reached through, when
\* it must exist for it to be reached.
NeedsGalaxyTable(table) ==
  ~IsAscii /\ IsGalaxy /\ \E i \in 1 .. 3 : ClusterTables[i] = table /\ GalaxyTables[i] \notin open

BirthIsBefore(trial, p, row, u) ==
  \E o \in 1 .. p - 1, s \in 0 .. row.key[2] : Rows(trial)[o] = RowOf("clusters", row.key[1], s, u)
\* With HDF5 output the birth of a cluster is written before everything that is computed
\* from the cluster, unless the writer of the clusters is not reached.
LEMMA BirthBefore ==
  ASSUME NEW trial \in Trials, NEW p, NEW row, NEW u
  PROVE  ~IsAscii /\ ~NeedsGalaxyTable("clusters") /\ UsesCluster(open, Rows(trial), p, row, u)
         => BirthIsBefore(trial, p, row, u)
<1>0. SUFFICES ASSUME /\ ~IsAscii /\ "clusters" \in open /\ ~NeedsGalaxyTable("clusters")
                      /\ p \in 1 .. Len(Rows(trial)) /\ row = Rows(trial)[p]
                      /\ row.table \in Spectral /\ u \in ComputedFrom(row) /\ Seen(u, row.key[2])
               PROVE  BirthIsBefore(trial, p, row, u)
  BY DEF UsesCluster
<1>1. PICK all : all = TrialRows(open, trial)  OBVIOUS
<1>2. Rows(trial) = all  BY <1>0, <1>1 DEF Rows
<1>3. row.key[1] = trial
  <2>1. all \in Seq(KeyedRow) /\ \A r : r \in Range(all) <=> InTrialRows(open, trial, r)
    BY <1>1, TrialRowsElements
  <2>2. p \in DOMAIN all  BY <1>0, <1>2, <2>1, LenProperties
  <2>3. InTrialRows(open, trial, row)  BY <1>0, <1>2, <2>1, <2>2 DEF Range
  <2> QED BY <2>3, TrialRowsTable DEF OfTrial
<1>4. UsesCluster(open, all, p, row, u)  BY <1>0, <1>2 DEF UsesCluster
<1>5. BornBefore(all, p, trial, row.key[2], u)
  <2>1. CASE IsGalaxy
    <3>1. all = GalaxyTrial(open, trial)  BY <1>1, <2>1 DEF TrialRows
    <3>2. GalaxyTables[1] \in open
      <4>1. ClusterTables[1] = "clusters"  BY DEF ClusterTables
      <4> QED BY <1>0, <2>1, <4>1 DEF NeedsGalaxyTable
    <3> QED BY <1>4, <2>1, <3>1, <3>2, GalaxyBirthsFirst
  <2>2. CASE ~IsGalaxy
    <3>1. all = ClusterTrial(open, trial)  BY <1>1, <2>2 DEF TrialRows
    <3> QED BY <1>4, <3>1, ClusterBirthFirst
  <2> QED BY <2>1, <2>2
<1> QED BY <1>2, <1>3, <1>5 DEF BornBefore, BirthIsBefore

-----------------------------------------------------------------------------
(* What does not change.                                                   *)

\* What the controls say changes only with them.
LEMMA ControlsSame ==
  ASSUME UNCHANGED controls
  PROVE  /\ Extinct' = Extinct /\ Nebular' = Nebular /\ Filters' = Filters /\ IsGalaxy' = IsGalaxy /\ IsAscii' = IsAscii
         /\ (controls.lbol)' = controls.lbol
BY DEF Extinct, Nebular, Filters, IsGalaxy, IsAscii

\* So do the rows of a trial, with the tables that are open,
LEMMA RowsSame ==
  ASSUME UNCHANGED <<controls, open>>, NEW trial
  PROVE  Rows(trial)' = Rows(trial)
<1>1. Extinct' = Extinct /\ Nebular' = Nebular /\ Filters' = Filters /\ IsGalaxy' = IsGalaxy /\ IsAscii' = IsAscii /\ open' = open
  BY ControlsSame
<1>2. \A i, time : GalaxyRows(open, i, trial, time)' = GalaxyRows(open, i, trial, time)
  BY <1>1 DEF GalaxyRows, ReturnsEarly
<1>3. GalaxyTrial(open, trial)' = GalaxyTrial(open, trial)  BY <1>1, <1>2 DEF GalaxyTrial
<1>4. ClusterTrial(open, trial)' = ClusterTrial(open, trial)  BY <1>1
<1>5. TrialRows(open, trial)' = TrialRows(open, trial)  BY <1>1, <1>3, <1>4 DEF TrialRows
<1>6. \A t : FilesOf(t)' = FilesOf(t)  BY <1>1 DEF FilesOf
<1>7. \A r : WithLines(r)' = WithLines(r)  BY <1>6 DEF WithLines
<1> QED BY <1>1, <1>5, <1>7 DEF Rows

\* the datasets of a row and of a group,
LEMMA RowH5Same ==
  ASSUME UNCHANGED controls, NEW g
  PROVE  H5!Row(g)' = H5!Row(g) /\ H5!Datasets(g)' = H5!Datasets(g)
<1>1. /\ H5!Extinct' = H5!Extinct /\ H5!Nebular' = H5!Nebular /\ H5!Filters' = H5!Filters
  BY DEF H5!Extinct, H5!Nebular, H5!Filters
<1>2. H5!ClusterRow' = H5!ClusterRow /\ H5!AppendNebLinesRow' = H5!AppendNebLinesRow
  BY <1>1 DEF H5!ClusterRow, H5!AppendNebLinesRow
<1>3. \A ids : H5!SpecRow(ids)' = H5!SpecRow(ids)  BY <1>1, <1>2 DEF H5!SpecRow
<1>4. H5!AppendPhotNebRows' = H5!AppendPhotNebRows   BY <1>1 DEF H5!AppendPhotNebRows
<1>5. \A ids : H5!PhotRow(ids)' = H5!PhotRow(ids)  BY <1>1, <1>4 DEF H5!PhotRow
<1>6. H5!NYieldColumns' = H5!NYieldColumns  BY DEF H5!NYieldColumns
<1>7. \A ids : H5!YieldsRow(ids)' = H5!YieldsRow(ids)  BY <1>6 DEF H5!YieldsRow
<1>8. H5!Row(g)' = H5!Row(g)  BY <1>2, <1>3, <1>5, <1>7 DEF H5!Row
<1>9. H5!CreateSpecNebDataset' = H5!CreateSpecNebDataset /\ H5!CreateSpecNebExtinctDataset' = H5!CreateSpecNebExtinctDataset
  BY <1>1 DEF H5!CreateSpecNebDataset, H5!CreateSpecNebExtinctDataset
<1>10. H5!CreateNebLinesDatasets' = H5!CreateNebLinesDatasets /\ H5!OpenClustersGroup' = H5!OpenClustersGroup
  BY <1>1 DEF H5!CreateNebLinesDatasets, H5!OpenClustersGroup
<1>11. \A ids : H5!OpenSpectraGroup(ids)' = H5!OpenSpectraGroup(ids)
  BY <1>1, <1>9, <1>10 DEF H5!OpenSpectraGroup
<1>12. \A n : H5!CreatePhotNebDatasets(n)' = H5!CreatePhotNebDatasets(n)
  BY <1>1 DEF H5!CreatePhotNebDatasets
<1>13. H5!NFilters' = H5!NFilters  BY <1>1 DEF H5!NFilters
<1>14. \A ids : H5!OpenPhotGroup(ids)' = H5!OpenPhotGroup(ids)
  BY <1>1, <1>12, <1>13 DEF H5!OpenPhotGroup
<1>15. /\ H5!OpenClusterSpectraGroup' = H5!OpenClusterSpectraGroup
       /\ H5!OpenGalaxySpectraGroup' = H5!OpenGalaxySpectraGroup
  BY <1>11 DEF H5!OpenClusterSpectraGroup, H5!OpenGalaxySpectraGroup
<1>16. /\ H5!OpenClusterPhotGroup' = H5!OpenClusterPhotGroup
       /\ H5!OpenGalaxyPhotGroup' = H5!OpenGalaxyPhotGroup
  BY <1>14 DEF H5!OpenClusterPhotGroup, H5!OpenGalaxyPhotGroup
<1>17. /\ H5!OpenClusterYieldsGroup' = H5!OpenClusterYieldsGroup
       /\ H5!OpenGalaxyYieldsGroup' = H5!OpenGalaxyYieldsGroup
  BY <1>6 DEF H5!OpenClusterYieldsGroup, H5!OpenGalaxyYieldsGroup
<1>18. H5!Datasets(g)' = H5!Datasets(g)  BY <1>10, <1>15, <1>16, <1>17 DEF H5!Datasets
<1> QED BY <1>8, <1>18

\* the lines of an object and the header above them,
LEMMA LinesSame ==
  ASSUME UNCHANGED controls, NEW f
  PROVE  Header(f)' = Header(f) /\ LinesOf(f)' = LinesOf(f)
<1>1. Extinct' = Extinct /\ Nebular' = Nebular /\ Filters' = Filters  BY ControlsSame
<1>2. ClustersHeader' = ClustersHeader /\ SpectraColumns' = SpectraColumns /\ LineColumns' = LineColumns
  BY <1>1 DEF ClustersHeader, SpectraColumns, LineColumns
<1>3. \A s : Suffixed(s)' = Suffixed(s)  BY <1>1 DEF Suffixed
<1>4. /\ BuildExtinctFilterColumns' = BuildExtinctFilterColumns 
      /\ BuildNebularFilterColumns' = BuildNebularFilterColumns
      /\ BuildNebularExtinctFilterColumns' = BuildNebularExtinctFilterColumns
      /\ FilterColumns' = FilterColumns
  BY <1>1, <1>3 DEF BuildExtinctFilterColumns, BuildNebularFilterColumns, BuildNebularExtinctFilterColumns, FilterColumns
<1>5. \A ids : PhotHeader(ids)' = PhotHeader(ids)  BY <1>4 DEF PhotHeader
<1>6. BuildYieldsColumnNames' = BuildYieldsColumnNames  BY DEF BuildYieldsColumnNames
<1>7. /\ ClusterSpectraHeader' = ClusterSpectraHeader /\ GalaxySpectraHeader' = GalaxySpectraHeader
      /\ ClusterNebLinesHeader' = ClusterNebLinesHeader /\ GalaxyNebLinesHeader' = GalaxyNebLinesHeader
      /\ ClusterPhotHeader' = ClusterPhotHeader /\ GalaxyPhotHeader' = GalaxyPhotHeader
      /\ ClusterYieldsHeader' = ClusterYieldsHeader /\ GalaxyYieldsHeader' = GalaxyYieldsHeader
  BY <1>2, <1>5, <1>6 DEF ClusterSpectraHeader, GalaxySpectraHeader, ClusterNebLinesHeader, GalaxyNebLinesHeader,
    ClusterPhotHeader, GalaxyPhotHeader, ClusterYieldsHeader, GalaxyYieldsHeader
<1>8. Header(f)' = Header(f)  BY <1>2, <1>7 DEF Header
<1>9. \A i : SpecNebColumns(i)' = SpecNebColumns(i)  BY <1>1 DEF SpecNebColumns
<1>10. \A ids : SpecLines(ids)' = SpecLines(ids) /\ NebLines(ids)' = NebLines(ids)
  BY <1>1, <1>9 DEF SpecLines, NebLines
<1>11. \A ids : PhotLine(ids)' = PhotLine(ids)  BY <1>1, <1>3 DEF PhotLine
<1>12. \A ids : YieldsLine(ids)' = YieldsLine(ids)  BY <1>1 DEF YieldsLine
<1>13. ClustersLine' = ClustersLine  BY <1>1 DEF ClustersLine
<1>14. LinesOf(f)' = LinesOf(f)  BY <1>10, <1>11, <1>12, <1>13 DEF LinesOf
<1> QED BY <1>8, <1>14

\* and the steps of a row.
LEMMA CellsSame ==
  ASSUME UNCHANGED controls, NEW row
  PROVE  Cells(row)' = Cells(row)
<1>1. LinesOf(row.table)' = LinesOf(row.table)  BY LinesSame
<1>2. H5!Row(row.table)' = H5!Row(row.table)  BY RowH5Same
<1> QED BY <1>1, <1>2, ControlsSame DEF Cells

-----------------------------------------------------------------------------
(* The datasets of a row are those of its group.                           *)

\* A part of a row, or of a group: datasets by name and width, no name twice.
Columns(s, pairs, names) ==
  /\ s \in Seq(pairs) /\ Range(s) = pairs
  /\ \A x \in pairs : x[1] \in names
  /\ \A i, k \in 1 .. Len(s) : s[i][1] = s[k][1] => i = k

\* Two parts that have no name in common, one after the other.
LEMMA ColumnsJoined ==
  ASSUME NEW a, NEW b, NEW A, NEW B, NEW M, NEW N,
         Columns(a, A, M), Columns(b, B, N), M \cap N = {}
  PROVE  Columns(a \o b, A \cup B, M \cup N)
<1>0. a \in Seq(A \cup B) /\ b \in Seq(A \cup B)  BY SeqMonotonic DEF Columns
<1>1. /\ Joined(a, b) \in Seq(A \cup B) /\ Len(Joined(a, b)) = Len(a) + Len(b)
      /\ Len(a) \in Nat /\ Len(b) \in Nat
      /\ \A p \in 1 .. Len(a) : Joined(a, b)[p] = a[p]
      /\ \A p \in Len(a) + 1 .. Len(a) + Len(b) : Joined(a, b)[p] = b[p - Len(a)]
  BY <1>0, ConcatElements
<1>2. Range(a \o b) = A \cup B  BY <1>0, JoinedElements DEF Columns
<1> DEFINE s == Joined(a, b)
<1>3. ASSUME NEW p \in 1 .. Len(s)
      PROVE  \/ p \in 1 .. Len(a) /\ s[p] = a[p] /\ s[p][1] \in M
             \/ p - Len(a) \in 1 .. Len(b) /\ s[p] = b[p - Len(a)] /\ s[p][1] \in N
  <2> HIDE DEF s
  <2>1. CASE p \in 1 .. Len(a)
    <3>1. a[p] \in A  BY <2>1, ElementOfSeq DEF Columns
    <3> QED BY <1>1, <2>1, <3>1 DEF Columns, s
  <2>2. CASE p \notin 1 .. Len(a)
    <3>1. p - Len(a) \in 1 .. Len(b) /\ p \in Len(a) + 1 .. Len(a) + Len(b)  BY <1>1, <2>2 DEF s
    <3>2. b[p - Len(a)] \in B  BY <3>1, ElementOfSeq DEF Columns
    <3> QED BY <1>1, <3>1, <3>2 DEF Columns, s
  <2> QED BY <2>1, <2>2
<1>4. ASSUME NEW i \in 1 .. Len(s), NEW k \in 1 .. Len(s), s[i][1] = s[k][1] PROVE i = k
  <2> HIDE DEF s
  <2>1. CASE i \in 1 .. Len(a) /\ k \in 1 .. Len(a) /\ s[i] = a[i] /\ s[k] = a[k]
    BY <1>4, <2>1 DEF Columns
  <2>2. CASE i - Len(a) \in 1 .. Len(b) /\ k - Len(a) \in 1 .. Len(b) /\ s[i] = b[i - Len(a)] /\ s[k] = b[k - Len(a)]
    <3>1. i - Len(a) = k - Len(a)  BY <1>4, <2>2 DEF Columns
    <3> QED BY <1>1, <3>1 DEF s
  <2> QED BY <1>3, <1>4, <2>1, <2>2
<1>5. s = a \o b  BY DEF Joined
<1> HIDE DEF s
<1>6. \A x \in A \cup B : x[1] \in M \cup N  BY DEF Columns
<1> QED BY <1>1, <1>2, <1>4, <1>5, <1>6 DEF Columns

\* A part of one dataset.
LEMMA ColumnsOne ==
  ASSUME NEW d, NEW w
  PROVE  Columns(<<<<d, w>>>>, {<<d, w>>}, {d})
<1>1. PICK x : x = <<d, w>>  OBVIOUS
<1>2. x[1] = d  BY <1>1
<1>3. <<x>> \in Seq({x}) /\ Range(<<x>>) = {x} /\ Len(<<x>>) = 1   BY DEF Range
<1> QED BY <1>1, <1>2, <1>3 DEF Columns

\* An empty part.
LEMMA ColumnsNone ==
  ASSUME NEW N
  PROVE  Columns(<<>>, {}, N)
BY DEF Columns, Range

\* A part that is there on a condition.
LEMMA ColumnsWhen ==
  ASSUME NEW b, NEW s, NEW A, NEW N, Columns(s, A, N)
  PROVE  Columns(H5!If(b, s), IF b THEN A ELSE {}, N)
BY ColumnsNone DEF H5!If

Distinct(names, S) == names \in Seq(S) /\ IsInjective(names) /\ Range(names) = S

\* A part of plain lists.
LEMMA ColumnsOfList ==
  ASSUME NEW names, NEW S, Distinct(names, S)
  PROVE  Columns(H5!List(names), {<<x, 1>> : x \in S}, S)
<1> DEFINE L == [i \in 1 .. Len(names) |-> <<names[i], 1>>]
           A == {<<x, 1>> : x \in S}
<1>1. DOMAIN names = 1 .. Len(names) /\ Len(names) \in Nat /\ \A i \in 1 .. Len(names) : names[i] \in S
  BY LenProperties, ElementOfSeq DEF Distinct
<1>2. H5!List(names) = L  BY <1>1 DEF H5!List
<1>3. \A i \in 1 .. Len(names) : L[i] \in A /\ L[i][1] = names[i] /\ L[i] = <<names[i], 1>>  BY <1>1
<1>4. DOMAIN L = 1 .. Len(names) /\ L = [i \in 1 .. Len(names) |-> L[i]]  OBVIOUS
<1>5. \A x \in A : x[1] \in S /\ x = <<x[1], 1>>  OBVIOUS
<1> HIDE DEF L, A
<1>6. L \in Seq(A) /\ Len(L) = Len(names)
  <2>1. L \in [1 .. Len(names) -> A]  BY <1>3, <1>4
  <2> QED BY <1>1, <1>4, <2>1, SeqDef, LenProperties
<1>7. Range(L) = A
  <2>1. ASSUME NEW x \in A PROVE x \in Range(L)
    <3>1. PICK i \in 1 .. Len(names) : names[i] = x[1]  BY <1>1, <1>5 DEF Distinct, Range
    <3>2. L[i] = x  BY <1>3, <1>5, <3>1
    <3> QED BY <1>4, <3>2 DEF Range
  <2>2. Range(L) \subseteq A  BY <1>3, <1>4 DEF Range
  <2> QED BY <2>1, <2>2
<1>8. \A i, k \in 1 .. Len(L) : L[i][1] = L[k][1] => i = k
  BY <1>1, <1>3, <1>6 DEF Distinct, IsInjective
<1> QED BY <1>2, <1>5, <1>6, <1>7, <1>8 DEF Columns, A

\* The lists a group starts with.
LEMMA DistinctLists ==
  /\ Distinct(<<"trial", "time">>, {"trial", "time"})
  /\ Distinct(<<"trial", "time", "uid">>, {"trial", "time", "uid"})
  /\ Distinct(<<"trial", "uid", "target_mass", "birth_mass", "form_time", "feh", "rng">>,
              {"trial", "uid", "target_mass", "birth_mass", "form_time", "feh", "rng"})
  /\ Distinct(<<"A_V", "A_V_neb">>, {"A_V", "A_V_neb"})
  /\ Distinct(<<"trial", "time", "target_mass", "actual_mass">>, {"trial", "time", "target_mass", "actual_mass"})
  /\ Distinct(FeedbackRow, {"n_sn", "mdot_wind", "pdot_wind", "edot_wind"})
BY DEF Distinct, IsInjective, Range, FeedbackRow

\* What the row of a spectrum has besides its lists, and how wide.
SpecPairs ==
  {<<"spec", NWl>>} \cup (IF Nebular THEN {<<"spec_neb", NWl>>} ELSE {})
    \cup (IF Extinct THEN {<<"spec_extinct", H5!NWlExtinct>>} ELSE {})
    \cup (IF Extinct /\ Nebular THEN {<<"spec_neb_extinct", H5!NWlExtinct>>} ELSE {})
    \cup (IF Nebular THEN {<<"neb_lines", Len(Lines)>>} ELSE {})
    \cup (IF Extinct /\ Nebular THEN {<<"neb_lines_extinct", Len(Lines)>>} ELSE {})
SpecNames == {"spec", "spec_neb", "spec_extinct", "spec_neb_extinct", "neb_lines", "neb_lines_extinct"}

\* The row of a spectrum and its group.
LEMMA SpecColumns ==
  ASSUME NEW ids, NEW S
  PROVE  Distinct(ids, S) /\ S \cap SpecNames = {} =>
           /\ Columns(H5!SpecRow(ids), {<<x, 1>> : x \in S} \cup SpecPairs, S \cup SpecNames)
           /\ Columns(H5!OpenSpectraGroup(ids), {<<x, 1>> : x \in S} \cup SpecPairs, S \cup SpecNames)
<1>0. SUFFICES ASSUME Distinct(ids, S), S \cap SpecNames = {}
               PROVE  /\ Columns(H5!SpecRow(ids), {<<x, 1>> : x \in S} \cup SpecPairs, S \cup SpecNames)
                      /\ Columns(H5!OpenSpectraGroup(ids), {<<x, 1>> : x \in S} \cup SpecPairs, S \cup SpecNames)
  OBVIOUS
<1> DEFINE L == {<<x, 1>> : x \in S}
           one == {<<"spec", NWl>>}
           neb == IF Nebular THEN {<<"spec_neb", NWl>>} ELSE {}
           ext == IF Extinct THEN {<<"spec_extinct", H5!NWlExtinct>>} ELSE {}
           both == IF Nebular THEN {<<"spec_neb_extinct", H5!NWlExtinct>>} ELSE {}
           lin == IF Nebular THEN {<<"neb_lines", Len(Lines)>>} ELSE {}
           linx == IF Extinct THEN {<<"neb_lines_extinct", Len(Lines)>>} ELSE {}
<1>1. Columns(H5!List(ids), L, S)  BY <1>0, ColumnsOfList
<1>2. /\ Columns(<<<<"spec", NWl>>>>, one, {"spec"})
      /\ Columns(<<<<"spec_neb", NWl>>>>, {<<"spec_neb", NWl>>}, {"spec_neb"})
      /\ Columns(<<<<"spec_extinct", H5!NWlExtinct>>>>, {<<"spec_extinct", H5!NWlExtinct>>}, {"spec_extinct"})
      /\ Columns(<<<<"spec_neb_extinct", H5!NWlExtinct>>>>, {<<"spec_neb_extinct", H5!NWlExtinct>>}, {"spec_neb_extinct"})
      /\ Columns(<<<<"neb_lines", Len(Lines)>>>>, {<<"neb_lines", Len(Lines)>>}, {"neb_lines"})
      /\ Columns(<<<<"neb_lines_extinct", Len(Lines)>>>>, {<<"neb_lines_extinct", Len(Lines)>>}, {"neb_lines_extinct"})
  BY ColumnsOne
<1>3. /\ H5!Extinct = Extinct /\ H5!Nebular = Nebular
  BY DEF H5!Extinct, H5!Nebular, Extinct, Nebular
<1> DEFINE Neb == H5!If(Nebular, <<<<"spec_neb", NWl>>>>)
           Both == H5!If(Nebular, <<<<"spec_neb_extinct", H5!NWlExtinct>>>>)
           LinX == H5!If(Extinct, <<<<"neb_lines_extinct", Len(Lines)>>>>)
           Ext == H5!If(Extinct, <<<<"spec_extinct", H5!NWlExtinct>>>> \o Both)
           Lin == H5!If(Nebular, <<<<"neb_lines", Len(Lines)>>>> \o LinX)
           Spec0 == <<<<"spec", NWl>>>>
<1>4. /\ Columns(Neb, neb, {"spec_neb"}) /\ Columns(Both, both, {"spec_neb_extinct"})
      /\ Columns(LinX, linx, {"neb_lines_extinct"})
  BY <1>2, ColumnsWhen
<1>5. Columns(Ext, IF Extinct THEN {<<"spec_extinct", H5!NWlExtinct>>} \cup both ELSE {}, {"spec_extinct", "spec_neb_extinct"})
  <2>1. Columns(<<<<"spec_extinct", H5!NWlExtinct>>>> \o Both, {<<"spec_extinct", H5!NWlExtinct>>} \cup both,
                {"spec_extinct"} \cup {"spec_neb_extinct"})
    <3> HIDE DEF both, Both
    <3> QED BY <1>2, <1>4, ColumnsJoined
  <2>2. {"spec_extinct"} \cup {"spec_neb_extinct"} = {"spec_extinct", "spec_neb_extinct"}  OBVIOUS
  <2> HIDE DEF both, Both
  <2> QED BY <2>1, <2>2, ColumnsWhen
<1>6. Columns(Lin, IF Nebular THEN {<<"neb_lines", Len(Lines)>>} \cup linx ELSE {}, {"neb_lines", "neb_lines_extinct"})
  <2>1. Columns(<<<<"neb_lines", Len(Lines)>>>> \o LinX, {<<"neb_lines", Len(Lines)>>} \cup linx,
                {"neb_lines"} \cup {"neb_lines_extinct"})
    <3> HIDE DEF linx, LinX
    <3> QED BY <1>2, <1>4, ColumnsJoined
  <2>2. {"neb_lines"} \cup {"neb_lines_extinct"} = {"neb_lines", "neb_lines_extinct"}  OBVIOUS
  <2> HIDE DEF linx, LinX
  <2> QED BY <2>1, <2>2, ColumnsWhen
<1> DEFINE extb == IF Extinct THEN {<<"spec_extinct", H5!NWlExtinct>>} \cup both ELSE {}
           linb == IF Nebular THEN {<<"neb_lines", Len(Lines)>>} \cup linx ELSE {}
<1>7. /\ H5!SpecRow(ids) = (((H5!List(ids) \o Spec0) \o Neb) \o Ext) \o Lin
      /\ H5!OpenSpectraGroup(ids) = (((H5!List(ids) \o Spec0) \o Neb) \o Lin) \o Ext
  BY <1>3 DEF H5!SpecRow, H5!OpenSpectraGroup, H5!AppendNebLinesRow, H5!CreateSpecNebDataset, H5!CreateNebLinesDatasets,
    H5!CreateSpecNebExtinctDataset
<1>8. L \cup SpecPairs = (((L \cup one) \cup neb) \cup extb) \cup linb  BY DEF SpecPairs
<1> HIDE DEF L, one, neb, extb, linb, Neb, Ext, Lin, Spec0
<1>9. S \cap {"spec"} = {} /\ S \cap SpecNames = {}  BY <1>0 DEF SpecNames
<1>10. Columns(H5!List(ids) \o Spec0, L \cup one, S \cup {"spec"})
  BY <1>1, <1>2, <1>9, ColumnsJoined DEF Spec0
<1>11. (S \cup {"spec"}) \cap {"spec_neb"} = {}  BY <1>9 DEF SpecNames
<1>12. Columns((H5!List(ids) \o Spec0) \o Neb, (L \cup one) \cup neb, (S \cup {"spec"}) \cup {"spec_neb"})
  BY <1>4, <1>10, <1>11, ColumnsJoined
<1> DEFINE M == (S \cup {"spec"}) \cup {"spec_neb"}
           X == {"spec_extinct", "spec_neb_extinct"}
           N == {"neb_lines", "neb_lines_extinct"}
<1>13. M \cap X = {} /\ M \cap N = {} /\ (M \cup X) \cap N = {} /\ (M \cup N) \cap X = {}
  BY <1>9 DEF SpecNames
<1>14. (M \cup X) \cup N = S \cup SpecNames /\ (M \cup N) \cup X = S \cup SpecNames
  BY DEF SpecNames
<1> DEFINE P == (H5!List(ids) \o Spec0) \o Neb
           A == (L \cup one) \cup neb
<1>15. Columns(P, A, M) /\ Columns(Ext, extb, X) /\ Columns(Lin, linb, N)
  BY <1>5, <1>6, <1>12 DEF extb, linb
<1>16. (A \cup extb) \cup linb = L \cup SpecPairs /\ (A \cup linb) \cup extb = L \cup SpecPairs
  BY <1>8
<1> HIDE DEF P, A, M, X, N
<1>17. Columns(P \o Ext, A \cup extb, M \cup X) /\ Columns(P \o Lin, A \cup linb, M \cup N)
  BY <1>13, <1>15, ColumnsJoined
<1>18. Columns((P \o Ext) \o Lin, (A \cup extb) \cup linb, (M \cup X) \cup N)
  BY <1>13, <1>15, <1>17, ColumnsJoined
<1>19. Columns((P \o Lin) \o Ext, (A \cup linb) \cup extb, (M \cup N) \cup X)
  BY <1>13, <1>15, <1>17, ColumnsJoined
<1> QED BY <1>7, <1>14, <1>16, <1>18, <1>19 DEF P, L

\* What the row of photometry has besides its lists.
PhotPairs ==
  {<<"phot", H5!NFilters>>}
    \cup (IF Extinct /\ Filters # <<>> THEN {<<"phot_extinct", Len(Filters)>>} ELSE {})
    \cup (IF Nebular /\ Filters # <<>> THEN {<<"phot_neb", Len(Filters)>>} ELSE {})
    \cup (IF Extinct /\ Nebular /\ Filters # <<>> THEN {<<"phot_neb_extinct", Len(Filters)>>} ELSE {})
PhotNames == {"phot", "phot_extinct", "phot_neb", "phot_neb_extinct"}

\* The row of photometry is read from a vector as wide as the dataset: Lbol has been
\* pushed at its end.
LEMMA PhotWidth ==
  ASSUME ControlsOK
  PROVE  Len(H5!Filters \o H5!If(controls.lbol, <<"Lbol">>)) = H5!NFilters
<1>1. H5!Filters = Filters /\ Filters \in Seq(STRING) /\ controls.lbol \in BOOLEAN
  BY ControlsTyped DEF H5!Filters, Filters
<1>2. PICK names : names = Filters  OBVIOUS
<1>3. names \in Seq(STRING) /\ Len(names) \in Nat  BY <1>1, <1>2, LenProperties
<1>4. Len(names \o <<"Lbol">>) = Len(names) + 1 /\ Len(names \o <<>>) = Len(names)  BY <1>3
<1> QED BY <1>1, <1>2, <1>3, <1>4 DEF H5!If, H5!NFilters

\* The row of photometry and its group.
LEMMA PhotColumns ==
  ASSUME ControlsOK, NEW ids, NEW S
  PROVE  Distinct(ids, S) /\ S \cap PhotNames = {} =>
           /\ Columns(H5!PhotRow(ids), {<<x, 1>> : x \in S} \cup PhotPairs, S \cup PhotNames)
           /\ Columns(H5!OpenPhotGroup(ids), {<<x, 1>> : x \in S} \cup PhotPairs, S \cup PhotNames)
<1>0. SUFFICES ASSUME Distinct(ids, S), S \cap PhotNames = {}
               PROVE  /\ Columns(H5!PhotRow(ids), {<<x, 1>> : x \in S} \cup PhotPairs, S \cup PhotNames)
                      /\ Columns(H5!OpenPhotGroup(ids), {<<x, 1>> : x \in S} \cup PhotPairs, S \cup PhotNames)
  OBVIOUS
<1> DEFINE L == {<<x, 1>> : x \in S}
           w == H5!NFilters
           n == Len(Filters)
           Phot0 == <<<<"phot", w>>>>
           ext0 == <<<<"phot_extinct", n>>>>
           neb0 == <<<<"phot_neb", n>>>>
           nebx0 == <<<<"phot_neb_extinct", n>>>>
<1>1. Columns(H5!List(ids), L, S)  BY <1>0, ColumnsOfList
<1>2. /\ Columns(Phot0, {<<"phot", w>>}, {"phot"})
      /\ Columns(ext0, {<<"phot_extinct", n>>}, {"phot_extinct"})
      /\ Columns(neb0, {<<"phot_neb", n>>}, {"phot_neb"})
      /\ Columns(nebx0, {<<"phot_neb_extinct", n>>}, {"phot_neb_extinct"})
  <2> HIDE DEF w, n
  <2> QED BY ColumnsOne
<1>3. H5!Extinct = Extinct /\ H5!Nebular = Nebular /\ H5!Filters = Filters
  BY DEF H5!Extinct, H5!Nebular, H5!Filters, Extinct, Nebular, Filters
<1> DEFINE some == Filters # <<>>
           NebX == H5!If(Extinct, nebx0)
           Neb == H5!If(Nebular, neb0 \o NebX)
           Ext == H5!If(Extinct, ext0)
           nebx == IF Extinct THEN {<<"phot_neb_extinct", n>>} ELSE {}
           neb == IF Nebular THEN {<<"phot_neb", n>>} \cup nebx ELSE {}
           ext == IF Extinct THEN {<<"phot_extinct", n>>} ELSE {}
           X == {"phot_neb", "phot_neb_extinct"}
<1>4. w = Len(H5!Filters \o H5!If(controls.lbol, <<"Lbol">>))  BY PhotWidth
<1>5. /\ H5!PhotRow(ids) = ((H5!List(ids) \o Phot0) \o H5!If(Extinct /\ some, ext0)) \o H5!If(Nebular /\ some, neb0 \o NebX)
      /\ H5!OpenPhotGroup(ids) = (H5!List(ids) \o Phot0) \o H5!If(some, Ext \o Neb)
  <2>1. H5!AppendPhotNebRows = H5!If(Nebular /\ some, neb0 \o NebX)
    BY <1>3 DEF H5!AppendPhotNebRows
  <2>2. H5!CreatePhotNebDatasets(n) = Neb  BY <1>3 DEF H5!CreatePhotNebDatasets
  <2> HIDE DEF Neb, NebX
  <2> QED BY <1>3, <1>4, <2>1, <2>2 DEF H5!PhotRow, H5!OpenPhotGroup
<1>6. L \cup PhotPairs = ((L \cup {<<"phot", w>>}) \cup (IF Extinct /\ some THEN {<<"phot_extinct", n>>} ELSE {}))
        \cup (IF Nebular /\ some THEN {<<"phot_neb", n>>} \cup nebx ELSE {})
  BY DEF PhotPairs
<1>7. L \cup PhotPairs = (L \cup {<<"phot", w>>}) \cup (IF some THEN ext \cup neb ELSE {})
  BY DEF PhotPairs
<1> DEFINE extS == IF Extinct /\ some THEN {<<"phot_extinct", n>>} ELSE {}
           nebS == IF Nebular /\ some THEN {<<"phot_neb", n>>} \cup nebx ELSE {}
           allS == IF some THEN ext \cup neb ELSE {}
           ExtS == H5!If(Extinct /\ some, ext0)
           NebS == H5!If(Nebular /\ some, neb0 \o NebX)
           AllS == H5!If(some, Ext \o Neb)
<1>8. Columns(NebX, nebx, {"phot_neb_extinct"}) /\ Columns(Ext, ext, {"phot_extinct"}) /\ Columns(ExtS, extS, {"phot_extinct"})
  <2> HIDE DEF ext0, nebx0, n, some
  <2> QED BY <1>2, ColumnsWhen
<1>9. Columns(neb0 \o NebX, {<<"phot_neb", n>>} \cup nebx, X)
  <2>1. X = {"phot_neb"} \cup {"phot_neb_extinct"} /\ {"phot_neb"} \cap {"phot_neb_extinct"} = {}
    OBVIOUS
  <2> HIDE DEF neb0, NebX, nebx, X, n
  <2> QED BY <1>2, <1>8, <2>1, ColumnsJoined
<1>10. Columns(Neb, neb, X) /\ Columns(NebS, nebS, X)
  <2> HIDE DEF neb0, NebX, nebx, X, n, some
  <2> QED BY <1>9, ColumnsWhen
<1>11. Columns(AllS, allS, {"phot_extinct"} \cup X)
  <2>1. {"phot_extinct"} \cap X = {}  OBVIOUS
  <2> HIDE DEF Ext, Neb, X, ext, neb, some
  <2>2. Columns(Ext \o Neb, ext \cup neb, {"phot_extinct"} \cup X)
    BY <1>8, <1>10, <2>1, ColumnsJoined
  <2> QED BY <2>2, ColumnsWhen
<1> DEFINE M == S \cup {"phot"}
<1>12. /\ S \cap {"phot"} = {} /\ M \cap {"phot_extinct"} = {} /\ (M \cup {"phot_extinct"}) \cap X = {}
       /\ M \cap ({"phot_extinct"} \cup X) = {}
       /\ (M \cup {"phot_extinct"}) \cup X = S \cup PhotNames /\ M \cup ({"phot_extinct"} \cup X) = S \cup PhotNames
  BY <1>0 DEF PhotNames
<1>13. Columns(H5!List(ids) \o Phot0, L \cup {<<"phot", w>>}, M)
  <2> HIDE DEF L, Phot0, w
  <2> QED BY <1>1, <1>2, <1>12, ColumnsJoined
<1> DEFINE P == H5!List(ids) \o Phot0
           A == L \cup {<<"phot", w>>}
<1>14. /\ Columns(P, A, M) /\ H5!PhotRow(ids) = (P \o ExtS) \o NebS /\ H5!OpenPhotGroup(ids) = P \o AllS
       /\ L \cup PhotPairs = (A \cup extS) \cup nebS /\ L \cup PhotPairs = A \cup allS
  BY <1>5, <1>6, <1>7, <1>13
<1> HIDE DEF P, A, M, ExtS, NebS, AllS, extS, nebS, allS, X, L
<1>15. Columns(P \o ExtS, A \cup extS, M \cup {"phot_extinct"})
  BY <1>8, <1>12, <1>14, ColumnsJoined
<1>16. Columns((P \o ExtS) \o NebS, (A \cup extS) \cup nebS, (M \cup {"phot_extinct"}) \cup X)
  BY <1>10, <1>12, <1>15, ColumnsJoined
<1>17. Columns(P \o AllS, A \cup allS, M \cup ({"phot_extinct"} \cup X))
  BY <1>11, <1>12, <1>14, ColumnsJoined
<1> QED BY <1>12, <1>14, <1>16, <1>17 DEF L

\* The row of table g fills every dataset of its group once, as wide as the dataset is.
Fills(g, pairs) ==
  /\ \E N : Columns(H5!Row(g), pairs, N)
  /\ \E N : Columns(H5!Datasets(g), pairs, N)
  /\ <<"trial", 1>> \in pairs
  /\ g = "clusters" => <<"uid", 1>> \in pairs

\* So it is for every table.
LEMMA RowFillsGroup ==
  ASSUME ControlsOK, NEW g
  PROVE  g \in RowTables => \E pairs : Fills(g, pairs)
<1> DEFINE cluster == <<"trial", "time", "uid">>
           galaxy == <<"trial", "time">>
           C == {"trial", "time", "uid"}
           G == {"trial", "time"}
           CL == {<<x, 1>> : x \in C}
           GL == {<<x, 1>> : x \in G}
<1>1. Distinct(cluster, C) /\ Distinct(galaxy, G)  BY DistinctLists
<1>2. <<"trial", 1>> \in CL /\ <<"trial", 1>> \in GL  OBVIOUS
<1>3. CASE g = "clusters"
  <2> DEFINE S == {"trial", "uid", "target_mass", "birth_mass", "form_time", "feh", "rng"}
             E == {"A_V", "A_V_neb"}
             first == H5!List(<<"trial", "uid", "target_mass", "birth_mass", "form_time", "feh", "rng">>)
             more == H5!List(<<"A_V", "A_V_neb">>)
             SP == {<<x, 1>> : x \in S}
             EP == {<<x, 1>> : x \in E}
  <2>1. Columns(first, SP, S) /\ Columns(more, EP, E)
    <3>1. /\ Distinct(<<"trial", "uid", "target_mass", "birth_mass", "form_time", "feh", "rng">>, S)
          /\ Distinct(<<"A_V", "A_V_neb">>, E)
      BY DistinctLists
    <3> HIDE DEF S, E
    <3> QED BY <3>1, ColumnsOfList
  <2>2. S \cap E = {} /\ <<"trial", 1>> \in SP /\ <<"uid", 1>> \in SP  OBVIOUS
  <2>3. H5!Row(g) = first \o H5!If(H5!Extinct, more) /\ H5!Datasets(g) = first \o H5!If(H5!Extinct, more)
    BY <1>3 DEF H5!Row, H5!Datasets, H5!ClusterRow, H5!OpenClustersGroup
  <2> HIDE DEF first, more, SP, EP, S, E
  <2>4. Columns(H5!If(H5!Extinct, more), IF H5!Extinct THEN EP ELSE {}, E)  BY <2>1, ColumnsWhen
  <2>5. Columns(first \o H5!If(H5!Extinct, more), SP \cup (IF H5!Extinct THEN EP ELSE {}), S \cup E)
    BY <2>1, <2>2, <2>4, ColumnsJoined
  <2> QED BY <2>2, <2>3, <2>5 DEF Fills
<1>4. CASE g = "cluster_spectra" \/ g = "galaxy_spectra"
  <2>1. C \cap SpecNames = {} /\ G \cap SpecNames = {}  BY DEF SpecNames
  <2>8. ASSUME g = "cluster_spectra"
        PROVE  H5!Row(g) = H5!SpecRow(cluster) /\ H5!Datasets(g) = H5!OpenSpectraGroup(cluster)
    BY <2>8 DEF H5!Row, H5!Datasets, H5!OpenClusterSpectraGroup, H5!OpenGalaxySpectraGroup
  <2>9. ASSUME g = "galaxy_spectra"
        PROVE  H5!Row(g) = H5!SpecRow(galaxy) /\ H5!Datasets(g) = H5!OpenSpectraGroup(galaxy)
    BY <2>9 DEF H5!Row, H5!Datasets, H5!OpenClusterSpectraGroup, H5!OpenGalaxySpectraGroup
  <2>2. /\ g = "cluster_spectra" => H5!Row(g) = H5!SpecRow(cluster) /\ H5!Datasets(g) = H5!OpenSpectraGroup(cluster)
        /\ g = "galaxy_spectra" => H5!Row(g) = H5!SpecRow(galaxy) /\ H5!Datasets(g) = H5!OpenSpectraGroup(galaxy)
    BY <2>8, <2>9
  <2> HIDE DEF cluster, galaxy, C, G
  <2>3. /\ Columns(H5!SpecRow(cluster), CL \cup SpecPairs, C \cup SpecNames)
        /\ Columns(H5!OpenSpectraGroup(cluster), CL \cup SpecPairs, C \cup SpecNames)
        /\ Columns(H5!SpecRow(galaxy), GL \cup SpecPairs, G \cup SpecNames)
        /\ Columns(H5!OpenSpectraGroup(galaxy), GL \cup SpecPairs, G \cup SpecNames)
    BY <1>1, <2>1, SpecColumns
  <2> HIDE DEF CL, GL
  <2>4. Fills(g, CL \cup SpecPairs) \/ Fills(g, GL \cup SpecPairs)
    BY <1>2, <1>4, <2>2, <2>3 DEF Fills
  <2> QED BY <2>4
<1>5. CASE g = "cluster_phot" \/ g = "galaxy_phot"
  <2>1. C \cap PhotNames = {} /\ G \cap PhotNames = {}  BY DEF PhotNames
  <2>8. ASSUME g = "cluster_phot"
        PROVE  H5!Row(g) = H5!PhotRow(cluster) /\ H5!Datasets(g) = H5!OpenPhotGroup(cluster)
    BY <2>8 DEF H5!Row, H5!Datasets, H5!OpenClusterPhotGroup, H5!OpenGalaxyPhotGroup
  <2>9. ASSUME g = "galaxy_phot"
        PROVE  H5!Row(g) = H5!PhotRow(galaxy) /\ H5!Datasets(g) = H5!OpenPhotGroup(galaxy)
    BY <2>9 DEF H5!Row, H5!Datasets, H5!OpenClusterPhotGroup, H5!OpenGalaxyPhotGroup
  <2>2. /\ g = "cluster_phot" => H5!Row(g) = H5!PhotRow(cluster) /\ H5!Datasets(g) = H5!OpenPhotGroup(cluster)
        /\ g = "galaxy_phot" => H5!Row(g) = H5!PhotRow(galaxy) /\ H5!Datasets(g) = H5!OpenPhotGroup(galaxy)
    BY <2>8, <2>9
  <2> HIDE DEF cluster, galaxy, C, G
  <2>3. /\ Columns(H5!PhotRow(cluster), CL \cup PhotPairs, C \cup PhotNames)
        /\ Columns(H5!OpenPhotGroup(cluster), CL \cup PhotPairs, C \cup PhotNames)
        /\ Columns(H5!PhotRow(galaxy), GL \cup PhotPairs, G \cup PhotNames)
        /\ Columns(H5!OpenPhotGroup(galaxy), GL \cup PhotPairs, G \cup PhotNames)
    BY <1>1, <2>1, PhotColumns
  <2> HIDE DEF CL, GL
  <2>4. Fills(g, CL \cup PhotPairs) \/ Fills(g, GL \cup PhotPairs)
    BY <1>2, <1>5, <2>2, <2>3 DEF Fills
  <2> QED BY <2>4
<1>6. CASE g = "cluster_yields" \/ g = "galaxy_yields"
  <2> DEFINE Y == <<<<"yields", H5!NYieldColumns>>>>
             YP == {<<"yields", H5!NYieldColumns>>}
  <2>1. C \cap {"yields"} = {} /\ G \cap {"yields"} = {}  OBVIOUS
  <2>8. ASSUME g = "cluster_yields"
        PROVE  H5!Row(g) = H5!List(cluster) \o Y /\ H5!Datasets(g) = H5!List(cluster) \o Y
    BY <2>8 DEF H5!Row, H5!Datasets, H5!YieldsRow, H5!OpenClusterYieldsGroup, H5!OpenGalaxyYieldsGroup
  <2>9. ASSUME g = "galaxy_yields"
        PROVE  H5!Row(g) = H5!List(galaxy) \o Y /\ H5!Datasets(g) = H5!List(galaxy) \o Y
    BY <2>9 DEF H5!Row, H5!Datasets, H5!YieldsRow, H5!OpenClusterYieldsGroup, H5!OpenGalaxyYieldsGroup
  <2>2. /\ g = "cluster_yields" => H5!Row(g) = H5!List(cluster) \o Y /\ H5!Datasets(g) = H5!List(cluster) \o Y
        /\ g = "galaxy_yields" => H5!Row(g) = H5!List(galaxy) \o Y /\ H5!Datasets(g) = H5!List(galaxy) \o Y
    BY <2>8, <2>9
  <2>3. Columns(Y, YP, {"yields"})  BY ColumnsOne
  <2> HIDE DEF cluster, galaxy, C, G, Y, YP
  <2>4. Columns(H5!List(cluster), CL, C) /\ Columns(H5!List(galaxy), GL, G)  BY <1>1, ColumnsOfList
  <2> HIDE DEF CL, GL
  <2>5. /\ Columns(H5!List(cluster) \o Y, CL \cup YP, C \cup {"yields"})
        /\ Columns(H5!List(galaxy) \o Y, GL \cup YP, G \cup {"yields"})
    BY <2>1, <2>3, <2>4, ColumnsJoined
  <2>6. Fills(g, CL \cup YP) \/ Fills(g, GL \cup YP)  BY <1>2, <1>6, <2>2, <2>5 DEF Fills
  <2> QED BY <2>6
<1>7. CASE g = "cluster_feedback" \/ g = "galaxy_feedback"
  <2> DEFINE F == {"n_sn", "mdot_wind", "pdot_wind", "edot_wind"}
             FP == {<<x, 1>> : x \in F}
             Y == H5!List(H5!FeedbackRow)
  <2>1. C \cap F = {} /\ G \cap F = {}  OBVIOUS
  <2>8. ASSUME g = "cluster_feedback"
        PROVE  H5!Row(g) = H5!List(cluster) \o Y /\ H5!Datasets(g) = H5!List(cluster) \o Y
    BY <2>8 DEF H5!Row, H5!Datasets, H5!OpenClusterFeedbackGroup, H5!OpenGalaxyFeedbackGroup, H5!AppendFeedbackRow,
      H5!CreateFeedbackDatasets
  <2>9. ASSUME g = "galaxy_feedback"
        PROVE  H5!Row(g) = H5!List(galaxy) \o Y /\ H5!Datasets(g) = H5!List(galaxy) \o Y
    BY <2>9 DEF H5!Row, H5!Datasets, H5!OpenClusterFeedbackGroup, H5!OpenGalaxyFeedbackGroup, H5!AppendFeedbackRow,
      H5!CreateFeedbackDatasets
  <2>2. /\ g = "cluster_feedback" => H5!Row(g) = H5!List(cluster) \o Y /\ H5!Datasets(g) = H5!List(cluster) \o Y
        /\ g = "galaxy_feedback" => H5!Row(g) = H5!List(galaxy) \o Y /\ H5!Datasets(g) = H5!List(galaxy) \o Y
    BY <2>8, <2>9
  <2>3. Distinct(FeedbackRow, F) /\ FeedbackRow = H5!FeedbackRow
    BY DistinctLists DEF FeedbackRow, H5!FeedbackRow
  <2> HIDE DEF cluster, galaxy, C, G, F
  <2>4. Columns(H5!List(cluster), CL, C) /\ Columns(H5!List(galaxy), GL, G) /\ Columns(Y, FP, F)
    BY <1>1, <2>3, ColumnsOfList
  <2> HIDE DEF CL, GL, Y, FP
  <2>5. /\ Columns(H5!List(cluster) \o Y, CL \cup FP, C \cup F)
        /\ Columns(H5!List(galaxy) \o Y, GL \cup FP, G \cup F)
    BY <2>1, <2>4, ColumnsJoined
  <2>6. Fills(g, CL \cup FP) \/ Fills(g, GL \cup FP)  BY <1>2, <1>7, <2>2, <2>5 DEF Fills
  <2> QED BY <2>6
<1>8. CASE g = "galaxy"
  <2> DEFINE S == {"trial", "time", "target_mass", "actual_mass"}
             names == <<"trial", "time", "target_mass", "actual_mass">>
             SP == {<<x, 1>> : x \in S}
  <2>1. Distinct(names, S) /\ <<"trial", 1>> \in SP  BY DistinctLists
  <2>2. H5!Row(g) = H5!List(names) /\ H5!Datasets(g) = H5!List(names)
    BY <1>8 DEF H5!Row, H5!Datasets, H5!GalaxyRow, H5!OpenGalaxyGroup
  <2> HIDE DEF names, S
  <2>3. Columns(H5!List(names), SP, S)  BY <2>1, ColumnsOfList
  <2> HIDE DEF SP
  <2>4. g # "clusters"  BY <1>8
  <2> QED BY <2>1, <2>2, <2>3, <2>4 DEF Fills
<1> QED BY <1>3, <1>4, <1>5, <1>6, <1>7, <1>8 DEF RowTables, FileNames

\* What the row of a group is made of.
RowShape(g) ==
  LET R == H5!Row(g) IN
  /\ Len(R) \in Nat /\ DOMAIN R = 1 .. Len(R) /\ R \in Seq(Range(R))
  /\ \A k \in 1 .. Len(R) : R[k][1] \in DatasetNames(g)
  /\ \A i, k \in 1 .. Len(R) : R[i][1] = R[k][1] => i = k
  /\ \A d \in DatasetNames(g) : \E k \in 1 .. Len(R) : R[k][1] = d
  /\ \A i \in DOMAIN H5!Datasets(g) : \E k \in 1 .. Len(R) : R[k] = H5!Datasets(g)[i]
  /\ \E k \in 1 .. Len(R) : R[k][1] = "trial"
  /\ g = "clusters" => \E k \in 1 .. Len(R) : R[k][1] = "uid"

\* Every dataset of a group has its place in the row.
LEMMA RowShapes ==
  ASSUME ControlsOK, NEW g \in RowTables
  PROVE  RowShape(g)
<1>1. PICK pairs : Fills(g, pairs)  BY RowFillsGroup
<1>2. PICK R : R = H5!Row(g)  OBVIOUS
<1>3. PICK D : D = H5!Datasets(g)  OBVIOUS
<1>4. R \in Seq(pairs) /\ Range(R) = pairs /\ \A i, k \in 1 .. Len(R) : R[i][1] = R[k][1] => i = k
  BY <1>1, <1>2 DEF Fills, Columns
<1>5. D \in Seq(pairs) /\ Range(D) = pairs  BY <1>1, <1>3 DEF Fills, Columns
<1>6. Len(R) \in Nat /\ DOMAIN R = 1 .. Len(R)  BY <1>4, LenProperties
<1>7. \A x \in pairs : \E k \in 1 .. Len(R) : R[k] = x  BY <1>4, <1>6 DEF Range
<1>8. DatasetNames(g) = {D[i][1] : i \in DOMAIN D}  BY <1>3 DEF DatasetNames
<1>9. \A i \in DOMAIN D : D[i] \in pairs  BY <1>5 DEF Range
<1>10. \A k \in 1 .. Len(R) : \E i \in DOMAIN D : D[i] = R[k]  BY <1>4, <1>5, <1>6 DEF Range
<1>11. \A k \in 1 .. Len(R) : R[k][1] \in DatasetNames(g)  BY <1>8, <1>10
<1>12. \A d \in DatasetNames(g) : \E k \in 1 .. Len(R) : R[k][1] = d  BY <1>7, <1>8, <1>9
<1>13. \A i \in DOMAIN D : \E k \in 1 .. Len(R) : R[k] = D[i]  BY <1>7, <1>9
<1>14. <<"trial", 1>> \in pairs /\ (g = "clusters" => <<"uid", 1>> \in pairs)  BY <1>1 DEF Fills
<1>15. \E k \in 1 .. Len(R) : R[k][1] = "trial"
  <2>1. PICK k \in 1 .. Len(R) : R[k] = <<"trial", 1>>  BY <1>7, <1>14
  <2> QED BY <2>1
<1>16. g = "clusters" => \E k \in 1 .. Len(R) : R[k][1] = "uid"
  <2>1. SUFFICES ASSUME g = "clusters" PROVE \E k \in 1 .. Len(R) : R[k][1] = "uid"
    OBVIOUS
  <2>2. PICK k \in 1 .. Len(R) : R[k] = <<"uid", 1>>  BY <1>7, <1>14, <2>1
  <2> QED BY <2>2
<1> QED BY <1>2, <1>3, <1>4, <1>6, <1>11, <1>12, <1>13, <1>15, <1>16 DEF RowShape

-----------------------------------------------------------------------------
(* What is left of a sequence.                                             *)

\* Its elements, one by one.
LEMMA FromSteps ==
  ASSUME NEW S, NEW s \in Seq(S), NEW m \in Nat
  PROVE  m <= Len(s) =>
         /\ From(s, m) \in Seq(S) /\ Len(From(s, m)) = Len(s) - m /\ Len(s) \in Nat
         /\ From(s, 0) = s
         /\ From(s, m) = <<>> <=> m = Len(s)
         /\ m < Len(s) => Head(From(s, m)) = s[m + 1] /\ Tail(From(s, m)) = From(s, m + 1)
         /\ Range(From(s, m)) = {s[i] : i \in m + 1 .. Len(s)}
<1>0. SUFFICES ASSUME m <= Len(s)
      PROVE  /\ From(s, m) \in Seq(S) /\ Len(From(s, m)) = Len(s) - m /\ Len(s) \in Nat
             /\ From(s, 0) = s
             /\ From(s, m) = <<>> <=> m = Len(s)
             /\ m < Len(s) => Head(From(s, m)) = s[m + 1] /\ Tail(From(s, m)) = From(s, m + 1)
             /\ Range(From(s, m)) = {s[i] : i \in m + 1 .. Len(s)}
  OBVIOUS
<1> DEFINE n == Len(s)
           r == [i \in 1 .. n - m |-> s[m + i]]
<1>1. n \in Nat /\ s \in [1 .. n -> S]  BY LenProperties
<1> HIDE DEF n
<1>2. n - m \in Nat /\ r \in [1 .. n - m -> S]  BY <1>0, <1>1 DEF n
<1>3. r \in Seq(S) /\ Len(r) = n - m /\ DOMAIN r = 1 .. n - m
  <2>1. PICK l \in Nat : l = n - m  BY <1>2
  <2>2. r \in [1 .. l -> S]  BY <1>2, <2>1
  <2> HIDE DEF r
  <2>3. r \in Seq(S) /\ DOMAIN r = 1 .. l  BY <2>2, SeqDef
  <2>4. Len(r) = l  BY <2>1, <2>3, LenProperties
  <2> QED BY <2>1, <2>3, <2>4
<1>4. r = From(s, m)  BY DEF From, n
<1>5. From(s, 0) = s
  <2>1. From(s, 0) = [i \in 1 .. n |-> s[0 + i]]  BY <1>1 DEF From, n
  <2>2. \A i \in 1 .. n : s[0 + i] = s[i]  OBVIOUS
  <2> QED BY <1>1, <2>1, <2>2
<1>6. r = <<>> <=> m = n
  <2>1. r = <<>> <=> Len(r) = 0  BY <1>3, EmptySeq
  <2> QED BY <1>0, <1>1, <1>3, <2>1
<1>7. ASSUME m < n PROVE Head(r) = s[m + 1] /\ Tail(r) = From(s, m + 1)
  <2>1. 1 \in 1 .. n - m /\ r # <<>>  BY <1>0, <1>1, <1>6, <1>7
  <2>2. r[1] = s[m + 1]  BY <2>1
  <2>3. \A i \in 1 .. n - m - 1 : r[i + 1] = s[m + 1 + i]  BY <1>1, <1>2
  <2>4. n - m - 1 = n - (m + 1)  BY <1>1
  <2> HIDE DEF r
  <2>5. Head(r) = r[1]  BY <1>3
  <2>6. Tail(r) \in Seq(S) /\ Len(Tail(r)) = n - m - 1 /\ \A i \in 1 .. n - m - 1 : Tail(r)[i] = r[i + 1]
    BY <1>3, <2>1, HeadTailProperties
  <2>7. PICK t \in Seq(S) : t = Tail(r)  BY <2>6
  <2>8. t = [i \in 1 .. n - m - 1 |-> t[i]]
    <3>1. DOMAIN t = 1 .. n - m - 1 /\ t \in [1 .. Len(t) -> S]  BY <2>6, <2>7, LenProperties
    <3> QED BY <3>1
  <2>9. t = [i \in 1 .. n - (m + 1) |-> s[m + 1 + i]]  BY <2>3, <2>4, <2>6, <2>7, <2>8
  <2>10. From(s, m + 1) = [i \in 1 .. n - (m + 1) |-> s[m + 1 + i]]  BY DEF From, n
  <2> QED BY <2>2, <2>5, <2>7, <2>9, <2>10
<1>8. Range(r) = {s[i] : i \in m + 1 .. n}
  <2>1. ASSUME NEW i \in 1 .. n - m PROVE r[i] \in {s[k] : k \in m + 1 .. n}
    <3>1. m + i \in m + 1 .. n  BY <1>1
    <3> QED BY <3>1
  <2>2. ASSUME NEW i \in m + 1 .. n PROVE s[i] \in Range(r)
    <3>1. i - m \in 1 .. n - m /\ m + (i - m) = i  BY <1>1
    <3>2. r[i - m] = s[i]  BY <3>1
    <3> HIDE DEF r
    <3> QED BY <1>3, <3>1, <3>2 DEF Range
  <2> HIDE DEF r
  <2> QED BY <1>3, <2>1, <2>2 DEF Range
<1> HIDE DEF r
<1>9. n = Len(s)  BY DEF n
<1>10. From(s, m) \in Seq(S) /\ Len(From(s, m)) = Len(s) - m /\ Len(s) \in Nat
  <2>1. r \in Seq(S) /\ Len(r) = n - m  BY <1>3
  <2>2. n \in Nat  BY <1>1
  <2> QED BY <1>4, <1>9, <2>1, <2>2
<1>11. From(s, m) = <<>> <=> m = Len(s)  BY <1>4, <1>6, <1>9
<1>12. m < Len(s) => Head(From(s, m)) = s[m + 1] /\ Tail(From(s, m)) = From(s, m + 1)
  BY <1>4, <1>7, <1>9
<1>13. Range(From(s, m)) = {s[i] : i \in m + 1 .. Len(s)}  BY <1>4, <1>8, <1>9
<1> QED BY <1>5, <1>10, <1>11, <1>12, <1>13

-----------------------------------------------------------------------------
(* The lines of an object have the columns of the header.                  *)

Sequence(s) == s \in Seq(Range(s))

\* A function on 1 .. n is a sequence.
LEMMA SequenceOf ==
  ASSUME NEW n \in Nat, NEW s, s = [i \in 1 .. n |-> s[i]]
  PROVE  Sequence(s) /\ Len(s) = n /\ DOMAIN s = 1 .. n
<1>1. DOMAIN s = 1 .. n  OBVIOUS
<1>2. s \in [1 .. n -> Range(s)]  BY <1>1 DEF Range
<1>3. s \in Seq(Range(s))  BY <1>2, SeqDef
<1>4. Len(s) = n  BY <1>1, <1>3, LenProperties
<1> QED BY <1>1, <1>3, <1>4 DEF Sequence

\* The wavelength of a cell on a line of wavelength wl (see LineAligned).
Good(cell, wl) ==
  /\ cell[1] \in {Col("wl"), Col("spec"), Col("spec_neb"), Col("line_lum"), Col("line_label")} => cell[2] = wl
  /\ cell[1] \in {Col("spec_ex"), Col("spec_neb_ex")} => cell[2] = IF wl \in Covered[1] .. Covered[2] THEN wl ELSE 0

\* A part of a line, and the part of the header that is above it.
Under(line, header, wl) ==
  /\ Sequence(line) /\ Sequence(header) /\ Len(line) = Len(header) /\ Len(line) \in Nat
  /\ \A k \in 1 .. Len(line) :
       line[k][1] = header[k] /\ line[k] = <<line[k][1], line[k][2]>> /\ Good(line[k], wl)

\* Two sequences one after the other.
LEMMA SequenceJoined ==
  ASSUME NEW a, NEW b, Sequence(a), Sequence(b)
  PROVE  /\ Sequence(a \o b) /\ Len(a \o b) = Len(a) + Len(b) /\ Len(a) \in Nat /\ Len(b) \in Nat
         /\ \A p \in 1 .. Len(a) : (a \o b)[p] = a[p]
         /\ \A p \in Len(a) + 1 .. Len(a) + Len(b) : (a \o b)[p] = b[p - Len(a)]
<1> DEFINE T == Range(a) \cup Range(b)
<1>1. a \in Seq(T) /\ b \in Seq(T)  BY SeqMonotonic DEF Sequence
<1>2. Range(a \o b) = T  BY <1>1, JoinedElements
<1> HIDE DEF T
<1>3. /\ Joined(a, b) \in Seq(T) /\ Len(Joined(a, b)) = Len(a) + Len(b)
      /\ Len(a) \in Nat /\ Len(b) \in Nat
      /\ \A p \in 1 .. Len(a) : Joined(a, b)[p] = a[p]
      /\ \A p \in Len(a) + 1 .. Len(a) + Len(b) : Joined(a, b)[p] = b[p - Len(a)]
  BY <1>1, ConcatElements
<1>4. Joined(a, b) = a \o b  BY DEF Joined
<1>5. Sequence(a \o b)  BY <1>2, <1>3, <1>4 DEF Sequence
<1> QED BY <1>3, <1>4, <1>5

\* Two parts, one after the other.
LEMMA UnderJoined ==
  ASSUME NEW a, NEW b, NEW h, NEW i, NEW wl, Under(a, h, wl), Under(b, i, wl)
  PROVE  Under(a \o b, h \o i, wl) /\ Len(a \o b) >= Len(a)
<1>1. PICK c : c = a \o b  OBVIOUS
<1>2. PICK j : j = h \o i  OBVIOUS
<1>8. Sequence(a) /\ Sequence(b) /\ Sequence(h) /\ Sequence(i)  BY DEF Under
<1>3. /\ Sequence(c) /\ Len(c) = Len(a) + Len(b) /\ Len(a) \in Nat /\ Len(b) \in Nat
      /\ \A p \in 1 .. Len(a) : c[p] = a[p]
      /\ \A p \in Len(a) + 1 .. Len(a) + Len(b) : c[p] = b[p - Len(a)]
  BY <1>1, <1>8, SequenceJoined
<1>4. /\ Sequence(j) /\ Len(j) = Len(h) + Len(i)
      /\ \A p \in 1 .. Len(h) : j[p] = h[p]
      /\ \A p \in Len(h) + 1 .. Len(h) + Len(i) : j[p] = i[p - Len(h)]
  BY <1>2, <1>8, SequenceJoined
<1>5. Len(h) = Len(a) /\ Len(i) = Len(b)  BY DEF Under
<1>6. ASSUME NEW k \in 1 .. Len(c)
      PROVE  c[k][1] = j[k] /\ c[k] = <<c[k][1], c[k][2]>> /\ Good(c[k], wl)
  <2>1. CASE k \in 1 .. Len(a)
    <3>1. c[k] = a[k] /\ j[k] = h[k]  BY <1>3, <1>4, <1>5, <2>1
    <3> QED BY <2>1, <3>1 DEF Under
  <2>2. CASE k \notin 1 .. Len(a)
    <3>1. k \in Len(a) + 1 .. Len(a) + Len(b) /\ k - Len(a) \in 1 .. Len(b)  BY <1>3, <2>2
    <3>2. c[k] = b[k - Len(a)] /\ j[k] = i[k - Len(a)]  BY <1>3, <1>4, <1>5, <3>1
    <3> QED BY <3>1, <3>2 DEF Under
  <2> QED BY <2>1, <2>2
<1>7. Len(c) \in Nat /\ Len(c) = Len(j) /\ Len(c) >= Len(a)  BY <1>3, <1>4, <1>5
<1> QED BY <1>1, <1>2, <1>3, <1>4, <1>6, <1>7 DEF Under

\* A part of one cell, or of none.
LEMMA UnderOne ==
  ASSUME NEW column, NEW v, NEW wl
  PROVE  /\ Good(<<column, v>>, wl) => Under(<<<<column, v>>>>, <<column>>, wl)
         /\ Under(<<>>, <<>>, wl)
<1>1. PICK x : x = <<column, v>>  OBVIOUS
<1>2. x[1] = column /\ x[2] = v  BY <1>1
<1>3. Sequence(<<x>>) /\ Sequence(<<column>>) /\ Sequence(<<>>)  BY DEF Sequence, Range
<1>4. Len(<<x>>) = 1 /\ Len(<<column>>) = 1 /\ Len(<<>>) = 0 /\ <<x>>[1] = x /\ <<column>>[1] = column
  OBVIOUS
<1>5. Good(x, wl) => Under(<<x>>, <<column>>, wl)  BY <1>1, <1>2, <1>3, <1>4 DEF Under
<1>6. Under(<<>>, <<>>, wl)  BY <1>3, <1>4 DEF Under
<1> QED BY <1>1, <1>5, <1>6

\* A part that is there on a condition.
LEMMA UnderWhen ==
  ASSUME NEW b, NEW line, NEW header, NEW wl, b => Under(line, header, wl)
  PROVE  Under(When(b, line), When(b, header), wl)
BY UnderOne DEF When

\* A part of cells that have no wavelength, one for each name.
LEMMA UnderCells ==
  ASSUME NEW columns, NEW wl, Sequence(columns), \A k \in DOMAIN columns : Good(<<columns[k], 0>>, wl)
  PROVE  Under(AtNoWl(columns), columns, wl)
<1> DEFINE n == Len(columns)
           A == [i \in 1 .. n |-> <<columns[i], 0>>]
<1>1. n \in Nat /\ DOMAIN columns = 1 .. n  BY LenProperties DEF Sequence
<1>2. AtNoWl(columns) = A  BY <1>1 DEF AtNoWl
<1>3. A = [i \in 1 .. n |-> A[i]]  OBVIOUS
<1>4. \A i \in 1 .. n : A[i] = <<columns[i], 0>> /\ A[i][1] = columns[i] /\ A[i][2] = 0  OBVIOUS
<1> HIDE DEF A, n
<1>5. Sequence(A) /\ Len(A) = n  BY <1>1, <1>3, SequenceOf
<1>6. \A k \in 1 .. n : A[k] = <<A[k][1], A[k][2]>> /\ Good(A[k], wl)  BY <1>1, <1>4
<1>7. Under(A, columns, wl)  BY <1>1, <1>4, <1>5, <1>6 DEF Under, n
<1> QED BY <1>2, <1>7

\* On a line without a wavelength every cell without one is right.
LEMMA GoodAtNone ==
  ASSUME NEW column
  PROVE  Good(<<column, 0>>, 0)
<1>1. 0 \notin Covered[1] .. Covered[2]  BY OutputAssumption
<1> QED BY <1>1 DEF Good

\* A part of plain values.
LEMMA UnderPlain ==
  ASSUME NEW names, NEW wl, Sequence(names), \A k \in DOMAIN names : Good(<<Col(names[k]), 0>>, wl)
  PROVE  Under(Plain(names), Cols(names), wl) /\ Len(Plain(names)) = Len(names)
<1> DEFINE n == Len(names)
           C == [i \in 1 .. n |-> Col(names[i])]
<1>1. n \in Nat /\ DOMAIN names = 1 .. n  BY LenProperties DEF Sequence
<1>2. Cols(names) = C /\ C = [i \in 1 .. n |-> C[i]] /\ \A i \in 1 .. n : C[i] = Col(names[i])
  BY <1>1 DEF Cols
<1>3. Plain(names) = [i \in 1 .. n |-> <<C[i], 0>>]  BY <1>1 DEF Plain
<1> HIDE DEF C, n
<1>4. Sequence(C) /\ DOMAIN C = 1 .. n /\ Len(C) = n  BY <1>1, <1>2, SequenceOf
<1>5. Plain(names) = AtNoWl(C)  BY <1>3, <1>4 DEF AtNoWl
<1>6. Under(AtNoWl(C), C, wl)
  <2>1. \A k \in DOMAIN C : Good(<<C[k], 0>>, wl)  BY <1>1, <1>2, <1>4
  <2> QED BY <1>4, <2>1, UnderCells
<1>7. Len(AtNoWl(C)) = n  BY <1>4, <1>6 DEF Under
<1> QED BY <1>2, <1>5, <1>6, <1>7 DEF n

\* Three sequences, one after the other.
LEMMA JoinedAssociative ==
  ASSUME NEW a, NEW b, NEW c, Sequence(a), Sequence(b), Sequence(c)
  PROVE  (a \o b) \o c = a \o (b \o c)
<1> DEFINE T == Range(a) \cup Range(b) \cup Range(c)
<1>1. a \in Seq(T) /\ b \in Seq(T) /\ c \in Seq(T)  BY SeqMonotonic DEF Sequence
<1> HIDE DEF T
<1> QED BY <1>1, ConcatAssociative

\* An empty sequence after another.
LEMMA JoinedEmpty ==
  ASSUME NEW a, Sequence(a)
  PROVE  a \o <<>> = a
BY ConcatEmptySeq DEF Sequence

Full(line, header, wl) == Under(line, header, wl) /\ Len(line) >= 1

\* A line does not grow empty.
LEMMA FullJoined ==
  ASSUME NEW a, NEW b, NEW h, NEW i, NEW wl, Full(a, h, wl), Under(b, i, wl)
  PROVE  Full(a \o b, h \o i, wl)
<1>1. Under(a, h, wl) /\ Len(a) >= 1 /\ Len(a) \in Nat  BY DEF Full, Under
<1>2. Under(a \o b, h \o i, wl) /\ Len(a \o b) >= Len(a)  BY <1>1, UnderJoined
<1>3. Len(a \o b) \in Nat  BY <1>2 DEF Under
<1>4. Len(a \o b) >= 1  BY <1>1, <1>2, <1>3
<1> QED BY <1>2, <1>4 DEF Full

\* The columns every line starts with: the object and the time it is of.
IdsOf(f) == IF f \in {"cluster_spectra", "cluster_neb_lines", "cluster_phot", "cluster_yields", "cluster_feedback"}
            THEN <<"trial", "time", "uid">> ELSE <<"trial", "time">>

\* They have no wavelength.
LEMMA UnderIds ==
  ASSUME NEW f, NEW wl
  PROVE  Full(Plain(IdsOf(f)), Cols(IdsOf(f)), wl)
<1>1. /\ Sequence(<<"trial", "time", "uid">>) /\ Sequence(<<"trial", "time">>)
      /\ Len(<<"trial", "time", "uid">>) = 3 /\ Len(<<"trial", "time">>) = 2
  BY DEF Sequence, Range
<1>2. \A x \in {"trial", "time", "uid"} : Good(<<Col(x), 0>>, wl)  BY DEF Good, Col
<1>3. /\ \A k \in DOMAIN <<"trial", "time", "uid">> : <<"trial", "time", "uid">>[k] \in {"trial", "time", "uid"}
      /\ \A k \in DOMAIN <<"trial", "time">> : <<"trial", "time">>[k] \in {"trial", "time", "uid"}
  OBVIOUS
<1>4. PICK ids : ids = IdsOf(f)  OBVIOUS
<1>5. Sequence(ids) /\ Len(ids) >= 1 /\ \A k \in DOMAIN ids : Good(<<Col(ids[k]), 0>>, wl)
  BY <1>1, <1>2, <1>3, <1>4 DEF IdsOf
<1>6. Under(Plain(ids), Cols(ids), wl) /\ Len(Plain(ids)) = Len(ids)  BY <1>5, UnderPlain
<1> QED BY <1>4, <1>5, <1>6 DEF Full

\* The lines of a file, each under the header.
LineOK(f, line) == \E wl : Full(line, Header(f), wl)
LinesUnder(f) ==
  LET n == Len(LinesOf(f)) IN
  /\ n \in Nat /\ DOMAIN LinesOf(f) = 1 .. n /\ Sequence(LinesOf(f))
  /\ f \in RowTables => n >= 1
  /\ \A i \in 1 .. n : LineOK(f, LinesOf(f)[i])

\* A file with one line for each object.
LEMMA OneLine ==
  ASSUME NEW f, NEW line, LinesOf(f) = <<line>>, LineOK(f, line)
  PROVE  LinesUnder(f)
<1>1. Sequence(<<line>>) /\ Len(<<line>>) = 1 /\ DOMAIN <<line>> = 1 .. 1 /\ <<line>>[1] = line
  BY DEF Sequence, Range
<1> QED BY <1>1 DEF LinesUnder

\* A file with several.
LEMMA SeveralLines ==
  ASSUME NEW f, NEW n \in Nat, NEW ls, ls = [i \in 1 .. n |-> ls[i]], LinesOf(f) = ls,
         \A i \in 1 .. n : LineOK(f, ls[i])
  PROVE  (f \in RowTables => n >= 1) => LinesUnder(f)
<1>1. Sequence(ls) /\ Len(ls) = n /\ DOMAIN ls = 1 .. n  BY SequenceOf
<1> QED BY <1>1 DEF LinesUnder

\* clusters.txt and galaxy.txt.
LEMMA PropertiesUnder ==
  LinesUnder("clusters") /\ LinesUnder("galaxy")
<1>0. ASSUME NEW column PROVE Good(<<column, 0>>, 0)
  BY GoodAtNone
<1>1. LinesUnder("clusters")
  <2> DEFINE ids == <<"trial", "uid", "target_mass", "birth_mass", "form_time", "feh">>
             av == <<"a_v", "a_v_neb">>
             rng == <<"rng">>
  <2>1. Sequence(ids) /\ Sequence(av) /\ Sequence(rng) /\ Len(ids) = 6  BY DEF Sequence, Range
  <2>2. Cols(rng) = <<Col("rng")>>  BY DEF Cols
  <2>3. /\ LinesOf("clusters") = <<(Plain(ids) \o When(Extinct, Plain(av))) \o Plain(rng)>>
        /\ Header("clusters") = (Cols(ids) \o When(Extinct, Cols(av))) \o <<Col("rng")>>
    BY DEF LinesOf, Header, ClustersLine, ClustersHeader
  <2> HIDE DEF ids, av, rng
  <2>4. Under(Plain(ids), Cols(ids), 0) /\ Under(Plain(av), Cols(av), 0) /\ Under(Plain(rng), Cols(rng), 0)
        /\ Len(Plain(ids)) = 6
    BY <1>0, <2>1, UnderPlain
  <2>5. Under(When(Extinct, Plain(av)), When(Extinct, Cols(av)), 0)  BY <2>4, UnderWhen
  <2>6. Full(Plain(ids), Cols(ids), 0)  BY <2>4 DEF Full
  <2>7. Full(Plain(ids) \o When(Extinct, Plain(av)), Cols(ids) \o When(Extinct, Cols(av)), 0)
    BY <2>5, <2>6, FullJoined
  <2>8. Full((Plain(ids) \o When(Extinct, Plain(av))) \o Plain(rng),
             (Cols(ids) \o When(Extinct, Cols(av))) \o Cols(rng), 0)
    BY <2>4, <2>7, FullJoined
  <2>9. LineOK("clusters", (Plain(ids) \o When(Extinct, Plain(av))) \o Plain(rng))
    BY <2>2, <2>3, <2>8 DEF LineOK
  <2> QED BY <2>3, <2>9, OneLine
<1>2. LinesUnder("galaxy")
  <2> DEFINE ids == <<"trial", "time", "target_mass", "actual_mass">>
  <2>1. Sequence(ids) /\ Len(ids) = 4  BY DEF Sequence, Range
  <2>2. LinesOf("galaxy") = <<Plain(ids)>> /\ Header("galaxy") = Cols(ids)
    BY DEF LinesOf, Header, GalaxyLine, GalaxyHeader
  <2> HIDE DEF ids
  <2>3. Under(Plain(ids), Cols(ids), 0) /\ Len(Plain(ids)) = 4  BY <1>0, <2>1, UnderPlain
  <2>4. LineOK("galaxy", Plain(ids))  BY <2>2, <2>3 DEF LineOK, Full
  <2> QED BY <2>2, <2>4, OneLine
<1> QED BY <1>1, <1>2

\* A part of two cells.
LEMMA UnderTwo ==
  ASSUME NEW c, NEW d, NEW v, NEW w, NEW wl, Good(<<c, v>>, wl), Good(<<d, w>>, wl)
  PROVE  Under(<<<<c, v>>, <<d, w>>>>, <<c, d>>, wl)
<1>1. /\ Sequence(<<<<c, v>>, <<d, w>>>>) /\ Sequence(<<c, d>>)
      /\ Len(<<<<c, v>>, <<d, w>>>>) = 2 /\ Len(<<c, d>>) = 2
  BY DEF Sequence, Range
<1> DEFINE line == <<<<c, v>>, <<d, w>>>>
<1>2. line[1] = <<c, v>> /\ line[2] = <<d, w>> /\ <<c, d>>[1] = c /\ <<c, d>>[2] = d  OBVIOUS
<1>3. ASSUME NEW k \in 1 .. 2
      PROVE  line[k][1] = <<c, d>>[k] /\ line[k] = <<line[k][1], line[k][2]>> /\ Good(line[k], wl)
  <2>1. k = 1 \/ k = 2  OBVIOUS
  <2> QED BY <1>2, <2>1
<1> QED BY <1>1, <1>3 DEF Under

\* A part on two conditions.
LEMMA WhenBoth ==
  ASSUME NEW m, NEW b, NEW c, NEW d, Sequence(c), Sequence(d)
  PROVE  When(m, c) \o When(b /\ m, d) = When(m, c \o When(b, d))
<1>1. CASE m
  <2>1. When(m, c) = c /\ When(b /\ m, d) = When(b, d) /\ When(m, c \o When(b, d)) = c \o When(b, d)
    BY <1>1 DEF When
  <2> QED BY <2>1
<1>2. CASE ~m
  <2>1. When(m, c) = <<>> /\ When(b /\ m, d) = <<>> /\ When(m, c \o When(b, d)) = <<>>
    BY <1>2 DEF When
  <2>2. Sequence(<<>>)  BY DEF Sequence, Range
  <2> QED BY <2>1, <2>2, JoinedEmpty
<1> QED BY <1>1, <1>2

\* The extinguished spectrum reaches as far as the extinction curve.
LEMMA ExtinctAtIs ==
  ASSUME NEW i \in 1 .. NWl
  PROVE  ExtinctAt(i) = IF i \in Covered[1] .. Covered[2] THEN i ELSE 0
<1>1. /\ Covered[1] \in 1 .. NWl /\ Covered[2] \in 1 .. NWl /\ Covered[1] <= Covered[2] /\ NWl \in Nat
  BY OutputAssumption
<1>2. Spectrum \in Seq(Nat) /\ Len(Spectrum) = NWl /\ \A k \in 1 .. NWl : Spectrum[k] = k
  BY <1>1 DEF Spectrum
<1>3. PICK a, b : a = Covered[1] /\ b = Covered[2]  OBVIOUS
<1>4. /\ a \in 1 .. NWl /\ b \in 1 .. NWl /\ a <= b
  BY <1>1, <1>3
<1>5. SpecExtinct = SubSeq(Spectrum, a, b) /\ WlOffset = a - 1  BY <1>3 DEF SpecExtinct, WlOffset
<1>6. Len(SubSeq(Spectrum, a, b)) = b - a + 1 /\ \A k \in 1 .. b - a + 1 : SubSeq(Spectrum, a, b)[k] = a + k - 1
  BY <1>1, <1>2, <1>4, SubSeqProperties
<1>7. CASE i \in a .. b
  <2>1. i > a - 1 /\ i - (a - 1) <= b - a + 1 /\ i - (a - 1) \in 1 .. b - a + 1 /\ a + (i - (a - 1)) - 1 = i
    BY <1>1, <1>4, <1>7
  <2>2. SpecExtinct[i - WlOffset] = i  BY <1>5, <1>6, <2>1
  <2>3. i > WlOffset /\ i - WlOffset <= Len(SpecExtinct)  BY <1>5, <1>6, <2>1
  <2> QED BY <1>3, <1>7, <2>2, <2>3 DEF ExtinctAt
<1>8. CASE i \notin a .. b
  <2>1. ~ (i > a - 1 /\ i - (a - 1) <= b - a + 1)  BY <1>1, <1>4, <1>8
  <2>2. ~ (i > WlOffset /\ i - WlOffset <= Len(SpecExtinct))  BY <1>5, <1>6, <2>1
  <2> QED BY <1>3, <1>8, <2>2 DEF ExtinctAt
<1> QED BY <1>7, <1>8

\* The cells of a line of a spectrum.
LEMMA SpecCells ==
  ASSUME NEW i \in 1 .. NWl
  PROVE  /\ Good(<<Col("wl"), i>>, i) /\ Good(<<Col("spec"), i>>, i) /\ Good(<<Col("spec_neb"), i>>, i)
         /\ Good(<<Col("spec_ex"), ExtinctAt(i)>>, i) /\ Good(<<Col("spec_neb_ex"), ExtinctAt(i)>>, i)
<1>1. PICK v : v = ExtinctAt(i)  OBVIOUS
<1>2. v = IF i \in Covered[1] .. Covered[2] THEN i ELSE 0  BY <1>1, ExtinctAtIs
<1>3. Good(<<Col("spec_ex"), v>>, i) /\ Good(<<Col("spec_neb_ex"), v>>, i)  BY <1>2 DEF Good, Col
<1>4. Good(<<Col("wl"), i>>, i) /\ Good(<<Col("spec"), i>>, i) /\ Good(<<Col("spec_neb"), i>>, i)
  BY DEF Good, Col
<1> QED BY <1>1, <1>3, <1>4

\* What follows the first columns, on a line of a spectrum.
SpecTail(i) ==
  (<<<<Col("wl"), i>>, <<Col("spec"), i>>>> \o When(Extinct, <<<<Col("spec_ex"), ExtinctAt(i)>>>>))
    \o When(Nebular, <<<<Col("spec_neb"), i>>>> \o When(Extinct, <<<<Col("spec_neb_ex"), ExtinctAt(i)>>>>))

\* It is under the spectrum's columns.
LEMMA SpecTailUnder ==
  ASSUME NEW i \in 1 .. NWl
  PROVE  Under(SpecTail(i), SpectraColumns, i)
<1>1. PICK v : v = ExtinctAt(i)  OBVIOUS
<1> DEFINE a == <<<<Col("wl"), i>>, <<Col("spec"), i>>>>
           ah == <<Col("wl"), Col("spec")>>
           b == <<<<Col("spec_ex"), v>>>>
           bh == <<Col("spec_ex")>>
           c == <<<<Col("spec_neb"), i>>>>
           ch == <<Col("spec_neb")>>
           d == <<<<Col("spec_neb_ex"), v>>>>
           dh == <<Col("spec_neb_ex")>>
<1>2. Under(a, ah, i)  BY SpecCells, UnderTwo
<1>3. Under(b, bh, i) /\ Under(c, ch, i) /\ Under(d, dh, i)  BY <1>1, SpecCells, UnderOne
<1>4. SpecTail(i) = (a \o When(Extinct, b)) \o When(Nebular, c \o When(Extinct, d))
  BY <1>1 DEF SpecTail
<1>5. Cols(<<"wl", "spec">>) = ah  BY DEF Cols
<1>6. SpectraColumns = ((ah \o When(Extinct, bh)) \o When(Nebular, ch)) \o When(Extinct /\ Nebular, dh)
  BY <1>5 DEF SpectraColumns
<1> HIDE DEF a, ah, b, bh, c, ch, d, dh
<1>7. Under(When(Extinct, b), When(Extinct, bh), i) /\ Under(When(Extinct, d), When(Extinct, dh), i)
  BY <1>3, UnderWhen
<1>8. Under(a \o When(Extinct, b), ah \o When(Extinct, bh), i)  BY <1>2, <1>7, UnderJoined
<1>9. Under(c \o When(Extinct, d), ch \o When(Extinct, dh), i)  BY <1>3, <1>7, UnderJoined
<1>10. Under(When(Nebular, c \o When(Extinct, d)), When(Nebular, ch \o When(Extinct, dh)), i)
  BY <1>9, UnderWhen
<1>11. Under(SpecTail(i), (ah \o When(Extinct, bh)) \o When(Nebular, ch \o When(Extinct, dh)), i)
  BY <1>4, <1>8, <1>10, UnderJoined
<1>12. Sequence(ch) /\ Sequence(dh)  BY <1>3 DEF Under
<1>14. Sequence(When(Nebular, ch)) /\ Sequence(When(Extinct /\ Nebular, dh))
  <2>1. Sequence(<<>>)  BY DEF Sequence, Range
  <2> QED BY <1>12, <2>1 DEF When
<1>15. Sequence(ah \o When(Extinct, bh))  BY <1>8 DEF Under
<1>16. SpectraColumns = (ah \o When(Extinct, bh)) \o (When(Nebular, ch) \o When(Extinct /\ Nebular, dh))
  BY <1>6, <1>14, <1>15, JoinedAssociative
<1>17. When(Nebular, ch) \o When(Extinct /\ Nebular, dh) = When(Nebular, ch \o When(Extinct, dh))
  BY <1>12, WhenBoth
<1> QED BY <1>11, <1>16, <1>17

\* The lines of a spectrum.
LEMMA SpectraUnder ==
  ASSUME NEW f, NEW ids, ids = IdsOf(f), Header(f) = Cols(ids) \o SpectraColumns, LinesOf(f) = SpecLines(ids)
  PROVE  LinesUnder(f)
<1>1. ASSUME NEW i \in 1 .. NWl
      PROVE  LineOK(f, SpecLines(ids)[i])
  <2>1. Full(Plain(ids), Cols(ids), i)  BY UnderIds
  <2>2. Under(SpecTail(i), SpectraColumns, i)  BY SpecTailUnder
  <2>3. Full(Plain(ids) \o SpecTail(i), Cols(ids) \o SpectraColumns, i)  BY <2>1, <2>2, FullJoined
  <2> DEFINE a == <<<<Col("wl"), i>>, <<Col("spec"), i>>>>
             b == When(Extinct, <<<<Col("spec_ex"), ExtinctAt(i)>>>>)
             c == When(Nebular, <<<<Col("spec_neb"), i>>>> \o When(Extinct, <<<<Col("spec_neb_ex"), ExtinctAt(i)>>>>))
  <2>4. Spectrum[i] = i  BY DEF Spectrum
  <2>5. SpecLines(ids)[i] = ((Plain(ids) \o a) \o b) \o c  BY <2>4 DEF SpecLines, SpecNebColumns
  <2>6. SpecTail(i) = (a \o b) \o c  BY DEF SpecTail
  <2>7. Sequence(Plain(ids)) /\ Sequence(a)
    <3>1. Sequence(a)  BY DEF Sequence, Range
    <3>2. Sequence(Plain(ids))  BY <2>1 DEF Full, Under
    <3> QED BY <3>1, <3>2
  <2>8. Sequence(<<>>)  BY DEF Sequence, Range
  <2>9. Sequence(b)
    <3>1. Sequence(<<<<Col("spec_ex"), ExtinctAt(i)>>>>)  BY DEF Sequence, Range
    <3> QED BY <2>8, <3>1 DEF When
  <2>10. Sequence(c)
    <3>1. /\ Sequence(<<<<Col("spec_neb"), i>>>>) /\ Sequence(<<<<Col("spec_neb_ex"), ExtinctAt(i)>>>>)
      BY DEF Sequence, Range
    <3>2. Sequence(When(Extinct, <<<<Col("spec_neb_ex"), ExtinctAt(i)>>>>))  BY <2>8, <3>1 DEF When
    <3>3. Sequence(<<<<Col("spec_neb"), i>>>> \o When(Extinct, <<<<Col("spec_neb_ex"), ExtinctAt(i)>>>>))
      BY <3>1, <3>2, SequenceJoined
    <3> QED BY <2>8, <3>3 DEF When
  <2> HIDE DEF a, b, c
  <2>11. Sequence(a \o b)  BY <2>7, <2>9, SequenceJoined
  <2>12. ((Plain(ids) \o a) \o b) \o c = Plain(ids) \o ((a \o b) \o c)
    <3>1. PICK p, d : p = Plain(ids) /\ d = a \o b  OBVIOUS
    <3>2. (p \o a) \o b = p \o d  BY <2>7, <2>9, <3>1, JoinedAssociative
    <3>3. Sequence(p) /\ Sequence(d) /\ Sequence(c)  BY <2>7, <2>10, <2>11, <3>1
    <3>4. (p \o d) \o c = p \o (d \o c)  BY <3>3, JoinedAssociative
    <3> QED BY <3>1, <3>2, <3>4
  <2> QED BY <2>3, <2>5, <2>6, <2>12 DEF LineOK
<1>2. NWl \in Nat /\ NWl >= 1  BY OutputAssumption
<1>3. SpecLines(ids) = [i \in 1 .. NWl |-> SpecLines(ids)[i]]  BY DEF SpecLines
<1>4. PICK ls : ls = SpecLines(ids)  OBVIOUS
<1> QED BY <1>1, <1>2, <1>3, <1>4, SeveralLines

\* A part of three.
LEMMA UnderThree ==
  ASSUME NEW c, NEW d, NEW e, NEW wl, NEW v, Good(<<c, v>>, wl), Good(<<d, v>>, wl), Good(<<e, v>>, wl)
  PROVE  Under(<<<<c, v>>, <<d, v>>, <<e, v>>>>, <<c, d, e>>, wl)
<1> DEFINE line == <<<<c, v>>, <<d, v>>, <<e, v>>>>
           header == <<c, d, e>>
<1>1. Sequence(line) /\ Sequence(header) /\ Len(line) = 3 /\ Len(header) = 3  BY DEF Sequence, Range
<1>2. /\ line[1] = <<c, v>> /\ line[2] = <<d, v>> /\ line[3] = <<e, v>>
      /\ header[1] = c /\ header[2] = d /\ header[3] = e
  OBVIOUS
<1>3. ASSUME NEW k \in 1 .. 3
      PROVE  line[k][1] = header[k] /\ line[k] = <<line[k][1], line[k][2]>> /\ Good(line[k], wl)
  <2>1. k = 1 \/ k = 2 \/ k = 3  OBVIOUS
  <2> QED BY <1>2, <2>1
<1> QED BY <1>1, <1>3 DEF Under

\* Parts that are sequences.
LEMMA WhenSequence ==
  ASSUME NEW b, NEW s, Sequence(s)
  PROVE  Sequence(When(b, s))
<1>1. Sequence(<<>>)  BY DEF Sequence, Range
<1> QED BY <1>1 DEF When

\* The lines of the emission lines.
LEMMA NebLinesUnder ==
  ASSUME NEW f, NEW ids, ids = IdsOf(f), Header(f) = Cols(ids) \o LineColumns, LinesOf(f) = NebLines(ids),
         f \notin RowTables
  PROVE  LinesUnder(f)
<1>1. ASSUME NEW l \in 1 .. Len(Lines)
      PROVE  LineOK(f, NebLines(ids)[l])
  <2> DEFINE a == <<<<Col("line_label"), l>>, <<Col("wl"), l>>, <<Col("line_lum"), l>>>>
             ah == <<Col("line_label"), Col("wl"), Col("line_lum")>>
             b == <<<<Col("line_lum_ex"), l>>>>
             bh == <<Col("line_lum_ex")>>
  <2>1. /\ Good(<<Col("line_label"), l>>, l) /\ Good(<<Col("wl"), l>>, l) /\ Good(<<Col("line_lum"), l>>, l)
        /\ Good(<<Col("line_lum_ex"), l>>, l)
    BY DEF Good, Col
  <2>2. Under(b, bh, l)  BY <2>1, UnderOne
  <2>3. Under(a, ah, l)  BY <2>1, UnderThree
  <2>4. Cols(<<"line_label", "wl", "line_lum">>) = ah  BY DEF Cols
  <2>5. LineColumns = ah \o When(Extinct, bh)  BY <2>4 DEF LineColumns
  <2>6. l \in DOMAIN Lines  BY OutputAssumption
  <2>7. NebLines(ids)[l] = (Plain(ids) \o a) \o When(Extinct, b)  BY <2>6 DEF NebLines
  <2> HIDE DEF a, ah, b, bh
  <2>8. Under(When(Extinct, b), When(Extinct, bh), l)  BY <2>2, UnderWhen
  <2>9. Under(a \o When(Extinct, b), ah \o When(Extinct, bh), l)  BY <2>3, <2>8, UnderJoined
  <2>10. Full(Plain(ids), Cols(ids), l)  BY UnderIds
  <2>11. Full(Plain(ids) \o (a \o When(Extinct, b)), Cols(ids) \o LineColumns, l)
    BY <2>5, <2>9, <2>10, FullJoined
  <2>12. Sequence(Plain(ids)) /\ Sequence(a) /\ Sequence(When(Extinct, b))
    BY <2>3, <2>8, <2>10 DEF Under, Full
  <2>13. (Plain(ids) \o a) \o When(Extinct, b) = Plain(ids) \o (a \o When(Extinct, b))
    BY <2>12, JoinedAssociative
  <2> QED BY <2>7, <2>11, <2>13 DEF LineOK
<1>2. Len(Lines) \in Nat /\ DOMAIN Lines = 1 .. Len(Lines)  BY OutputAssumption
<1>3. NebLines(ids) = [l \in 1 .. Len(Lines) |-> NebLines(ids)[l]]  BY <1>2 DEF NebLines
<1>4. PICK ls : ls = NebLines(ids)  OBVIOUS
<1>5. PICK n \in Nat : n = Len(Lines)  BY <1>2
<1> QED BY <1>1, <1>3, <1>4, <1>5, SeveralLines

\* The line of photometry: the filters with Lbol, then their counterparts without it.
LEMMA PhotUnder ==
  ASSUME ControlsOK, NEW f, NEW ids, ids = IdsOf(f), Header(f) = PhotHeader(ids), LinesOf(f) = PhotLine(ids)
  PROVE  LinesUnder(f)
<1>0. ASSUME NEW column PROVE Good(<<column, 0>>, 0)
  BY GoodAtNone
<1>1. Filters \in Seq(STRING) /\ Len(Filters) \in Nat /\ DOMAIN Filters = 1 .. Len(Filters)
  BY ControlsTyped
<1>2. Sequence(Filters) /\ \A s : Sequence(Suffixed(s))
  <2>1. Sequence(Filters)  BY <1>1 DEF Sequence, Range
  <2>2. ASSUME NEW s PROVE Sequence(Suffixed(s))
    <3>1. Suffixed(s) = [i \in 1 .. Len(Filters) |-> Suffixed(s)[i]]  BY <1>1 DEF Suffixed
    <3>2. PICK x : x = Suffixed(s)  OBVIOUS
    <3> QED BY <1>1, <3>1, <3>2, SequenceOf
  <2> QED BY <2>1, <2>2
<1> DEFINE p == Plain(Filters)
           ph == Cols(Filters)
           b == Plain(<<"Lbol">>)
           bh == <<Col("Lbol")>>
           x == AtNoWl(Suffixed("ex"))
           xh == Suffixed("ex")
           n == AtNoWl(Suffixed("neb"))
           nh == Suffixed("neb")
           e == AtNoWl(Suffixed("neb_ex"))
           eh == Suffixed("neb_ex")
<1>3. Under(p, ph, 0)  BY <1>0, <1>2, UnderPlain
<1>4. Under(b, bh, 0)
  <2>1. b = <<<<Col("Lbol"), 0>>>>  BY DEF Plain
  <2> QED BY <1>0, <2>1, UnderOne
<1>5. Under(x, xh, 0) /\ Under(n, nh, 0) /\ Under(e, eh, 0)
  <2>1. ASSUME NEW s PROVE Under(AtNoWl(Suffixed(s)), Suffixed(s), 0)
    <3>1. PICK c : c = Suffixed(s)  OBVIOUS
    <3>2. Under(AtNoWl(c), c, 0)  BY <1>0, <1>2, <3>1, UnderCells
    <3> QED BY <3>1, <3>2
  <2> QED BY <2>1
<1>6. LinesOf(f) = <<(((Plain(ids) \o p) \o When(controls.lbol, b)) \o When(Extinct, x))
                       \o When(Nebular, n \o When(Extinct, e))>>
  BY DEF PhotLine
<1>7. Header(f) = (((Cols(ids) \o (ph \o When(controls.lbol, bh))) \o When(Extinct, xh)) \o When(Nebular, nh))
                    \o When(Nebular /\ Extinct, eh)
  BY DEF PhotHeader, FilterColumns, BuildExtinctFilterColumns, BuildNebularFilterColumns, BuildNebularExtinctFilterColumns
<1> HIDE DEF p, ph, b, bh, x, xh, n, nh, e, eh
<1> DEFINE B == When(controls.lbol, b)
           Bh == When(controls.lbol, bh)
           X == When(Extinct, x)
           Xh == When(Extinct, xh)
           E == When(Extinct, e)
           Eh == When(Extinct, eh)
           N == When(Nebular, n \o E)
           Nh == When(Nebular, nh \o Eh)
<1>8. Under(B, Bh, 0) /\ Under(X, Xh, 0) /\ Under(E, Eh, 0)  BY <1>4, <1>5, UnderWhen
<1> HIDE DEF B, Bh, X, Xh
<1>9. Under(N, Nh, 0)
  <2> HIDE DEF E, Eh
  <2>1. Under(n \o E, nh \o Eh, 0)  BY <1>5, <1>8, UnderJoined
  <2> QED BY <2>1, UnderWhen
<1>10. Full(Plain(ids), Cols(ids), 0)  BY UnderIds
<1>11. Full(Plain(ids) \o p, Cols(ids) \o ph, 0)  BY <1>3, <1>10, FullJoined
<1>12. Full((Plain(ids) \o p) \o B, (Cols(ids) \o ph) \o Bh, 0)  BY <1>8, <1>11, FullJoined
<1>13. Full(((Plain(ids) \o p) \o B) \o X, ((Cols(ids) \o ph) \o Bh) \o Xh, 0)
  BY <1>8, <1>12, FullJoined
<1>14. Full((((Plain(ids) \o p) \o B) \o X) \o N, (((Cols(ids) \o ph) \o Bh) \o Xh) \o Nh, 0)
  <2> HIDE DEF N, Nh
  <2> QED BY <1>9, <1>13, FullJoined
<1>15. Sequence(Cols(ids)) /\ Sequence(ph) /\ Sequence(Bh)  BY <1>3, <1>8, <1>10 DEF Full, Under
<1>16. (Cols(ids) \o ph) \o Bh = Cols(ids) \o (ph \o Bh)  BY <1>15, JoinedAssociative
<1>17. Sequence(nh) /\ Sequence(eh)  BY <1>5 DEF Under
<1>18. When(Nebular, nh) \o When(Nebular /\ Extinct, eh) = Nh
  <2>1. When(Nebular /\ Extinct, eh) = When(Extinct /\ Nebular, eh)  BY DEF When
  <2>2. When(Nebular, nh) \o When(Extinct /\ Nebular, eh) = When(Nebular, nh \o When(Extinct, eh))
    BY <1>17, WhenBoth
  <2> QED BY <2>1, <2>2
<1>19. Sequence(When(Nebular, nh)) /\ Sequence(When(Nebular /\ Extinct, eh))  BY <1>17, WhenSequence
<1> DEFINE P == ((Cols(ids) \o ph) \o Bh) \o Xh
<1>20. Sequence(P)  BY <1>13 DEF Full, Under
<1>21. Header(f) = (P \o When(Nebular, nh)) \o When(Nebular /\ Extinct, eh)
  BY <1>7, <1>16 DEF Bh, Xh
<1> HIDE DEF P
<1>22. (P \o When(Nebular, nh)) \o When(Nebular /\ Extinct, eh) = P \o Nh
  <2> HIDE DEF N, Nh
  <2> DEFINE u == When(Nebular, nh)
             v == When(Nebular /\ Extinct, eh)
  <2> HIDE DEF u, v
  <2>1. Sequence(u) /\ Sequence(v) /\ u \o v = Nh  BY <1>18, <1>19 DEF u, v
  <2>2. (P \o u) \o v = P \o (u \o v)
    <3>1. PICK x1, x2, x3 : x1 = P /\ x2 = u /\ x3 = v  OBVIOUS
    <3>2. Sequence(x1) /\ Sequence(x2) /\ Sequence(x3)  BY <1>20, <2>1, <3>1
    <3>3. (x1 \o x2) \o x3 = x1 \o (x2 \o x3)  BY <3>2, JoinedAssociative
    <3> QED BY <3>1, <3>3
  <2>3. (P \o u) \o v = P \o Nh  BY <2>1, <2>2
  <2> QED BY <2>3 DEF u, v
<1> DEFINE line == (((Plain(ids) \o p) \o B) \o X) \o N
<1>23. LineOK(f, line)  BY <1>14, <1>21, <1>22 DEF LineOK, P
<1>24. LinesOf(f) = <<line>>  BY <1>6 DEF B, X
<1> HIDE DEF line
<1> QED BY <1>23, <1>24, OneLine

\* The line of feedback.
LEMMA FeedbackUnder ==
  ASSUME NEW f, NEW ids, ids = IdsOf(f), Header(f) = Cols(ids) \o Cols(FeedbackRow), LinesOf(f) = FeedbackLine(ids)
  PROVE  LinesUnder(f)
<1>0. ASSUME NEW column PROVE Good(<<column, 0>>, 0)
  BY GoodAtNone
<1>1. Sequence(FeedbackRow)  BY DEF FeedbackRow, Sequence, Range
<1>2. Under(Plain(FeedbackRow), Cols(FeedbackRow), 0)  BY <1>0, <1>1, UnderPlain
<1>3. Full(Plain(ids), Cols(ids), 0)  BY UnderIds
<1>4. Full(Plain(ids) \o Plain(FeedbackRow), Cols(ids) \o Cols(FeedbackRow), 0)
  BY <1>2, <1>3, FullJoined
<1>5. PICK line : line = Plain(ids) \o Plain(FeedbackRow)  OBVIOUS
<1>6. LinesOf(f) = <<line>> /\ LineOK(f, line)  BY <1>4, <1>5 DEF FeedbackLine, LineOK
<1> QED BY <1>6, OneLine

\* Division with remainder.
LEMMA QuotientRemainder ==
  ASSUME NEW n \in Nat \ {0}, NEW q \in Nat, NEW r \in 0 .. n - 1
  PROVE  (n * q + r) \div n = q /\ (n * q + r) % n = r
<1>1. PICK x : x = n * q + r  OBVIOUS
<1>2. x \in Nat  BY <1>1
<1>3. PICK p, m : p = x \div n /\ m = x % n  OBVIOUS
<1>4. p \in Int /\ m \in 0 .. n - 1 /\ x = n * p + m  BY <1>2, <1>3
<1>5. p = q
  <2>1. CASE p < q
    <3>1. PICK d \in Nat : q = p + 1 + d
      <4>1. q - p - 1 \in Nat /\ q = p + 1 + (q - p - 1)  BY <1>4, <2>1
      <4> QED BY <4>1
    <3>2. n * q = n * p + n + n * d /\ n * d >= 0  BY <1>4, <3>1
    <3> QED BY <1>1, <1>4, <3>2
  <2>2. CASE p > q
    <3>1. PICK d \in Nat : p = q + 1 + d
      <4>1. p - q - 1 \in Nat /\ p = q + 1 + (p - q - 1)  BY <1>4, <2>2
      <4> QED BY <4>1
    <3>2. n * p = n * q + n + n * d /\ n * d >= 0  BY <1>4, <3>1
    <3> QED BY <1>1, <1>4, <3>2
  <2> QED BY <1>4, <2>1, <2>2
<1>6. m = r  BY <1>1, <1>4, <1>5
<1> QED BY <1>1, <1>3, <1>5, <1>6

\* The cells of a decomposed yield, all the isotopes of a channel and then those of the
\* next, are under the columns' names.
LEMMA ChannelsUnder ==
  ASSUME ControlsOK, controls.decomposed
  PROVE  Under([k \in 1 .. Len(controls.channels) * Len(controls.isotopes) |->
                  <<<<controls.isotopes[((k - 1) % Len(controls.isotopes)) + 1],
                      controls.channels[((k - 1) \div Len(controls.isotopes)) + 1]>>, 0>>],
               BuildYieldsColumnNames, 0)
<1>0. ASSUME NEW column PROVE Good(<<column, 0>>, 0)
  BY GoodAtNone
<1>1. PICK iso, ch, ni, nc : iso = controls.isotopes /\ ch = controls.channels /\ ni = Len(iso) /\ nc = Len(ch)
  OBVIOUS
<1>2. iso \in Seq(STRING) /\ ch \in Seq(STRING)  BY <1>1, ControlsTyped
<1>3. ni \in Nat /\ nc \in Nat /\ DOMAIN iso = 1 .. ni /\ DOMAIN ch = 1 .. nc  BY <1>1, <1>2
<1> DEFINE seqs == [c \in 1 .. nc |-> [i \in 1 .. ni |-> <<iso[i], ch[c]>>]]
           T == STRING \X STRING
<1>4. BuildYieldsColumnNames = FlattenSeq(seqs)  BY <1>1, <1>3 DEF BuildYieldsColumnNames
<1>5. SeqOfSeqs(seqs, nc, T)
  <2>1. ASSUME NEW c \in 1 .. nc PROVE seqs[c] \in Seq(T)
    <3>1. ch[c] \in STRING /\ \A i \in 1 .. ni : iso[i] \in STRING  BY <1>1, <1>2, <1>3
    <3>2. \A i \in 1 .. ni : <<iso[i], ch[c]>> \in T  BY <3>1
    <3>3. seqs[c] = [i \in 1 .. ni |-> <<iso[i], ch[c]>>]  OBVIOUS
    <3> HIDE DEF T, seqs
    <3>4. [i \in 1 .. ni |-> <<iso[i], ch[c]>>] \in Seq(T)  BY <1>3, <3>2
    <3> QED BY <3>3, <3>4
  <2>2. seqs = [c \in 1 .. nc |-> seqs[c]]  OBVIOUS
  <2> HIDE DEF seqs, T
  <2> QED BY <1>3, <2>1, <2>2 DEF SeqOfSeqs
<1>6. \A c \in 1 .. nc : Len(seqs[c]) = ni /\ \A i \in 1 .. ni : seqs[c][i] = <<iso[i], ch[c]>>
  BY <1>3
<1> HIDE DEF seqs, T
<1>7. PICK off \in [0 .. nc -> Nat] : OffsetsOf(off, seqs, nc)  BY <1>5, FlattenOffsets
<1>8. FlattenSeq(seqs) \in Seq(T)  BY <1>5, FlattenOffsets
<1>9. \A c \in 0 .. nc : off[c] = c * ni
  <2> DEFINE S == {c \in Nat : c <= nc => off[c] = c * ni}
  <2>1. 0 \in S  BY <1>3, <1>7 DEF OffsetsOf
  <2>2. ASSUME NEW c \in Nat, c \in S
        PROVE  c + 1 \in S
    <3>1. CASE c + 1 <= nc
      <4>1. off[c + 1] = off[c] + Len(seqs[c + 1]) /\ c + 1 \in 1 .. nc /\ (c + 1) - 1 = c
        <5>1. c + 1 \in 1 .. nc /\ (c + 1) - 1 = c  BY <1>3, <3>1
        <5>2. \A i \in 1 .. nc : off[i] = off[i - 1] + Len(seqs[i])  BY <1>7 DEF OffsetsOf
        <5> QED BY <5>1, <5>2
      <4>2. off[c] = c * ni  BY <1>3, <2>2, <3>1
      <4>3. Len(seqs[c + 1]) = ni  BY <1>6, <4>1
      <4>4. c * ni + ni = (c + 1) * ni  BY <1>3
      <4> QED BY <4>1, <4>2, <4>3, <4>4
    <3>2. CASE ~ (c + 1 <= nc)  BY <3>2
    <3> QED BY <3>1, <3>2
  <2> HIDE DEF S
  <2>3. \A c \in Nat : c \in S => c + 1 \in S  BY <2>2
  <2>4. Nat \subseteq S  BY <2>1, <2>3, SetInduction
  <2>5. \A c \in 0 .. nc : c \in S /\ c <= nc  BY <1>3, <2>4
  <2> QED BY <2>5 DEF S
<1>10. PICK n \in Nat : n = nc * ni  BY <1>3
<1>11. Len(FlattenSeq(seqs)) = n  BY <1>3, <1>7, <1>9, <1>10 DEF OffsetsOf
<1> DEFINE line == [k \in 1 .. n |-> <<<<iso[((k - 1) % ni) + 1], ch[((k - 1) \div ni) + 1]>>, 0>>]
<1>12. ASSUME NEW k \in 1 .. n
       PROVE  line[k][1] = FlattenSeq(seqs)[k] /\ line[k] = <<line[k][1], line[k][2]>> /\ Good(line[k], 0)
  <2>1. PICK c \in 1 .. nc : off[c - 1] < k /\ k <= off[c]
    <3>1. off[nc] = n  BY <1>3, <1>9, <1>10
    <3>2. \A p \in 1 .. off[nc] : \E c \in 1 .. nc : off[c - 1] < p /\ p <= off[c]
      BY <1>7 DEF OffsetsOf
    <3> QED BY <3>1, <3>2
  <2>2. off[c - 1] = (c - 1) * ni /\ off[c] = c * ni /\ c - 1 \in Nat  BY <1>3, <1>9
  <2>3. PICK o \in Nat : o = off[c - 1]  BY <1>7, <2>2, <1>3
  <2>4. off[c] = o + ni
    <3>1. c * ni = (c - 1) * ni + ni  BY <1>3
    <3> QED BY <2>2, <2>3, <3>1
  <2>5. ni # 0 /\ k - 1 - o \in 0 .. ni - 1 /\ k \in Nat  BY <1>3, <2>1, <2>3, <2>4
  <2>6. k - 1 = ni * (c - 1) + (k - 1 - o)  BY <1>3, <2>2, <2>3, <2>5
  <2>7. (k - 1) \div ni = c - 1 /\ (k - 1) % ni = k - 1 - o
    <3>1. PICK r, q : r = k - 1 - o /\ q = c - 1  OBVIOUS
    <3>2. (ni * q + r) \div ni = q /\ (ni * q + r) % ni = r
      BY <1>3, <2>2, <2>5, <3>1, QuotientRemainder
    <3> QED BY <2>6, <3>1, <3>2
  <2>8. FlattenSeq(seqs)[k] = seqs[c][k - o]
    <3>1. \A i \in 1 .. nc : \A p \in off[i - 1] + 1 .. off[i] : FlattenSeq(seqs)[p] = seqs[i][p - off[i - 1]]
      BY <1>7 DEF OffsetsOf
    <3>2. k \in off[c - 1] + 1 .. off[c]  BY <1>3, <2>1, <2>3, <2>4
    <3> QED BY <2>3, <3>1, <3>2
  <2>9. seqs[c][k - o] = <<iso[k - o], ch[c]>>
    <3>1. k - o \in 1 .. ni  BY <1>3, <2>3, <2>5
    <3> QED BY <1>6, <3>1
  <2>10. ((k - 1) % ni) + 1 = k - o /\ ((k - 1) \div ni) + 1 = c  BY <2>3, <2>5, <2>7
  <2>11. line[k] = <<<<iso[k - o], ch[c]>>, 0>>  BY <2>10
  <2>12. PICK column : column = <<iso[k - o], ch[c]>>  OBVIOUS
  <2>13. line[k] = <<column, 0>> /\ FlattenSeq(seqs)[k] = column  BY <2>8, <2>9, <2>11, <2>12
  <2> HIDE DEF line
  <2> QED BY <1>0, <2>13
<1>13. line = [k \in 1 .. n |-> line[k]]  OBVIOUS
<1>14. [k \in 1 .. Len(controls.channels) * Len(controls.isotopes) |->
          <<<<controls.isotopes[((k - 1) % Len(controls.isotopes)) + 1],
              controls.channels[((k - 1) \div Len(controls.isotopes)) + 1]>>, 0>>] = line
  BY <1>1, <1>10
<1> HIDE DEF line
<1>15. Sequence(line) /\ Len(line) = n
  <2>1. PICK l : l = line  OBVIOUS
  <2> QED BY <1>13, <2>1, SequenceOf
<1>16. Sequence(FlattenSeq(seqs))
  <2>1. PICK s : s = FlattenSeq(seqs)  OBVIOUS
  <2>2. s \in Seq(Range(s))  BY <1>8, <2>1 DEF Range
  <2> QED BY <2>1, <2>2 DEF Sequence
<1>17. Under(line, FlattenSeq(seqs), 0)  BY <1>10, <1>11, <1>12, <1>15, <1>16 DEF Under
<1> QED BY <1>4, <1>14, <1>17

\* The line of yields.
LEMMA YieldsUnder ==
  ASSUME ControlsOK, NEW f, NEW ids, ids = IdsOf(f), Header(f) = Cols(ids) \o BuildYieldsColumnNames,
         LinesOf(f) = YieldsLine(ids)
  PROVE  LinesUnder(f)
<1>0. ASSUME NEW column PROVE Good(<<column, 0>>, 0)
  BY GoodAtNone
<1>1. Full(Plain(ids), Cols(ids), 0)  BY UnderIds
<1> DEFINE cs == IF controls.decomposed
                 THEN [k \in 1 .. Len(controls.channels) * Len(controls.isotopes) |->
                         <<<<controls.isotopes[((k - 1) % Len(controls.isotopes)) + 1],
                             controls.channels[((k - 1) \div Len(controls.isotopes)) + 1]>>, 0>>]
                 ELSE Plain(controls.isotopes)
<1>2. Under(cs, BuildYieldsColumnNames, 0)
  <2>1. CASE controls.decomposed  BY <2>1, ChannelsUnder
  <2>2. CASE ~controls.decomposed
    <3>1. PICK iso : iso = controls.isotopes  OBVIOUS
    <3>2. iso \in Seq(STRING)  BY <3>1, ControlsTyped
    <3>3. Sequence(iso)  BY <3>2 DEF Sequence, Range
    <3>4. Under(Plain(iso), Cols(iso), 0)  BY <1>0, <3>3, UnderPlain
    <3>5. BuildYieldsColumnNames = Cols(iso) /\ cs = Plain(iso)
      BY <2>2, <3>1 DEF BuildYieldsColumnNames
    <3> QED BY <3>4, <3>5
  <2> QED BY <2>1, <2>2
<1>3. LinesOf(f) = <<Plain(ids) \o cs>>  BY DEF YieldsLine
<1> HIDE DEF cs
<1>4. PICK line : line = Plain(ids) \o cs  OBVIOUS
<1>5. Full(Plain(ids) \o cs, Cols(ids) \o BuildYieldsColumnNames, 0)  BY <1>1, <1>2, FullJoined
<1>6. LineOK(f, line) /\ LinesOf(f) = <<line>>  BY <1>3, <1>4, <1>5 DEF LineOK
<1> QED BY <1>6, OneLine

\* Two and one make three.
LEMMA TwoAndOne ==
  ASSUME NEW a, NEW b, NEW c
  PROVE  <<a, b>> \o <<c>> = <<a, b, c>>
<1>1. PICK x, y, z : x = <<a, b>> /\ y = <<c>> /\ z = <<a, b, c>>  OBVIOUS
<1>2. Sequence(x) /\ Sequence(y) /\ Sequence(z) /\ Len(x) = 2 /\ Len(y) = 1 /\ Len(z) = 3
  BY <1>1 DEF Sequence, Range
<1>3. x[1] = a /\ x[2] = b /\ y[1] = c /\ z[1] = a /\ z[2] = b /\ z[3] = c  BY <1>1
<1>4. /\ Sequence(x \o y) /\ Len(x \o y) = 3
      /\ \A p \in 1 .. 2 : (x \o y)[p] = x[p]
      /\ \A p \in 3 .. 3 : (x \o y)[p] = y[p - 2]
  <2>1. /\ Sequence(x \o y) /\ Len(x \o y) = Len(x) + Len(y)
        /\ \A p \in 1 .. Len(x) : (x \o y)[p] = x[p]
        /\ \A p \in Len(x) + 1 .. Len(x) + Len(y) : (x \o y)[p] = y[p - Len(x)]
    BY <1>2, SequenceJoined
  <2> QED BY <1>2, <2>1
<1>5. PICK w : w = x \o y  OBVIOUS
<1>6. /\ Sequence(w) /\ Len(w) = 3 /\ w[1] = a /\ w[2] = b /\ w[3] = c
  BY <1>3, <1>4, <1>5
<1> DEFINE T == Range(w) \cup Range(z)
<1>7. w \in Seq(T) /\ z \in Seq(T)  BY <1>2, <1>6, SeqMonotonic DEF Sequence
<1> HIDE DEF T
<1>8. \A i \in 1 .. Len(w) : w[i] = z[i]  BY <1>2, <1>3, <1>6
<1>9. w = z  BY <1>2, <1>6, <1>7, <1>8, SeqEqual
<1> QED BY <1>1, <1>5, <1>9

\* The header of a file of feedback.
LEMMA FeedbackHeaders ==
  /\ Header("cluster_feedback") = Cols(<<"trial", "time", "uid">>) \o Cols(FeedbackRow)
  /\ Header("galaxy_feedback") = Cols(<<"trial", "time">>) \o Cols(FeedbackRow)
<1>1. Cols(<<"trial", "time">>) = <<Col("trial"), Col("time")>>  BY DEF Cols
<1>2. Cols(<<"trial", "time", "uid">>) = <<Col("trial"), Col("time"), Col("uid")>>  BY DEF Cols
<1>3. /\ Header("cluster_feedback") = (<<Col("trial"), Col("time")>> \o When(TRUE, <<Col("uid")>>)) \o Cols(FeedbackRow)
      /\ Header("galaxy_feedback") = (<<Col("trial"), Col("time")>> \o When(FALSE, <<Col("uid")>>)) \o Cols(FeedbackRow)
  BY <1>1 DEF Header, FeedbackHeader
<1>4. When(TRUE, <<Col("uid")>>) = <<Col("uid")>> /\ When(FALSE, <<Col("uid")>>) = <<>>  BY DEF When
<1>5. <<Col("trial"), Col("time")>> \o <<Col("uid")>> = <<Col("trial"), Col("time"), Col("uid")>>
  BY TwoAndOne
<1>6. <<Col("trial"), Col("time")>> \o <<>> = <<Col("trial"), Col("time")>>
  <2>1. Sequence(<<Col("trial"), Col("time")>>)  BY DEF Sequence, Range
  <2> QED BY <2>1, JoinedEmpty
<1> QED BY <1>1, <1>2, <1>3, <1>4, <1>5, <1>6

\* Every line that is written, to whatever file, is under the file's header.
LEMMA AllLinesUnder ==
  ASSUME ControlsOK, NEW f, f \in FileNames
  PROVE  LinesUnder(f)
<1>1. CASE f \in {"clusters", "galaxy"}  BY <1>1, PropertiesUnder
<1>2. CASE f \in {"cluster_spectra", "galaxy_spectra"}
  <2>1. PICK ids : ids = IdsOf(f)  OBVIOUS
  <2>2. Header(f) = Cols(ids) \o SpectraColumns /\ LinesOf(f) = SpecLines(ids)
    <3>1. ASSUME f = "cluster_spectra" PROVE Header(f) = Cols(ids) \o SpectraColumns /\ LinesOf(f) = SpecLines(ids)
      BY <2>1, <3>1 DEF IdsOf, Header, LinesOf, ClusterSpectraHeader
    <3>2. ASSUME f = "galaxy_spectra" PROVE Header(f) = Cols(ids) \o SpectraColumns /\ LinesOf(f) = SpecLines(ids)
      BY <2>1, <3>2 DEF IdsOf, Header, LinesOf, GalaxySpectraHeader
    <3> QED BY <1>2, <3>1, <3>2
  <2> QED BY <2>1, <2>2, SpectraUnder
<1>3. CASE f \in {"cluster_neb_lines", "galaxy_neb_lines"}
  <2>1. PICK ids : ids = IdsOf(f)  OBVIOUS
  <2>2. Header(f) = Cols(ids) \o LineColumns /\ LinesOf(f) = NebLines(ids)
    <3>1. ASSUME f = "cluster_neb_lines" PROVE Header(f) = Cols(ids) \o LineColumns /\ LinesOf(f) = NebLines(ids)
      BY <2>1, <3>1 DEF IdsOf, Header, LinesOf, ClusterNebLinesHeader
    <3>2. ASSUME f = "galaxy_neb_lines" PROVE Header(f) = Cols(ids) \o LineColumns /\ LinesOf(f) = NebLines(ids)
      BY <2>1, <3>2 DEF IdsOf, Header, LinesOf, GalaxyNebLinesHeader
    <3> QED BY <1>3, <3>1, <3>2
  <2>3. f \notin RowTables  BY <1>3 DEF RowTables
  <2> QED BY <2>1, <2>2, <2>3, NebLinesUnder
<1>4. CASE f \in {"cluster_phot", "galaxy_phot"}
  <2>1. PICK ids : ids = IdsOf(f)  OBVIOUS
  <2>2. Header(f) = PhotHeader(ids) /\ LinesOf(f) = PhotLine(ids)
    <3>1. ASSUME f = "cluster_phot" PROVE Header(f) = PhotHeader(ids) /\ LinesOf(f) = PhotLine(ids)
      BY <2>1, <3>1 DEF IdsOf, Header, LinesOf, ClusterPhotHeader
    <3>2. ASSUME f = "galaxy_phot" PROVE Header(f) = PhotHeader(ids) /\ LinesOf(f) = PhotLine(ids)
      BY <2>1, <3>2 DEF IdsOf, Header, LinesOf, GalaxyPhotHeader
    <3> QED BY <1>4, <3>1, <3>2
  <2> QED BY <2>1, <2>2, PhotUnder
<1>5. CASE f \in {"cluster_yields", "galaxy_yields"}
  <2>1. PICK ids : ids = IdsOf(f)  OBVIOUS
  <2>2. Header(f) = Cols(ids) \o BuildYieldsColumnNames /\ LinesOf(f) = YieldsLine(ids)
    <3>1. ASSUME f = "cluster_yields"
          PROVE  Header(f) = Cols(ids) \o BuildYieldsColumnNames /\ LinesOf(f) = YieldsLine(ids)
      BY <2>1, <3>1 DEF IdsOf, Header, LinesOf, ClusterYieldsHeader
    <3>2. ASSUME f = "galaxy_yields"
          PROVE  Header(f) = Cols(ids) \o BuildYieldsColumnNames /\ LinesOf(f) = YieldsLine(ids)
      BY <2>1, <3>2 DEF IdsOf, Header, LinesOf, GalaxyYieldsHeader
    <3> QED BY <1>5, <3>1, <3>2
  <2> QED BY <2>1, <2>2, YieldsUnder
<1>6. CASE f \in {"cluster_feedback", "galaxy_feedback"}
  <2>1. PICK ids : ids = IdsOf(f)  OBVIOUS
  <2>2. Header(f) = Cols(ids) \o Cols(FeedbackRow) /\ LinesOf(f) = FeedbackLine(ids)
    <3>1. ASSUME f = "cluster_feedback"
          PROVE  Header(f) = Cols(ids) \o Cols(FeedbackRow) /\ LinesOf(f) = FeedbackLine(ids)
      BY <2>1, <3>1, FeedbackHeaders DEF IdsOf, LinesOf
    <3>2. ASSUME f = "galaxy_feedback"
          PROVE  Header(f) = Cols(ids) \o Cols(FeedbackRow) /\ LinesOf(f) = FeedbackLine(ids)
      BY <2>1, <3>2, FeedbackHeaders DEF IdsOf, LinesOf
    <3> QED BY <1>6, <3>1, <3>2
  <2> QED BY <2>1, <2>2, FeedbackUnder
<1> QED BY <1>1, <1>2, <1>3, <1>4, <1>5, <1>6 DEF FileNames

\* A cell with the key of its row.
LEMMA TaggedCell ==
  ASSUME NEW cell, NEW key, cell = <<cell[1], cell[2]>>
  PROVE  cell \o <<key>> = <<cell[1], cell[2], key>>
<1>1. PICK a, b : a = cell[1] /\ b = cell[2]  OBVIOUS
<1>2. cell = <<a, b>>  BY <1>1
<1>3. <<a, b>> \o <<key>> = <<a, b, key>>  BY TwoAndOne
<1> QED BY <1>1, <1>2, <1>3

TaggedShape(line, key) ==
  /\ Sequence(Tagged(line, key)) /\ Len(Tagged(line, key)) = Len(line) /\ Tagged(line, key) # <<>>
  /\ DOMAIN Tagged(line, key) = 1 .. Len(line) /\ DOMAIN line = 1 .. Len(line) /\ Len(line) \in Nat /\ Len(line) >= 1
  /\ \A k \in 1 .. Len(line) : Tagged(line, key)[k] = <<line[k][1], line[k][2], key>>

\* Such a line, with the key of its row.
LEMMA TaggedCells ==
  ASSUME NEW f, NEW line, LineOK(f, line), NEW key
  PROVE  TaggedShape(line, key)
<1>1. PICK wl : Full(line, Header(f), wl)  BY DEF LineOK
<1>2. Under(line, Header(f), wl) /\ Len(line) >= 1  BY <1>1 DEF Full
<1>3. Sequence(line) /\ Len(line) \in Nat /\ \A k \in 1 .. Len(line) : line[k] = <<line[k][1], line[k][2]>>
  BY <1>2 DEF Under
<1>4. PICK n \in Nat : n = Len(line)  BY <1>3
<1>5. DOMAIN line = 1 .. n  BY <1>3, <1>4 DEF Sequence
<1>6. PICK s : s = Tagged(line, key)  OBVIOUS
<1>7. s = [k \in 1 .. n |-> line[k] \o <<key>>]  BY <1>5, <1>6 DEF Tagged
<1>8. s = [k \in 1 .. n |-> s[k]] /\ \A k \in 1 .. n : s[k] = line[k] \o <<key>>  BY <1>7
<1>9. Sequence(s) /\ Len(s) = n /\ DOMAIN s = 1 .. n  BY <1>8, SequenceOf
<1>10. ASSUME NEW k \in 1 .. n PROVE s[k] = <<line[k][1], line[k][2], key>>
  <2>1. PICK cell : cell = line[k]  OBVIOUS
  <2>2. cell = <<cell[1], cell[2]>>  BY <1>3, <1>4, <2>1
  <2>3. cell \o <<key>> = <<cell[1], cell[2], key>>  BY <2>2, TaggedCell
  <2> QED BY <1>8, <2>1, <2>3
<1>11. s # <<>>  BY <1>2, <1>4, <1>9
<1> QED BY <1>2, <1>4, <1>5, <1>6, <1>9, <1>10, <1>11 DEF TaggedShape

\* It is aligned.
LEMMA TaggedAligned ==
  ASSUME NEW f, NEW line, LineOK(f, line), NEW key
  PROVE  LineAligned(f, Tagged(line, key))
<1>1. PICK wl : Full(line, Header(f), wl)  BY DEF LineOK
<1>2. Under(line, Header(f), wl)  BY <1>1 DEF Full
<1>3. PICK n \in Nat : n = Len(line)  BY <1>2 DEF Under
<1>4. PICK s, h : s = Tagged(line, key) /\ h = Header(f)  OBVIOUS
<1>5. TaggedShape(line, key)  BY TaggedCells
<1>6. DOMAIN s = 1 .. n /\ n >= 1 /\ \A k \in 1 .. n : s[k] = <<line[k][1], line[k][2], key>>
  BY <1>3, <1>4, <1>5 DEF TaggedShape
<1>7. /\ Sequence(h) /\ Len(h) = n /\ \A k \in 1 .. n : line[k][1] = h[k]
      /\ \A k \in 1 .. n : Good(line[k], wl)
  BY <1>2, <1>3, <1>4 DEF Under
<1>8. \A k \in 1 .. n : s[k][1] = line[k][1] /\ s[k][2] = line[k][2] /\ s[k][3] = key  BY <1>6
<1>9. [k \in DOMAIN s |-> s[k][1]] = h
  <2>1. h = [k \in 1 .. n |-> h[k]]  BY <1>7 DEF Sequence
  <2>2. \A k \in 1 .. n : s[k][1] = h[k]  BY <1>7, <1>8
  <2>3. [k \in 1 .. n |-> s[k][1]] = [k \in 1 .. n |-> h[k]]  BY <2>2
  <2> QED BY <1>6, <2>1, <2>3
<1>10. \A k \in DOMAIN s : s[k][3] = s[1][3]  BY <1>6, <1>8
<1> DEFINE wlOf == {s[k][2] : k \in {j \in DOMAIN s : s[j][1] = Col("wl")}}
<1>11. \A w \in wlOf : w = wl  BY <1>6, <1>7, <1>8 DEF Good
<1>12. ASSUME NEW k \in DOMAIN s
       PROVE  /\ s[k][1] \in {Col("spec"), Col("spec_neb"), Col("line_lum"), Col("line_label")} => s[k][2] = wl
              /\ s[k][1] \in {Col("spec_ex"), Col("spec_neb_ex")} =>
                   s[k][2] = IF wl \in Covered[1] .. Covered[2] THEN wl ELSE 0
  <2>1. Good(line[k], wl) /\ s[k][1] = line[k][1] /\ s[k][2] = line[k][2]  BY <1>6, <1>7, <1>8
  <2> QED BY <2>1 DEF Good
<1>13. ASSUME NEW k \in DOMAIN s, NEW w \in wlOf
       PROVE  /\ s[k][1] \in {Col("spec"), Col("spec_neb"), Col("line_lum"), Col("line_label")} => s[k][2] = w
              /\ s[k][1] \in {Col("spec_ex"), Col("spec_neb_ex")} =>
                   s[k][2] = IF w \in Covered[1] .. Covered[2] THEN w ELSE 0
  <2>1. w = wl  BY <1>11
  <2> HIDE DEF wlOf
  <2> QED BY <1>12, <2>1
<1>14. LineAligned(f, s)  BY <1>4, <1>9, <1>10, <1>13 DEF LineAligned
<1> QED BY <1>4, <1>14

StepOf(row, m) == IF m % 2 = 0 THEN Tagged(LinesOf(row.table)[(m \div 2) + 1], row.key) ELSE <<>>
CellsShape(row) ==
  /\ Sequence(Cells(row)) /\ Len(Cells(row)) \in Nat
  /\ ~IsAscii => Cells(row) = H5!Row(row.table)
  /\ IsAscii => /\ Len(LinesOf(row.table)) \in Nat /\ Len(Cells(row)) = 2 * Len(LinesOf(row.table))
                /\ \A m \in 0 .. Len(Cells(row)) - 1 : Cells(row)[m + 1] = StepOf(row, m)

\* The steps of a row: with ascii output a line and its end, in turn.
LEMMA CellsSteps ==
  ASSUME ControlsOK, NEW row, row.table \in FileNames, ~IsAscii => row.table \in RowTables
  PROVE  CellsShape(row)
<1>1. CASE ~IsAscii
  <2>1. Cells(row) = H5!Row(row.table)  BY <1>1 DEF Cells
  <2>2. RowShape(row.table)  BY <1>1, RowShapes
  <2>3. Len(H5!Row(row.table)) \in Nat /\ Sequence(H5!Row(row.table))
    BY <2>2 DEF RowShape, Sequence
  <2> QED BY <1>1, <2>1, <2>3 DEF CellsShape
<1>2. CASE IsAscii
  <2>1. PICK ls, n, key : ls = LinesOf(row.table) /\ n = Len(ls) /\ key = row.key  OBVIOUS
  <2>2. LinesUnder(row.table)  BY AllLinesUnder
  <2>3. n \in Nat /\ DOMAIN ls = 1 .. n  BY <2>1, <2>2 DEF LinesUnder
  <2> DEFINE seqs == [i \in 1 .. n |-> <<Tagged(ls[i], key), <<>>>>]
             T == {Tagged(ls[i], key) : i \in 1 .. n} \cup {<<>>}
  <2>4. Cells(row) = FlattenSeq(seqs)  BY <1>2, <2>1, <2>3 DEF Cells, Tagged
  <2>5. SeqOfSeqs(seqs, n, T)
    <3>1. \A i \in 1 .. n : seqs[i] \in Seq(T)
      <4>1. ASSUME NEW i \in 1 .. n PROVE seqs[i] \in Seq(T)
        <5>1. PICK a : a = Tagged(ls[i], key)  OBVIOUS
        <5>2. a \in T /\ <<>> \in T /\ seqs[i] = <<a, <<>>>>  BY <5>1
        <5> HIDE DEF T, seqs
        <5> QED BY <5>2
      <4> QED BY <4>1
    <3>2. seqs = [i \in 1 .. n |-> seqs[i]]  OBVIOUS
    <3> HIDE DEF seqs, T
    <3> QED BY <2>3, <3>1, <3>2 DEF SeqOfSeqs
  <2>6. \A i \in 1 .. n : Len(seqs[i]) = 2 /\ seqs[i][1] = Tagged(ls[i], key) /\ seqs[i][2] = <<>>
    OBVIOUS
  <2> HIDE DEF seqs, T
  <2>7. PICK off \in [0 .. n -> Nat] : OffsetsOf(off, seqs, n)  BY <2>5, FlattenOffsets
  <2>8. FlattenSeq(seqs) \in Seq(T)  BY <2>5, FlattenOffsets
  <2>9. \A i \in 0 .. n : off[i] = 2 * i
    <3> DEFINE S == {i \in Nat : i <= n => off[i] = 2 * i}
    <3>1. 0 \in S  BY <2>3, <2>7 DEF OffsetsOf
    <3>2. ASSUME NEW i \in Nat, i \in S
          PROVE  i + 1 \in S
      <4>1. CASE i + 1 <= n
        <5>1. i + 1 \in 1 .. n /\ (i + 1) - 1 = i  BY <2>3, <4>1
        <5>2. \A k \in 1 .. n : off[k] = off[k - 1] + Len(seqs[k])  BY <2>7 DEF OffsetsOf
        <5>3. off[i + 1] = off[i] + 2  BY <2>6, <5>1, <5>2
        <5>4. off[i] = 2 * i  BY <2>3, <3>2, <4>1
        <5> QED BY <5>3, <5>4
      <4>2. CASE ~ (i + 1 <= n)  BY <4>2
      <4> QED BY <4>1, <4>2
    <3> HIDE DEF S
    <3>3. \A i \in Nat : i \in S => i + 1 \in S  BY <3>2
    <3>4. Nat \subseteq S  BY <3>1, <3>3, SetInduction
    <3>5. \A i \in 0 .. n : i \in S /\ i <= n  BY <2>3, <3>4
    <3> QED BY <3>5 DEF S
  <2>10. PICK c : c = FlattenSeq(seqs)  OBVIOUS
  <2>11. Len(c) = 2 * n  BY <2>3, <2>7, <2>9, <2>10 DEF OffsetsOf
  <2>12. ASSUME NEW m \in 0 .. 2 * n - 1
         PROVE  c[m + 1] = StepOf(row, m)
    <3>1. PICK q, r : q = m \div 2 /\ r = m % 2  OBVIOUS
    <3>2. q \in 0 .. n - 1 /\ r \in 0 .. 1 /\ m = 2 * q + r  BY <2>3, <3>1
    <3>3. off[q] = 2 * q /\ off[q + 1] = 2 * q + 2 /\ q + 1 \in 1 .. n /\ (q + 1) - 1 = q
      BY <2>3, <2>9, <3>2
    <3>4. \A i \in 1 .. n : \A p \in off[i - 1] + 1 .. off[i] : FlattenSeq(seqs)[p] = seqs[i][p - off[i - 1]]
      BY <2>7 DEF OffsetsOf
    <3>5. \A p \in off[q] + 1 .. off[q + 1] : c[p] = seqs[q + 1][p - off[q]]  BY <2>10, <3>3, <3>4
    <3>6. m + 1 \in off[q] + 1 .. off[q + 1] /\ (m + 1) - off[q] = r + 1  BY <3>2, <3>3
    <3>7. c[m + 1] = seqs[q + 1][r + 1]  BY <3>5, <3>6
    <3>8. CASE r = 0
      <4>1. c[m + 1] = Tagged(ls[q + 1], key)  BY <2>6, <3>3, <3>7, <3>8
      <4> QED BY <2>1, <3>1, <3>8, <4>1 DEF StepOf
    <3>9. CASE r = 1
      <4>1. c[m + 1] = <<>>  BY <2>6, <3>3, <3>7, <3>9
      <4> QED BY <3>1, <3>9, <4>1 DEF StepOf
    <3> QED BY <3>2, <3>8, <3>9
  <2>13. Sequence(c)
    <3>1. c \in Seq(Range(c))  BY <2>8, <2>10 DEF Range
    <3> QED BY <3>1 DEF Sequence
  <2>14. Cells(row) = c /\ Len(c) \in Nat  BY <2>3, <2>4, <2>10, <2>11
  <2> QED BY <1>2, <2>1, <2>3, <2>11, <2>12, <2>13, <2>14 DEF CellsShape
<1> QED BY <1>1, <1>2


-----------------------------------------------------------------------------
(* What a step leaves alone.                                               *)

\* What a thread that does nothing makes of its row.
LEMMA ThreadSame ==
  ASSUME NEW u, UNCHANGED controls, todo'[u] = todo[u], pc'[u] = pc[u], cells'[u] = cells[u]
  PROVE  /\ Put0(u)' = Put0(u) /\ Owner(u)' = Owner(u)
         /\ \A f : WritingTo(u, f)' = WritingTo(u, f)
         /\ \A done, g, k : KeysIn(done, u, g, k)' = KeysIn(done, u, g, k)
         /\ StepsLeft(u)' = StepsLeft(u)
<1>1. ASSUME NEW row PROVE Cells(row)' = Cells(row)
  BY CellsSame
<1>2. PICK row : row = Head(todo[u])  OBVIOUS
<1>3. Head(todo'[u]) = row  BY <1>2
<1>4. Cells(Head(todo[u]))' = Cells(Head(todo[u]))  BY <1>1, <1>2, <1>3 DEF Cells
<1>5. Put0(u)' = Put0(u)  BY <1>4 DEF Put0
<1>6. Owner(u)' = Owner(u)  BY DEF Owner, IsAscii, NoThread
<1>7. ASSUME NEW f PROVE WritingTo(u, f)' = WritingTo(u, f)
  BY DEF WritingTo
<1>8. ASSUME NEW done, NEW g, NEW k PROVE KeysIn(done, u, g, k)' = KeysIn(done, u, g, k)
  BY <1>3, <1>2, <1>5, <1>7 DEF KeysIn
<1>9. StepsLeft(u)' = StepsLeft(u)  BY <1>4, <1>5 DEF StepsLeft
<1> QED BY <1>5, <1>6, <1>7, <1>8, <1>9

\* A step in which no thread is given or taken a row that it is writing.
Quiet ==
  \A u \in Threads :
    \/ todo'[u] = todo[u] /\ pc'[u] = pc[u] /\ cells'[u] = cells[u]
    \/ pc[u] # "writing" /\ pc'[u] # "writing"
Untouched(done, u) ==
  /\ (pc'[u] = "writing") <=> (pc[u] = "writing")
  /\ \A f : WritingTo(u, f)' <=> WritingTo(u, f)
  /\ \A g, k : KeysIn(done, u, g, k)' = KeysIn(done, u, g, k)
  /\ pc[u] = "writing" => todo'[u] = todo[u] /\ cells'[u] = cells[u] /\ Put0(u)' = Put0(u)
                           /\ StepsLeft(u)' = StepsLeft(u)

\* What a thread writes is as it was.
LEMMA QuietThreads ==
  ASSUME NEW done, UNCHANGED controls, Quiet, NEW u \in Threads
  PROVE  Untouched(done, u)
<1>1. CASE todo'[u] = todo[u] /\ pc'[u] = pc[u] /\ cells'[u] = cells[u]
  <2>1. /\ Put0(u)' = Put0(u)
        /\ \A f : WritingTo(u, f)' = WritingTo(u, f)
        /\ \A d, g, k : KeysIn(d, u, g, k)' = KeysIn(d, u, g, k)
        /\ StepsLeft(u)' = StepsLeft(u)
    BY <1>1, ThreadSame
  <2> QED BY <1>1, <2>1 DEF Untouched
<1>2. CASE pc[u] # "writing" /\ pc'[u] # "writing"
  <2>1. \A f : ~WritingTo(u, f)' /\ ~WritingTo(u, f)  BY <1>2 DEF WritingTo
  <2>2. ASSUME NEW g, NEW k PROVE KeysIn(done, u, g, k)' = KeysIn(done, u, g, k)
    BY <2>1 DEF KeysIn
  <2> QED BY <1>2, <2>1, <2>2 DEF Untouched
<1> QED BY <1>1, <1>2 DEF Quiet

\* The steps left are as they were.
LEMMA CellsLeftQuiet ==
  ASSUME UNCHANGED controls, Quiet, CellsLeft
  PROVE  CellsLeft'
<1>1. ASSUME NEW u \in Threads, pc'[u] = "writing"
      PROVE  StepsLeft(u)'
  <2>1. Untouched(<<>>, u)  BY QuietThreads
  <2>2. pc[u] = "writing" /\ StepsLeft(u)' = StepsLeft(u)  BY <1>1, <2>1 DEF Untouched
  <2> QED BY <2>2 DEF CellsLeft
<1> QED BY <1>1 DEF CellsLeft

\* A thread is where it was in its trial, whatever else is begun.
LEMMA InPlaceSame ==
  ASSUME NEW done, InPlace(done), UNCHANGED <<controls, open, todo>>, next \in Nat, next' \in Nat, next <= next'
  PROVE  InPlace(done)'
<1>1. \A trial : Rows(trial)' = Rows(trial)  BY RowsSame
<1>2. \A t : Owner(t)' = Owner(t)  BY DEF Owner, IsAscii, NoThread
<1>3. \A i \in 0 .. next - 1 : i \in 0 .. next' - 1
  <2>1. PICK a, b : a = next /\ b = next'  OBVIOUS
  <2>2. a \in Nat /\ b \in Nat /\ a <= b  BY <2>1
  <2>3. \A i \in 0 .. a - 1 : i \in 0 .. b - 1  BY <2>2
  <2> QED BY <2>1, <2>3
<1>4. ASSUME NEW t \in Threads, todo'[t] # <<>>
      PROVE  \E trial \in 0 .. next' - 1, k \in Nat :
               /\ k < Len(Rows(trial)) /\ todo[t] = From(Rows(trial), k)
               /\ \A j \in 1 .. k : Rows(trial)[j].key \in Range(done[Owner(t)][Rows(trial)[j].table])
  BY <1>3, <1>4 DEF InPlace
<1> QED BY <1>1, <1>2, <1>4 DEF InPlace

\* The books are kept, if nothing is begun or done.
LEMMA BooksSame ==
  ASSUME NEW done, Books(done), UNCHANGED <<controls, open, todo, next>>
  PROVE  Books(done)'
<1>1. \A trial : Rows(trial)' = Rows(trial)  BY RowsSame
<1> QED BY <1>1 DEF Books, IsAscii, Owners, NoThread

\* The groups are as the rows that have been put into them.
LEMMA GroupsQuiet ==
  ASSUME NEW done, Groups(done), UNCHANGED <<controls, open, file>>, Quiet
  PROVE  Groups(done)'
<1>1. \A g : H5!Row(g)' = H5!Row(g) /\ H5!Datasets(g)' = H5!Datasets(g)  BY RowH5Same
<1>2. \A g : DatasetNames(g)' = DatasetNames(g)  BY <1>1 DEF DatasetNames
<1>3. \A t \in Threads : \A g, k : KeysIn(done, t, g, k)' = KeysIn(done, t, g, k)
  BY QuietThreads DEF Untouched
<1> QED BY <1>1, <1>2, <1>3 DEF Groups, IsAscii

\* What is safe stays so.
LEMMA SafeSame ==
  ASSUME NEW done, Safe(done), UNCHANGED <<controls, flushed>>
  PROVE  Safe(done)'
BY DEF Safe, IsAscii

\* No row is begun.
LEMMA LargestQuiet ==
  ASSUME NEW done, LargestSeen(done), UNCHANGED <<controls, maxTrial>>, Quiet
  PROVE  LargestSeen(done)'
<1>1. \A t \in Threads : /\ (pc'[t] = "writing") <=> (pc[t] = "writing")
                         /\ pc[t] = "writing" => todo'[t] = todo[t]
  BY QuietThreads DEF Untouched
<1>2. TrialsSeen(done)' = TrialsSeen(done)  BY <1>1 DEF TrialsSeen, Owners, NoThread
<1> QED BY <1>2 DEF LargestSeen, IsAscii

\* The text of a file depends on its lines.
LEMMA TextSame ==
  ASSUME UNCHANGED controls, NEW f, lines'[f] = lines[f], NEW keys, NEW whole, NEW put
  PROVE  Text(f, keys, whole, put)' = Text(f, keys, whole, put)
<1>1. LinesOf(f)' = LinesOf(f)  BY LinesSame
<1>2. \A p : TextAt(f, keys, p)' = TextAt(f, keys, p)  BY <1>1 DEF TextAt, Tagged
<1> QED BY <1>1, <1>2 DEF Text, TextIs, Content

\* The text files are as the rows that have been put into them.
LEMMA TextsQuiet ==
  ASSUME NEW done, Texts(done), UNCHANGED <<controls, open, lines>>, Quiet
  PROVE  Texts(done)'
<1>1. \A f, keys, whole, put : Text(f, keys, whole, put)' = Text(f, keys, whole, put)  BY TextSame
<1>2. \A t \in Threads : \A f : WritingTo(t, f)' <=> WritingTo(t, f)  BY QuietThreads DEF Untouched
<1>3. \A t \in Threads : \A f : WritingTo(t, f) => todo'[t] = todo[t] /\ Put0(t)' = Put0(t)
  BY QuietThreads DEF Untouched, WritingTo
<1> QED BY <1>1, <1>2, <1>3 DEF Texts, IsAscii, NoThread

\* The consolidated file is as it was, if it was not just made.
LEMMA MergedSame ==
  ASSUME NEW done, Merged(done), UNCHANGED <<controls, open, merged>>, (phase' = "closed") <=> (phase = "closed")
  PROVE  Merged(done)'
<1>1. \A g : H5!Row(g)' = H5!Row(g) /\ H5!Datasets(g)' = H5!Datasets(g)  BY RowH5Same
<1>2. \A g : DatasetNames(g)' = DatasetNames(g)  BY <1>1 DEF DatasetNames
<1> QED BY <1>1, <1>2 DEF Merged, IsAscii, Key

Holds(done) == Types /\ Opening /\ Exclusion /\ CellsLeft /\ WritingInv(done)

\* The run starts once everything is open.
LEMMA StartStep ==
  ASSUME NEW done, Holds(done), Start
  PROVE  Holds(done)'
<1> USE DEF Holds
<1>1. Quiet /\ UNCHANGED <<controls, open, todo, next, file, flushed, maxTrial, lines, merged, pc, cells, lock, toOpen>>
  BY DEF Start, Quiet, writing
<1>2. phase = "opening" /\ phase' = "running" /\ toOpen = <<>>  BY DEF Start
<1>3. Types'  BY <1>1, <1>2 DEF Types, IsAscii, Owners, NoThread
<1>4. Opening'  BY <1>1, <1>2 DEF Opening, IsAscii, FilesOf, Nebular, IsGalaxy
<1>5. Exclusion'  BY <1>1 DEF Exclusion, Section, IsAscii
<1>6. CellsLeft'  BY <1>1, CellsLeftQuiet
<1>7. next \in Nat /\ next' \in Nat /\ next <= next'  BY <1>1 DEF Types
<1>8. InPlace(done)' /\ Books(done)'  BY <1>1, <1>7, InPlaceSame, BooksSame DEF WritingInv
<1>9. Groups(done)' /\ Safe(done)' /\ LargestSeen(done)' /\ Texts(done)'
  BY <1>1, GroupsQuiet, SafeSame, LargestQuiet, TextsQuiet DEF WritingInv
<1>10. Merged(done)'  BY <1>1, <1>2, MergedSame DEF WritingInv
<1> QED BY <1>3, <1>4, <1>5, <1>6, <1>8, <1>9, <1>10 DEF WritingInv

\* A program that has stopped does nothing.
LEMMA StoppedStep ==
  ASSUME NEW done, Holds(done), UNCHANGED vars
  PROVE  Holds(done)'
<1> USE DEF Holds
<1>1. Quiet /\ UNCHANGED <<controls, open, todo, next, file, flushed, maxTrial, lines, merged, pc, cells, lock, toOpen, phase>>
  BY DEF vars, Quiet
<1>3. Types'  BY <1>1 DEF Types, IsAscii, Owners, NoThread
<1>4. Opening'  BY <1>1 DEF Opening, IsAscii, FilesOf, Nebular, IsGalaxy
<1>5. Exclusion'  BY <1>1 DEF Exclusion, Section, IsAscii
<1>6. CellsLeft'  BY <1>1, CellsLeftQuiet
<1>7. next \in Nat /\ next' \in Nat /\ next <= next'  BY <1>1 DEF Types
<1>8. InPlace(done)' /\ Books(done)'  BY <1>1, <1>7, InPlaceSame, BooksSame DEF WritingInv
<1>9. Groups(done)' /\ Safe(done)' /\ LargestSeen(done)' /\ Texts(done)'
  BY <1>1, GroupsQuiet, SafeSame, LargestQuiet, TextsQuiet DEF WritingInv
<1>10. Merged(done)'  BY <1>1, MergedSame DEF WritingInv
<1> QED BY <1>3, <1>4, <1>5, <1>6, <1>8, <1>9, <1>10 DEF WritingInv

\* A value is computed outside the sections.
LEMMA ComputeStep ==
  ASSUME NEW done, Holds(done), NEW t \in Threads, Compute(t)
  PROVE  Holds(done)'
<1> USE DEF Holds
<1>1. UNCHANGED <<controls, open, todo, next, file, flushed, maxTrial, lines, merged, cells, lock, toOpen, phase>>
  BY DEF Compute
<1>2. pc \in [Threads -> {"free", "computing", "writing"}]  BY DEF Types
<1>3. pc[t] = "free" /\ todo[t] # <<>> /\ pc'[t] = "computing" /\ \A u \in Threads : u # t => pc'[u] = pc[u]
  BY <1>2 DEF Compute
<1>4. Quiet  BY <1>1, <1>3 DEF Quiet
<1>5. pc' \in [Threads -> {"free", "computing", "writing"}]  BY <1>2 DEF Compute
<1>6. Types'  BY <1>1, <1>5 DEF Types, IsAscii, Owners, NoThread
<1>7. phase = "running"  BY <1>3 DEF Opening
<1>8. Opening'  BY <1>1, <1>7 DEF Opening, IsAscii, FilesOf, Nebular, IsGalaxy
<1>9. Exclusion'
  <2>1. ASSUME NEW u \in Threads
        PROVE  /\ pc'[u] # "free" => todo'[u] # <<>>
               /\ pc'[u] = "writing" => lock'[Section(Head(todo[u]).table)] = u
    BY <1>1, <1>3 DEF Exclusion
  <2> QED BY <1>1, <2>1 DEF Exclusion, Section, IsAscii
<1>10. CellsLeft'  BY <1>1, <1>4, CellsLeftQuiet
<1>11. next \in Nat /\ next' \in Nat /\ next <= next'  BY <1>1 DEF Types
<1>12. InPlace(done)' /\ Books(done)'  BY <1>1, <1>11, InPlaceSame, BooksSame DEF WritingInv
<1>13. Groups(done)' /\ Safe(done)' /\ LargestSeen(done)' /\ Texts(done)'
  BY <1>1, <1>4, GroupsQuiet, SafeSame, LargestQuiet, TextsQuiet DEF WritingInv
<1>14. Merged(done)'  BY <1>1, MergedSame DEF WritingInv
<1> QED BY <1>6, <1>8, <1>9, <1>10, <1>12, <1>13, <1>14 DEF WritingInv

\* Trials are numbered.
LEMMA TrialsNatural ==
  Trials \subseteq Nat
<1>1. Cardinality(Trials) \in Nat  BY OutputAssumption, FS_CardinalityType DEF Trials
<1> QED BY <1>1, OutputAssumption DEF Trials

RowOfTrial(trial, row) ==
  /\ row \in KeyedRow /\ row.key[1] = trial /\ row.key \in Key /\ row.table \in FileNames /\ row.table \in open
  /\ ~IsAscii => row.table \in RowTables

\* The rows of a trial are of tables that are open.
LEMMA RowsOpen ==
  ASSUME Types, Opening, phase \in {"running", "closed"}, NEW trial \in Trials, NEW row \in Range(Rows(trial))
  PROVE  RowOfTrial(trial, row)
<1>1. InRows(trial, row) /\ row \in KeyedRow
  <2>1. Rows(trial) \in Seq(KeyedRow) /\ InRows(trial, row)  BY RowsElements
  <2> QED BY <2>1 DEF Range
<1>2. row.key \in Key /\ row.table \in FileNames  BY <1>1 DEF KeyedRow
<1>3. CASE IsAscii
  <2>1. PICK r \in KeyedRow : InTrialRows(open, trial, r) /\ LinesOfRow(r, row)
    BY <1>1, <1>3 DEF InRows
  <2>2. r.key[1] = trial /\ r.table \in open  BY <2>1, TrialRowsTable DEF OfTrial
  <2>3. row.key = r.key /\ row.table \in Range(FilesOf(r.table))  BY <2>1 DEF LinesOfRow
  <2>4. toOpen = <<>> /\ Range(toOpen) = {}  BY DEF Opening, Range
  <2>5. Range(FilesOf(r.table)) \subseteq open  BY <1>3, <2>2, <2>4 DEF Opening
  <2> QED BY <1>1, <1>2, <1>3, <2>2, <2>3, <2>5 DEF RowOfTrial
<1>4. CASE ~IsAscii
  <2>1. InTrialRows(open, trial, row)  BY <1>1, <1>4 DEF InRows
  <2>2. row.key[1] = trial /\ row.table \in open /\ row.table \in RowTables
    BY <2>1, TrialRowsTable DEF OfTrial
  <2> QED BY <1>1, <1>2, <2>2 DEF RowOfTrial
<1> QED BY <1>3, <1>4

\* What a thread has to write is of one trial that has been begun.
LEMMA TodoOfTrial ==
  ASSUME NEW done, Types, InPlace(done), NEW t \in Threads, todo[t] # <<>>
  PROVE  \E trial \in 0 .. next - 1 : trial \in Trials /\ \A row \in Range(todo[t]) : row \in Range(Rows(trial))
<1>1. PICK trial \in 0 .. next - 1, k \in Nat : k < Len(Rows(trial)) /\ todo[t] = From(Rows(trial), k)
  BY DEF InPlace
<1>2. trial \in Trials  BY DEF Types
<1>3. Rows(trial) \in Seq(KeyedRow)  BY <1>2, RowsElements
<1>4. PICK s : s = Rows(trial)  OBVIOUS
<1>5. s \in Seq(KeyedRow) /\ k <= Len(s) /\ todo[t] = From(s, k)  BY <1>1, <1>3, <1>4
<1>6. Range(From(s, k)) = {s[i] : i \in k + 1 .. Len(s)}  BY <1>5, FromSteps
<1>7. \A i \in k + 1 .. Len(s) : s[i] \in Range(s)
  <2>1. Len(s) \in Nat /\ DOMAIN s = 1 .. Len(s)  BY <1>5
  <2> QED BY <2>1 DEF Range
<1> QED BY <1>2, <1>4, <1>5, <1>6, <1>7

\* A thread begins the next trial.
LEMMA BeginTrialStep ==
  ASSUME NEW done, Holds(done), NEW t \in Threads, BeginTrial(t)
  PROVE  Holds(done)'
<1> USE DEF Holds
<1>1. UNCHANGED <<controls, open, pc, file, flushed, maxTrial, lines, merged, cells, lock, toOpen, phase>>
  BY DEF BeginTrial
<1>2. next \in Trials /\ next' = next + 1 /\ next \in Nat /\ next' \in Nat /\ 0 .. next - 1 \subseteq Trials
  BY DEF BeginTrial, Types
<1>3. /\ Rows(next) \in Seq(KeyedRow) /\ IsInjective(Rows(next))
  BY <1>2, RowsElements
<1>4. todo \in [Threads -> Seq(KeyedRow)] /\ todo' \in [Threads -> Seq(KeyedRow)]
  BY <1>3 DEF Types, BeginTrial
<1>5. pc[t] = "free" /\ todo[t] = <<>> /\ phase = "running" /\ todo'[t] = Rows(next)
      /\ \A u \in Threads : u # t => todo'[u] = todo[u]
  BY <1>4 DEF BeginTrial
<1>6. Quiet  BY <1>1, <1>5 DEF Quiet
<1>7. 0 .. next' - 1 \subseteq Trials
  <2>1. \A i \in 0 .. next' - 1 : i \in 0 .. next - 1 \/ i = next  BY <1>2
  <2> QED BY <1>2, <2>1
<1>8. Types'  BY <1>1, <1>2, <1>4, <1>7 DEF Types, IsAscii, Owners, NoThread
<1>9. Opening'  BY <1>1, <1>5 DEF Opening, IsAscii, FilesOf, Nebular, IsGalaxy
<1>10. Exclusion'
  <2>1. ASSUME NEW u \in Threads
        PROVE  /\ pc'[u] # "free" => todo'[u] # <<>>
               /\ pc'[u] = "writing" => lock'[Section(Head(todo'[u]).table)] = u
    <3>1. CASE u = t  BY <1>1, <1>5, <3>1
    <3>2. CASE u # t  BY <1>1, <1>5, <3>2 DEF Exclusion
    <3> QED BY <3>1, <3>2
  <2> QED BY <1>1, <2>1 DEF Exclusion, Section, IsAscii
<1>11. CellsLeft'  BY <1>1, <1>6, CellsLeftQuiet
<1>12. \A trial : Rows(trial)' = Rows(trial)  BY <1>1, RowsSame
<1>13. \A u : Owner(u)' = Owner(u)  BY <1>1 DEF Owner, IsAscii, NoThread
<1>14. ASSUME NEW u \in Threads, todo'[u] # <<>>
       PROVE  \E trial \in 0 .. next' - 1, k \in Nat :
                /\ k < Len(Rows(trial)) /\ todo'[u] = From(Rows(trial), k)
                /\ \A j \in 1 .. k : Rows(trial)[j].key \in Range(done[Owner(u)][Rows(trial)[j].table])
  <2>1. CASE u = t
    <3>1. PICK s : s = Rows(next)  OBVIOUS
    <3>2. s \in Seq(KeyedRow) /\ s # <<>> /\ todo'[u] = s  BY <1>3, <1>5, <1>14, <2>1, <3>1
    <3>3. From(s, 0) = s /\ 0 < Len(s)
      <4>1. Len(s) \in Nat /\ Len(s) # 0  BY <3>2
      <4>2. From(s, 0) = s  BY <3>2, <4>1, FromSteps
      <4> QED BY <4>1, <4>2
    <3>4. next \in 0 .. next' - 1  BY <1>2
    <3>5. \A j \in 1 .. 0 : Rows(next)[j].key \in Range(done[Owner(u)][Rows(next)[j].table])
      OBVIOUS
    <3> QED BY <3>1, <3>2, <3>3, <3>4, <3>5
  <2>2. CASE u # t
    <3>1. todo[u] # <<>> /\ todo'[u] = todo[u]  BY <1>5, <1>14, <2>2
    <3>2. PICK trial \in 0 .. next - 1, k \in Nat :
            /\ k < Len(Rows(trial)) /\ todo[u] = From(Rows(trial), k)
            /\ \A j \in 1 .. k : Rows(trial)[j].key \in Range(done[Owner(u)][Rows(trial)[j].table])
      BY <3>1 DEF WritingInv, InPlace
    <3>3. trial \in 0 .. next' - 1  BY <1>2
    <3> QED BY <3>1, <3>2, <3>3
  <2> QED BY <2>1, <2>2
<1>15. InPlace(done)'  BY <1>12, <1>13, <1>14 DEF InPlace
<1>16. \A row \in Range(Rows(next)) : row.key[1] = next /\ row.table \in FileNames
  BY <1>2, <1>5, RowsOpen DEF RowOfTrial
<1>17. ASSUME NEW u \in Threads, NEW row \in Range(todo[u]) PROVE row.key[1] < next
  <2>1. todo[u] # <<>>  BY DEF Range
  <2>2. PICK trial \in 0 .. next - 1 : trial \in Trials /\ row \in Range(Rows(trial))
    BY <2>1, TodoOfTrial DEF WritingInv
  <2>3. row.key[1] = trial  BY <1>5, <2>2, RowsOpen DEF RowOfTrial
  <2> QED BY <1>2, <2>3
<1>18. Books(done)  BY DEF WritingInv
<1>19. \A u \in Threads, o \in Owners : \A row \in Range(todo'[u]) : row.key \notin Range(done[o][row.table])
  <2> SUFFICES ASSUME NEW u \in Threads, NEW o \in Owners, NEW row \in Range(todo'[u])
               PROVE  row.key \notin Range(done[o][row.table])
    OBVIOUS
  <2>1. CASE u = t
    <3>1. row.key[1] = next /\ row.table \in FileNames  BY <1>5, <1>16, <2>1
    <3>2. \A key \in Range(done[o][row.table]) : key[1] < next  BY <1>18, <3>1 DEF Books
    <3> QED BY <1>2, <3>1, <3>2
  <2>2. CASE u # t  BY <1>5, <1>18, <2>2 DEF Books
  <2> QED BY <2>1, <2>2
<1>20. \A u, v \in Threads : u # v => Range(todo'[u]) \cap Range(todo'[v]) = {}
  <2> SUFFICES ASSUME NEW u \in Threads, NEW v \in Threads, u # v, NEW row, row \in Range(todo'[u]), row \in Range(todo'[v])
               PROVE  FALSE
    OBVIOUS
  <2>1. CASE u = t
    <3>1. row.key[1] = next /\ row.key[1] < next  BY <1>5, <1>16, <1>17, <2>1
    <3> QED BY <1>2, <3>1
  <2>2. CASE v = t
    <3>1. row.key[1] = next /\ row.key[1] < next  BY <1>5, <1>16, <1>17, <2>2
    <3> QED BY <1>2, <3>1
  <2>3. CASE u # t /\ v # t  BY <1>5, <1>18, <2>3 DEF Books
  <2> QED BY <2>1, <2>2, <2>3
<1>21. \A o \in Owners, f \in FileNames : \A key \in Range(done[o][f]) :
         key[1] < next' /\ [table |-> f, key |-> key] \in Range(Rows(key[1]))
  <2> SUFFICES ASSUME NEW o \in Owners, NEW f \in FileNames, NEW key \in Range(done[o][f])
               PROVE  key[1] < next' /\ [table |-> f, key |-> key] \in Range(Rows(key[1]))
    OBVIOUS
  <2>1. done \in [Owners -> [FileNames -> Seq(Key)]] /\ key[1] < next /\ [table |-> f, key |-> key] \in Range(Rows(key[1]))
    BY <1>18 DEF Books
  <2>2. key \in Key
    <3>1. done[o][f] \in Seq(Key)  BY <2>1
    <3> QED BY <3>1 DEF Range
  <2>3. key[1] \in Nat
    <3>1. key[1] \in Trials  BY <2>2 DEF Key
    <3> QED BY <3>1, TrialsNatural
  <2> QED BY <1>2, <2>1, <2>3
<1>22. \A trial \in 0 .. next' - 1 : \A row \in Range(Rows(trial)) :
         \/ \E u \in Threads : row \in Range(todo'[u])
         \/ \E o \in Owners : row.key \in Range(done[o][row.table])
  <2> SUFFICES ASSUME NEW trial \in 0 .. next' - 1, NEW row \in Range(Rows(trial))
               PROVE  \/ \E u \in Threads : row \in Range(todo'[u])
                      \/ \E o \in Owners : row.key \in Range(done[o][row.table])
    OBVIOUS
  <2>1. CASE trial = next  BY <1>5, <2>1
  <2>2. CASE trial # next
    <3>1. trial \in 0 .. next - 1  BY <1>2, <2>2
    <3>2. \/ \E u \in Threads : row \in Range(todo[u])
          \/ \E o \in Owners : row.key \in Range(done[o][row.table])
      BY <1>18, <3>1 DEF Books
    <3>3. Range(todo[t]) = {}  BY <1>5 DEF Range
    <3> QED BY <1>5, <3>2, <3>3
  <2> QED BY <2>1, <2>2
<1>23. Books(done)'
  BY <1>1, <1>12, <1>18, <1>19, <1>20, <1>21, <1>22 DEF Books, IsAscii, Owners, NoThread
<1>24. Groups(done)' /\ Safe(done)' /\ LargestSeen(done)' /\ Texts(done)'
  BY <1>1, <1>6, GroupsQuiet, SafeSame, LargestQuiet, TextsQuiet DEF WritingInv
<1>25. Merged(done)'  BY <1>1, MergedSame DEF WritingInv
<1> QED BY <1>8, <1>9, <1>10, <1>11, <1>15, <1>23, <1>24, <1>25 DEF WritingInv

\* The line and the row a place in a text is of.
LEMMA PlaceInText ==
  ASSUME NEW n \in Nat, NEW whole \in Nat, NEW p \in 1 .. n * whole
  PROVE  /\ n # 0 /\ ((p - 1) \div n) + 1 \in 1 .. whole /\ ((p - 1) % n) + 1 \in 1 .. n
<1>1. n # 0  OBVIOUS
<1>2. PICK x \in Nat : x = p - 1
  <2>1. n * whole \in Nat  OBVIOUS
  <2>2. p - 1 \in Nat  BY <2>1
  <2> QED BY <2>2
<1>3. PICK q, r : q = x \div n /\ r = x % n  OBVIOUS
<1>4. q \in Nat /\ r \in 0 .. n - 1 /\ x = n * q + r  BY <1>1, <1>2, <1>3
<1>5. x < n * whole
  <2>1. n * whole \in Nat  OBVIOUS
  <2> QED BY <1>2, <2>1
<1>6. q < whole
  <2>1. CASE q >= whole
    <3>1. PICK d \in Nat : q = whole + d
      <4>1. q - whole \in Nat /\ q = whole + (q - whole)  BY <1>4, <2>1
      <4> QED BY <4>1
    <3>2. n * q = n * whole + n * d /\ n * d >= 0  BY <3>1
    <3> QED BY <1>4, <1>5, <3>2
  <2> QED BY <1>4, <2>1
<1>7. q + 1 \in 1 .. whole /\ r + 1 \in 1 .. n  BY <1>4, <1>6
<1> QED BY <1>1, <1>2, <1>3, <1>7

SameLines(f, keys, more, c) == \A p \in 1 .. c : TextAt(f, more, p) = TextAt(f, keys, p)

\* A text has the rows of any keys that give the same lines.
LEMMA ContentOther ==
  ASSUME NEW text, NEW f, NEW keys, NEW more, NEW c, Content(text, f, keys, c, 0),
         SameLines(f, keys, more, c)
  PROVE  Content(text, f, more, c, 0)
<1>1. /\ Len(text) = c + 1 /\ text = [p \in 1 .. c + 1 |-> text[p]] /\ text[c + 1] = <<>>
      /\ \A p \in 1 .. c : text[p] = TextAt(f, keys, p)
  BY DEF Content
<1>2. \A p \in 1 .. c : text[p] = TextAt(f, more, p)  BY <1>1 DEF SameLines
<1> QED BY <1>1, <1>2 DEF Content

\* A text stays as it is when the row that is to be added is known.
LEMMA TextExtended ==
  ASSUME ControlsOK, NEW f, f \in FileNames, NEW text, NEW K, NEW keys \in Seq(K), NEW key \in K,
         TextIs(text, f, keys, Len(keys), 0)
  PROVE  TextIs(text, f, Append(keys, key), Len(keys), 0)
<1>1. PICK n, w, more : n = Len(LinesOf(f)) /\ w = Len(keys) /\ more = Append(keys, key)  OBVIOUS
<1>2. n \in Nat
  <2>1. LinesUnder(f)  BY AllLinesUnder
  <2> QED BY <1>1, <2>1 DEF LinesUnder
<1>3. w \in Nat /\ \A i \in 1 .. w : more[i] = keys[i]  BY <1>1
<1>4. n * w \in Nat /\ 0 \div 2 = 0 /\ 0 % 2 = 0 /\ n * w + 0 = n * w  BY <1>2, <1>3
<1>5. PICK c \in Nat : c = n * w  BY <1>4
<1>6. Content(text, f, keys, c, 0)  BY <1>1, <1>4, <1>5 DEF TextIs
<1>7. ASSUME NEW p \in 1 .. c PROVE TextAt(f, more, p) = TextAt(f, keys, p)
  <2>1. ((p - 1) \div n) + 1 \in 1 .. w  BY <1>2, <1>3, <1>5, PlaceInText
  <2>2. PICK i : i = ((p - 1) \div n) + 1  OBVIOUS
  <2>3. more[i] = keys[i]  BY <1>3, <2>1, <2>2
  <2>4. /\ TextAt(f, more, p) = Tagged(LinesOf(f)[((p - 1) % n) + 1], more[i])
        /\ TextAt(f, keys, p) = Tagged(LinesOf(f)[((p - 1) % n) + 1], keys[i])
    BY <1>1, <2>2 DEF TextAt
  <2> QED BY <2>3, <2>4
<1>8. Content(text, f, more, c, 0)  BY <1>6, <1>7, ContentOther DEF SameLines
<1>9. TextIs(text, f, more, w, 0)  BY <1>1, <1>4, <1>5, <1>8 DEF TextIs
<1> QED BY <1>1, <1>9

\* A text with all the steps of a row has the row.
LEMMA TextFinished ==
  ASSUME ControlsOK, NEW f, f \in FileNames, NEW text, NEW keys, NEW whole \in Nat, Len(keys) = whole + 1,
         TextIs(text, f, keys, whole, 2 * Len(LinesOf(f)))
  PROVE  TextIs(text, f, keys, Len(keys), 0)
<1>1. PICK n : n = Len(LinesOf(f))  OBVIOUS
<1>2. n \in Nat
  <2>1. LinesUnder(f)  BY AllLinesUnder
  <2> QED BY <1>1, <2>1 DEF LinesUnder
<1>3. (2 * n) \div 2 = n /\ (2 * n) % 2 = 0 /\ 0 \div 2 = 0 /\ 0 % 2 = 0  BY <1>2
<1>4. PICK c \in Nat : c = n * whole + n  BY <1>2
<1>5. n * (whole + 1) + 0 = c  BY <1>2, <1>4
<1>6. Content(text, f, keys, c, 0)  BY <1>1, <1>3, <1>4 DEF TextIs
<1>7. Len(LinesOf(f)) * Len(keys) + (0 \div 2) = c  BY <1>1, <1>3, <1>5
<1> QED BY <1>3, <1>6, <1>7 DEF TextIs

\* One step more of the last row.
LEMMA TextGrows ==
  ASSUME ControlsOK, NEW f, f \in FileNames, NEW text, NEW keys, NEW whole \in Nat, NEW row,
         row.table = f, keys[whole + 1] = row.key,
         NEW put \in Nat, put < 2 * Len(LinesOf(f)), TextIs(text, f, keys, whole, put)
  PROVE  TextIs(Streamed(text, StepOf(row, put)), f, keys, whole, put + 1)
<1>1. PICK ls, n : ls = LinesOf(f) /\ n = Len(ls)  OBVIOUS
<1>2. n \in Nat /\ \A i \in 1 .. n : LineOK(f, ls[i])
  <2>1. LinesUnder(f)  BY AllLinesUnder
  <2> QED BY <1>1, <2>1 DEF LinesUnder
<1>3. PICK q, r : q = put \div 2 /\ r = put % 2  OBVIOUS
<1>4. q \in 0 .. n - 1 /\ r \in 0 .. 1 /\ put = 2 * q + r  BY <1>1, <1>2, <1>3
<1>5. PICK c \in Nat : c = n * whole + q  BY <1>2, <1>4
<1>0. Content(text, f, keys, c, r)  BY <1>1, <1>3, <1>5 DEF TextIs
<1>6. /\ Len(text) = c + 1 /\ text = [p \in 1 .. c + 1 |-> text[p]]
      /\ \A p \in 1 .. c : text[p] = TextAt(f, keys, p)
      /\ text[c + 1] = IF r = 1 THEN TextAt(f, keys, c + 1) ELSE <<>>
  BY <1>0 DEF Content
<1>7. PICK line : line = Tagged(ls[q + 1], row.key)  OBVIOUS
<1>8. TextAt(f, keys, c + 1) = line
  <2>1. (n * whole + q) \div n = whole /\ (n * whole + q) % n = q
    <3>1. n \in Nat \ {0} /\ q \in 0 .. n - 1  BY <1>2, <1>4
    <3> QED BY <3>1, QuotientRemainder
  <2>2. (((c + 1) - 1) % n) + 1 = q + 1 /\ (((c + 1) - 1) \div n) + 1 = whole + 1  BY <1>5, <2>1
  <2> QED BY <1>1, <1>7, <2>2 DEF TextAt
<1>9. Sequence(line) /\ line # <<>>
  <2>1. q + 1 \in 1 .. n  BY <1>2, <1>4
  <2>2. TaggedShape(ls[q + 1], row.key)  BY <1>2, <2>1, TaggedCells
  <2> QED BY <1>7, <2>2 DEF TaggedShape
<1>10. PICK new : new = Streamed(text, StepOf(row, put))  OBVIOUS
<1>11. CASE r = 0
  <2>1. StepOf(row, put) = line  BY <1>1, <1>3, <1>7, <1>11 DEF StepOf
  <2>2. new = [text EXCEPT ![c + 1] = @ \o line]  BY <1>6, <1>9, <1>10, <2>1 DEF Streamed
  <2>3. text[c + 1] = <<>> /\ <<>> \o line = line
    <3>1. <<>> \o line = line  BY <1>9, ConcatEmptySeq DEF Sequence
    <3> QED BY <1>6, <1>11, <3>1
  <2>4. /\ new = [p \in 1 .. c + 1 |-> new[p]] /\ Len(new) = c + 1
        /\ \A p \in 1 .. c : new[p] = text[p]
        /\ new[c + 1] = line
    <3>1. DOMAIN text = 1 .. c + 1 /\ c + 1 \in 1 .. c + 1  BY <1>6
    <3>2. new = [p \in 1 .. c + 1 |-> IF p = c + 1 THEN line ELSE text[p]]  BY <2>2, <2>3, <3>1
    <3>3. new = [p \in 1 .. c + 1 |-> new[p]]  BY <3>2
    <3>4. Len(new) = c + 1  BY <3>3, SequenceOf
    <3> QED BY <3>1, <3>2, <3>3, <3>4
  <2>5. (put + 1) \div 2 = q /\ (put + 1) % 2 = 1  BY <1>4, <1>11
  <2>6. Content(new, f, keys, c, 1)  BY <1>6, <1>8, <2>4 DEF Content
  <2>7. TextIs(new, f, keys, whole, put + 1)  BY <1>1, <1>5, <2>5, <2>6 DEF TextIs
  <2> QED BY <1>10, <2>7
<1>12. CASE r = 1
  <2>1. StepOf(row, put) = <<>>  BY <1>3, <1>12 DEF StepOf
  <2>2. new = Append(text, <<>>)  BY <1>10, <2>1 DEF Streamed
  <2>3. Sequence(text)  BY <1>6, SequenceOf
  <2>4. /\ new = [p \in 1 .. c + 2 |-> new[p]] /\ Len(new) = c + 2
        /\ \A p \in 1 .. c + 1 : new[p] = text[p]
        /\ new[c + 2] = <<>>
    <3> DEFINE T == Range(text) \cup {<<>>}
    <3>1. text \in Seq(T) /\ <<>> \in T  BY <2>3, SeqMonotonic DEF Sequence
    <3> HIDE DEF T
    <3>2. new \in Seq(T) /\ Len(new) = c + 2 /\ (\A p \in 1 .. c + 1 : new[p] = text[p]) /\ new[c + 2] = <<>>
      BY <1>6, <2>2, <3>1
    <3>3. new = [p \in 1 .. c + 2 |-> new[p]]  BY <3>2
    <3> QED BY <3>2, <3>3
  <2>5. (put + 1) \div 2 = q + 1 /\ (put + 1) % 2 = 0  BY <1>4, <1>12
  <2>6. n * whole + (q + 1) = c + 1 /\ (c + 1) + 1 = c + 2  BY <1>2, <1>4, <1>5
  <2>7. \A p \in 1 .. c + 1 : new[p] = TextAt(f, keys, p)
    <3>1. \A p \in 1 .. c : text[p] = TextAt(f, keys, p)  BY <1>6
    <3>2. text[c + 1] = TextAt(f, keys, c + 1)  BY <1>6, <1>12
    <3>3. \A p \in 1 .. c + 1 : p \in 1 .. c \/ p = c + 1  OBVIOUS
    <3> QED BY <2>4, <3>1, <3>2, <3>3
  <2>8. Content(new, f, keys, c + 1, 0)
    <3>1. PICK d : d = c + 1 /\ d + 1 = c + 2  BY <2>6
    <3>2. /\ Len(new) = d + 1 /\ new = [p \in 1 .. d + 1 |-> new[p]] /\ new[d + 1] = <<>>
          /\ \A p \in 1 .. d : new[p] = TextAt(f, keys, p)
      BY <2>4, <2>7, <3>1
    <3>3. Content(new, f, keys, d, 0)  BY <3>2 DEF Content
    <3> QED BY <3>1, <3>3
  <2>9. TextIs(new, f, keys, whole, put + 1)  BY <1>1, <2>5, <2>6, <2>8 DEF TextIs
  <2> QED BY <1>10, <2>9
<1> QED BY <1>4, <1>11, <1>12

\* There is a section for every file, and one for HDF5.
LEMMA SectionNames ==
  /\ Sections = FileNames \cup {"h5ThreadSafety"} /\ DOMAIN EmptyLines = FileNames
  /\ \A f \in FileNames : Section(f) \in Sections
  /\ \A f \in FileNames : IsAscii => Section(f) = f
<1>1. {OpenOrder[i] : i \in DOMAIN OpenOrder} = RowTables
  <2>1. DOMAIN OpenOrder = 1 .. 10  BY DEF OpenOrder
  <2>2. /\ OpenOrder[1] = "clusters" /\ OpenOrder[2] = "cluster_spectra" /\ OpenOrder[3] = "cluster_phot"
        /\ OpenOrder[4] = "cluster_yields" /\ OpenOrder[5] = "galaxy" /\ OpenOrder[6] = "galaxy_spectra"
        /\ OpenOrder[7] = "galaxy_phot" /\ OpenOrder[8] = "galaxy_yields" /\ OpenOrder[9] = "cluster_feedback"
        /\ OpenOrder[10] = "galaxy_feedback"
    BY DEF OpenOrder
  <2>3. RowTables = {"clusters", "cluster_spectra", "cluster_phot", "cluster_yields", "galaxy", "galaxy_spectra",
                     "galaxy_phot", "galaxy_yields", "cluster_feedback", "galaxy_feedback"}
    BY DEF RowTables, FileNames
  <2> QED BY <2>1, <2>2, <2>3
<1>2. Sections = FileNames \cup {"h5ThreadSafety"}  BY <1>1 DEF Sections, RowTables, FileNames
<1>3. "h5ThreadSafety" \notin FileNames  BY DEF FileNames
<1> QED BY <1>2, <1>3 DEF EmptyLines, Section

\* Threads are numbered from 1, 0 is nobody.
LEMMA ThreadNumbers ==
  Threads \subseteq Nat /\ NoThread \notin Threads
<1>1. Cardinality(Threads) \in Nat  BY WritingAssumption, FS_CardinalityType
<1>2. PICK n \in Nat : n = Cardinality(Threads)  BY <1>1
<1>3. Threads = 1 .. n  BY <1>2, WritingAssumption
<1> QED BY <1>3 DEF NoThread

\* The row a thread is at is of a trial that has been begun.
LEMMA HeadRow ==
  ASSUME NEW done, Holds(done), NEW t \in Threads, todo[t] # <<>>
  PROVE  /\ phase = "running" /\ Head(todo[t]) \in Range(todo[t])
         /\ \E trial \in 0 .. next - 1 :
              trial \in Trials /\ RowOfTrial(trial, Head(todo[t])) /\ Head(todo[t]) \in Range(Rows(trial))
<1>1. todo[t] \in Seq(KeyedRow)  BY DEF Holds, Types
<1>2. Head(todo[t]) \in Range(todo[t])  BY <1>1 DEF Range
<1>3. phase = "running"  BY DEF Holds, Opening
<1>4. PICK trial \in 0 .. next - 1 : trial \in Trials /\ \A row \in Range(todo[t]) : row \in Range(Rows(trial))
  BY TodoOfTrial DEF Holds, WritingInv
<1>5. RowOfTrial(trial, Head(todo[t]))  BY <1>2, <1>3, <1>4, RowsOpen DEF Holds
<1> QED BY <1>2, <1>3, <1>4, <1>5

RowKept(done, t) ==
  /\ Put0(t)' = Len(Cells(Head(todo[t]))) - Len(cells'[t])
  /\ \A f : WritingTo(t, f)' <=> (pc'[t] = "writing" /\ Head(todo[t]).table = f)
  /\ \A g, k : KeysIn(done, t, g, k)' =
       IF WritingTo(t, g)' /\ k <= Put0(t)' THEN Append(done[t][g], Head(todo[t]).key) ELSE done[t][g]
  /\ StepsLeft(t)' <=>
       (Put0(t)' \in 0 .. Len(Cells(Head(todo[t]))) /\ cells'[t] = From(Cells(Head(todo[t])), Put0(t)'))

\* What a thread has of its row after a step in which it stays at it.
LEMMA SameRowNext ==
  ASSUME NEW done, NEW t, UNCHANGED controls, todo'[t] = todo[t]
  PROVE  RowKept(done, t)
<1>1. ASSUME NEW row PROVE Cells(row)' = Cells(row)
  BY CellsSame
<1>2. PICK row : row = Head(todo[t])  OBVIOUS
<1>3. Head(todo'[t]) = row  BY <1>2
<1>4. Cells(Head(todo[t]))' = Cells(Head(todo[t]))  BY <1>1, <1>2, <1>3 DEF Cells
<1>5. Put0(t)' = Len(Cells(Head(todo[t]))) - Len(cells'[t])  BY <1>4 DEF Put0
<1>6. \A f : WritingTo(t, f)' <=> (pc'[t] = "writing" /\ Head(todo[t]).table = f)  BY DEF WritingTo
<1>7. ASSUME NEW g, NEW k
      PROVE  KeysIn(done, t, g, k)' =
               IF WritingTo(t, g)' /\ k <= Put0(t)' THEN Append(done[t][g], Head(todo[t]).key) ELSE done[t][g]
  BY <1>2, <1>3 DEF KeysIn
<1>8. StepsLeft(t)' <=>
        (Put0(t)' \in 0 .. Len(Cells(Head(todo[t]))) /\ cells'[t] = From(Cells(Head(todo[t])), Put0(t)'))
  BY <1>4 DEF StepsLeft
<1> QED BY <1>5, <1>6, <1>7, <1>8 DEF RowKept

KeysKept(done) ==
  \A t \in Threads : \A g : \A k \in Nat \ {0} : KeysIn(done, t, g, k)' = KeysIn(done, t, g, k)

\* The groups are as they were, if what has been put into each is.
LEMMA GroupsKept ==
  ASSUME NEW done, Groups(done), UNCHANGED <<controls, open, file>>, KeysKept(done)
  PROVE  Groups(done)'
<1>1. \A g : H5!Row(g)' = H5!Row(g) /\ H5!Datasets(g)' = H5!Datasets(g)  BY RowH5Same
<1>2. \A g : DatasetNames(g)' = DatasetNames(g)  BY <1>1 DEF DatasetNames
<1>3. ASSUME NEW t \in Threads, NEW g, NEW n, NEW k \in 1 .. n
      PROVE  KeysIn(done, t, g, k)' = KeysIn(done, t, g, k)
  BY DEF KeysKept
<1> QED BY <1>1, <1>2, <1>3 DEF Groups, IsAscii

\* A thread enters the section of the file it writes its row to.
LEMMA EnterStep ==
  ASSUME NEW done, Holds(done), NEW t \in Threads, Enter(t)
  PROVE  Holds(done)'
<1> USE DEF Holds
<1>1. UNCHANGED <<controls, open, todo, next, file, flushed, lines, merged, toOpen, phase>>
  BY DEF Enter
<1>2. pc \in [Threads -> {"free", "computing", "writing"}] /\ DOMAIN cells = Threads /\ lock \in [Sections -> Owners]
  BY DEF Types
<1>3. PICK row, sec : row = Head(todo[t]) /\ sec = Section(Head(todo[t]).table)  OBVIOUS
<1>4. /\ pc[t] = "computing" /\ lock[sec] = NoThread /\ lock' = [lock EXCEPT ![sec] = t]
      /\ pc' = [pc EXCEPT ![t] = "writing"] /\ cells' = [cells EXCEPT ![t] = Cells(row)]
      /\ maxTrial' = IF IsAscii THEN maxTrial ELSE Larger(maxTrial, row.key[1])
  BY <1>3 DEF Enter, Free
<1>5. todo[t] # <<>>  BY <1>4 DEF Exclusion
<1>6. /\ phase = "running"
      /\ \E trial \in 0 .. next - 1 : trial \in Trials /\ RowOfTrial(trial, row) /\ row \in Range(Rows(trial))
  BY <1>3, <1>5, HeadRow
<1>7. PICK trial \in 0 .. next - 1 : trial \in Trials /\ RowOfTrial(trial, row)  BY <1>6
<1>8. /\ row \in KeyedRow /\ row.key[1] = trial /\ row.key \in Key /\ row.table \in FileNames /\ row.table \in open
      /\ ~IsAscii => row.table \in RowTables
  BY <1>7 DEF RowOfTrial
<1>9. sec \in Sections  BY <1>3, <1>8, SectionNames
<1>10. /\ pc'[t] = "writing" /\ cells'[t] = Cells(row) /\ lock'[sec] = t
       /\ \A u \in Threads : u # t => pc'[u] = pc[u] /\ cells'[u] = cells[u] /\ todo'[u] = todo[u]
       /\ \A s \in Sections : s # sec => lock'[s] = lock[s]
  BY <1>1, <1>2, <1>4, <1>9
<1>11. pc' \in [Threads -> {"free", "computing", "writing"}] /\ DOMAIN cells' = Threads
       /\ lock' \in [Sections -> Owners]
  BY <1>2, <1>4 DEF Owners
<1>12. maxTrial \in Nat /\ trial \in Nat /\ maxTrial' \in Nat
  <2>1. trial \in Nat  BY <1>7, TrialsNatural
  <2>2. maxTrial \in Nat  BY DEF Types
  <2> QED BY <1>4, <1>8, <2>1, <2>2 DEF Larger
<1>13. Types'  BY <1>1, <1>11, <1>12 DEF Types, IsAscii, Owners, NoThread
<1>14. Opening'  BY <1>1, <1>6 DEF Opening, IsAscii, FilesOf, Nebular, IsGalaxy
<1>15. \A u \in Threads : u # t /\ pc[u] = "writing" => Section(Head(todo[u]).table) # sec
  BY <1>4, ThreadNumbers DEF Exclusion
<1>16. \A u \in Threads : pc[u] # "free" => Section(Head(todo[u]).table) \in Sections
  <2> SUFFICES ASSUME NEW u \in Threads, pc[u] # "free" PROVE Section(Head(todo[u]).table) \in Sections
    OBVIOUS
  <2>1. todo[u] # <<>>  BY DEF Exclusion
  <2>2. Head(todo[u]).table \in FileNames  BY <2>1, HeadRow DEF RowOfTrial
  <2> QED BY <2>2, SectionNames
<1>17. Exclusion'
  <2>1. ASSUME NEW u \in Threads
        PROVE  /\ pc'[u] # "free" => todo'[u] # <<>>
               /\ pc'[u] = "writing" => lock'[Section(Head(todo[u]).table)] = u
    <3>1. CASE u = t  BY <1>1, <1>3, <1>5, <1>10, <3>1
    <3>2. CASE u # t  BY <1>1, <1>10, <1>15, <1>16, <3>2 DEF Exclusion
    <3> QED BY <3>1, <3>2
  <2> QED BY <1>1, <2>1 DEF Exclusion, Section, IsAscii
<1>18. CellsShape(row)
  <2>1. ControlsOK  BY DEF Types, ControlsOK
  <2> QED BY <1>8, <2>1, CellsSteps
<1>19. RowKept(done, t)  BY <1>1, SameRowNext
<1>20. Len(Cells(row)) \in Nat /\ Put0(t)' = 0 /\ From(Cells(row), 0) = Cells(row)
  <2>1. PICK all : all = Cells(row)  OBVIOUS
  <2>2. Len(all) \in Nat /\ Sequence(all)  BY <1>18, <2>1 DEF CellsShape
  <2>3. From(all, 0) = all
    <3>1. all \in Seq(Range(all)) /\ 0 \in Nat /\ 0 <= Len(all)  BY <2>2 DEF Sequence
    <3> QED BY <3>1, FromSteps
  <2>4. Put0(t)' = Len(all) - Len(all)  BY <1>3, <1>10, <1>19, <2>1 DEF RowKept
  <2> QED BY <2>1, <2>2, <2>3, <2>4
<1>21. CellsLeft'
  <2>1. ASSUME NEW u \in Threads, pc'[u] = "writing" PROVE StepsLeft(u)'
    <3>1. CASE u = t  BY <1>3, <1>10, <1>19, <1>20, <3>1 DEF RowKept
    <3>2. CASE u # t
      <4>1. StepsLeft(u)' = StepsLeft(u)  BY <1>1, <1>10, <3>2, ThreadSame
      <4> QED BY <1>10, <2>1, <3>2, <4>1 DEF CellsLeft
    <3> QED BY <3>1, <3>2
  <2> QED BY <2>1 DEF CellsLeft
<1>22. next \in Nat /\ next' \in Nat /\ next <= next'  BY <1>1 DEF Types
<1>23. InPlace(done)' /\ Books(done)'  BY <1>1, <1>22, InPlaceSame, BooksSame DEF WritingInv
<1>24. KeysKept(done)
  <2> SUFFICES ASSUME NEW u \in Threads, NEW g, NEW k \in Nat \ {0}
               PROVE  KeysIn(done, u, g, k)' = KeysIn(done, u, g, k)
    BY DEF KeysKept
  <2>1. CASE u = t
    <3>1. KeysIn(done, t, g, k)' = done[t][g]
      <4>1. ~ (k <= Put0(t)')  BY <1>20
      <4> QED BY <1>19, <4>1 DEF RowKept
    <3>2. KeysIn(done, t, g, k) = done[t][g]  BY <1>4 DEF KeysIn, WritingTo
    <3> QED BY <2>1, <3>1, <3>2
  <2>2. CASE u # t  BY <1>1, <1>10, <2>2, ThreadSame
  <2> QED BY <2>1, <2>2
<1>25. Groups(done)' /\ Safe(done)'  BY <1>1, <1>24, GroupsKept, SafeSame DEF WritingInv
<1>26. LargestSeen(done)'
  <2>1. CASE IsAscii  BY <1>1, <2>1 DEF LargestSeen, IsAscii
  <2>2. CASE ~IsAscii
    <3>1. TrialsSeen(done)' = TrialsSeen(done) \cup {trial}
      <4>1. \A u \in Threads : (pc'[u] = "writing") <=> (u = t \/ pc[u] = "writing")  BY <1>10
      <4>2. {Head(todo'[u]).key[1] : u \in {v \in Threads : pc'[v] = "writing"}}
              = {Head(todo[u]).key[1] : u \in {v \in Threads : pc[v] = "writing"}} \cup {trial}
        BY <1>1, <1>3, <1>8, <4>1
      <4> DEFINE A == {key[1] : key \in UNION {Range(done[o][f]) : o \in Owners, f \in FileNames}}
                 B == {Head(todo[u]).key[1] : u \in {v \in Threads : pc[v] = "writing"}}
                 C == {Head(todo'[u]).key[1] : u \in {v \in Threads : pc'[v] = "writing"}}
      <4>4. TrialsSeen(done) = A \cup B  BY DEF TrialsSeen
      <4>5. TrialsSeen(done)' = A \cup C  BY DEF TrialsSeen, Owners, NoThread
      <4>6. C = B \cup {trial}  BY <4>2
      <4> HIDE DEF A, B, C
      <4> QED BY <4>4, <4>5, <4>6
    <3>2. /\ \A n \in TrialsSeen(done) : n <= maxTrial
          /\ maxTrial \in TrialsSeen(done) \/ (maxTrial = 0 /\ TrialsSeen(done) = {})
      BY <2>2 DEF WritingInv, LargestSeen
    <3>3. TrialsSeen(done) \subseteq Nat
      <4>1. \A o \in Owners, f \in FileNames : \A key \in Range(done[o][f]) : key[1] \in Nat
        <5> SUFFICES ASSUME NEW o \in Owners, NEW f \in FileNames, NEW key \in Range(done[o][f]) PROVE key[1] \in Nat
          OBVIOUS
        <5>1. done[o][f] \in Seq(Key)  BY DEF WritingInv, Books
        <5>2. key \in Key  BY <5>1 DEF Range
        <5>3. key[1] \in Trials  BY <5>2 DEF Key
        <5> QED BY <5>3, TrialsNatural
      <4>2. \A u \in Threads : pc[u] = "writing" => Head(todo[u]).key[1] \in Nat
        <5> SUFFICES ASSUME NEW u \in Threads, pc[u] = "writing" PROVE Head(todo[u]).key[1] \in Nat
          OBVIOUS
        <5>1. todo[u] # <<>>  BY DEF Exclusion
        <5>2. \E tr \in Trials : Head(todo[u]).key[1] = tr  BY <5>1, HeadRow DEF RowOfTrial
        <5> QED BY <5>2, TrialsNatural
      <4> QED BY <4>1, <4>2 DEF TrialsSeen
    <3>4. maxTrial' = Larger(maxTrial, trial)  BY <1>4, <1>8, <2>2
    <3>5. /\ \A n \in TrialsSeen(done) \cup {trial} : n <= maxTrial'
          /\ maxTrial' \in TrialsSeen(done) \cup {trial}
      <4>1. PICK S, m, m2 : S = TrialsSeen(done) /\ m = maxTrial /\ m2 = maxTrial'  OBVIOUS
      <4>2. /\ \A n \in S : n <= m
            /\ m \in S \/ (m = 0 /\ S = {})
            /\ S \subseteq Nat /\ m \in Nat /\ m2 = IF m > trial THEN m ELSE trial
        BY <1>12, <3>2, <3>3, <3>4, <4>1 DEF Larger
      <4>3. (\A n \in S \cup {trial} : n <= m2) /\ m2 \in S \cup {trial}  BY <1>12, <4>2
      <4> QED BY <4>1, <4>3
    <3> QED BY <3>1, <3>5 DEF LargestSeen
  <2> QED BY <2>1, <2>2
<1>27. Texts(done)'
  <2>1. \A f, keys, whole, put : Text(f, keys, whole, put)' = Text(f, keys, whole, put)
    BY <1>1, TextSame
  <2>2. \A f \in DOMAIN lines : f \notin open => lines[f] \in {<<>>, <<<<"earlier">>>>}
    BY DEF WritingInv, Texts
  <2>3. ASSUME IsAscii, NEW f \in open
        PROVE  /\ (\A u \in Threads : ~WritingTo(u, f)') => Text(f, done[NoThread][f], Len(done[NoThread][f]), 0)
               /\ \A u \in Threads : WritingTo(u, f)' =>
                    Text(f, Append(done[NoThread][f], Head(todo[u]).key), Len(done[NoThread][f]), Put0(u)')
    <3>1. PICK keys : keys = done[NoThread][f]  OBVIOUS
    <3>2. /\ (\A u \in Threads : ~WritingTo(u, f)) => Text(f, keys, Len(keys), 0)
          /\ \A u \in Threads : WritingTo(u, f) => Text(f, Append(keys, Head(todo[u]).key), Len(keys), Put0(u))
      BY <2>3, <3>1 DEF WritingInv, Texts
    <3>3. WritingTo(t, f)' <=> row.table = f  BY <1>3, <1>10, <1>19 DEF RowKept
    <3>4. ~WritingTo(t, f)  BY <1>4 DEF WritingTo
    <3>5. \A u \in Threads : u # t => (WritingTo(u, f)' <=> WritingTo(u, f)) /\ Put0(u)' = Put0(u)
      BY <1>1, <1>10, ThreadSame
    <3>6. ASSUME \A u \in Threads : ~WritingTo(u, f)' PROVE Text(f, keys, Len(keys), 0)
      BY <3>2, <3>4, <3>5, <3>6
    <3>7. ASSUME NEW u \in Threads, WritingTo(u, f)'
          PROVE  Text(f, Append(keys, Head(todo[u]).key), Len(keys), Put0(u)')
      <4>1. CASE u = t
        <5>1. row.table = f /\ sec = f  BY <1>3, <1>8, <2>3, <3>3, <3>7, <4>1, SectionNames
        <5>2. \A v \in Threads : ~WritingTo(v, f)
          <6> SUFFICES ASSUME NEW v \in Threads, WritingTo(v, f) PROVE FALSE
            OBVIOUS
          <6>1. v # t /\ pc[v] = "writing" /\ Head(todo[v]).table = f  BY <3>4 DEF WritingTo
          <6>2. Section(f) # sec  BY <1>15, <6>1
          <6> QED BY <1>3, <5>1, <6>2
        <5>3. Text(f, keys, Len(keys), 0)  BY <3>2, <5>2
        <5>4. keys \in Seq(Key)  BY <1>8, <3>1, <5>1 DEF WritingInv, Books, Owners
        <5>5. TextIs(lines[f], f, keys, Len(keys), 0)  BY <5>3 DEF Text
        <5>6. ControlsOK /\ f \in FileNames /\ row.key \in Key  BY <1>8, <5>1 DEF Types, ControlsOK
        <5>7. TextIs(lines[f], f, Append(keys, row.key), Len(keys), 0)
          BY <5>4, <5>5, <5>6, TextExtended
        <5> QED BY <1>3, <1>20, <4>1, <5>7 DEF Text
      <4>2. CASE u # t  BY <3>2, <3>5, <3>7, <4>2
      <4> QED BY <4>1, <4>2
    <3> QED BY <3>1, <3>6, <3>7
  <2> QED BY <1>1, <2>1, <2>2, <2>3 DEF Texts, IsAscii, NoThread
<1>28. Merged(done)'  BY <1>1, MergedSame DEF WritingInv
<1> QED BY <1>13, <1>14, <1>17, <1>21, <1>23, <1>25, <1>26, <1>27, <1>28 DEF WritingInv

\* An entry more.
LEMMA EntriesAppend ==
  ASSUME NEW K, NEW keys \in Seq(K), NEW key \in K, NEW w
  PROVE  Append(Entries(keys, w), <<key, w>>) = Entries(Append(keys, key), w)
<1>1. PICK n \in Nat : n = Len(keys)  OBVIOUS
<1>2. PICK more : more = Append(keys, key)  OBVIOUS
<1>3. Len(more) = n + 1 /\ more[n + 1] = key /\ \A i \in 1 .. n : more[i] = keys[i]  BY <1>1, <1>2
<1> DEFINE T == {<<k, w>> : k \in K}
<1>4. \A i \in 1 .. n : <<keys[i], w>> \in T  BY <1>1
<1>5. <<key, w>> \in T  OBVIOUS
<1>6. PICK e, x : e = Entries(keys, w) /\ x = <<key, w>>  OBVIOUS
<1>7. e = [i \in 1 .. n |-> <<keys[i], w>>]  BY <1>1, <1>6 DEF Entries
<1> HIDE DEF T
<1>8. e \in Seq(T) /\ Len(e) = n /\ \A i \in 1 .. n : e[i] = <<keys[i], w>>  BY <1>4, <1>7
<1>9. PICK a : a = Append(e, x)  OBVIOUS
<1>10. a \in Seq(T) /\ Len(a) = n + 1 /\ a[n + 1] = x /\ \A i \in 1 .. n : a[i] = e[i]
  BY <1>5, <1>6, <1>8, <1>9
<1>11. a = [i \in 1 .. n + 1 |-> a[i]]  BY <1>10
<1>12. \A i \in 1 .. n + 1 : a[i] = <<more[i], w>>
  <2>1. \A i \in 1 .. n + 1 : i \in 1 .. n \/ i = n + 1  OBVIOUS
  <2> QED BY <1>3, <1>6, <1>8, <1>10, <2>1
<1>13. a = [i \in 1 .. n + 1 |-> <<more[i], w>>]  BY <1>11, <1>12
<1>14. Entries(more, w) = [i \in 1 .. n + 1 |-> <<more[i], w>>]  BY <1>3 DEF Entries
<1> QED BY <1>2, <1>6, <1>9, <1>13, <1>14

AtStep(t, row, all, m) ==
  /\ m \in Nat /\ m < Len(all) /\ Len(all) \in Nat /\ Sequence(all)
  /\ row = Head(todo[t]) /\ all = Cells(row) /\ m = Put0(t)
  /\ Head(cells[t]) = all[m + 1] /\ Tail(cells[t]) = From(all, m + 1) /\ Len(From(all, m + 1)) = Len(all) - (m + 1)

\* Where a thread is in its row.
LEMMA StepAt ==
  ASSUME NEW t, NEW row, row = Head(todo[t]), StepsLeft(t), cells[t] # <<>>, CellsShape(row)
  PROVE  \E all, m : AtStep(t, row, all, m)
<1>1. PICK all, m : all = Cells(row) /\ m = Put0(t)  OBVIOUS
<1>2. m \in 0 .. Len(all) /\ cells[t] = From(all, m)  BY <1>1 DEF StepsLeft
<1>3. Sequence(all) /\ Len(all) \in Nat  BY <1>1 DEF CellsShape
<1>4. all \in Seq(Range(all)) /\ m \in Nat /\ m <= Len(all)  BY <1>2, <1>3 DEF Sequence
<1>5. /\ From(all, m) = <<>> <=> m = Len(all)
      /\ m < Len(all) => Head(From(all, m)) = all[m + 1] /\ Tail(From(all, m)) = From(all, m + 1)
  BY <1>4, FromSteps
<1>6. m < Len(all)  BY <1>2, <1>3, <1>5
<1>7. m + 1 \in Nat /\ m + 1 <= Len(all)  BY <1>3, <1>4, <1>6
<1>8. Len(From(all, m + 1)) = Len(all) - (m + 1)
  <2>1. PICK n : n = m + 1  OBVIOUS
  <2>2. n \in Nat /\ n <= Len(all)  BY <1>7, <2>1
  <2>3. Len(From(all, n)) = Len(all) - n  BY <1>4, <2>2, FromSteps
  <2> QED BY <2>1, <2>3
<1> QED BY <1>1, <1>2, <1>3, <1>4, <1>5, <1>6, <1>8 DEF AtStep

\* The largest trial is as it was, if the rows are.
LEMMA LargestSame ==
  ASSUME NEW done, LargestSeen(done), UNCHANGED <<controls, maxTrial, pc, todo>>
  PROVE  LargestSeen(done)'
<1>1. TrialsSeen(done)' = TrialsSeen(done)  BY DEF TrialsSeen, Owners, NoThread
<1> QED BY <1>1 DEF LargestSeen, IsAscii

\* Two threads do not write to one file of text.
LEMMA OneWriter ==
  ASSUME Exclusion, IsAscii, NEW t \in Threads, NEW u \in Threads, NEW f \in FileNames, WritingTo(t, f), WritingTo(u, f)
  PROVE  t = u
<1>1. Section(f) = f  BY SectionNames
<1>2. lock[f] = t /\ lock[f] = u  BY <1>1 DEF Exclusion, WritingTo
<1> QED BY <1>2

\* A step of a row is made: a line, its end, or a dataset.
LEMMA PutStep ==
  ASSUME NEW done, Holds(done), NEW t \in Threads, Put(t)
  PROVE  Holds(done)'
<1> USE DEF Holds
<1>1. UNCHANGED <<controls, phase, toOpen, open, next, todo, pc, lock, flushed, maxTrial, merged>>
  BY DEF Put
<1>2. DOMAIN cells = Threads  BY DEF Types
<1>3. PICK row, cell : row = Head(todo[t]) /\ cell = Head(cells[t])  OBVIOUS
<1>4. /\ pc[t] = "writing" /\ cells[t] # <<>> /\ cells' = [cells EXCEPT ![t] = Tail(@)]
      /\ IsAscii => PutCells(row.table, cell) /\ UNCHANGED file
      /\ ~IsAscii => /\ file' = [file EXCEPT ![t] = H5!AppendToDataset(@, row.table, cell[1], <<row.key, cell[2]>>)]
                     /\ UNCHANGED lines
  BY <1>3 DEF Put
<1>5. todo[t] # <<>>  BY <1>4 DEF Exclusion
<1>6. /\ phase = "running" /\ \E trial : RowOfTrial(trial, row)
  BY <1>3, <1>5, HeadRow
<1>7. /\ row.key \in Key /\ row.table \in FileNames /\ row.table \in open
      /\ ~IsAscii => row.table \in RowTables
  BY <1>6 DEF RowOfTrial
<1>8. CellsShape(row)
  <2>1. ControlsOK  BY DEF Types, ControlsOK
  <2> QED BY <1>7, <2>1, CellsSteps
<1>9. PICK all, m : AtStep(t, row, all, m)
  <2>1. StepsLeft(t)  BY <1>4 DEF CellsLeft
  <2> QED BY <1>3, <1>4, <1>8, <2>1, StepAt
<1>10. /\ m \in Nat /\ m < Len(all) /\ Len(all) \in Nat /\ all = Cells(row) /\ m = Put0(t)
       /\ cell = all[m + 1] /\ Tail(cells[t]) = From(all, m + 1) /\ Len(From(all, m + 1)) = Len(all) - (m + 1)
  BY <1>3, <1>9 DEF AtStep
<1>11. /\ cells'[t] = From(all, m + 1) /\ DOMAIN cells' = Threads
       /\ \A u \in Threads : u # t => cells'[u] = cells[u] /\ pc'[u] = pc[u] /\ todo'[u] = todo[u]
  BY <1>1, <1>2, <1>4, <1>10
<1>12. RowKept(done, t)  BY <1>1, SameRowNext
<1>13. Put0(t)' = m + 1
  <2>1. Put0(t)' = Len(all) - Len(From(all, m + 1))  BY <1>3, <1>10, <1>11, <1>12 DEF RowKept
  <2> QED BY <1>10, <2>1
<1>14. Types'
  <2>1. DOMAIN lines' = DOMAIN EmptyLines
    <3>1. DOMAIN lines = DOMAIN EmptyLines  BY DEF Types
    <3>2. CASE IsAscii  BY <1>4, <3>1, <3>2 DEF PutCells
    <3>3. CASE ~IsAscii  BY <1>4, <3>1, <3>3
    <3> QED BY <3>2, <3>3
  <2>2. DOMAIN file' = Threads /\ file' = [u \in Threads |-> file'[u]]
    <3>1. DOMAIN file = Threads /\ file = [u \in Threads |-> file[u]]  BY DEF Types
    <3>2. CASE IsAscii  BY <1>4, <3>1, <3>2
    <3>3. CASE ~IsAscii
      <4>1. PICK x : file' = [file EXCEPT ![t] = x]  BY <1>4, <3>3
      <4> QED BY <3>1, <4>1
    <3> QED BY <3>2, <3>3
  <2> QED BY <1>1, <1>11, <2>1, <2>2 DEF Types, IsAscii, Owners, NoThread, EmptyLines
<1>15. Opening'  BY <1>1 DEF Opening, IsAscii, FilesOf, Nebular, IsGalaxy
<1>16. Exclusion'  BY <1>1 DEF Exclusion, Section, IsAscii
<1>17. CellsLeft'
  <2>1. ASSUME NEW u \in Threads, pc'[u] = "writing" PROVE StepsLeft(u)'
    <3>1. CASE u = t
      <4>1. Put0(t)' \in 0 .. Len(all) /\ cells'[t] = From(all, Put0(t)')  BY <1>10, <1>11, <1>13
      <4> QED BY <1>3, <1>10, <1>12, <3>1, <4>1 DEF RowKept
    <3>2. CASE u # t
      <4>1. StepsLeft(u)' = StepsLeft(u)  BY <1>1, <1>11, <3>2, ThreadSame
      <4> QED BY <1>11, <2>1, <3>2, <4>1 DEF CellsLeft
    <3> QED BY <3>1, <3>2
  <2> QED BY <2>1 DEF CellsLeft
<1>18. next \in Nat /\ next' \in Nat /\ next <= next'  BY <1>1 DEF Types
<1>19. InPlace(done)' /\ Books(done)'  BY <1>1, <1>18, InPlaceSame, BooksSame DEF WritingInv
<1>20. Safe(done)' /\ LargestSeen(done)'  BY <1>1, SafeSame, LargestSame DEF WritingInv
<1>21. Merged(done)'  BY <1>1, MergedSame DEF WritingInv
<1>22. \A u \in Threads : u # t => /\ \A g, k : KeysIn(done, u, g, k)' = KeysIn(done, u, g, k)
                                   /\ \A f : WritingTo(u, f)' = WritingTo(u, f)
                                   /\ Put0(u)' = Put0(u)
  BY <1>1, <1>11, ThreadSame
<1>23. /\ \A f : WritingTo(t, f)' <=> row.table = f
       /\ \A f : WritingTo(t, f) <=> row.table = f
  <2>1. \A f : WritingTo(t, f)' <=> (pc'[t] = "writing" /\ Head(todo[t]).table = f)
    BY <1>12 DEF RowKept
  <2>2. \A f : WritingTo(t, f) <=> row.table = f  BY <1>3, <1>4 DEF WritingTo
  <2> QED BY <1>1, <1>3, <1>4, <2>1, <2>2
<1>24. Groups(done)'
  <2>1. CASE IsAscii
    <3>1. \A u \in Threads : DOMAIN file[u] = {}  BY <2>1 DEF WritingInv, Groups
    <3>2. \A u \in Threads : DOMAIN file'[u] = {}  BY <1>4, <2>1, <3>1
    <3> QED BY <1>1, <2>1, <3>2 DEF Groups, IsAscii
  <2>2. CASE ~IsAscii
    <3>0. DOMAIN file = Threads  BY DEF Types
    <3>1. /\ \A u \in Threads : DOMAIN file[u] = open
          /\ \A u \in Threads, g \in open :
               /\ DOMAIN file[u][g] = DatasetNames(g)
               /\ \A k \in 1 .. Len(H5!Row(g)) :
                    file[u][g][H5!Row(g)[k][1]] = Entries(KeysIn(done, u, g, k), H5!Row(g)[k][2])
      BY <2>2 DEF WritingInv, Groups
    <3>2. PICK e : e = <<row.key, cell[2]>>  OBVIOUS
    <3>3. file'[t] = [file[t] EXCEPT ![row.table][cell[1]] = Append(@, e)]
      BY <1>4, <2>2, <3>0, <3>2 DEF H5!AppendToDataset
    <3>4. \A u \in Threads : u # t => file'[u] = file[u]  BY <1>4, <2>2, <3>0
    <3>5. PICK G : G = row.table  OBVIOUS
    <3>6. G \in open /\ G \in RowTables  BY <1>7, <2>2, <3>5
    <3>7. /\ DOMAIN file'[t] = open
          /\ \A g \in open : g # G => file'[t][g] = file[t][g]
          /\ file'[t][G] = [file[t][G] EXCEPT ![cell[1]] = Append(@, e)]
      <4>1. DOMAIN file[t] = open  BY <3>1
      <4> QED BY <3>3, <3>5, <3>6, <4>1
    <3>8. RowShape(G)
      <4>1. ControlsOK  BY DEF Types, ControlsOK
      <4> QED BY <3>6, <4>1, RowShapes
    <3>9. PICK R, n : R = H5!Row(G) /\ n = Len(R)  OBVIOUS
    <3>10. n \in Nat /\ \A i, k \in 1 .. n : R[i][1] = R[k][1] => i = k  BY <3>8, <3>9 DEF RowShape
    <3>11. R[m + 1] = cell /\ m + 1 \in 1 .. n
      <4>1. all = R  BY <1>8, <1>10, <2>2, <3>5, <3>9 DEF CellsShape
      <4> QED BY <1>10, <3>9, <4>1
    <3>12. cell[1] \in DatasetNames(G) /\ DOMAIN file[t][G] = DatasetNames(G)
      <4>1. \A k \in 1 .. n : R[k][1] \in DatasetNames(G)  BY <3>8, <3>9 DEF RowShape
      <4> QED BY <3>1, <3>6, <3>11, <4>1
    <3>13. /\ DOMAIN file'[t][G] = DatasetNames(G)
           /\ file'[t][G][cell[1]] = Append(file[t][G][cell[1]], e)
           /\ \A d \in DatasetNames(G) : d # cell[1] => file'[t][G][d] = file[t][G][d]
      BY <3>7, <3>12
    <3>14. PICK keys : keys = done[t][G]  OBVIOUS
    <3>15. keys \in Seq(Key)  BY <3>6, <3>14 DEF WritingInv, Books, Owners, RowTables
    <3>16. \A k \in 1 .. n : KeysIn(done, t, G, k) = IF k <= m THEN Append(keys, row.key) ELSE keys
      BY <1>3, <1>10, <1>23, <3>5, <3>14 DEF KeysIn
    <3>17. \A k \in 1 .. n : KeysIn(done, t, G, k)' = IF k <= m + 1 THEN Append(keys, row.key) ELSE keys
      <4>1. WritingTo(t, G)'  BY <1>23, <3>5
      <4>2. \A k : KeysIn(done, t, G, k)' = IF WritingTo(t, G)' /\ k <= Put0(t)'
                                            THEN Append(done[t][G], Head(todo[t]).key) ELSE done[t][G]
        BY <1>12 DEF RowKept
      <4> QED BY <1>3, <1>13, <3>14, <4>1, <4>2
    <3>18. ASSUME NEW k \in 1 .. n
           PROVE  file'[t][G][R[k][1]] = Entries(KeysIn(done, t, G, k)', R[k][2])
      <4>1. file[t][G][R[k][1]] = Entries(KeysIn(done, t, G, k), R[k][2])  BY <3>1, <3>6, <3>9
      <4>2. R[k][1] \in DatasetNames(G)  BY <3>8, <3>9 DEF RowShape
      <4>3. CASE k = m + 1
        <5>1. ~ (k <= m) /\ k <= m + 1  BY <1>10, <4>3
        <5>2. KeysIn(done, t, G, k) = keys /\ KeysIn(done, t, G, k)' = Append(keys, row.key)
          BY <3>16, <3>17, <5>1
        <5>3. R[k] = cell  BY <3>11, <4>3
        <5>4. file[t][G][cell[1]] = Entries(keys, cell[2])  BY <4>1, <5>2, <5>3
        <5>5. Append(Entries(keys, cell[2]), <<row.key, cell[2]>>) = Entries(Append(keys, row.key), cell[2])
          BY <1>7, <3>15, EntriesAppend
        <5> QED BY <3>2, <3>13, <5>2, <5>3, <5>4, <5>5
      <4>4. CASE k # m + 1
        <5>1. R[k][1] # cell[1]  BY <3>10, <3>11, <4>4
        <5>2. file'[t][G][R[k][1]] = file[t][G][R[k][1]]  BY <3>13, <4>2, <5>1
        <5>3. (k <= m) <=> (k <= m + 1)  BY <1>10, <3>10, <4>4
        <5>4. KeysIn(done, t, G, k)' = KeysIn(done, t, G, k)  BY <3>16, <3>17, <5>3
        <5> QED BY <4>1, <5>2, <5>4
      <4> QED BY <4>3, <4>4
    <3>19. ASSUME NEW u \in Threads, NEW g \in open
           PROVE  /\ DOMAIN file'[u][g] = DatasetNames(g)
                  /\ \A k \in 1 .. Len(H5!Row(g)) :
                       file'[u][g][H5!Row(g)[k][1]] = Entries(KeysIn(done, u, g, k)', H5!Row(g)[k][2])
      <4>1. CASE u = t /\ g = G  BY <3>9, <3>13, <3>18, <4>1
      <4>2. CASE ~ (u = t /\ g = G)
        <5>1. file'[u][g] = file[u][g]  BY <3>4, <3>7, <4>2
        <5>2. \A k : KeysIn(done, u, g, k)' = KeysIn(done, u, g, k)
          <6>1. CASE u # t  BY <1>22, <6>1
          <6>2. CASE u = t
            <7>1. ~WritingTo(t, g) /\ ~WritingTo(t, g)'  BY <1>23, <3>5, <4>2, <6>2
            <7>2. \A k : KeysIn(done, t, g, k)' = IF WritingTo(t, g)' /\ k <= Put0(t)'
                                                  THEN Append(done[t][g], Head(todo[t]).key) ELSE done[t][g]
              BY <1>12 DEF RowKept
            <7>3. \A k : KeysIn(done, t, g, k) = done[t][g]  BY <7>1 DEF KeysIn
            <7> QED BY <6>2, <7>1, <7>2, <7>3
          <6> QED BY <6>1, <6>2
        <5> QED BY <3>1, <5>1, <5>2
      <4> QED BY <4>1, <4>2
    <3>20. \A u \in Threads : DOMAIN file'[u] = open  BY <3>1, <3>4, <3>7
    <3>21. \A g : H5!Row(g)' = H5!Row(g) /\ H5!Datasets(g)' = H5!Datasets(g)  BY <1>1, RowH5Same
    <3>22. \A g : DatasetNames(g)' = DatasetNames(g)  BY <3>21 DEF DatasetNames
    <3> QED BY <1>1, <2>2, <3>19, <3>20, <3>21, <3>22 DEF Groups, IsAscii
  <2> QED BY <2>1, <2>2
<1>25. Texts(done)'
  <2>1. CASE ~IsAscii
    <3>1. \A f \in DOMAIN lines : f \notin open => lines[f] \in {<<>>, <<<<"earlier">>>>}
      BY DEF WritingInv, Texts
    <3>2. \A f \in DOMAIN lines' : f \notin open' => lines'[f] \in {<<>>, <<<<"earlier">>>>}
      BY <1>1, <1>4, <2>1, <3>1
    <3> QED BY <1>1, <2>1, <3>2 DEF Texts, IsAscii
  <2>2. CASE IsAscii
    <3>0. DOMAIN lines = FileNames  BY SectionNames DEF Types
    <3>1. PICK F : F = row.table  OBVIOUS
    <3>2. F \in FileNames /\ F \in open  BY <1>7, <3>1
    <3>3. /\ lines'[F] = Streamed(lines[F], cell) /\ DOMAIN lines' = FileNames
          /\ \A f \in FileNames : f # F => lines'[f] = lines[f]
      <4>1. lines' = [lines EXCEPT ![F] = Streamed(lines[F], cell)]
        BY <1>4, <2>2, <3>1 DEF PutCells
      <4> QED BY <3>0, <3>2, <4>1
    <3>4. \A f : lines'[f] = lines[f] => \A keys, whole, put : Text(f, keys, whole, put)' = Text(f, keys, whole, put)
      BY <1>1, TextSame
    <3>5. \A f \in DOMAIN lines : f \notin open => lines[f] \in {<<>>, <<<<"earlier">>>>}
      BY DEF WritingInv, Texts
    <3>6. \A f \in DOMAIN lines' : f \notin open' => lines'[f] \in {<<>>, <<<<"earlier">>>>}
      BY <1>1, <3>0, <3>2, <3>3, <3>5
    <3>7. \A f \in open :
            /\ (\A u \in Threads : ~WritingTo(u, f)) => Text(f, done[NoThread][f], Len(done[NoThread][f]), 0)
            /\ \A u \in Threads : WritingTo(u, f) =>
                 Text(f, Append(done[NoThread][f], Head(todo[u]).key), Len(done[NoThread][f]), Put0(u))
      BY <2>2 DEF WritingInv, Texts
    <3>8. ASSUME NEW f \in open, \A u \in Threads : ~WritingTo(u, f)'
          PROVE  Text(f, done[NoThread][f], Len(done[NoThread][f]), 0)'
      <4>1. f # F /\ \A u \in Threads : ~WritingTo(u, f)  BY <1>22, <1>23, <3>1, <3>8
      <4>2. f \in FileNames  BY DEF Types
      <4> QED BY <3>3, <3>4, <3>7, <4>1, <4>2 DEF NoThread
    <3>9. ASSUME NEW f \in open, NEW u \in Threads, WritingTo(u, f)'
          PROVE  TextIs(lines'[f], f, Append(done[NoThread][f], Head(todo[u]).key), Len(done[NoThread][f]), Put0(u)')
      <4>0. f \in FileNames  BY DEF Types
      <4>1. CASE u # t
        <5>1. WritingTo(u, f) /\ Put0(u)' = Put0(u)  BY <1>22, <3>9, <4>1
        <5>2. f # F
          <6>1. CASE f = F
            <7>1. WritingTo(t, f)  BY <1>23, <3>1, <6>1
            <7>2. t = u  BY <2>2, <4>0, <5>1, <7>1, OneWriter
            <7> QED BY <4>1, <7>2
          <6> QED BY <6>1
        <5>3. TextIs(lines[f], f, Append(done[NoThread][f], Head(todo[u]).key), Len(done[NoThread][f]), Put0(u))
          BY <3>7, <5>1 DEF Text
        <5> QED BY <3>3, <4>0, <5>1, <5>2, <5>3
      <4>2. CASE u = t
        <5>1. f = F  BY <1>23, <3>1, <3>9, <4>2
        <5>2. PICK keys, more : keys = done[NoThread][F] /\ more = Append(keys, row.key)  OBVIOUS
        <5>3. keys \in Seq(Key)  BY <3>2, <5>2 DEF WritingInv, Books, Owners
        <5>4. PICK w \in Nat : w = Len(keys)  BY <5>3
        <5>5. more[w + 1] = row.key  BY <1>7, <5>2, <5>3, <5>4
        <5>6. TextIs(lines[F], F, more, w, m)
          <6>1. WritingTo(t, F)  BY <1>23, <3>1
          <6> QED BY <1>3, <1>10, <3>2, <3>7, <5>2, <5>4, <6>1 DEF Text
        <5>7. cell = StepOf(row, m) /\ m < 2 * Len(LinesOf(F))
          <6>1. /\ Len(all) = 2 * Len(LinesOf(F))
                /\ \A i \in 0 .. Len(all) - 1 : all[i + 1] = StepOf(row, i)
            BY <1>8, <1>10, <2>2, <3>1 DEF CellsShape
          <6>2. m \in 0 .. Len(all) - 1  BY <1>10
          <6> QED BY <1>10, <6>1, <6>2
        <5>8. ControlsOK  BY DEF Types, ControlsOK
        <5>9. TextIs(Streamed(lines[F], StepOf(row, m)), F, more, w, m + 1)
          BY <1>10, <3>1, <3>2, <5>5, <5>6, <5>7, <5>8, TextGrows
        <5> QED BY <1>3, <1>13, <3>3, <4>2, <5>1, <5>2, <5>4, <5>7, <5>9
      <4> QED BY <4>1, <4>2
    <3>10. \A f, text, keys, whole, put : TextIs(text, f, keys, whole, put)' = TextIs(text, f, keys, whole, put)
      <4>1. \A f : LinesOf(f)' = LinesOf(f)  BY <1>1, LinesSame
      <4>2. \A f, keys, p : TextAt(f, keys, p)' = TextAt(f, keys, p)  BY <4>1 DEF TextAt, Tagged
      <4> QED BY <4>1, <4>2 DEF TextIs, Content
    <3>11. ASSUME NEW f \in open, NEW u \in Threads, WritingTo(u, f)'
           PROVE  Text(f, Append(done[NoThread][f], Head(todo[u]).key), Len(done[NoThread][f]), Put0(u))'
      BY <1>1, <3>9, <3>10, <3>11 DEF Text
    <3> QED BY <1>1, <2>2, <3>6, <3>8, <3>11 DEF Texts, IsAscii, NoThread
  <2> QED BY <2>1, <2>2
<1> QED BY <1>14, <1>15, <1>16, <1>17, <1>19, <1>20, <1>21, <1>24, <1>25 DEF WritingInv

-----------------------------------------------------------------------------
(* A row is done: the step in which a thread leaves the section it wrote   *)
(* the row in.                                                             *)

Keys == [Owners -> [FileNames -> Seq(Key)]]
Added(done, more, o, f, key) ==
  /\ done \in Keys /\ more \in Keys /\ o \in Owners /\ f \in FileNames /\ key \in Key
  /\ more[o][f] = Append(done[o][f], key)
  /\ \A g \in FileNames : g # f => more[o][g] = done[o][g]
  /\ \A p \in Owners : p # o => more[p] = done[p]
\* The keys with one more.
LEMMA AddedExists ==
  ASSUME NEW done \in Keys, NEW o \in Owners, NEW f \in FileNames, NEW key \in Key
  PROVE  \E more \in Keys : Added(done, more, o, f, key)
<1>1. PICK keys : keys = Append(done[o][f], key)  OBVIOUS
<1>2. done[o] \in [FileNames -> Seq(Key)]  BY DEF Keys
<1>3. keys \in Seq(Key)  BY <1>1, <1>2
<1>4. PICK row : row = [done[o] EXCEPT ![f] = keys]  OBVIOUS
<1>5. row \in [FileNames -> Seq(Key)] /\ row[f] = keys /\ \A g \in FileNames : g # f => row[g] = done[o][g]
  BY <1>2, <1>3, <1>4
<1>6. PICK more : more = [done EXCEPT ![o] = row]  OBVIOUS
<1>7. more \in Keys /\ more[o] = row /\ \A p \in Owners : p # o => more[p] = done[p]
  BY <1>5, <1>6 DEF Keys
<1> QED BY <1>1, <1>5, <1>7 DEF Added

\* What it has more.
LEMMA AddedRange ==
  ASSUME NEW done, NEW more, NEW o, NEW f, NEW key, Added(done, more, o, f, key)
  PROVE  /\ Range(more[o][f]) = Range(done[o][f]) \cup {key}
         /\ \A p \in Owners, g \in FileNames : p # o \/ g # f => more[p][g] = done[p][g]
         /\ \A p \in Owners, g \in FileNames : Range(done[p][g]) \subseteq Range(more[p][g])
         /\ \A p \in Owners, g \in FileNames : \A k \in Range(more[p][g]) :
              k \in Range(done[p][g]) \/ (p = o /\ g = f /\ k = key)
<1>1. PICK keys, longer : keys = done[o][f] /\ longer = more[o][f]  OBVIOUS
<1>2. keys \in Seq(Key) /\ longer = Append(keys, key) /\ key \in Key  BY <1>1 DEF Added, Keys
<1>3. Range(longer) = Range(keys) \cup {key}
  <2>1. PICK n \in Nat : n = Len(keys)  BY <1>2
  <2>2. /\ DOMAIN keys = 1 .. n /\ DOMAIN longer = 1 .. n + 1 /\ longer[n + 1] = key
        /\ \A i \in 1 .. n : longer[i] = keys[i]
    BY <1>2, <2>1
  <2>3. \A i \in 1 .. n + 1 : i \in 1 .. n \/ i = n + 1  BY <2>1
  <2>4. n + 1 \in 1 .. n + 1 /\ \A i \in 1 .. n : i \in 1 .. n + 1  BY <2>1
  <2> QED BY <2>2, <2>3, <2>4 DEF Range
<1>4. \A p \in Owners, g \in FileNames : p # o \/ g # f => more[p][g] = done[p][g]  BY DEF Added
<1> QED BY <1>1, <1>3, <1>4

\* The first of a sequence in which nothing is twice.
LEMMA HeadApart ==
  ASSUME NEW S, NEW s \in Seq(S), s # <<>>
  PROVE  /\ Head(s) \in Range(s) /\ Tail(s) \in Seq(S) /\ Range(Tail(s)) \subseteq Range(s)
         /\ \A x \in Range(s) : x = Head(s) \/ x \in Range(Tail(s))
         /\ IsInjective(s) => Head(s) \notin Range(Tail(s))
<1>1. PICK n \in Nat : n = Len(s)  OBVIOUS
<1>2. n >= 1 /\ DOMAIN s = 1 .. n /\ Tail(s) \in Seq(S) /\ DOMAIN Tail(s) = 1 .. n - 1 /\ Head(s) = s[1]
      /\ \A i \in 1 .. n - 1 : Tail(s)[i] = s[i + 1]
  BY <1>1
<1>3. \A i \in 1 .. n - 1 : i + 1 \in 1 .. n /\ i + 1 # 1  BY <1>1
<1>4. \A i \in 1 .. n : i = 1 \/ (i - 1 \in 1 .. n - 1 /\ (i - 1) + 1 = i)  BY <1>1
<1>5. 1 \in 1 .. n  BY <1>1, <1>2
<1>6. Head(s) \in Range(s)  BY <1>2, <1>5 DEF Range
<1>7. Range(Tail(s)) \subseteq Range(s)  BY <1>2, <1>3 DEF Range
<1>8. ASSUME NEW x \in Range(s) PROVE x = Head(s) \/ x \in Range(Tail(s))
  <2>1. PICK i \in 1 .. n : x = s[i]  BY <1>2 DEF Range
  <2>2. CASE i = 1  BY <1>2, <2>1, <2>2
  <2>3. CASE i # 1
    <3>1. Tail(s)[i - 1] = x /\ i - 1 \in DOMAIN Tail(s)  BY <1>2, <1>4, <2>1, <2>3
    <3> QED BY <3>1 DEF Range
  <2> QED BY <2>2, <2>3
<1>9. ASSUME IsInjective(s), Head(s) \in Range(Tail(s)) PROVE FALSE
  <2>1. PICK i \in 1 .. n - 1 : s[i + 1] = s[1]  BY <1>2, <1>9 DEF Range
  <2>2. i + 1 \in DOMAIN s /\ 1 \in DOMAIN s /\ i + 1 # 1  BY <1>2, <1>3, <1>5
  <2> QED BY <1>9, <2>1, <2>2 DEF IsInjective
<1> QED BY <1>2, <1>6, <1>7, <1>8, <1>9

\* What is left of a sequence in which nothing is twice.
LEMMA FromInjective ==
  ASSUME NEW S, NEW s \in Seq(S), NEW m \in Nat, m <= Len(s), IsInjective(s)
  PROVE  IsInjective(From(s, m))
<1>1. PICK n \in Nat : n = Len(s)  OBVIOUS
<1>2. DOMAIN s = 1 .. n /\ DOMAIN From(s, m) = 1 .. n - m /\ \A i \in 1 .. n - m : From(s, m)[i] = s[m + i]
  BY <1>1 DEF From
<1>3. \A i \in 1 .. n - m : m + i \in 1 .. n  BY <1>1
<1>4. \A i, k \in 1 .. n - m : m + i = m + k => i = k  BY <1>1
<1>5. \A i, j \in 1 .. n : s[i] = s[j] => i = j  BY <1>2 DEF IsInjective
<1>6. \A i, j \in 1 .. n - m : From(s, m)[i] = From(s, m)[j] => i = j  BY <1>2, <1>3, <1>4, <1>5
<1> QED BY <1>2, <1>6 DEF IsInjective

\* The elements of a sequence of rows.
LEMMA RowsIn ==
  ASSUME NEW s \in Seq(KeyedRow), NEW r \in Range(s)
  PROVE  r \in KeyedRow /\ r.table \in FileNames /\ r.key \in Key
<1>1. r \in KeyedRow  BY DEF Range
<1> QED BY <1>1 DEF KeyedRow

Leaving(done, t, row, trial, k) ==
  /\ todo[t] # <<>> /\ row = Head(todo[t]) /\ pc[t] = "writing" /\ phase = "running"
  /\ trial \in 0 .. next - 1 /\ trial \in Trials /\ k \in Nat /\ k < Len(Rows(trial)) /\ row = Rows(trial)[k + 1]
  /\ todo[t] = From(Rows(trial), k) /\ Rows(trial) \in Seq(KeyedRow) /\ Len(Rows(trial)) \in Nat
  /\ \A j \in 1 .. k : Rows(trial)[j].key \in Range(done[Owner(t)][Rows(trial)[j].table])
  /\ IsInjective(todo[t]) /\ row \in Range(Rows(trial))
  /\ row \in KeyedRow /\ row.table \in FileNames /\ row.table \in open /\ row.key \in Key /\ row.key[1] = trial
  /\ ~IsAscii => row.table \in RowTables
\* Where the thread is that leaves.
LEMMA LeavingThread ==
  ASSUME NEW done, Holds(done), NEW t \in Threads, Leave(t)
  PROVE  \E row, trial, k : Leaving(done, t, row, trial, k)
<1>1. pc[t] = "writing"  BY DEF Leave
<1>2. todo[t] # <<>>  BY <1>1 DEF Holds, Exclusion
<1>3. PICK trial \in 0 .. next - 1, k \in Nat :
        /\ k < Len(Rows(trial)) /\ todo[t] = From(Rows(trial), k)
        /\ \A j \in 1 .. k : Rows(trial)[j].key \in Range(done[Owner(t)][Rows(trial)[j].table])
  BY <1>2 DEF Holds, WritingInv, InPlace
<1>4. trial \in Trials  BY <1>3 DEF Holds, Types
<1>5. PICK s : s = Rows(trial)  OBVIOUS
<1>6. s \in Seq(KeyedRow) /\ IsInjective(s)  BY <1>4, <1>5, RowsElements
<1>7. Len(s) \in Nat /\ DOMAIN s = 1 .. Len(s)  BY <1>6
<1>8. k <= Len(s) /\ k + 1 \in 1 .. Len(s)  BY <1>3, <1>5, <1>7
<1>9. Head(From(s, k)) = s[k + 1]  BY <1>3, <1>5, <1>6, <1>8, FromSteps
<1>10. IsInjective(From(s, k))  BY <1>3, <1>6, <1>8, FromInjective
<1>11. s[k + 1] \in Range(s)  BY <1>7, <1>8 DEF Range
<1>12. phase = "running"  BY <1>2, HeadRow
<1>13. RowOfTrial(trial, s[k + 1])  BY <1>4, <1>5, <1>11, <1>12, RowsOpen DEF Holds
<1>14. PICK row : row = s[k + 1]  OBVIOUS
<1>15. Leaving(done, t, row, trial, k)
  BY <1>1, <1>2, <1>3, <1>4, <1>5, <1>6, <1>7, <1>9, <1>10, <1>11, <1>12, <1>13, <1>14 DEF Leaving, RowOfTrial
<1> QED BY <1>15

LeftRow(t, row) ==
  /\ row = Head(todo[t]) /\ todo' = [todo EXCEPT ![t] = Tail(@)] /\ UNCHANGED <<controls, open, next>>
\* The row that is done goes from what is to be written to what has been.
LEMMA LeaveBooks ==
  ASSUME NEW done, Types, Books(done), NEW t \in Threads, NEW row, NEW trial, NEW k, Leaving(done, t, row, trial, k),
         LeftRow(t, row), NEW more, Added(done, more, Owner(t), row.table, row.key)
  PROVE  Books(more)'
<1>1. /\ \A p \in Owners, g \in FileNames : p # Owner(t) \/ g # row.table => more[p][g] = done[p][g]
      /\ \A p \in Owners, g \in FileNames : Range(done[p][g]) \subseteq Range(more[p][g])
      /\ \A p \in Owners, g \in FileNames : \A x \in Range(more[p][g]) :
           x \in Range(done[p][g]) \/ (p = Owner(t) /\ g = row.table /\ x = row.key)
      /\ Range(more[Owner(t)][row.table]) = Range(done[Owner(t)][row.table]) \cup {row.key}
  BY AddedRange
<1>2. PICK o, f, key : o = Owner(t) /\ f = row.table /\ key = row.key  OBVIOUS
<1>3. /\ done \in Keys /\ more \in Keys /\ o \in Owners /\ f \in FileNames /\ key \in Key
      /\ more[o][f] = Append(done[o][f], key) /\ \A p \in Owners : p # o => more[p] = done[p]
  BY <1>2 DEF Added
<1>4. /\ todo \in [Threads -> Seq(KeyedRow)] /\ todo[t] # <<>> /\ row = Head(todo[t]) /\ IsInjective(todo[t])
      /\ trial \in 0 .. next - 1 /\ row \in Range(Rows(trial)) /\ row \in KeyedRow /\ key[1] = trial
  BY <1>2 DEF Types, Leaving
<1>5. todo[t] \in Seq(KeyedRow)  BY <1>4
<1>6. /\ row \in Range(todo[t]) /\ Range(Tail(todo[t])) \subseteq Range(todo[t]) /\ row \notin Range(Tail(todo[t]))
      /\ \A x \in Range(todo[t]) : x = row \/ x \in Range(Tail(todo[t]))
  BY <1>4, <1>5, HeadApart
<1>7. todo'[t] = Tail(todo[t]) /\ \A u \in Threads : u # t => todo'[u] = todo[u]
  BY <1>4 DEF LeftRow
<1>8. \A u \in Threads : Range(todo'[u]) \subseteq Range(todo[u])  BY <1>6, <1>7
<1>9. /\ \A u \in Threads, p \in Owners : \A r \in Range(todo[u]) : r.key \notin Range(done[p][r.table])
      /\ \A u, v \in Threads : u # v => Range(todo[u]) \cap Range(todo[v]) = {}
  BY DEF Books
<1>10. \A p \in Owners : key \notin Range(done[p][f])  BY <1>2, <1>6, <1>9
<1>11. \A p \in Owners, g \in FileNames : IsInjective(more[p][g])
  <2> SUFFICES ASSUME NEW p \in Owners, NEW g \in FileNames PROVE IsInjective(more[p][g])
    OBVIOUS
  <2>1. IsInjective(done[p][g])  BY DEF Books
  <2>2. CASE p = o /\ g = f
    <3>1. PICK keys, longer : keys = done[o][f] /\ longer = Append(keys, key)  OBVIOUS
    <3>2. keys \in Seq(Key) /\ IsInjective(keys) /\ key \notin Range(keys)
      BY <1>3, <1>10, <2>1, <2>2, <3>1 DEF Keys
    <3>3. PICK n \in Nat : n = Len(keys)  BY <3>2
    <3>4. /\ DOMAIN keys = 1 .. n /\ DOMAIN longer = 1 .. n + 1 /\ longer[n + 1] = key
          /\ \A i \in 1 .. n : longer[i] = keys[i]
      BY <1>3, <3>1, <3>2, <3>3
    <3>5. \A i \in 1 .. n + 1 : i \in 1 .. n \/ i = n + 1  BY <3>3
    <3>6. \A i \in 1 .. n : keys[i] # key  BY <3>2, <3>4 DEF Range
    <3>7. \A i, j \in 1 .. n : keys[i] = keys[j] => i = j  BY <3>2, <3>4 DEF IsInjective
    <3>8. IsInjective(longer)  BY <3>4, <3>5, <3>6, <3>7 DEF IsInjective
    <3> QED BY <1>3, <2>2, <3>1, <3>8
  <2>3. CASE ~ (p = o /\ g = f)  BY <1>1, <1>2, <2>1, <2>3
  <2> QED BY <2>2, <2>3
<1>12. ASSUME NEW p \in Owners, NEW q \in Owners, NEW g \in FileNames, p # q
       PROVE  Range(more[p][g]) \cap Range(more[q][g]) = {}
  <2>1. Range(done[p][g]) \cap Range(done[q][g]) = {}  BY <1>12 DEF Books
  <2>2. \A x \in Range(more[p][g]) : x \in Range(done[p][g]) \/ (p = o /\ g = f /\ x = key)
    BY <1>1, <1>2
  <2>3. \A x \in Range(more[q][g]) : x \in Range(done[q][g]) \/ (q = o /\ g = f /\ x = key)
    BY <1>1, <1>2
  <2> QED BY <1>10, <1>12, <2>1, <2>2, <2>3
<1>13. ASSUME NEW u \in Threads, NEW p \in Owners, NEW r \in Range(todo'[u])
       PROVE  r.key \notin Range(more[p][r.table])
  <2>1. r \in Range(todo[u]) /\ todo[u] \in Seq(KeyedRow)  BY <1>4, <1>8
  <2>2. r \in KeyedRow /\ r.table \in FileNames  BY <2>1, RowsIn
  <2>3. r.key \notin Range(done[p][r.table])  BY <1>9, <2>1
  <2>4. r # row
    <3>1. CASE u = t  BY <1>6, <1>7, <3>1
    <3>2. CASE u # t  BY <1>6, <1>9, <2>1, <3>2
    <3> QED BY <3>1, <3>2
  <2>5. ~ (r.table = f /\ r.key = key)  BY <1>2, <1>4, <2>2, <2>4, SameRow
  <2>6. \A x \in Range(more[p][r.table]) : x \in Range(done[p][r.table]) \/ (p = o /\ r.table = f /\ x = key)
    BY <1>1, <1>2, <2>2
  <2> QED BY <2>3, <2>5, <2>6
<1>14. \A u, v \in Threads : u # v => Range(todo'[u]) \cap Range(todo'[v]) = {}  BY <1>8, <1>9
<1>15. ASSUME NEW p \in Owners, NEW g \in FileNames, NEW x \in Range(more[p][g])
       PROVE  x[1] < next /\ [table |-> g, key |-> x] \in Range(Rows(x[1]))
  <2>1. CASE x \in Range(done[p][g])  BY <2>1 DEF Books
  <2>2. CASE g = f /\ x = key
    <3>1. trial < next
      <4>1. next \in Nat  BY DEF Types
      <4> QED BY <1>4, <4>1
    <3>2. [table |-> f, key |-> key] = row  BY <1>2, <1>4 DEF KeyedRow
    <3> QED BY <1>4, <2>2, <3>1, <3>2
  <2> QED BY <1>1, <1>2, <2>1, <2>2
<1>16. ASSUME NEW tr \in 0 .. next - 1, NEW r \in Range(Rows(tr))
       PROVE  \/ \E u \in Threads : r \in Range(todo'[u])
              \/ \E p \in Owners : r.key \in Range(more[p][r.table])
  <2>0. r.table \in FileNames
    <3>1. tr \in Trials  BY DEF Types
    <3>2. Rows(tr) \in Seq(KeyedRow)  BY <3>1, RowsElements
    <3> QED BY <3>2, RowsIn
  <2>1. \/ \E u \in Threads : r \in Range(todo[u])
        \/ \E p \in Owners : r.key \in Range(done[p][r.table])
    BY DEF Books
  <2>2. CASE \E p \in Owners : r.key \in Range(done[p][r.table])  BY <1>1, <2>0, <2>2
  <2>3. CASE r = row
    <3>1. key \in Range(more[o][f])  BY <1>1, <1>2
    <3> QED BY <1>2, <1>3, <2>3, <3>1
  <2>4. CASE r # row /\ \E u \in Threads : r \in Range(todo[u])  BY <1>6, <1>7, <2>4
  <2> QED BY <2>1, <2>2, <2>3, <2>4
<1>17. \A p \in Owners : IsAscii => (p # NoThread => more[p] = [g \in FileNames |-> <<>>])
  BY <1>2, <1>3 DEF Owner, Books
<1>18. ~IsAscii => more[NoThread] = [g \in FileNames |-> <<>>]
  BY <1>2, <1>3, ThreadNumbers DEF Owner, Owners, Books
<1>19. (\A tr : Rows(tr)' = Rows(tr)) /\ UNCHANGED <<controls, open, next>>  BY RowsSame DEF LeftRow
<1>20. Owners' = Owners /\ (IsAscii' <=> IsAscii) /\ NoThread' = NoThread
  BY <1>19 DEF Owners, NoThread, IsAscii
<1> QED BY <1>3, <1>11, <1>12, <1>13, <1>14, <1>15, <1>16, <1>17, <1>18, <1>19, <1>20 DEF Books, Keys

\* The thread has written one row more of its trial, the others are where they were.
LEMMA LeaveInPlace ==
  ASSUME NEW done, Types, InPlace(done), NEW t \in Threads, NEW row, NEW trial, NEW k, Leaving(done, t, row, trial, k),
         LeftRow(t, row), NEW more, Added(done, more, Owner(t), row.table, row.key)
  PROVE  InPlace(more)'
<1>1. /\ \A p \in Owners, g \in FileNames : Range(done[p][g]) \subseteq Range(more[p][g])
      /\ Range(more[Owner(t)][row.table]) = Range(done[Owner(t)][row.table]) \cup {row.key}
  BY AddedRange
<1>2. todo \in [Threads -> Seq(KeyedRow)] /\ next \in Nat /\ 0 .. next - 1 \subseteq Trials
  BY DEF Types
<1>3. todo'[t] = Tail(todo[t]) /\ \A u \in Threads : u # t => todo'[u] = todo[u]
  BY <1>2 DEF LeftRow
<1>4. (\A tr : Rows(tr)' = Rows(tr)) /\ (\A u : Owner(u)' = Owner(u)) /\ next' = next
  BY RowsSame DEF LeftRow, Owner, IsAscii, NoThread
<1>5. \A u \in Threads : Owner(u) \in Owners  BY DEF Owner, Owners
<1>6. ASSUME NEW u \in Threads, todo'[u] # <<>>
      PROVE  \E tr \in 0 .. next - 1, m \in Nat :
               /\ m < Len(Rows(tr)) /\ todo'[u] = From(Rows(tr), m)
               /\ \A j \in 1 .. m : Rows(tr)[j].key \in Range(more[Owner(u)][Rows(tr)[j].table])
  <2>1. CASE u = t
    <3>1. PICK s : s = Rows(trial)  OBVIOUS
    <3>2. /\ s \in Seq(KeyedRow) /\ k \in Nat /\ k < Len(s) /\ row = s[k + 1] /\ todo[t] = From(s, k) /\ Len(s) \in Nat
          /\ \A j \in 1 .. k : s[j].key \in Range(done[Owner(t)][s[j].table])
          /\ trial \in 0 .. next - 1
      BY <3>1 DEF Leaving
    <3>3. k <= Len(s) /\ k + 1 <= Len(s) /\ k + 1 \in Nat  BY <3>2
    <3>4. Tail(From(s, k)) = From(s, k + 1)  BY <3>2, <3>3, FromSteps
    <3>5. From(s, k + 1) # <<>>  BY <1>3, <1>6, <2>1, <3>2, <3>4
    <3>6. k + 1 # Len(s)  BY <3>2, <3>3, <3>5, FromSteps
    <3>7. k + 1 < Len(s)  BY <3>2, <3>3, <3>6
    <3>8. ASSUME NEW j \in 1 .. k + 1 PROVE s[j].key \in Range(more[Owner(t)][s[j].table])
      <4>1. CASE j = k + 1  BY <1>1, <3>2, <4>1
      <4>2. CASE j # k + 1
        <5>1. j \in 1 .. k  BY <3>2, <4>2
        <5>2. j \in DOMAIN s  BY <3>2, <3>3
        <5>3. s[j].table \in FileNames
          <6>1. s[j] \in Range(s)  BY <5>2 DEF Range
          <6> QED BY <3>2, <6>1, RowsIn
        <5> QED BY <1>1, <1>5, <3>2, <5>1, <5>3
      <4> QED BY <4>1, <4>2
    <3>9. k + 1 < Len(Rows(trial)) /\ todo'[u] = From(Rows(trial), k + 1)
      BY <1>3, <2>1, <3>1, <3>2, <3>4, <3>7
    <3>10. \A j \in 1 .. k + 1 : Rows(trial)[j].key \in Range(more[Owner(u)][Rows(trial)[j].table])
      BY <2>1, <3>1, <3>8
    <3> QED BY <3>2, <3>3, <3>9, <3>10
  <2>2. CASE u # t
    <3>1. todo'[u] = todo[u] /\ todo[u] # <<>>  BY <1>3, <1>6, <2>2
    <3>2. PICK tr \in 0 .. next - 1, m \in Nat :
            /\ m < Len(Rows(tr)) /\ todo[u] = From(Rows(tr), m)
            /\ \A j \in 1 .. m : Rows(tr)[j].key \in Range(done[Owner(u)][Rows(tr)[j].table])
      BY <3>1 DEF InPlace
    <3>3. ASSUME NEW j \in 1 .. m PROVE Rows(tr)[j].key \in Range(more[Owner(u)][Rows(tr)[j].table])
      <4>1. PICK s : s = Rows(tr)  OBVIOUS
      <4>2. tr \in Trials  BY <1>2
      <4>3. s \in Seq(KeyedRow)  BY <4>1, <4>2, RowsElements
      <4>4. j \in DOMAIN s
        <5>1. m < Len(s) /\ DOMAIN s = 1 .. Len(s) /\ Len(s) \in Nat  BY <3>2, <4>1, <4>3
        <5> QED BY <3>2, <5>1
      <4>5. s[j].table \in FileNames
        <5>1. s[j] \in Range(s)  BY <4>4 DEF Range
        <5> QED BY <4>3, <5>1, RowsIn
      <4> QED BY <1>1, <1>5, <3>2, <4>1, <4>5
    <3> QED BY <3>1, <3>2, <3>3
  <2> QED BY <2>1, <2>2
<1> QED BY <1>4, <1>6 DEF InPlace

Left(t) ==
  /\ pc' = [pc EXCEPT ![t] = "free"] /\ UNCHANGED <<phase, cells, lines, file, maxTrial, merged, toOpen>>
\* What the threads write after one has left.
LEMMA LeftThreads ==
  ASSUME Types, NEW t \in Threads, NEW row, LeftRow(t, row), Left(t)
  PROVE  /\ pc'[t] = "free" /\ \A f : ~WritingTo(t, f)'
         /\ \A u \in Threads : u # t => /\ pc'[u] = pc[u] /\ todo'[u] = todo[u] /\ cells'[u] = cells[u]
                                        /\ Put0(u)' = Put0(u) /\ \A f : WritingTo(u, f)' = WritingTo(u, f)
         /\ \A done, g, k : KeysIn(done, t, g, k)' = done[t][g]
         /\ \A done, u, g, k : u \in Threads /\ u # t => KeysIn(done, u, g, k)' = KeysIn(done, u, g, k)
<1>1. todo \in [Threads -> Seq(KeyedRow)] /\ pc \in [Threads -> {"free", "computing", "writing"}]
  BY DEF Types
<1>2. pc'[t] = "free" /\ \A u \in Threads : u # t => pc'[u] = pc[u] /\ todo'[u] = todo[u] /\ cells'[u] = cells[u]
  BY <1>1 DEF LeftRow, Left
<1>3. \A f : ~WritingTo(t, f)'  BY <1>2 DEF WritingTo
<1>4. \A done, g, k : KeysIn(done, t, g, k)' = done[t][g]  BY <1>3 DEF KeysIn
<1>5. UNCHANGED controls  BY DEF LeftRow
<1> QED BY <1>2, <1>3, <1>4, <1>5, ThreadSame

\* With HDF5 output the row is in its group, whole.
LEMMA LeaveGroups ==
  ASSUME NEW done, Types, Groups(done), NEW t \in Threads, NEW row, NEW trial, NEW k, Leaving(done, t, row, trial, k),
         LeftRow(t, row), Left(t), Put0(t) = Len(Cells(row)), CellsShape(row),
         NEW more, Added(done, more, Owner(t), row.table, row.key)
  PROVE  Groups(more)'
<1>1. UNCHANGED <<controls, open, file>>  BY DEF LeftRow, Left
<1>2. CASE IsAscii  BY <1>1, <1>2 DEF Groups, IsAscii
<1>3. CASE ~IsAscii
  <2>1. open \subseteq RowTables /\ RowTables \subseteq FileNames  BY <1>3 DEF Types, RowTables
  <2>2. Owner(t) = t /\ row = Head(todo[t]) /\ pc[t] = "writing"  BY <1>3 DEF Owner, Leaving
  <2>3. more[t][row.table] = Append(done[t][row.table], row.key)  BY <2>2 DEF Added
  <2>4. \A u \in Threads, g \in FileNames : u # t \/ g # row.table => more[u][g] = done[u][g]
    BY <2>2, AddedRange DEF Owners
  <2>5. ASSUME NEW u \in Threads, NEW g \in open, NEW i \in 1 .. Len(H5!Row(g))
        PROVE  KeysIn(more, u, g, i)' = KeysIn(done, u, g, i)
    <3>0. g \in FileNames  BY <2>1
    <3>1. CASE u # t
      <4>1. more[u] = done[u]  BY <2>2, <3>1 DEF Added, Owners
      <4>2. KeysIn(more, u, g, i) = KeysIn(done, u, g, i)  BY <4>1 DEF KeysIn
      <4> QED BY <3>1, <4>2, LeftThreads
    <3>2. CASE u = t /\ g = row.table
      <4>1. i <= Put0(t)
        <5>1. PICK n : n = Len(H5!Row(g))  OBVIOUS
        <5>2. n = Len(Cells(row)) /\ n \in Nat  BY <1>3, <3>2, <5>1 DEF CellsShape
        <5> QED BY <5>1, <5>2
      <4>2. WritingTo(t, g)  BY <2>2, <3>2 DEF WritingTo
      <4>3. KeysIn(done, t, g, i) = Append(done[t][g], row.key)  BY <2>2, <4>1, <4>2 DEF KeysIn
      <4> QED BY <2>3, <3>2, <4>3, LeftThreads
    <3>3. CASE u = t /\ g # row.table
      <4>1. ~WritingTo(t, g)  BY <2>2, <3>3 DEF WritingTo
      <4>2. KeysIn(done, t, g, i) = done[t][g]  BY <4>1 DEF KeysIn
      <4> QED BY <2>4, <3>0, <3>3, <4>2, LeftThreads
    <3> QED BY <3>1, <3>2, <3>3
  <2>6. /\ \A u \in Threads : DOMAIN file[u] = open
        /\ \A u \in Threads, g \in open :
             /\ DOMAIN file[u][g] = DatasetNames(g)
             /\ \A i \in 1 .. Len(H5!Row(g)) :
                  file[u][g][H5!Row(g)[i][1]] = Entries(KeysIn(done, u, g, i), H5!Row(g)[i][2])
    BY <1>3 DEF Groups
  <2>7. \A g : H5!Row(g)' = H5!Row(g) /\ H5!Datasets(g)' = H5!Datasets(g)  BY <1>1, RowH5Same
  <2>8. \A g : DatasetNames(g)' = DatasetNames(g)  BY <2>7 DEF DatasetNames
  <2> QED BY <1>1, <1>3, <2>5, <2>6, <2>7, <2>8 DEF Groups, IsAscii
<1> QED BY <1>2, <1>3

\* The keys of the entries.
LEMMA EntriesKeys ==
  ASSUME NEW K, NEW keys \in Seq(K), NEW w
  PROVE  {Entries(keys, w)[i][1] : i \in DOMAIN Entries(keys, w)} = Range(keys)
<1>1. PICK n \in Nat : n = Len(keys)  OBVIOUS
<1>2. DOMAIN keys = 1 .. n /\ DOMAIN Entries(keys, w) = 1 .. n /\ \A i \in 1 .. n : Entries(keys, w)[i][1] = keys[i]
  BY <1>1 DEF Entries
<1> QED BY <1>2 DEF Range

\* A cluster's row is safe before the section is left.
LEMMA LeaveSafe ==
  ASSUME NEW done, Types, Groups(done), Safe(done), NEW t \in Threads, NEW row, NEW trial, NEW k,
         Leaving(done, t, row, trial, k), LeftRow(t, row), flushed' = Flush(t), Put0(t) = Len(Cells(row)), CellsShape(row),
         NEW more, Added(done, more, Owner(t), row.table, row.key)
  PROVE  Safe(more)'
<1>1. UNCHANGED controls /\ DOMAIN flushed = Threads  BY DEF LeftRow, Types
<1>2. CASE IsAscii  BY <1>1, <1>2 DEF Safe, IsAscii
<1>3. CASE ~IsAscii
  <2>1. Owner(t) = t /\ row = Head(todo[t]) /\ pc[t] = "writing" /\ row.table \in open /\ row.table \in RowTables
    BY <1>3 DEF Owner, Leaving
  <2>2. "clusters" \in FileNames  BY DEF FileNames
  <2>3. \A u \in Threads : u # t \/ "clusters" # row.table => more[u]["clusters"] = done[u]["clusters"]
    BY <2>1, <2>2, AddedRange DEF Owners
  <2>4. \A u \in Threads : Range(done[u]["clusters"]) \subseteq flushed[u]  BY <1>3 DEF Safe
  <2>5. CASE row.table # "clusters"
    <3>1. flushed' = flushed  BY <2>1, <2>5 DEF Flush
    <3> QED BY <1>1, <1>3, <2>3, <2>4, <2>5, <3>1 DEF Safe, IsAscii
  <2>6. CASE row.table = "clusters"
    <3>1. PICK uid : uid = file[t]["clusters"]["uid"]  OBVIOUS
    <3>2. flushed' = [flushed EXCEPT ![t] = flushed[t] \cup {uid[i][1] : i \in DOMAIN uid}]
      BY <1>3, <2>1, <2>6, <3>1 DEF Flush
    <3>3. ControlsOK  BY DEF Types, ControlsOK
    <3>4. RowShape("clusters")  BY <2>1, <2>6, <3>3, RowShapes
    <3>5. PICK j \in 1 .. Len(H5!Row("clusters")) : H5!Row("clusters")[j][1] = "uid"
      BY <3>4 DEF RowShape
    <3>6. PICK w : uid = Entries(KeysIn(done, t, "clusters", j), w)
      BY <1>3, <2>1, <2>6, <3>1, <3>5 DEF Groups
    <3>7. j <= Put0(t)
      <4>1. PICK n : n = Len(H5!Row("clusters"))  OBVIOUS
      <4>2. n = Len(Cells(row)) /\ n \in Nat  BY <1>3, <2>6, <4>1 DEF CellsShape
      <4> QED BY <3>5, <4>1, <4>2
    <3>8. KeysIn(done, t, "clusters", j) = more[t]["clusters"]
      <4>1. WritingTo(t, "clusters")  BY <2>1, <2>6 DEF WritingTo
      <4>2. more[t]["clusters"] = Append(done[t]["clusters"], row.key)  BY <2>1, <2>6 DEF Added
      <4> QED BY <2>1, <3>7, <4>1, <4>2 DEF KeysIn
    <3>9. more[t]["clusters"] \in Seq(Key)  BY <2>1, <2>2 DEF Added, Keys, Owners
    <3>10. {uid[i][1] : i \in DOMAIN uid} = Range(more[t]["clusters"])
      BY <3>6, <3>8, <3>9, EntriesKeys
    <3>11. flushed'[t] = flushed[t] \cup Range(more[t]["clusters"]) /\ \A u \in Threads : u # t => flushed'[u] = flushed[u]
      BY <1>1, <3>2, <3>10
    <3>12. \A u \in Threads : Range(more[u]["clusters"]) \subseteq flushed'[u]  BY <2>3, <2>4, <3>11
    <3> QED BY <3>12 DEF Safe
  <2> QED BY <2>5, <2>6
<1> QED BY <1>2, <1>3

\* The largest trial of which a row has been begun is as it was: the row that was being
\* written has been.
LEMMA LeaveLargest ==
  ASSUME NEW done, Types, LargestSeen(done), NEW t \in Threads, NEW row, NEW trial, NEW k,
         Leaving(done, t, row, trial, k), LeftRow(t, row), Left(t),
         NEW more, Added(done, more, Owner(t), row.table, row.key)
  PROVE  LargestSeen(more)'
<1> DEFINE A == {key[1] : key \in UNION {Range(done[o][f]) : o \in Owners, f \in FileNames}}
           A2 == {key[1] : key \in UNION {Range(more[o][f]) : o \in Owners, f \in FileNames}}
           B == {Head(todo[u]).key[1] : u \in {v \in Threads : pc[v] = "writing"}}
           B2 == {Head(todo'[u]).key[1] : u \in {v \in Threads : pc'[v] = "writing"}}
<1>1. UNCHANGED <<controls, maxTrial>>  BY DEF LeftRow, Left
<1>2. TrialsSeen(done) = A \cup B  BY DEF TrialsSeen
<1>3. TrialsSeen(more)' = A2 \cup B2  BY <1>1 DEF TrialsSeen, Owners, NoThread
<1>4. PICK n : n = row.key[1]  OBVIOUS
<1>5. /\ Owner(t) \in Owners /\ row.table \in FileNames
      /\ \A p \in Owners, g \in FileNames : Range(done[p][g]) \subseteq Range(more[p][g])
      /\ \A p \in Owners, g \in FileNames : \A x \in Range(more[p][g]) : x \in Range(done[p][g]) \/ x = row.key
      /\ row.key \in Range(more[Owner(t)][row.table])
  <2>1. Owner(t) \in Owners /\ row.table \in FileNames  BY DEF Added
  <2> QED BY <2>1, AddedRange
<1>6. A2 = A \cup {n}
  <2>1. \A x \in A2 : x \in A \cup {n}  BY <1>4, <1>5
  <2>2. A \subseteq A2  BY <1>5
  <2>3. n \in A2  BY <1>4, <1>5
  <2> HIDE DEF A, A2
  <2> QED BY <2>1, <2>2, <2>3
<1>7. pc[t] = "writing" /\ Head(todo[t]) = row  BY DEF Leaving
<1>8. pc'[t] = "free" /\ \A u \in Threads : u # t => pc'[u] = pc[u] /\ todo'[u] = todo[u]
  BY LeftThreads
<1>9. B = B2 \cup {n}
  <2>1. \A x \in B : x \in B2 \/ x = n  BY <1>4, <1>7, <1>8
  <2>2. \A x \in B2 : x \in B  BY <1>8
  <2>3. n \in B  BY <1>4, <1>7
  <2> QED BY <2>1, <2>2, <2>3
<1>10. TrialsSeen(more)' = TrialsSeen(done)
  <2> HIDE DEF A, A2, B, B2
  <2> QED BY <1>2, <1>3, <1>6, <1>9
<1> QED BY <1>1, <1>10 DEF LargestSeen, IsAscii

\* With ascii output the row's lines are in their file, whole.
LEMMA LeaveTexts ==
  ASSUME NEW done, Types, Exclusion, Texts(done), NEW t \in Threads, NEW row, NEW trial, NEW k,
         Leaving(done, t, row, trial, k), LeftRow(t, row), Left(t), Put0(t) = Len(Cells(row)), CellsShape(row),
         NEW more, Added(done, more, Owner(t), row.table, row.key)
  PROVE  Texts(more)'
<1>1. UNCHANGED <<controls, open, lines>>  BY DEF LeftRow, Left
<1>2. \A f \in DOMAIN lines : f \notin open => lines[f] \in {<<>>, <<<<"earlier">>>>}  BY DEF Texts
<1>3. CASE ~IsAscii  BY <1>1, <1>2, <1>3 DEF Texts, IsAscii
<1>4. CASE IsAscii
  <2>1. Owner(t) = NoThread /\ NoThread \in Owners /\ row = Head(todo[t]) /\ pc[t] = "writing" /\ open \subseteq FileNames
    BY <1>4 DEF Owner, Owners, Leaving, Types
  <2>2. more[NoThread][row.table] = Append(done[NoThread][row.table], row.key) /\ done \in Keys
    BY <2>1 DEF Added
  <2>3. \A g \in FileNames : g # row.table => more[NoThread][g] = done[NoThread][g]
    BY <2>1 DEF Added
  <2>4. \A f, keys, whole, put : Text(f, keys, whole, put)' = Text(f, keys, whole, put)
    BY <1>1, TextSame
  <2>5. ASSUME NEW f \in open
        PROVE  /\ (\A u \in Threads : ~WritingTo(u, f)') => Text(f, more[NoThread][f], Len(more[NoThread][f]), 0)
               /\ \A u \in Threads : WritingTo(u, f)' =>
                    Text(f, Append(more[NoThread][f], Head(todo'[u]).key), Len(more[NoThread][f]), Put0(u)')
    <3>0. f \in FileNames  BY <2>1
    <3>1. /\ (\A u \in Threads : ~WritingTo(u, f)) => Text(f, done[NoThread][f], Len(done[NoThread][f]), 0)
          /\ \A u \in Threads : WritingTo(u, f) =>
               Text(f, Append(done[NoThread][f], Head(todo[u]).key), Len(done[NoThread][f]), Put0(u))
      BY <1>4 DEF Texts
    <3>2. CASE f = row.table
      <4>1. WritingTo(t, f)  BY <2>1, <3>2 DEF WritingTo
      <4>2. \A u \in Threads : WritingTo(u, f) => u = t  BY <1>4, <3>0, <4>1, OneWriter
      <4>3. \A u \in Threads : ~WritingTo(u, f)'  BY <4>2, LeftThreads
      <4>4. PICK keys, longer : keys = done[NoThread][f] /\ longer = more[NoThread][f]  OBVIOUS
      <4>5. keys \in Seq(Key) /\ longer = Append(keys, row.key)
        BY <2>1, <2>2, <3>0, <3>2, <4>4 DEF Keys
      <4>6. PICK w \in Nat : w = Len(keys)  BY <4>5
      <4>7. Len(longer) = w + 1  BY <4>5, <4>6
      <4>8. Text(f, longer, w, Put0(t))  BY <2>1, <3>1, <4>1, <4>4, <4>5, <4>6
      <4>9. Put0(t) = 2 * Len(LinesOf(f))  BY <1>4, <3>2 DEF CellsShape
      <4>10. TextIs(lines[f], f, longer, w, 2 * Len(LinesOf(f)))  BY <4>8, <4>9 DEF Text
      <4>11. ControlsOK  BY DEF Types, ControlsOK
      <4>12. TextIs(lines[f], f, longer, Len(longer), 0)  BY <3>0, <4>7, <4>10, <4>11, TextFinished
      <4> QED BY <4>3, <4>4, <4>12 DEF Text
    <3>3. CASE f # row.table
      <4>1. ~WritingTo(t, f) /\ ~WritingTo(t, f)' /\ more[NoThread][f] = done[NoThread][f]
        BY <2>1, <2>3, <3>0, <3>3, LeftThreads DEF WritingTo
      <4>2. \A u \in Threads : u # t => (WritingTo(u, f)' <=> WritingTo(u, f)) /\ Put0(u)' = Put0(u) /\ todo'[u] = todo[u]
        BY LeftThreads
      <4>3. ASSUME NEW u \in Threads, WritingTo(u, f)'
            PROVE  Text(f, Append(more[NoThread][f], Head(todo'[u]).key), Len(more[NoThread][f]), Put0(u)')
        <5>1. u # t  BY <4>1, <4>3
        <5>2. WritingTo(u, f) /\ Put0(u)' = Put0(u) /\ todo'[u] = todo[u]  BY <4>2, <4>3, <5>1
        <5>3. Text(f, Append(done[NoThread][f], Head(todo[u]).key), Len(done[NoThread][f]), Put0(u))
          BY <3>1, <5>2
        <5> QED BY <4>1, <5>2, <5>3
      <4>4. ASSUME \A u \in Threads : ~WritingTo(u, f)' PROVE Text(f, more[NoThread][f], Len(more[NoThread][f]), 0)
        <5>1. \A u \in Threads : ~WritingTo(u, f)  BY <4>1, <4>2, <4>4
        <5> QED BY <3>1, <4>1, <5>1
      <4> QED BY <4>3, <4>4
    <3> QED BY <3>2, <3>3
  <2> QED BY <1>1, <1>2, <1>4, <2>4, <2>5 DEF Texts, IsAscii, NoThread
<1> QED BY <1>3, <1>4

\* A thread leaves the section of the file it has written its row to.
LEMMA LeaveStep ==
  ASSUME NEW done \in Keys, Holds(done), NEW t \in Threads, Leave(t)
  PROVE  \E more \in Keys : Holds(more)'
<1> USE DEF Holds
<1>1. PICK row, trial, k : Leaving(done, t, row, trial, k)  BY LeavingThread
<1>2. LeftRow(t, row) /\ Left(t) /\ flushed' = Flush(t)
  <2>1. row = Head(todo[t])  BY <1>1 DEF Leaving
  <2> QED BY <2>1 DEF Leave, LeftRow, Left
<1>3. UNCHANGED <<controls, phase, toOpen, open, next, cells, lines, file, maxTrial, merged>> /\ cells[t] = <<>>
  BY DEF Leave
<1>4. /\ row = Head(todo[t]) /\ todo[t] # <<>> /\ pc[t] = "writing" /\ phase = "running"
      /\ row.table \in FileNames /\ row.key \in Key /\ (~IsAscii => row.table \in RowTables)
  BY <1>1 DEF Leaving
<1>5. todo \in [Threads -> Seq(KeyedRow)] /\ pc \in [Threads -> {"free", "computing", "writing"}]
      /\ lock \in [Sections -> Owners] /\ DOMAIN flushed = Threads
  BY DEF Types
<1>6. PICK sec : sec = Section(row.table)  OBVIOUS
<1>7. sec \in Sections /\ lock' = [lock EXCEPT ![sec] = NoThread] /\ lock[sec] = t
  BY <1>4, <1>6, SectionNames DEF Leave, Exclusion
<1>8. /\ lock' \in [Sections -> Owners] /\ todo' \in [Threads -> Seq(KeyedRow)]
      /\ pc' \in [Threads -> {"free", "computing", "writing"}] /\ DOMAIN flushed' = Threads
  <2>1. Tail(todo[t]) \in Seq(KeyedRow)
    <3>1. todo[t] \in Seq(KeyedRow)  BY <1>5
    <3> QED BY <1>4, <3>1, HeadApart
  <2>2. todo' = [todo EXCEPT ![t] = Tail(todo[t])] /\ pc' = [pc EXCEPT ![t] = "free"]
    BY <1>2 DEF LeftRow, Left
  <2>3. DOMAIN flushed' = Threads  BY <1>2, <1>5 DEF Flush
  <2> QED BY <1>5, <1>7, <2>1, <2>2, <2>3 DEF Owners
<1>9. Types'  BY <1>3, <1>8 DEF Types, IsAscii, Owners, NoThread
<1>10. Opening'  BY <1>3, <1>4 DEF Opening, IsAscii, FilesOf, Nebular, IsGalaxy
<1>11. /\ pc'[t] = "free" /\ \A f : ~WritingTo(t, f)'
       /\ \A u \in Threads : u # t => pc'[u] = pc[u] /\ todo'[u] = todo[u] /\ cells'[u] = cells[u]
  BY <1>2, LeftThreads
<1>12. Exclusion'
  <2>1. ASSUME NEW u \in Threads
        PROVE  /\ pc'[u] # "free" => todo'[u] # <<>>
               /\ pc'[u] = "writing" => lock'[Section(Head(todo'[u]).table)] = u
    <3>1. CASE u = t  BY <1>11, <3>1
    <3>2. CASE u # t
      <4>1. pc'[u] = pc[u] /\ todo'[u] = todo[u]  BY <1>11, <3>2
      <4>2. ASSUME pc[u] = "writing" PROVE lock'[Section(Head(todo[u]).table)] = u
        <5>1. lock[Section(Head(todo[u]).table)] = u /\ todo[u] # <<>>  BY <4>2 DEF Exclusion
        <5>2. Head(todo[u]).table \in FileNames
          <6>1. todo[u] \in Seq(KeyedRow)  BY <1>5
          <6>2. Head(todo[u]) \in Range(todo[u])  BY <5>1, <6>1, HeadApart
          <6> QED BY <6>1, <6>2, RowsIn
        <5>3. Section(Head(todo[u]).table) \in Sections /\ Section(Head(todo[u]).table) # sec
          BY <1>7, <3>2, <5>1, <5>2, SectionNames
        <5> QED BY <1>5, <1>7, <5>1, <5>3
      <4> QED BY <4>1, <4>2 DEF Exclusion
    <3> QED BY <3>1, <3>2
  <2> QED BY <1>3, <2>1 DEF Exclusion, Section, IsAscii
<1>13. CellsLeft'
  <2> SUFFICES ASSUME NEW u \in Threads, pc'[u] = "writing" PROVE StepsLeft(u)'
    BY DEF CellsLeft
  <2>1. u # t  BY <1>11
  <2>2. StepsLeft(u)' = StepsLeft(u)  BY <1>3, <1>11, <2>1, ThreadSame
  <2> QED BY <1>11, <2>1, <2>2 DEF CellsLeft
<1>14. CellsShape(row)
  <2>1. ControlsOK  BY DEF Types, ControlsOK
  <2> QED BY <1>4, <2>1, CellsSteps
<1>15. Put0(t) = Len(Cells(row))
  <2>1. PICK n : n = Len(Cells(row))  OBVIOUS
  <2>2. n \in Nat  BY <1>14, <2>1 DEF CellsShape
  <2>3. Put0(t) = n - 0  BY <1>3, <1>4, <2>1 DEF Put0
  <2> QED BY <2>1, <2>2, <2>3
<1>16. Owner(t) \in Owners  BY DEF Owner, Owners
<1>17. PICK more \in Keys : Added(done, more, Owner(t), row.table, row.key)
  BY <1>4, <1>16, AddedExists
<1>18. InPlace(more)' /\ Books(more)'  BY <1>1, <1>2, <1>17, LeaveInPlace, LeaveBooks DEF WritingInv
<1>19. Groups(more)'  BY <1>1, <1>2, <1>14, <1>15, <1>17, LeaveGroups DEF WritingInv
<1>20. Safe(more)'  BY <1>1, <1>2, <1>14, <1>15, <1>17, LeaveSafe DEF WritingInv
<1>21. LargestSeen(more)'  BY <1>1, <1>2, <1>17, LeaveLargest DEF WritingInv
<1>22. Texts(more)'  BY <1>1, <1>2, <1>14, <1>15, <1>17, LeaveTexts DEF WritingInv
<1>23. Merged(more)'
  <2>1. merged = <<>>  BY <1>4 DEF WritingInv, Merged
  <2> QED BY <1>3, <1>4, <2>1 DEF Merged
<1>24. Holds(more)'
  BY <1>9, <1>10, <1>12, <1>13, <1>18, <1>19, <1>20, <1>21, <1>22, <1>23 DEF WritingInv
<1> QED BY <1>17, <1>24

-----------------------------------------------------------------------------
(* The opening and closing of the files, and the consolidation.            *)

\* The first n files, consolidated.
Merging(n) ==
  CHOOSE f : f = [t \in 1 .. n |-> IF t = 1 THEN file[t] ELSE H5!AppendFileContents(file[t], f[t - 1])]
\* The recursion of the consolidation has a solution.
LEMMA MergingExists ==
  \A n \in Nat : \E f : f = [t \in 1 .. n |-> IF t = 1 THEN file[t] ELSE H5!AppendFileContents(file[t], f[t - 1])]
<1> DEFINE Solves(f, n) == f = [t \in 1 .. n |-> IF t = 1 THEN file[t] ELSE H5!AppendFileContents(file[t], f[t - 1])]
           S == {n \in Nat : \E f : Solves(f, n)}
<1>1. 0 \in S
  <2> DEFINE f == [t \in {} |-> 0]
  <2>1. Solves(f, 0)  OBVIOUS
  <2> QED BY <2>1
<1>2. ASSUME NEW n \in Nat, n \in S PROVE n + 1 \in S
  <2>1. PICK f : Solves(f, n)  BY <1>2
  <2>2. PICK last : last = IF n + 1 = 1 THEN file[n + 1] ELSE H5!AppendFileContents(file[n + 1], f[n])
    OBVIOUS
  <2> DEFINE g == [t \in 1 .. n + 1 |-> IF t = n + 1 THEN last ELSE f[t]]
  <2>3. ASSUME NEW t \in 1 .. n + 1
        PROVE  g[t] = IF t = 1 THEN file[t] ELSE H5!AppendFileContents(file[t], g[t - 1])
    <3>1. CASE t = n + 1
      <4>1. g[t] = last  BY <3>1
      <4>2. t # 1 => t - 1 = n /\ t - 1 \in 1 .. n + 1 /\ t - 1 # n + 1  BY <3>1
      <4>3. t # 1 => g[t - 1] = f[n]  BY <4>2
      <4> QED BY <2>2, <3>1, <4>1, <4>3
    <3>2. CASE t # n + 1
      <4>1. t \in 1 .. n  BY <3>2
      <4>2. g[t] = f[t]  BY <3>2
      <4>3. f[t] = IF t = 1 THEN file[t] ELSE H5!AppendFileContents(file[t], f[t - 1])
        BY <2>1, <4>1
      <4>4. t # 1 => t - 1 \in 1 .. n + 1 /\ t - 1 # n + 1  BY <4>1
      <4>5. t # 1 => g[t - 1] = f[t - 1]  BY <4>4
      <4> QED BY <4>2, <4>3, <4>5
    <3> QED BY <3>1, <3>2
  <2>4. g = [t \in 1 .. n + 1 |-> g[t]]  OBVIOUS
  <2>5. [t \in 1 .. n + 1 |-> g[t]]
          = [t \in 1 .. n + 1 |-> IF t = 1 THEN file[t] ELSE H5!AppendFileContents(file[t], g[t - 1])]
    <3> HIDE DEF g
    <3> QED BY <2>3
  <2> HIDE DEF g
  <2>6. Solves(g, n + 1)  BY <2>4, <2>5
  <2> HIDE DEF Solves
  <2> QED BY <2>6
<1>3. \A n \in Nat : n \in S => n + 1 \in S  BY <1>2
<1> HIDE DEF S
<1>4. Nat \subseteq S  BY <1>1, <1>3, SetInduction
<1> QED BY <1>4 DEF S

\* The consolidated file by its equations.
LEMMA MergingSteps ==
  \E n \in Nat : \E f :
    /\ n >= 1 /\ Threads = 1 .. n /\ Consolidated = f[n] /\ f[1] = file[1]
    /\ \A t \in 2 .. n : f[t] = H5!AppendFileContents(file[t], f[t - 1])
<1>1. PICK n : n = Cardinality(Threads)  OBVIOUS
<1>2. n \in Nat /\ Threads = 1 .. n /\ Threads # {}  BY <1>1, WritingAssumption, FS_CardinalityType
<1>3. n >= 1  BY <1>2
<1>4. PICK f : f = Merging(n)  OBVIOUS
<1>5. f = [t \in 1 .. n |-> IF t = 1 THEN file[t] ELSE H5!AppendFileContents(file[t], f[t - 1])]
  BY <1>2, <1>4, MergingExists DEF Merging
<1>6. Consolidated = f[n]  BY <1>1, <1>2, <1>4 DEF Consolidated, Merging
<1>7. 1 \in 1 .. n /\ \A t \in 2 .. n : t \in 1 .. n /\ t # 1  BY <1>2, <1>3
<1>8. \A t \in 1 .. n : f[t] = IF t = 1 THEN file[t] ELSE H5!AppendFileContents(file[t], f[t - 1])
  BY <1>5, Zenon
<1>9. f[1] = file[1]  BY <1>7, <1>8
<1>10. \A t \in 2 .. n : f[t] = H5!AppendFileContents(file[t], f[t - 1])  BY <1>7, <1>8
<1> QED BY <1>2, <1>3, <1>6, <1>9, <1>10

Gathered(group, g, keys) ==
  /\ DOMAIN group = DatasetNames(g)
  /\ \A k \in 1 .. Len(H5!Row(g)) : group[H5!Row(g)[k][1]] = Entries(keys, H5!Row(g)[k][2])
\* The entries of two lists of keys.
LEMMA EntriesJoined ==
  ASSUME NEW K, NEW a \in Seq(K), NEW b \in Seq(K), NEW w
  PROVE  H5!AppendDatasetContents(Entries(b, w), Entries(a, w)) = Entries(a \o b, w)
<1>1. PICK m \in Nat, n \in Nat : m = Len(a) /\ n = Len(b)  OBVIOUS
<1>2. PICK c : c = a \o b  OBVIOUS
<1>3. c \in Seq(K) /\ Len(c) = m + n /\ (\A i \in 1 .. m : c[i] = a[i]) /\ \A i \in m + 1 .. m + n : c[i] = b[i - m]
  BY <1>1, <1>2, ConcatElements DEF Joined
<1>4. PICK A, B, C : A = Entries(a, w) /\ B = Entries(b, w) /\ C = Entries(c, w)  OBVIOUS
<1>5. /\ A = [i \in 1 .. m |-> <<a[i], w>>] /\ B = [i \in 1 .. n |-> <<b[i], w>>]
      /\ C = [i \in 1 .. m + n |-> <<c[i], w>>]
  BY <1>1, <1>3, <1>4 DEF Entries
<1>6. A \in Seq(K \X {w}) /\ B \in Seq(K \X {w}) /\ C \in Seq(K \X {w}) /\ Len(A) = m /\ Len(B) = n /\ Len(C) = m + n
  <2>1. (\A i \in 1 .. m : a[i] \in K) /\ (\A i \in 1 .. n : b[i] \in K) /\ \A i \in 1 .. m + n : c[i] \in K
    BY <1>1, <1>3
  <2>2. m + n \in Nat  BY <1>1
  <2>3. A \in [1 .. m -> K \X {w}] /\ B \in [1 .. n -> K \X {w}] /\ C \in [1 .. m + n -> K \X {w}]
    BY <1>5, <2>1
  <2> QED BY <2>2, <2>3
<1>7. PICK D : D = A \o B  OBVIOUS
<1>8. D \in Seq(K \X {w}) /\ Len(D) = m + n /\ (\A i \in 1 .. m : D[i] = A[i]) /\ \A i \in m + 1 .. m + n : D[i] = B[i - m]
  BY <1>6, <1>7, ConcatElements DEF Joined
<1>9. ASSUME NEW i \in 1 .. m + n PROVE D[i] = C[i]
  <2>1. CASE i \in 1 .. m  BY <1>3, <1>5, <1>8, <2>1
  <2>2. CASE i \notin 1 .. m
    <3>1. i \in m + 1 .. m + n /\ i - m \in 1 .. n  BY <2>2
    <3> QED BY <1>3, <1>5, <1>8, <3>1
  <2> QED BY <2>1, <2>2
<1>10. D = C
  <2>1. D = [i \in 1 .. m + n |-> D[i]] /\ C = [i \in 1 .. m + n |-> C[i]]  BY <1>6, <1>8
  <2> QED BY <1>9, <2>1
<1>11. CASE n = 0
  <2>1. B = <<>>  BY <1>6, <1>11, EmptySeq
  <2>2. D = A  BY <1>6, <1>7, <2>1
  <2> QED BY <1>2, <1>4, <1>6, <1>10, <1>11, <2>2 DEF H5!AppendDatasetContents
<1>12. CASE n # 0  BY <1>2, <1>4, <1>6, <1>7, <1>10, <1>12 DEF H5!AppendDatasetContents
<1> QED BY <1>11, <1>12

\* The datasets of a group of one file at the end of those of another.
LEMMA GatheredBoth ==
  ASSUME NEW g, RowShape(g), NEW a \in Seq(Key), NEW b \in Seq(Key), NEW src, NEW dst,
         DOMAIN src = DOMAIN dst, g \in DOMAIN dst, Gathered(dst[g], g, a), Gathered(src[g], g, b)
  PROVE  Gathered(H5!AppendFileContents(src, dst)[g], g, a \o b)
<1>1. PICK R, names : R = H5!Row(g) /\ names = DatasetNames(g)  OBVIOUS
<1>2. PICK x, y, z : x = dst[g] /\ y = src[g] /\ z = H5!AppendFileContents(src, dst)[g]  OBVIOUS
<1>3. /\ DOMAIN x = names /\ \A k \in 1 .. Len(R) : x[R[k][1]] = Entries(a, R[k][2])
      /\ DOMAIN y = names /\ \A k \in 1 .. Len(R) : y[R[k][1]] = Entries(b, R[k][2])
  BY <1>1, <1>2 DEF Gathered
<1>4. z = [d \in names |-> H5!AppendDatasetContents(y[d], x[d])]
  <2>1. z = [d \in DOMAIN x |-> IF g \in DOMAIN src /\ d \in DOMAIN y
                                THEN H5!AppendDatasetContents(y[d], x[d]) ELSE x[d]]
    BY <1>2 DEF H5!AppendFileContents
  <2> QED BY <1>3, <2>1
<1>5. \A k \in 1 .. Len(R) : R[k][1] \in names  BY <1>1 DEF RowShape
<1>6. \A w : H5!AppendDatasetContents(Entries(b, w), Entries(a, w)) = Entries(a \o b, w)
  BY EntriesJoined
<1>7. ASSUME NEW k \in 1 .. Len(R) PROVE z[R[k][1]] = Entries(a \o b, R[k][2])
  <2>1. z[R[k][1]] = H5!AppendDatasetContents(y[R[k][1]], x[R[k][1]])  BY <1>4, <1>5
  <2> QED BY <1>3, <1>6, <2>1
<1> QED BY <1>1, <1>2, <1>4, <1>7 DEF Gathered

KeysOf(done, g, m) == UNION {Range(done[t][g]) : t \in 1 .. m}
\* One file more.
LEMMA KeysOfNext ==
  ASSUME NEW done, NEW g, NEW m \in Nat
  PROVE  KeysOf(done, g, m + 1) = KeysOf(done, g, m) \cup Range(done[m + 1][g])
<1>1. \A u : u \in 1 .. m + 1 <=> (u \in 1 .. m \/ u = m + 1)  OBVIOUS
<1>2. \A n, x : x \in KeysOf(done, g, n) <=> \E u \in 1 .. n : x \in Range(done[u][g])
  BY DEF KeysOf
<1>3. \A x : x \in KeysOf(done, g, m + 1) <=> (x \in KeysOf(done, g, m) \/ x \in Range(done[m + 1][g]))
  BY <1>1, <1>2
<1> QED BY <1>3

Collected(done, whole, m) ==
  /\ DOMAIN whole = open
  /\ \A g \in open : \E keys \in Seq(Key) :
       /\ IsInjective(keys) /\ Range(keys) = UNION {Range(done[t][g]) : t \in 1 .. m}
       /\ Gathered(whole[g], g, keys)
\* Together the files have the rows of each.
LEMMA CollectedNext ==
  ASSUME NEW done \in Keys, Books(done), ControlsOK, open \subseteq RowTables, NEW m \in Nat, NEW n \in Nat,
         m + 1 <= n, Threads = 1 .. n, NEW whole, Collected(done, whole, m),
         DOMAIN file[m + 1] = open, \A g \in open : Gathered(file[m + 1][g], g, done[m + 1][g])
  PROVE  Collected(done, H5!AppendFileContents(file[m + 1], whole), m + 1)
<1>1. PICK t, src, next2 : t = m + 1 /\ src = file[m + 1] /\ next2 = H5!AppendFileContents(src, whole)
  OBVIOUS
<1>2. t \in Threads /\ t \in Owners  BY <1>1 DEF Owners
<1>3. DOMAIN whole = open /\ DOMAIN src = open  BY <1>1 DEF Collected
<1>4. DOMAIN next2 = open  BY <1>1, <1>3 DEF H5!AppendFileContents
<1>5. ASSUME NEW g \in open
      PROVE  \E keys \in Seq(Key) :
               /\ IsInjective(keys) /\ Range(keys) = UNION {Range(done[u][g]) : u \in 1 .. m + 1}
               /\ Gathered(next2[g], g, keys)
  <2>1. PICK a \in Seq(Key) : /\ IsInjective(a) /\ Range(a) = UNION {Range(done[u][g]) : u \in 1 .. m}
                              /\ Gathered(whole[g], g, a)
    BY DEF Collected
  <2>2. PICK b : b = done[t][g]  OBVIOUS
  <2>3. g \in RowTables /\ g \in FileNames  BY DEF RowTables
  <2>4. b \in Seq(Key) /\ IsInjective(b) /\ Gathered(src[g], g, b)
    BY <1>1, <1>2, <2>2, <2>3 DEF Books, Keys
  <2>5. Range(a) \cap Range(b) = {}
    <3>1. \A u \in 1 .. m : u \in Owners /\ u # t
      <4>1. \A u \in 1 .. m : u \in 1 .. n /\ u # m + 1  OBVIOUS
      <4> QED BY <1>1, <4>1 DEF Owners
    <3>2. \A u \in 1 .. m : Range(done[u][g]) \cap Range(done[t][g]) = {}
      BY <1>2, <2>3, <3>1 DEF Books
    <3> QED BY <2>1, <2>2, <3>2
  <2>6. RowShape(g)  BY <2>3, RowShapes
  <2>7. Gathered(next2[g], g, a \o b)  BY <1>1, <1>3, <2>1, <2>4, <2>6, GatheredBoth
  <2>8. a \o b \in Seq(Key) /\ IsInjective(a \o b) /\ Range(a \o b) = Range(a) \cup Range(b)
    BY <2>1, <2>4, <2>5, JoinedElements
  <2>9. Range(a) = KeysOf(done, g, m) /\ KeysOf(done, g, m + 1) = KeysOf(done, g, m) \cup Range(b)
    BY <1>1, <2>1, <2>2, KeysOfNext DEF KeysOf
  <2>10. IsInjective(a \o b) /\ Range(a \o b) = KeysOf(done, g, m + 1)  BY <2>8, <2>9
  <2> QED BY <2>7, <2>8, <2>10 DEF KeysOf
<1> QED BY <1>1, <1>4, <1>5 DEF Collected

\* So does the consolidated one.
LEMMA ConsolidatedFile ==
  ASSUME NEW done \in Keys, Books(done), Groups(done), ControlsOK, ~IsAscii, open \subseteq RowTables,
         \A t \in Threads : pc[t] = "free"
  PROVE  \E n \in Nat : Threads = 1 .. n /\ Collected(done, Consolidated, n)
<1>1. PICK n, f :
        /\ n \in Nat /\ n >= 1 /\ Threads = 1 .. n /\ Consolidated = f[n] /\ f[1] = file[1]
        /\ \A t \in 2 .. n : f[t] = H5!AppendFileContents(file[t], f[t - 1])
  BY MergingSteps
<1>2. ASSUME NEW t \in Threads
      PROVE  DOMAIN file[t] = open /\ \A g \in open : Gathered(file[t][g], g, done[t][g])
  <2>1. \A g, k : KeysIn(done, t, g, k) = done[t][g]  BY DEF KeysIn, WritingTo
  <2> QED BY <2>1 DEF Groups, Gathered
<1> DEFINE S == {m \in Nat : m + 1 <= n => Collected(done, f[m + 1], m + 1)}
<1>3. 0 \in S
  <2>1. 1 \in Threads /\ 1 \in Owners  BY <1>1 DEF Owners
  <2>2. ASSUME NEW g \in open
        PROVE  \E keys \in Seq(Key) :
                 /\ IsInjective(keys) /\ Range(keys) = UNION {Range(done[u][g]) : u \in 1 .. 1}
                 /\ Gathered(f[1][g], g, keys)
    <3>1. g \in FileNames  BY DEF RowTables
    <3>2. done[1][g] \in Seq(Key) /\ IsInjective(done[1][g])  BY <2>1, <3>1 DEF Books, Keys
    <3>3. \A u : u \in 1 .. 1 <=> u = 1  OBVIOUS
    <3>4. Range(done[1][g]) = UNION {Range(done[u][g]) : u \in 1 .. 1}  BY <3>3
    <3> QED BY <1>1, <1>2, <2>1, <3>2, <3>4
  <2>3. Collected(done, f[1], 1)  BY <1>1, <1>2, <2>1, <2>2 DEF Collected
  <2> QED BY <2>3
<1>4. ASSUME NEW m \in Nat, m \in S PROVE m + 1 \in S
  <2> SUFFICES ASSUME (m + 1) + 1 <= n PROVE Collected(done, f[(m + 1) + 1], (m + 1) + 1)
    OBVIOUS
  <2>1. PICK j : j = m + 1  OBVIOUS
  <2>2. j \in Nat /\ j + 1 <= n /\ j + 1 \in 2 .. n /\ (j + 1) - 1 = j /\ m + 1 <= n /\ j + 1 \in 1 .. n
    BY <1>1, <2>1
  <2>3. Collected(done, f[j], j)  BY <1>4, <2>1, <2>2
  <2>4. f[j + 1] = H5!AppendFileContents(file[j + 1], f[j])  BY <1>1, <2>2
  <2>5. j + 1 \in Threads  BY <1>1, <2>2
  <2>6. Collected(done, H5!AppendFileContents(file[j + 1], f[j]), j + 1)
    BY <1>1, <1>2, <2>2, <2>3, <2>5, CollectedNext
  <2> QED BY <2>1, <2>4, <2>6
<1>5. \A m \in Nat : m \in S => m + 1 \in S  BY <1>4
<1> HIDE DEF S
<1>6. Nat \subseteq S  BY <1>3, <1>5, SetInduction
<1>7. n - 1 \in S /\ (n - 1) + 1 = n  BY <1>1, <1>6
<1>8. Collected(done, f[n], n)  BY <1>7 DEF S
<1> QED BY <1>1, <1>8

\* The destructor closes the files and consolidates them.
LEMMA CloseStep ==
  ASSUME NEW done \in Keys, Holds(done), Close
  PROVE  Holds(done)'
<1> USE DEF Holds
<1>1. Quiet /\ UNCHANGED <<controls, open, todo, next, file, flushed, maxTrial, lines, pc, cells, lock, toOpen>>
  BY DEF Close, Quiet, writing
<1>2. /\ phase = "running" /\ phase' = "closed" /\ next \notin Trials /\ \A t \in Threads : pc[t] = "free" /\ todo[t] = <<>>
      /\ merged' = IF IsAscii THEN merged ELSE Consolidated
  BY DEF Close
<1>3. Types'  BY <1>1, <1>2 DEF Types, IsAscii, Owners, NoThread
<1>4. Opening'  BY <1>1, <1>2 DEF Opening, IsAscii, FilesOf, Nebular, IsGalaxy
<1>5. Exclusion'  BY <1>1 DEF Exclusion, Section, IsAscii
<1>6. CellsLeft'  BY <1>1, CellsLeftQuiet
<1>7. next \in Nat /\ next' \in Nat /\ next <= next'  BY <1>1 DEF Types
<1>8. InPlace(done)' /\ Books(done)'  BY <1>1, <1>7, InPlaceSame, BooksSame DEF WritingInv
<1>9. Groups(done)' /\ Safe(done)' /\ LargestSeen(done)' /\ Texts(done)'
  BY <1>1, GroupsQuiet, SafeSame, LargestQuiet, TextsQuiet DEF WritingInv
<1>10. Merged(done)'
  <2>1. CASE IsAscii
    <3>1. merged = <<>>  BY <2>1 DEF WritingInv, Merged
    <3> QED BY <1>1, <1>2, <2>1, <3>1 DEF Merged, IsAscii
  <2>2. CASE ~IsAscii
    <3>1. ControlsOK /\ open \subseteq RowTables  BY <2>2 DEF Types, ControlsOK
    <3>2. PICK n \in Nat : Threads = 1 .. n /\ Collected(done, Consolidated, n)
      BY <1>2, <2>2, <3>1, ConsolidatedFile DEF WritingInv
    <3>3. PICK whole : whole = Consolidated  OBVIOUS
    <3>4. /\ DOMAIN whole = open
          /\ \A g \in open : \E keys \in Seq(Key) :
               /\ IsInjective(keys) /\ Range(keys) = UNION {Range(done[t][g]) : t \in Threads}
               /\ DOMAIN whole[g] = DatasetNames(g)
               /\ \A k \in 1 .. Len(H5!Row(g)) : whole[g][H5!Row(g)[k][1]] = Entries(keys, H5!Row(g)[k][2])
      BY <3>2, <3>3 DEF Collected, Gathered
    <3>5. merged' = whole  BY <1>2, <2>2, <3>3
    <3>6. (\A g : H5!Row(g)' = H5!Row(g)) /\ (\A g : H5!Datasets(g)' = H5!Datasets(g))
      BY <1>1, RowH5Same
    <3>7. \A g : DatasetNames(g)' = DatasetNames(g)  BY <3>6 DEF DatasetNames
    <3>8. ASSUME NEW g \in open
          PROVE  /\ DOMAIN merged'[g] = DatasetNames(g)
                 /\ \E keys \in Seq(Key) :
                      /\ IsInjective(keys) /\ Range(keys) = UNION {Range(done[t][g]) : t \in Threads}
                      /\ \A k \in 1 .. Len(H5!Row(g)) : merged'[g][H5!Row(g)[k][1]] = Entries(keys, H5!Row(g)[k][2])
      BY <3>4, <3>5
    <3>9. phase' = "closed" /\ ~IsAscii' /\ DOMAIN merged' = open' /\ open' = open
      BY <1>1, <1>2, <2>2, <3>4, <3>5 DEF IsAscii
    <3> QED BY <3>6, <3>7, <3>8, <3>9 DEF Merged
  <2> QED BY <2>1, <2>2
<1> QED BY <1>3, <1>4, <1>5, <1>6, <1>8, <1>9, <1>10 DEF WritingInv

\* Before the first trial nothing has been written.
LEMMA NothingYet ==
  ASSUME NEW done \in Keys, Holds(done), phase = "opening"
  PROVE  /\ next = 0 /\ merged = <<>>
         /\ \A t \in Threads : pc[t] = "free" /\ todo[t] = <<>>
         /\ \A o \in Owners, f \in FileNames : done[o][f] = <<>> /\ Range(done[o][f]) = {}
<1>1. next = 0 /\ \A t \in Threads : pc[t] = "free" /\ todo[t] = <<>>  BY DEF Holds, Opening
<1>2. ASSUME NEW o \in Owners, NEW f \in FileNames PROVE done[o][f] = <<>> /\ Range(done[o][f]) = {}
  <2>1. PICK keys : keys = done[o][f]  OBVIOUS
  <2>2. keys \in Seq(Key) /\ \A key \in Range(keys) : key[1] < 0
    <3>1. Books(done)  BY DEF Holds, WritingInv
    <3>2. \A key \in Range(done[o][f]) : key[1] < next  BY <3>1 DEF Books
    <3> QED BY <1>1, <2>1, <3>2 DEF Keys
  <2>3. \A key \in Range(keys) : key[1] \in Nat
    <3> SUFFICES ASSUME NEW key \in Range(keys) PROVE key[1] \in Nat
      OBVIOUS
    <3>1. key \in Key  BY <2>2 DEF Range
    <3>2. key[1] \in Trials  BY <3>1 DEF Key
    <3> QED BY <3>2, TrialsNatural
  <2>4. Range(keys) = {}  BY <2>2, <2>3
  <2>5. DOMAIN keys = {}  BY <2>4 DEF Range
  <2>6. keys = <<>>
    <3>1. PICK n \in Nat : n = Len(keys)  BY <2>2
    <3>2. 1 .. n = {}  BY <2>2, <2>5, <3>1
    <3>3. n = 0  BY <3>2
    <3> QED BY <2>2, <3>1, <3>3, EmptySeq
  <2> QED BY <2>1, <2>4, <2>6
<1>3. merged = <<>>  BY DEF Holds, WritingInv, Merged
<1> QED BY <1>1, <1>2, <1>3

\* As long as nothing has been written the books of any tables are kept.
LEMMA BooksEmpty ==
  ASSUME NEW done \in Keys, Books(done), next = 0, \A t \in Threads : todo[t] = <<>>,
         \A o \in Owners, f \in FileNames : Range(done[o][f]) = {}, UNCHANGED <<controls, next, todo>>
  PROVE  Books(done)'
<1>1. /\ done \in Keys
      /\ \A o \in Owners, f \in FileNames : IsInjective(done[o][f])
      /\ \A o \in Owners : IsAscii => (o # NoThread => done[o] = [f \in FileNames |-> <<>>])
      /\ ~IsAscii => done[NoThread] = [f \in FileNames |-> <<>>]
  BY DEF Books
<1>2. \A t \in Threads : Range(todo[t]) = {}  BY DEF Range
<1>3. Owners' = Owners /\ (IsAscii' <=> IsAscii) /\ NoThread' = NoThread /\ next' = 0 /\ todo' = todo
  BY DEF Owners, NoThread, IsAscii
<1>4. 0 .. next' - 1 = {}  BY <1>3
<1>5. /\ \A o \in Owners', f \in FileNames : IsInjective(done[o][f])
      /\ \A o, p \in Owners', f \in FileNames : o # p => Range(done[o][f]) \cap Range(done[p][f]) = {}
      /\ \A t \in Threads, o \in Owners' : \A row \in Range(todo'[t]) : row.key \notin Range(done[o][row.table])
      /\ \A t, u \in Threads : t # u => Range(todo'[t]) \cap Range(todo'[u]) = {}
      /\ \A o \in Owners' : IsAscii' => (o # NoThread' => done[o] = [f \in FileNames |-> <<>>])
      /\ ~IsAscii' => done[NoThread'] = [f \in FileNames |-> <<>>]
  BY <1>1, <1>2, <1>3
<1>6. \A o \in Owners', f \in FileNames : Range(done[o][f]) = {}  BY <1>3
<1> QED BY <1>1, <1>3, <1>4, <1>5, <1>6 DEF Books, Keys

\* A file of text is opened, or is there already, and the program ends.
LEMMA OpenFileStep ==
  ASSUME NEW done \in Keys, Holds(done), OpenFile
  PROVE  Holds(done)'
<1> USE DEF Holds
<1>1. UNCHANGED <<controls, next, todo, pc, cells, lock, file, flushed, maxTrial, merged>>
      /\ phase = "opening" /\ toOpen # <<>> /\ IsAscii
  BY DEF OpenFile
<1>2. /\ next = 0 /\ merged = <<>> /\ (\A t \in Threads : pc[t] = "free" /\ todo[t] = <<>>)
      /\ \A o \in Owners, f \in FileNames : done[o][f] = <<>> /\ Range(done[o][f]) = {}
  BY <1>1, NothingYet
<1>3. toOpen \in Seq(FileNames) /\ open \subseteq FileNames /\ DOMAIN lines = FileNames /\ next \in Nat
  BY SectionNames DEF Types
<1>4. PICK f : f = Head(toOpen)  OBVIOUS
<1>5. /\ f \in FileNames /\ Tail(toOpen) \in Seq(FileNames) /\ Range(toOpen) = {f} \cup Range(Tail(toOpen))
  <2>1. /\ f \in Range(toOpen) /\ Tail(toOpen) \in Seq(FileNames) /\ Range(Tail(toOpen)) \subseteq Range(toOpen)
        /\ \A x \in Range(toOpen) : x = f \/ x \in Range(Tail(toOpen))
    BY <1>1, <1>3, <1>4, HeadApart
  <2>2. f \in FileNames  BY <1>3, <2>1 DEF Range
  <2> QED BY <2>1, <2>2
<1>6. \/ phase' = "refused" /\ UNCHANGED <<toOpen, open, lines>>
      \/ /\ lines[f] = <<>> /\ open' = open \cup {f} /\ toOpen' = Tail(toOpen) /\ phase' = "opening"
         /\ lines' = [lines EXCEPT ![f] = <<<<>>>>]
  BY <1>1, <1>4 DEF OpenFile
<1>7. phase' \in {"opening", "refused"} /\ toOpen' \in Seq(FileNames) /\ open' \subseteq FileNames /\ DOMAIN lines' = FileNames
      /\ open' \cup Range(toOpen') = open \cup Range(toOpen)
  <2>1. CASE phase' = "refused" /\ UNCHANGED <<toOpen, open, lines>>  BY <1>3, <2>1
  <2>2. CASE /\ open' = open \cup {f} /\ toOpen' = Tail(toOpen) /\ phase' = "opening"
             /\ lines' = [lines EXCEPT ![f] = <<<<>>>>]
    BY <1>3, <1>5, <2>2
  <2> QED BY <1>6, <2>1, <2>2
<1>8. Types'  BY <1>1, <1>7, SectionNames DEF Types, IsAscii, Owners, NoThread, EmptyLines
<1>9. Opening'
  <2>1. \A table \in open \cup Range(toOpen) : Range(FilesOf(table)) \subseteq open \cup Range(toOpen)
    BY <1>1 DEF Opening
  <2>2. \A table : FilesOf(table)' = FilesOf(table)  BY <1>1 DEF FilesOf, Nebular
  <2>3. \A table \in open' \cup Range(toOpen') : Range(FilesOf(table)') \subseteq open' \cup Range(toOpen')
    BY <1>7, <2>1, <2>2
  <2> QED BY <1>1, <1>2, <1>7, <2>3 DEF Opening, IsAscii, IsGalaxy
<1>10. Exclusion'  BY <1>1 DEF Exclusion, Section, IsAscii
<1>11. Quiet  BY <1>1 DEF Quiet
<1>12. CellsLeft'  BY <1>1, <1>11, CellsLeftQuiet
<1>13. InPlace(done)'  BY <1>1, <1>2 DEF InPlace
<1>14. Books(done)'  BY <1>1, <1>2, BooksEmpty DEF WritingInv
<1>15. Groups(done)'  BY <1>1 DEF WritingInv, Groups, IsAscii
<1>16. Safe(done)' /\ LargestSeen(done)'  BY <1>1, <1>11, SafeSame, LargestQuiet DEF WritingInv
<1>17. Merged(done)'  BY <1>1, <1>2, <1>7 DEF Merged
<1>18. \A g \in FileNames : g \notin open => lines[g] \in {<<>>, <<<<"earlier">>>>}
  BY <1>3 DEF WritingInv, Texts
<1>19. \A g \in open : TextIs(lines[g], g, <<>>, 0, 0)
  <2> SUFFICES ASSUME NEW g \in open PROVE TextIs(lines[g], g, <<>>, 0, 0)
    OBVIOUS
  <2>1. done[NoThread][g] = <<>>  BY <1>2, <1>3 DEF Owners
  <2>2. \A t \in Threads : ~WritingTo(t, g)  BY <1>2 DEF WritingTo
  <2> QED BY <1>1, <2>1, <2>2 DEF WritingInv, Texts, Text
<1>20. TextIs(<<<<>>>>, f, <<>>, 0, 0)
  <2>1. ControlsOK  BY DEF Types, ControlsOK
  <2>2. Len(LinesOf(f)) \in Nat  BY <1>5, <2>1, AllLinesUnder DEF LinesUnder
  <2>3. PICK c : c = Len(LinesOf(f)) * 0 + (0 \div 2)  OBVIOUS
  <2>4. c = 0 /\ 0 % 2 = 0
    <3>1. PICK n \in Nat : n = Len(LinesOf(f))  BY <2>2
    <3>2. n * 0 + (0 \div 2) = 0 /\ 0 % 2 = 0  OBVIOUS
    <3> QED BY <2>3, <3>1, <3>2
  <2>5. Content(<<<<>>>>, f, <<>>, 0, 0)  BY DEF Content
  <2> QED BY <2>3, <2>4, <2>5 DEF TextIs
<1>21. /\ \A g \in FileNames : g \notin open' => lines'[g] \in {<<>>, <<<<"earlier">>>>}
       /\ \A g \in open' : TextIs(lines'[g], g, <<>>, 0, 0)
  <2>1. CASE phase' = "refused" /\ UNCHANGED <<toOpen, open, lines>>  BY <1>18, <1>19, <2>1
  <2>2. CASE /\ open' = open \cup {f} /\ toOpen' = Tail(toOpen) /\ phase' = "opening"
             /\ lines' = [lines EXCEPT ![f] = <<<<>>>>]
    <3>1. lines'[f] = <<<<>>>> /\ \A g \in FileNames : g # f => lines'[g] = lines[g]
      BY <1>3, <1>5, <2>2
    <3> QED BY <1>3, <1>18, <1>19, <1>20, <2>2, <3>1
  <2> QED BY <1>6, <2>1, <2>2
<1>22. \A g, text, keys, whole, put : TextIs(text, g, keys, whole, put)' = TextIs(text, g, keys, whole, put)
  <2>1. \A g : LinesOf(g)' = LinesOf(g)  BY <1>1, LinesSame
  <2>2. \A g, keys, p : TextAt(g, keys, p)' = TextAt(g, keys, p)  BY <2>1 DEF TextAt, Tagged
  <2> QED BY <2>1, <2>2 DEF TextIs, Content
<1>23. Texts(done)'
  <2>1. ASSUME NEW g \in open' PROVE Text(g, done[NoThread][g], Len(done[NoThread][g]), 0)'
    <3>1. done[NoThread][g] = <<>> /\ Len(<<>>) = 0  BY <1>2, <1>7 DEF Owners
    <3>2. TextIs(lines'[g], g, <<>>, 0, 0)  BY <1>21
    <3> QED BY <1>22, <3>1, <3>2 DEF Text, NoThread
  <2>2. \A t \in Threads : \A g : ~WritingTo(t, g)'  BY <1>1, <1>2 DEF WritingTo
  <2> QED BY <1>7, <1>21, <2>1, <2>2 DEF Texts, NoThread
<1> QED BY <1>8, <1>9, <1>10, <1>12, <1>13, <1>14, <1>15, <1>16, <1>17, <1>23 DEF WritingInv

\* The groups of every thread's file are made.
LEMMA OpenGroupsStep ==
  ASSUME NEW done \in Keys, Holds(done), OpenGroups
  PROVE  Holds(done)'
<1> USE DEF Holds
<1>1. UNCHANGED <<controls, phase, next, todo, pc, cells, lock, lines, flushed, maxTrial, merged>>
      /\ phase = "opening" /\ toOpen # <<>> /\ ~IsAscii /\ open' = Range(toOpen) /\ toOpen' = <<>>
      /\ file' = [t \in Threads |-> [g \in Range(toOpen) |-> H5!CreateExtensibleDatasets(g)]]
  BY DEF OpenGroups
<1>2. /\ next = 0 /\ merged = <<>> /\ (\A t \in Threads : pc[t] = "free" /\ todo[t] = <<>>)
      /\ \A o \in Owners, f \in FileNames : done[o][f] = <<>> /\ Range(done[o][f]) = {}
  BY <1>1, NothingYet
<1>3. open = {} /\ Range(toOpen) \subseteq RowTables /\ RowTables \subseteq FileNames
  BY <1>1 DEF Opening, Types, RowTables
<1>4. Range(toOpen') = {} /\ <<>> \in Seq(FileNames)  BY <1>1 DEF Range
<1>5. Types'
  <2>1. DOMAIN file' = Threads /\ file' = [t \in Threads |-> file'[t]]  BY <1>1
  <2> QED BY <1>1, <1>3, <1>4, <2>1 DEF Types, IsAscii, Owners, NoThread, EmptyLines
<1>6. Opening'
  <2>1. open' \cup Range(toOpen') = open \cup Range(toOpen)  BY <1>1, <1>3, <1>4
  <2> QED BY <1>1, <1>2, <2>1 DEF Opening, IsAscii, IsGalaxy
<1>7. Exclusion'  BY <1>1 DEF Exclusion, Section, IsAscii
<1>8. Quiet  BY <1>1 DEF Quiet
<1>9. CellsLeft'  BY <1>1, <1>8, CellsLeftQuiet
<1>10. InPlace(done)'  BY <1>1, <1>2 DEF InPlace
<1>11. Books(done)'  BY <1>1, <1>2, BooksEmpty DEF WritingInv
<1>12. Groups(done)'
  <2>1. \A t \in Threads : DOMAIN file'[t] = open'  BY <1>1
  <2>2. ASSUME NEW t \in Threads, NEW g \in open'
        PROVE  /\ DOMAIN file'[t][g] = DatasetNames(g)
               /\ \A k \in 1 .. Len(H5!Row(g)) :
                    file'[t][g][H5!Row(g)[k][1]] = Entries(KeysIn(done, t, g, k)', H5!Row(g)[k][2])
    <3>1. file'[t][g] = [d \in DatasetNames(g) |-> <<>>]
      BY <1>1, <2>2 DEF DatasetNames, H5!CreateExtensibleDatasets
    <3>2. \A k : KeysIn(done, t, g, k)' = <<>>
      <4>1. ~WritingTo(t, g)'  BY <1>1, <1>2 DEF WritingTo
      <4>2. t \in Owners /\ g \in FileNames  BY <1>1, <1>3 DEF Owners
      <4>3. done[t][g] = <<>>  BY <1>2, <4>2
      <4> QED BY <4>1, <4>3 DEF KeysIn
    <3>3. \A w : Entries(<<>>, w) = <<>>  BY DEF Entries
    <3>4. RowShape(g)
      <4>1. ControlsOK /\ g \in RowTables  BY <1>1, <1>3 DEF Types, ControlsOK
      <4> QED BY <4>1, RowShapes
    <3>5. \A k \in 1 .. Len(H5!Row(g)) : H5!Row(g)[k][1] \in DatasetNames(g)  BY <3>4 DEF RowShape
    <3> QED BY <3>1, <3>2, <3>3, <3>5
  <2>3. (\A g : H5!Row(g)' = H5!Row(g)) /\ (\A g : H5!Datasets(g)' = H5!Datasets(g))
    BY <1>1, RowH5Same
  <2>4. \A g : DatasetNames(g)' = DatasetNames(g)  BY <2>3 DEF DatasetNames
  <2> QED BY <1>1, <2>1, <2>2, <2>3, <2>4 DEF Groups, IsAscii
<1>13. Safe(done)' /\ LargestSeen(done)'  BY <1>1, <1>8, SafeSame, LargestQuiet DEF WritingInv
<1>14. Texts(done)'  BY <1>1, <1>3 DEF WritingInv, Texts, IsAscii
<1>15. Merged(done)'  BY <1>1, <1>2 DEF Merged
<1> QED BY <1>5, <1>6, <1>7, <1>9, <1>10, <1>11, <1>12, <1>13, <1>14, <1>15 DEF WritingInv

\* The tables the constructor makes.
LEMMA TablesMade ==
  ASSUME NEW order \in Seq(RowTables)
  PROVE  /\ TablesCreated(order) \in Seq(RowTables)
         /\ \A x : x \in Range(TablesCreated(order)) <=> x \in Range(order) /\ Created(x)
<1>1. PICK n \in Nat : n = Len(order)  OBVIOUS
<1>2. PICK parts : parts = [i \in 1 .. n |-> IF Created(order[i]) THEN <<order[i]>> ELSE <<>>]
  OBVIOUS
<1>3. DOMAIN order = 1 .. n /\ \A i \in 1 .. n : order[i] \in RowTables  BY <1>1
<1>4. ASSUME NEW i \in 1 .. n
      PROVE  parts[i] \in Seq(RowTables) /\ \A x : x \in Range(parts[i]) <=> x = order[i] /\ Created(x)
  <2>1. CASE Created(order[i])
    <3>1. parts[i] = <<order[i]>>  BY <1>2, <2>1
    <3>2. Range(<<order[i]>>) = {order[i]}  BY DEF Range
    <3> QED BY <1>3, <2>1, <3>1, <3>2
  <2>2. CASE ~Created(order[i])
    <3>1. parts[i] = <<>>  BY <1>2, <2>2
    <3>2. Range(<<>>) = {}  BY DEF Range
    <3> QED BY <2>2, <3>1, <3>2
  <2> QED BY <2>1, <2>2
<1>5. parts \in [1 .. n -> Seq(RowTables)]  BY <1>2, <1>4
<1>6. SeqOfSeqs(parts, n, RowTables)  BY <1>5 DEF SeqOfSeqs
<1>7. /\ FlattenSeq(parts) \in Seq(RowTables)
      /\ Range(FlattenSeq(parts)) = UNION {Range(parts[i]) : i \in 1 .. n}
  BY <1>6, FlattenRange
<1>8. TablesCreated(order) = FlattenSeq(parts)  BY <1>2, <1>3 DEF TablesCreated
<1>9. \A x : x \in Range(order) <=> \E i \in 1 .. n : x = order[i]  BY <1>3 DEF Range
<1> QED BY <1>4, <1>7, <1>8, <1>9

\* The orders the two constructors go by.
LEMMA Orders ==
  OpenOrder \in Seq(RowTables) /\ H5!GroupOrder \in Seq(RowTables)
<1>1. OpenOrder \in Seq(RowTables)  BY DEF OpenOrder, RowTables, FileNames
<1>2. H5!ClusterTables \in Seq(RowTables) /\ H5!GalaxyTables \in Seq(RowTables)
  BY DEF H5!ClusterTables, H5!GalaxyTables, RowTables, FileNames
<1>3. \A a, b \in Seq(RowTables) : a \o b \in Seq(RowTables)  BY ConcatElements DEF Joined
<1> QED BY <1>1, <1>2, <1>3 DEF H5!GroupOrder

FilesToOpen(tables) == FlattenSeq([i \in DOMAIN tables |-> FilesOf(tables[i])])
\* The files of the tables: those of a table together.
LEMMA FilesClosed ==
  ASSUME NEW tables \in Seq(RowTables)
  PROVE  /\ FilesToOpen(tables) \in Seq(FileNames)
         /\ \A f \in Range(FilesToOpen(tables)) : Range(FilesOf(f)) \subseteq Range(FilesToOpen(tables))
         /\ Range(FilesToOpen(tables)) \subseteq Range(tables) \cup {"cluster_neb_lines", "galaxy_neb_lines"}
<1>1. PICK n \in Nat : n = Len(tables)  OBVIOUS
<1>2. PICK parts : parts = [i \in 1 .. n |-> FilesOf(tables[i])]  OBVIOUS
<1>3. DOMAIN tables = 1 .. n /\ \A i \in 1 .. n : tables[i] \in RowTables  BY <1>1
<1>4. \A i \in 1 .. n : parts[i] = FilesOf(tables[i]) /\ parts[i] \in Seq(FileNames)
  BY <1>2, <1>3, FilesOfTable
<1>5. parts \in [1 .. n -> Seq(FileNames)]  BY <1>2, <1>4
<1>6. SeqOfSeqs(parts, n, FileNames)  BY <1>5 DEF SeqOfSeqs
<1>7. /\ FlattenSeq(parts) \in Seq(FileNames)
      /\ Range(FlattenSeq(parts)) = UNION {Range(parts[i]) : i \in 1 .. n}
  BY <1>6, FlattenRange
<1>8. FilesToOpen(tables) = FlattenSeq(parts)  BY <1>2, <1>3 DEF FilesToOpen
<1>9. \A f : f \in Range(FilesToOpen(tables)) <=> \E i \in 1 .. n : f \in Range(FilesOf(tables[i]))
  BY <1>4, <1>7, <1>8
<1>10. ASSUME NEW f \in Range(FilesToOpen(tables))
       PROVE  /\ Range(FilesOf(f)) \subseteq Range(FilesToOpen(tables))
              /\ f \in Range(tables) \cup {"cluster_neb_lines", "galaxy_neb_lines"}
  <2>1. PICK i \in 1 .. n : f \in Range(FilesOf(tables[i]))  BY <1>9
  <2>2. CASE f = tables[i]
    <3>1. f \in Range(tables)  BY <1>3, <2>2 DEF Range
    <3>2. \A x \in Range(FilesOf(f)) : x \in Range(FilesToOpen(tables))  BY <1>9, <2>2
    <3> QED BY <3>1, <3>2
  <2>3. CASE f # tables[i]
    <3>1. f \in {"cluster_neb_lines", "galaxy_neb_lines"}  BY <1>3, <2>1, <2>3, FilesOfTable
    <3>2. FilesOf(f) = <<f>>  BY <3>1 DEF FilesOf
    <3>3. Range(FilesOf(f)) = {f}  BY <3>2 DEF Range
    <3> QED BY <3>1, <3>3
  <2> QED BY <2>2, <2>3
<1> QED BY <1>7, <1>8, <1>10

\* Nothing has been written at first.
LEMMA InitHolds ==
  ASSUME Init
  PROVE  \E done \in Keys : Holds(done)
<1>1. /\ controls \in Configs /\ open = {} /\ next = 0 /\ merged = <<>> /\ maxTrial = 0
      /\ todo = [t \in Threads |-> <<>>] /\ pc = [t \in Threads |-> "free"]
      /\ cells = [t \in Threads |-> <<>>] /\ lock = [s \in Sections |-> NoThread]
      /\ file = [t \in Threads |-> <<>>] /\ flushed = [t \in Threads |-> {}]
      /\ phase \in {"opening", "refused"}
  BY DEF Init
<1>2. PICK earlier : lines = [f \in DOMAIN EmptyLines |-> IF f \in earlier /\ IsAscii THEN <<<<"earlier">>>> ELSE <<>>]
  BY DEF Init
<1>3. PICK done : done = [o \in Owners |-> [f \in FileNames |-> <<>>]]  OBVIOUS
<1>4. done \in Keys /\ \A o \in Owners : done[o] = [f \in FileNames |-> <<>>]  BY <1>3 DEF Keys
<1>5. \A o \in Owners, f \in FileNames : done[o][f] = <<>> /\ Range(done[o][f]) = {} /\ IsInjective(done[o][f])
  <2>1. Range(<<>>) = {} /\ IsInjective(<<>>)  BY DEF Range, IsInjective
  <2> QED BY <1>4, <2>1
<1>6. NoThread \in Owners  BY DEF Owners
<1>7. /\ toOpen \in Seq(FileNames)
      /\ ~IsAscii => Range(toOpen) \subseteq RowTables
      /\ IsAscii => \A f \in Range(toOpen) : Range(FilesOf(f)) \subseteq Range(toOpen)
      /\ ~IsGalaxy => Range(toOpen) \cap Range(GalaxyTables) = {}
  <2>1. PICK asciis, h5s : asciis = TablesCreated(OpenOrder) /\ h5s = TablesCreated(H5!GroupOrder)
    OBVIOUS
  <2>2. /\ asciis \in Seq(RowTables) /\ h5s \in Seq(RowTables)
        /\ \A x \in Range(asciis) \cup Range(h5s) : Created(x)
    BY <2>1, Orders, TablesMade
  <2>3. toOpen = IF IsAscii THEN FilesToOpen(asciis) ELSE h5s  BY <2>1 DEF Init, FilesToOpen
  <2>4. ASSUME ~IsGalaxy, NEW x, Created(x) PROVE x \notin Range(GalaxyTables)
    <3>1. x \in Range(ClusterTables)  BY <2>4 DEF Created, RelevantKeys
    <3>2. DOMAIN ClusterTables = 1 .. 5 /\ DOMAIN GalaxyTables = 1 .. 5
      BY DEF ClusterTables, GalaxyTables
    <3>3. Range(ClusterTables) \cap Range(GalaxyTables) = {}  BY <3>2, TableNames DEF Range
    <3> QED BY <3>1, <3>3
  <2>5. \A x \in {"cluster_neb_lines", "galaxy_neb_lines"} : x \notin Range(GalaxyTables)
    BY DEF Range, GalaxyTables
  <2>6. CASE IsAscii
    <3>1. /\ toOpen \in Seq(FileNames)
          /\ \A f \in Range(toOpen) : Range(FilesOf(f)) \subseteq Range(toOpen)
          /\ Range(toOpen) \subseteq Range(asciis) \cup {"cluster_neb_lines", "galaxy_neb_lines"}
      BY <2>2, <2>3, <2>6, FilesClosed
    <3> QED BY <2>2, <2>4, <2>5, <2>6, <3>1
  <2>7. CASE ~IsAscii
    <3>1. toOpen = h5s  BY <2>3, <2>7
    <3>2. \A s \in Seq(RowTables) : s \in Seq(FileNames) /\ Range(s) \subseteq RowTables
      <4>1. RowTables \subseteq FileNames  BY DEF RowTables
      <4> QED BY <4>1 DEF Range
    <3> QED BY <2>2, <2>4, <2>7, <3>1, <3>2
  <2> QED BY <2>6, <2>7
<1>8. 0 .. next - 1 = {}  BY <1>1
<1>9. Types
  <2>1. file = [t \in Threads |-> file[t]] /\ DOMAIN file = Threads  BY <1>1
  <2>2. lock \in [Sections -> Owners] /\ todo \in [Threads -> Seq(KeyedRow)]  BY <1>1 DEF Owners
  <2> QED BY <1>1, <1>2, <1>7, <1>8, <2>1, <2>2 DEF Types
<1>10. Opening
  <2>1. phase \in {"opening", "refused"} /\ open \cup Range(toOpen) = Range(toOpen)  BY <1>1
  <2> QED BY <1>1, <1>7, <2>1 DEF Opening
<1>11. Exclusion /\ CellsLeft  BY <1>1 DEF Exclusion, CellsLeft
<1>12. InPlace(done)  BY <1>1 DEF InPlace
<1>13. Books(done)
  <2>1. \A t \in Threads : Range(todo[t]) = {}  BY <1>1 DEF Range
  <2> QED BY <1>4, <1>5, <1>6, <1>8, <2>1 DEF Books, Keys
<1>14. Groups(done)  BY <1>1 DEF Groups
<1>15. Safe(done)
  <2>1. "clusters" \in FileNames  BY DEF FileNames
  <2> QED BY <1>5, <2>1 DEF Safe, Owners
<1>16. LargestSeen(done)
  <2>1. TrialsSeen(done) = {}  BY <1>1, <1>5 DEF TrialsSeen
  <2> QED BY <1>1, <2>1 DEF LargestSeen
<1>17. Texts(done)  BY <1>1, <1>2 DEF Texts
<1>18. Merged(done)  BY <1>1 DEF Merged
<1> QED BY <1>4, <1>9, <1>10, <1>11, <1>12, <1>13, <1>14, <1>15, <1>16, <1>17, <1>18 DEF Holds, WritingInv

\* The invariant, with the keys of the rows that have been written.
LEMMA HoldsIsIInv ==
  IInv <=> \E done \in Keys : Holds(done)
BY DEF IInv, Holds, Keys

\* A step keeps it.
LEMMA StepHolds ==
  ASSUME NEW done \in Keys, Holds(done), [Next]_vars
  PROVE  \E more \in Keys : Holds(more)'
<1>1. CASE UNCHANGED vars  BY <1>1, StoppedStep
<1>2. CASE OpenFile  BY <1>2, OpenFileStep
<1>3. CASE OpenGroups  BY <1>3, OpenGroupsStep
<1>4. CASE Start  BY <1>4, StartStep
<1>5. CASE Close  BY <1>5, CloseStep
<1>6. CASE Stopped  BY <1>6, StoppedStep DEF Stopped
<1>7. ASSUME NEW t \in Threads, BeginTrial(t) PROVE \E more \in Keys : Holds(more)'
  BY <1>7, BeginTrialStep
<1>8. ASSUME NEW t \in Threads, Compute(t) PROVE \E more \in Keys : Holds(more)'
  BY <1>8, ComputeStep
<1>9. ASSUME NEW t \in Threads, Enter(t) PROVE \E more \in Keys : Holds(more)'
  BY <1>9, EnterStep
<1>10. ASSUME NEW t \in Threads, Put(t) PROVE \E more \in Keys : Holds(more)'
  BY <1>10, PutStep
<1>11. ASSUME NEW t \in Threads, Leave(t) PROVE \E more \in Keys : Holds(more)'
  BY <1>11, LeaveStep
<1> QED BY <1>1, <1>2, <1>3, <1>4, <1>5, <1>6, <1>7, <1>8, <1>9, <1>10, <1>11 DEF Next

\* In every reachable state the files hold the rows that have been written, in the order
\* in which each was, and the threads have the others still to write
\* (OutputManagerAscii.cpp and OutputManagerH5.cpp write*).
THEOREM WritingKept == Spec => []IInv
<1>1. Init => IInv  BY InitHolds, HoldsIsIInv
<1>2. IInv /\ [Next]_vars => IInv'
  <2> SUFFICES ASSUME IInv, [Next]_vars PROVE IInv'
    OBVIOUS
  <2>1. PICK done \in Keys : Holds(done)  BY HoldsIsIInv
  <2>2. \E more \in Keys : Holds(more)'  BY <2>1, StepHolds
  <2>3. Keys' = Keys
    <3>1. UNCHANGED controls
      BY DEF Next, vars, OpenFile, OpenGroups, Start, Close, Stopped, BeginTrial, Compute, Enter, Put, Leave
    <3> QED BY <3>1 DEF Keys, Owners, NoThread
  <2>4. \E more \in Keys' : Holds(more)'  BY <2>2, <2>3
  <2> QED BY <2>4 DEF IInv, Holds, Keys
<1> QED BY <1>1, <1>2, PTL DEF Spec

-----------------------------------------------------------------------------
(* What follows from the invariant.                                        *)

\* A birth state is on disk before anything is computed from the cluster.
LEMMA BirthsOnDisk ==
  ASSUME NEW done \in Keys, Holds(done), ~IsAscii => ~NeedsGalaxyTable("clusters")
  PROVE  RngStateOnDiskFirst
<1> SUFFICES ASSUME NEW t \in Threads, ~IsAscii, "clusters" \in open,
                    pc[t] = "computing", Head(todo[t]).table \in Spectral, NEW u \in ComputedFrom(Head(todo[t])),
                    Seen(u, Head(todo[t]).key[2])
             PROVE  \E s \in 0 .. Head(todo[t]).key[2] : <<Head(todo[t]).key[1], s, u>> \in flushed[t]
  BY DEF RngStateOnDiskFirst, Spectral
<1>1. todo[t] # <<>>  BY DEF Holds, Exclusion
<1>2. PICK trial \in 0 .. next - 1, k \in Nat :
        /\ k < Len(Rows(trial)) /\ todo[t] = From(Rows(trial), k)
        /\ \A j \in 1 .. k : Rows(trial)[j].key \in Range(done[Owner(t)][Rows(trial)[j].table])
  BY <1>1 DEF Holds, WritingInv, InPlace
<1>3. trial \in Trials  BY <1>2 DEF Holds, Types
<1>4. PICK s, row : s = Rows(trial) /\ row = Head(todo[t])  OBVIOUS
<1>5. s \in Seq(KeyedRow) /\ Len(s) \in Nat  BY <1>3, <1>4, RowsElements
<1>6. k + 1 \in 1 .. Len(s) /\ k <= Len(s)  BY <1>2, <1>4, <1>5
<1>7. row = s[k + 1]
  <2>1. todo[t] = From(s, k) /\ k < Len(s)  BY <1>2, <1>4
  <2>2. Head(From(s, k)) = s[k + 1]  BY <1>5, <1>6, <2>1, FromSteps
  <2> QED BY <1>4, <2>1, <2>2
<1>8. PICK o \in 1 .. (k + 1) - 1, time \in 0 .. row.key[2] : s[o] = RowOf("clusters", row.key[1], time, u)
  <2>1. row.table \in Spectral /\ u \in ComputedFrom(row) /\ Seen(u, row.key[2])  BY <1>4
  <2>2. k + 1 \in 1 .. Len(Rows(trial)) /\ row = Rows(trial)[k + 1]  BY <1>4, <1>6, <1>7
  <2>3. PICK p : p = k + 1  OBVIOUS
  <2>4. UsesCluster(open, Rows(trial), p, row, u)  BY <2>1, <2>2, <2>3 DEF UsesCluster
  <2>5. BirthIsBefore(trial, p, row, u)  BY <1>3, <2>4, BirthBefore
  <2> QED BY <1>4, <2>3, <2>5 DEF BirthIsBefore
<1>9. o \in 1 .. k  BY <1>2, <1>8
<1>10. PICK key : key = <<row.key[1], time, u>>  OBVIOUS
<1>11. s[o].table = "clusters" /\ s[o].key = key  BY <1>8, <1>10 DEF RowOf
<1>12. key \in Range(done[t]["clusters"])  BY <1>2, <1>4, <1>9, <1>11 DEF Owner
<1>13. Range(done[t]["clusters"]) \subseteq flushed[t]  BY DEF Holds, WritingInv, Safe
<1> QED BY <1>4, <1>10, <1>12, <1>13

\* A group that has the same rows in every dataset is aligned.
LEMMA GatheredAligned ==
  ASSUME NEW g, RowShape(g), NEW K, NEW keys \in Seq(K), NEW group, Gathered(group, g, keys)
  PROVE  GroupAligned(g, group)
<1>1. PICK R, D, names : R = H5!Row(g) /\ D = H5!Datasets(g) /\ names = DatasetNames(g)  OBVIOUS
<1>2. /\ DOMAIN group = names /\ \A k \in 1 .. Len(R) : group[R[k][1]] = Entries(keys, R[k][2])
      /\ \A d \in names : \E k \in 1 .. Len(R) : R[k][1] = d
      /\ \A i \in DOMAIN D : \E k \in 1 .. Len(R) : R[k] = D[i]
      /\ \E k \in 1 .. Len(R) : R[k][1] = "trial"
  BY <1>1 DEF Gathered, RowShape
<1>3. PICK n \in Nat : n = Len(keys)  OBVIOUS
<1>4. \A w : /\ DOMAIN Entries(keys, w) = 1 .. n
             /\ \A i \in 1 .. n : Entries(keys, w)[i][1] = keys[i] /\ Entries(keys, w)[i][2] = w
  BY <1>3 DEF Entries
<1>5. \A w : [i \in DOMAIN Entries(keys, w) |-> Entries(keys, w)[i][1]] = [i \in 1 .. n |-> keys[i]]
  BY <1>4
<1>6. PICK w1 : group["trial"] = Entries(keys, w1)  BY <1>2
<1>7. \A d \in DOMAIN group : \E w : group[d] = Entries(keys, w)  BY <1>2
<1>8. \A d \in DOMAIN group :
        [i \in DOMAIN group[d] |-> group[d][i][1]] = [i \in DOMAIN group["trial"] |-> group["trial"][i][1]]
  BY <1>5, <1>6, <1>7
<1>9. ASSUME NEW k \in DOMAIN D PROVE \A i \in DOMAIN group[D[k][1]] : group[D[k][1]][i][2] = D[k][2]
  <2>1. PICK j \in 1 .. Len(R) : R[j] = D[k]  BY <1>2
  <2>2. group[D[k][1]] = Entries(keys, D[k][2])  BY <1>2, <2>1
  <2> QED BY <1>4, <2>2
<1> QED BY <1>1, <1>8, <1>9 DEF GroupAligned

\* How much of a row has been put is no more than the row has.
LEMMA TextLength ==
  ASSUME NEW done \in Keys, Holds(done), IsAscii, NEW f \in open
  PROVE  \E keys, whole, put :
           /\ TextIs(lines[f], f, keys, whole, put) /\ whole \in Nat /\ put \in 0 .. 2 * Len(LinesOf(f))
           /\ Within(f) \/ (put = 0 /\ keys = done[NoThread][f] /\ whole = Len(keys))
<1> USE DEF Holds
<1>1. f \in FileNames /\ NoThread \in Owners  BY DEF Types, Owners
<1>2. PICK keys : keys = done[NoThread][f]  OBVIOUS
<1>3. keys \in Seq(Key)  BY <1>1, <1>2 DEF Keys
<1>4. ControlsOK  BY DEF Types, ControlsOK
<1>5. Len(LinesOf(f)) \in Nat  BY <1>1, <1>4, AllLinesUnder DEF LinesUnder
<1>6. /\ (\A t \in Threads : ~WritingTo(t, f)) => TextIs(lines[f], f, keys, Len(keys), 0)
      /\ \A t \in Threads : WritingTo(t, f) => TextIs(lines[f], f, Append(keys, Head(todo[t]).key), Len(keys), Put0(t))
  BY <1>2 DEF WritingInv, Texts, Text
<1>7. 0 \in 0 .. 2 * Len(LinesOf(f)) /\ Len(keys) \in Nat  BY <1>3, <1>5
<1>8. CASE \A t \in Threads : ~WritingTo(t, f)  BY <1>2, <1>6, <1>7, <1>8
<1>9. CASE \E t \in Threads : WritingTo(t, f)
  <2>1. PICK t \in Threads : WritingTo(t, f)  BY <1>9
  <2>2. pc[t] = "writing" /\ Head(todo[t]).table = f  BY <2>1 DEF WritingTo
  <2>3. Within(f)  BY <2>2 DEF Within
  <2>4. PICK row : row = Head(todo[t])  OBVIOUS
  <2>5. CellsShape(row)
    <3>1. row.table \in FileNames  BY <1>1, <2>2, <2>4
    <3> QED BY <1>4, <3>1, CellsSteps
  <2>6. Len(Cells(row)) = 2 * Len(LinesOf(f))  BY <2>2, <2>4, <2>5 DEF CellsShape
  <2>7. Put0(t) \in 0 .. Len(Cells(row))  BY <2>2, <2>4 DEF CellsLeft, StepsLeft
  <2> QED BY <1>6, <1>7, <2>1, <2>3, <2>6, <2>7
<1> QED BY <1>8, <1>9

\* The lines of a text are aligned.
LEMMA TextAligned ==
  ASSUME ControlsOK, NEW f, f \in FileNames, NEW text, NEW keys, NEW whole \in Nat, NEW put,
         put \in 0 .. 2 * Len(LinesOf(f)), TextIs(text, f, keys, whole, put)
  PROVE  /\ \A i \in 1 .. Len(text) - 1 : LineAligned(f, text[i])
         /\ put = 0 => text[Len(text)] = <<>>
<1>1. PICK ls, n : ls = LinesOf(f) /\ n = Len(ls)  OBVIOUS
<1>2. n \in Nat /\ \A i \in 1 .. n : LineOK(f, ls[i])  BY <1>1, AllLinesUnder DEF LinesUnder
<1>3. PICK c, half : c = n * whole + (put \div 2) /\ half = put % 2  OBVIOUS
<1>4. Content(text, f, keys, c, half)  BY <1>1, <1>3 DEF TextIs
<1>5. put \in 0 .. 2 * n  BY <1>1
<1>6. c \in Nat /\ (n = 0 => c = 0) /\ (put = 0 => half = 0)
  <2>1. n * whole \in Nat /\ (n = 0 => n * whole = 0)  BY <1>2
  <2>2. put \div 2 \in Nat /\ (n = 0 => put \div 2 = 0) /\ (put = 0 => put % 2 = 0)  BY <1>2, <1>5
  <2> QED BY <1>3, <2>1, <2>2
<1>7. /\ Len(text) = c + 1 /\ (\A p \in 1 .. c : text[p] = TextAt(f, keys, p))
      /\ text[c + 1] = IF half = 1 THEN TextAt(f, keys, c + 1) ELSE <<>>
  BY <1>4 DEF Content
<1>8. ASSUME NEW p \in 1 .. c PROVE LineAligned(f, text[p])
  <2>1. n # 0  BY <1>6
  <2>2. PICK r : r = ((p - 1) % n) + 1  OBVIOUS
  <2>3. r \in 1 .. n  BY <1>2, <1>6, <2>1, <2>2
  <2>4. PICK key : text[p] = Tagged(ls[r], key)  BY <1>1, <1>7, <2>2 DEF TextAt
  <2> QED BY <1>2, <2>3, <2>4, TaggedAligned
<1>9. Len(text) - 1 = c  BY <1>6, <1>7
<1> QED BY <1>6, <1>7, <1>8, <1>9

\* Nobody reads a torn or shifted row.
LEMMA AllAligned ==
  ASSUME NEW done \in Keys, Holds(done)
  PROVE  RowsAligned
<1> USE DEF Holds
<1>1. ControlsOK  BY DEF Types, ControlsOK
<1>2. ASSUME IsAscii, NEW f \in open
      PROVE  /\ \A i \in 1 .. Len(lines[f]) - 1 : LineAligned(f, lines[f][i])
             /\ Within(f) \/ lines[f][Len(lines[f])] = <<>>
  <2>1. f \in FileNames  BY DEF Types
  <2>2. PICK keys, whole, put :
          /\ TextIs(lines[f], f, keys, whole, put) /\ whole \in Nat /\ put \in 0 .. 2 * Len(LinesOf(f))
          /\ Within(f) \/ put = 0
    BY <1>2, TextLength
  <2> QED BY <1>1, <2>1, <2>2, TextAligned
<1>3. ASSUME NEW t \in Threads, NEW g \in DOMAIN file[t]
      PROVE  GroupAligned(g, file[t][g]) \/ (pc[t] = "writing" /\ Head(todo[t]).table = g)
  <2>1. ~IsAscii /\ g \in open
    <3>1. DOMAIN file[t] = IF IsAscii THEN {} ELSE open  BY DEF WritingInv, Groups
    <3> QED BY <1>3, <3>1
  <2>2. g \in RowTables /\ g \in FileNames  BY <2>1 DEF Types, RowTables
  <2>3. CASE WritingTo(t, g)  BY <2>3 DEF WritingTo
  <2>4. CASE ~WritingTo(t, g)
    <3>1. \A k : KeysIn(done, t, g, k) = done[t][g]  BY <2>4 DEF KeysIn
    <3>2. Gathered(file[t][g], g, done[t][g])  BY <2>1, <3>1 DEF WritingInv, Groups, Gathered
    <3>3. done[t][g] \in Seq(Key)  BY <2>2 DEF Keys, Owners
    <3>4. RowShape(g)  BY <1>1, <2>2, RowShapes
    <3> QED BY <3>2, <3>3, <3>4, GatheredAligned
  <2> QED BY <2>3, <2>4
<1>4. ASSUME NEW g \in DOMAIN merged PROVE GroupAligned(g, merged[g])
  <2>1. phase = "closed" /\ ~IsAscii
    <3>1. DOMAIN <<>> = {}  OBVIOUS
    <3> QED BY <1>4, <3>1 DEF WritingInv, Merged
  <2>2. DOMAIN merged = open  BY <2>1 DEF WritingInv, Merged
  <2>3. g \in RowTables  BY <1>4, <2>1, <2>2 DEF Types
  <2>4. PICK keys \in Seq(Key) : Gathered(merged[g], g, keys)
    BY <1>4, <2>1, <2>2 DEF WritingInv, Merged, Gathered
  <2>5. RowShape(g)  BY <1>1, <2>3, RowShapes
  <2> QED BY <2>4, <2>5, GatheredAligned
<1> QED BY <1>2, <1>3, <1>4 DEF RowsAligned
\* What a table should have, by its kind.
LEMMA ExpectedOfGalaxy ==
  ASSUME NEW f, f \in Range(GalaxyTables), NEW key \in Key
  PROVE  key \in ExpectedRows(f) <=> key[2] \in 1 .. NTimes /\ key[3] = 0
BY DEF ExpectedRows, Key

\* The clusters of a galaxy.
LEMMA ExpectedOfClusters ==
  ASSUME NEW f, f \notin Range(GalaxyTables), IsGalaxy, NEW key \in Key
  PROVE  key \in ExpectedRows(f) <=>
           key[2] \in 1 .. NTimes /\ key[3] \in Clusters[key[1]] /\ ~Disrupted(key[3], key[2])
<1>1. key \in ExpectedRows(f) <=>
        \E trial \in Trials : key \in {k \in {trial} \X (1 .. NTimes) \X Clusters[trial] : ~Disrupted(k[3], k[2])}
  BY DEF ExpectedRows
<1> QED BY <1>1 DEF Key

TimesOf(f, u) ==
  IF f = "clusters" THEN {0}
  ELSE {s \in 1 .. NTimes : f \in {"cluster_spectra", "cluster_phot"} => ~Disrupted(u, s)}
\* The one cluster of a trial.
LEMMA ExpectedOfCluster ==
  ASSUME NEW f, f \notin Range(GalaxyTables), ~IsGalaxy, NEW key \in Key
  PROVE  key \in ExpectedRows(f) <=> key[3] = TheCluster(key[1]) /\ key[2] \in TimesOf(f, key[3])
<1>1. key \in ExpectedRows(f) <=>
        \E trial \in Trials : \E s \in TimesOf(f, TheCluster(trial)) : key = <<trial, s, TheCluster(trial)>>
  BY DEF ExpectedRows, TimesOf
<1> QED BY <1>1 DEF Key

\* They are keys.
LEMMA ExpectedAreKeys ==
  ASSUME NEW f
  PROVE  ExpectedRows(f) \subseteq Key
<1>1. \A u, s : s \in TimesOf(f, u) => s \in 0 .. NTimes  BY OutputAssumption DEF TimesOf
<1>2. \A s \in 1 .. NTimes : s \in 0 .. NTimes  BY OutputAssumption
<1>3. \A trial \in Trials : Clusters[trial] \subseteq Nat /\ TheCluster(trial) \in Nat
  BY OutputAssumption, TheClusterIn DEF Trials
<1>4. CASE f \in Range(GalaxyTables)  BY <1>2, <1>4 DEF ExpectedRows, Key
<1>5. CASE f \notin Range(GalaxyTables) /\ IsGalaxy
  <2>1. \A key \in ExpectedRows(f) : \E trial \in Trials : key \in {trial} \X (1 .. NTimes) \X Clusters[trial]
    BY <1>5 DEF ExpectedRows
  <2> QED BY <1>2, <1>3, <2>1 DEF Key
<1>6. CASE f \notin Range(GalaxyTables) /\ ~IsGalaxy
  <2>1. \A key \in ExpectedRows(f) : \E trial \in Trials : \E s \in TimesOf(f, TheCluster(trial)) :
          key = <<trial, s, TheCluster(trial)>>
    BY <1>6 DEF ExpectedRows, TimesOf
  <2> QED BY <1>1, <1>3, <2>1 DEF Key
<1> QED BY <1>4, <1>5, <1>6

IsRow(row, f, trial, key) ==
  \A table, time, u : row = RowOf(table, trial, time, u) <=> table = f /\ time = key[2] /\ u = key[3]
\* Which row it is.
LEMMA RowIs ==
  ASSUME NEW f, NEW key \in Key, NEW trial, key[1] = trial, NEW row, row = [table |-> f, key |-> key]
  PROVE  IsRow(row, f, trial, key)
<1>1. key = <<key[1], key[2], key[3]>>  BY DEF Key
<1> QED BY <1>1 DEF RowOf, IsRow

\* The row of a galaxy itself.
LEMMA RowsOfGalaxy ==
  ASSUME ControlsOK, IsGalaxy, NEW i0 \in 1 .. 5, NEW f, f = GalaxyTables[i0], f \in open,
         NEW trial, NEW key \in Key, key[1] = trial
  PROVE  InTrialRows(open, trial, [table |-> f, key |-> key]) <=> ~NeedsGalaxyTable(f) /\ key \in ExpectedRows(f)
<1>1. f \in Range(GalaxyTables)  BY DEF GalaxyTables, Range
<1>2. key \in ExpectedRows(f) <=> key[2] \in 1 .. NTimes /\ key[3] = 0  BY <1>1, ExpectedOfGalaxy
<1>3. ~NeedsGalaxyTable(f)
  <2>1. \A i \in 1 .. 3 : i \in 1 .. 5  OBVIOUS
  <2> QED BY <2>1, TableNames DEF NeedsGalaxyTable
<1>4. PICK row : row = [table |-> f, key |-> key]  OBVIOUS
<1>5. IsRow(row, f, trial, key)  BY <1>4, RowIs
<1>6. ASSUME NEW i \in 1 .. 5, NEW time
      PROVE  InGalaxyRows(open, i, trial, time, row) <=> i = i0 /\ time = key[2] /\ key[3] = 0
  <2>1. /\ row = RowOf(GalaxyTables[i], trial, time, 0) <=> i = i0 /\ time = key[2] /\ key[3] = 0
        /\ \A u : row # RowOf(ClusterTables[i], trial, time, u)
    BY <1>5, TableNames DEF IsRow
  <2> QED BY <2>1 DEF InGalaxyRows
<1>7. InTrialRows(open, trial, row) <=> \E time \in 1 .. NTimes : \E i \in 1 .. 5 : InGalaxyRows(open, i, trial, time, row)
  BY DEF InTrialRows, InGalaxyTrial, InAtTime
<1>8. InTrialRows(open, trial, row) <=> key[2] \in 1 .. NTimes /\ key[3] = 0  BY <1>6, <1>7
<1> QED BY <1>2, <1>3, <1>4, <1>8

\* The rows of its clusters.
LEMMA RowsOfClusters ==
  ASSUME ControlsOK, IsGalaxy, NEW i0 \in 1 .. 5, NEW f, f = ClusterTables[i0], f \in open,
         NEW trial, NEW key \in Key, key[1] = trial
  PROVE  InTrialRows(open, trial, [table |-> f, key |-> key]) <=> ~NeedsGalaxyTable(f) /\ key \in ExpectedRows(f)
<1>1. f \notin Range(GalaxyTables)
  <2>1. DOMAIN GalaxyTables = 1 .. 5  BY DEF GalaxyTables
  <2> QED BY <2>1, TableNames DEF Range
<1>2. key \in ExpectedRows(f) <=>
        key[2] \in 1 .. NTimes /\ key[3] \in Clusters[trial] /\ ~Disrupted(key[3], key[2])
  BY <1>1, ExpectedOfClusters
<1>3. NeedsGalaxyTable(f) <=> controls.format = "h5" /\ i0 <= 3 /\ GalaxyTables[i0] \notin open
  <2>1. \A i \in 1 .. 3 : i \in 1 .. 5 /\ i <= 3  OBVIOUS
  <2>2. i0 <= 3 => i0 \in 1 .. 3  OBVIOUS
  <2>3. ~IsAscii <=> controls.format = "h5"  BY ControlsTyped DEF IsAscii
  <2> QED BY <2>1, <2>2, <2>3, TableNames DEF NeedsGalaxyTable
<1>4. PICK row : row = [table |-> f, key |-> key]  OBVIOUS
<1>5. IsRow(row, f, trial, key)  BY <1>4, RowIs
<1>6. ASSUME NEW i \in 1 .. 5, NEW time
      PROVE  InGalaxyRows(open, i, trial, time, row) <=>
               /\ i = i0 /\ time = key[2] /\ key[3] \in Clusters[trial] /\ ~Disrupted(key[3], key[2])
               /\ ~(controls.format = "h5" /\ i0 <= 3 /\ GalaxyTables[i0] \notin open)
  <2>1. /\ row # RowOf(GalaxyTables[i], trial, time, 0)
        /\ \A u : row = RowOf(ClusterTables[i], trial, time, u) <=> i = i0 /\ time = key[2] /\ u = key[3]
    BY <1>5, TableNames DEF IsRow
  <2> QED BY <2>1 DEF InGalaxyRows
<1>7. InTrialRows(open, trial, row) <=> \E time \in 1 .. NTimes : \E i \in 1 .. 5 : InGalaxyRows(open, i, trial, time, row)
  BY DEF InTrialRows, InGalaxyTrial, InAtTime
<1>8. InTrialRows(open, trial, row) <=>
        /\ key[2] \in 1 .. NTimes /\ key[3] \in Clusters[trial] /\ ~Disrupted(key[3], key[2])
        /\ ~(controls.format = "h5" /\ i0 <= 3 /\ GalaxyTables[i0] \notin open)
  BY <1>6, <1>7
<1> QED BY <1>2, <1>3, <1>4, <1>8

\* The rows of the one cluster of a trial.
LEMMA RowsOfCluster ==
  ASSUME ControlsOK, ~IsGalaxy, NEW i0 \in 1 .. 5, NEW f, f = ClusterTables[i0], f \in open,
         NEW trial, NEW key \in Key, key[1] = trial
  PROVE  InTrialRows(open, trial, [table |-> f, key |-> key]) <=> ~NeedsGalaxyTable(f) /\ key \in ExpectedRows(f)
<1>1. f \notin Range(GalaxyTables)
  <2>1. DOMAIN GalaxyTables = 1 .. 5  BY DEF GalaxyTables
  <2> QED BY <2>1, TableNames DEF Range
<1>2. key \in ExpectedRows(f) <=> key[3] = TheCluster(trial) /\ key[2] \in TimesOf(f, key[3])
  BY <1>1, ExpectedOfCluster
<1>3. ~NeedsGalaxyTable(f)  BY DEF NeedsGalaxyTable
<1>4. PICK row : row = [table |-> f, key |-> key]  OBVIOUS
<1>5. key = <<key[1], key[2], key[3]>>  BY DEF Key
<1>6. PICK uid : uid = TheCluster(trial)  OBVIOUS
<1>7. \A table, time : InClusterRows(open, table, trial, time, uid, row) <=>
        /\ table = f /\ time = key[2] /\ key[3] = uid
        /\ ~(f \in {"cluster_spectra", "cluster_phot"} /\ Disrupted(uid, time))
  BY <1>4, <1>5 DEF InClusterRows, RowOf
<1>8. InTrialRows(open, trial, row) <=>
        \/ InClusterRows(open, "clusters", trial, 0, uid, row)
        \/ \E time \in 1 .. NTimes : \E i \in 2 .. 5 : InClusterRows(open, ClusterTables[i], trial, time, uid, row)
  BY <1>6 DEF InTrialRows, InClusterTrial, InResultsAt
<1>9. CASE i0 = 1
  <2>1. f = "clusters" /\ \A i \in 2 .. 5 : ClusterTables[i] # f  BY <1>9 DEF ClusterTables
  <2>2. InTrialRows(open, trial, row) <=> 0 = key[2] /\ key[3] = uid  BY <1>7, <1>8, <2>1
  <2> QED BY <1>2, <1>3, <1>4, <1>6, <2>1, <2>2 DEF TimesOf
<1>10. CASE i0 # 1
  <2>1. f # "clusters" /\ i0 \in 2 .. 5  BY <1>10 DEF ClusterTables
  <2>2. InTrialRows(open, trial, row) <=>
          /\ key[2] \in 1 .. NTimes /\ key[3] = uid
          /\ ~(f \in {"cluster_spectra", "cluster_phot"} /\ Disrupted(uid, key[2]))
    BY <1>7, <1>8, <2>1
  <2>3. key[2] \in TimesOf(f, key[3]) <=>
          key[2] \in 1 .. NTimes /\ (f \in {"cluster_spectra", "cluster_phot"} => ~Disrupted(key[3], key[2]))
    BY <2>1 DEF TimesOf
  <2> QED BY <1>2, <1>3, <1>4, <1>6, <2>2, <2>3
<1> QED BY <1>9, <1>10

\* With ascii output the rows of a table are those of its own file.
LEMMA RowsOfFile ==
  ASSUME NEW f \in RowTables, NEW trial, NEW row \in KeyedRow, row.table = f
  PROVE  InRows(trial, row) <=> InTrialRows(open, trial, row)
<1>1. CASE ~IsAscii  BY <1>1 DEF InRows
<1>2. CASE IsAscii
  <2>1. ASSUME NEW r \in KeyedRow, InTrialRows(open, trial, r), LinesOfRow(r, row) PROVE r = row
    <3>1. r.table \in RowTables  BY <2>1, TrialRowsTable DEF OfTrial
    <3>2. row.key = r.key /\ f \in Range(FilesOf(r.table))  BY <2>1 DEF LinesOfRow
    <3>3. f = r.table
      <4>1. f # "cluster_neb_lines" /\ f # "galaxy_neb_lines"  BY DEF RowTables
      <4> QED BY <3>1, <3>2, <4>1, FilesOfTable
    <3> QED BY <3>2, <3>3, SameRow
  <2>2. LinesOfRow(row, row)  BY FilesOfTable DEF LinesOfRow
  <2> QED BY <1>2, <2>1, <2>2 DEF InRows
<1> QED BY <1>1, <1>2

\* The tables, by their kind.
LEMMA TableKinds ==
  ASSUME NEW f \in RowTables
  PROVE  \E i \in 1 .. 5 : f = ClusterTables[i] \/ f = GalaxyTables[i]
BY DEF RowTables, FileNames, ClusterTables, GalaxyTables

\* The rows of a trial are those the table should have.
LEMMA RowsExpected ==
  ASSUME ControlsOK, NEW f \in RowTables, f \in open, ~IsGalaxy => f \notin Range(GalaxyTables),
         NEW key \in Key, NEW row, row = [table |-> f, key |-> key]
  PROVE  InRows(key[1], row) <=> ~NeedsGalaxyTable(f) /\ key \in ExpectedRows(f)
<1>1. PICK i \in 1 .. 5 : f = ClusterTables[i] \/ f = GalaxyTables[i]  BY TableKinds
<1>2. row \in KeyedRow /\ row.table = f
  <2>1. f \in FileNames  BY DEF RowTables
  <2> QED BY <2>1 DEF KeyedRow
<1>3. PICK trial : trial = key[1]  OBVIOUS
<1>4. InRows(trial, row) <=> InTrialRows(open, trial, row)  BY <1>2, RowsOfFile
<1>5. InTrialRows(open, trial, row) <=> ~NeedsGalaxyTable(f) /\ key \in ExpectedRows(f)
  <2>1. CASE f = GalaxyTables[i] /\ IsGalaxy  BY <1>3, <2>1, RowsOfGalaxy
  <2>2. CASE f = ClusterTables[i] /\ IsGalaxy  BY <1>3, <2>2, RowsOfClusters
  <2>3. CASE f = ClusterTables[i] /\ ~IsGalaxy  BY <1>3, <2>3, RowsOfCluster
  <2>4. CASE f = GalaxyTables[i] /\ ~IsGalaxy
    <3>1. f \in Range(GalaxyTables)  BY <2>4 DEF GalaxyTables, Range
    <3> QED BY <2>4, <3>1
  <2> QED BY <1>1, <2>1, <2>2, <2>3, <2>4
<1> QED BY <1>3, <1>4, <1>5

\* When the program is done every trial has been begun.
LEMMA AllBegun ==
  ASSUME NEW done \in Keys, Holds(done), phase = "closed"
  PROVE  Trials = 0 .. next - 1 /\ \A t \in Threads : todo[t] = <<>> /\ pc[t] = "free"
<1>1. next \in Nat /\ next \notin Trials /\ 0 .. next - 1 \subseteq Trials
  BY DEF Holds, Types, Opening
<1>2. PICK n \in Nat : Trials = 0 .. n - 1
  <2>1. Cardinality(Trials) \in Nat  BY OutputAssumption, FS_CardinalityType DEF Trials
  <2> QED BY <2>1, OutputAssumption DEF Trials
<1>3. n <= next  BY <1>1, <1>2
<1>4. Trials = 0 .. next - 1
  <2>1. \A x \in Trials : x \in 0 .. next - 1  BY <1>1, <1>2, <1>3
  <2> QED BY <1>1, <2>1
<1> QED BY <1>4 DEF Holds, Opening

\* So every row has been written, and nothing else.
LEMMA DoneKeys ==
  ASSUME NEW done \in Keys, Holds(done), phase = "closed", NEW f \in FileNames, NEW key \in Key,
         NEW row, row = [table |-> f, key |-> key]
  PROVE  (\E o \in Owners : key \in Range(done[o][f])) <=> InRows(key[1], row)
<1>1. Trials = 0 .. next - 1 /\ \A t \in Threads : Range(todo[t]) = {}  BY AllBegun DEF Range
<1>2. PICK trial : trial = key[1]  OBVIOUS
<1>3. trial \in Trials /\ trial \in 0 .. next - 1  BY <1>1, <1>2 DEF Key
<1>4. row \in Range(Rows(trial)) <=> InRows(trial, row)  BY <1>3, RowsElements
<1>5. row.key = key /\ row.table = f  OBVIOUS
<1>6. ASSUME row \in Range(Rows(trial)) PROVE \E o \in Owners : key \in Range(done[o][f])
  <2>1. \A x \in 0 .. next - 1 : \A r \in Range(Rows(x)) :
          (\E t \in Threads : r \in Range(todo[t])) \/ (\E o \in Owners : r.key \in Range(done[o][r.table]))
    BY DEF Holds, WritingInv, Books
  <2> QED BY <1>1, <1>3, <1>5, <1>6, <2>1
<1>7. ASSUME NEW o \in Owners, key \in Range(done[o][f]) PROVE row \in Range(Rows(trial))
  BY <1>2, <1>7 DEF Holds, WritingInv, Books
<1> QED BY <1>2, <1>4, <1>6, <1>7

InAnyFile(done, f, keys) == \A key \in Key : key \in Range(keys) <=> \E o \in Owners : key \in Range(done[o][f])
\* A table has each of its rows once, if they are those that have been written.
LEMMA WrittenFrom ==
  ASSUME NEW done \in Keys, Holds(done), phase = "closed", NEW f \in RowTables, f \in open,
         NEW keys \in Seq(Key), IsInjective(keys), InAnyFile(done, f, keys), ~NeedsGalaxyTable(f)
  PROVE  WrittenOnce(f, keys)
<1>1. f \in FileNames  BY DEF RowTables
<1>2. ControlsOK /\ (~IsGalaxy => f \notin Range(GalaxyTables))
  BY DEF Holds, Types, ControlsOK, Opening
<1>3. ASSUME NEW key \in Key PROVE key \in Range(keys) <=> ~NeedsGalaxyTable(f) /\ key \in ExpectedRows(f)
  <2>1. PICK row : row = [table |-> f, key |-> key]  OBVIOUS
  <2>2. key \in Range(keys) <=> InRows(key[1], row)  BY <1>1, <2>1, DoneKeys DEF InAnyFile
  <2>3. InRows(key[1], row) <=> ~NeedsGalaxyTable(f) /\ key \in ExpectedRows(f)
    BY <1>2, <2>1, RowsExpected
  <2> QED BY <2>2, <2>3
<1>4. Range(keys) \subseteq Key  BY DEF Range
<1>5. PICK E : E = ExpectedRows(f)  OBVIOUS
<1>6. E \subseteq Key  BY <1>5, ExpectedAreKeys
<1>7. Range(keys) = E
  <2>1. \A key \in Key : key \in Range(keys) <=> key \in E  BY <1>3, <1>5
  <2> QED BY <1>4, <1>6, <2>1
<1>8. Len(keys) = Cardinality(Range(keys))  BY InjectiveLength
<1> QED BY <1>5, <1>7, <1>8 DEF WrittenOnce

\* The keys of a dataset's entries.
LEMMA EntriesAre ==
  ASSUME NEW K, NEW keys \in Seq(K), NEW w, NEW entries, entries = Entries(keys, w)
  PROVE  /\ DOMAIN entries = 1 .. Len(keys) /\ \A i \in 1 .. Len(keys) : entries[i][1] = keys[i]
         /\ [i \in DOMAIN entries |-> entries[i][1]] = keys
<1>1. DOMAIN entries = 1 .. Len(keys) /\ \A i \in 1 .. Len(keys) : entries[i][1] = keys[i]
  BY DEF Entries
<1>2. keys = [i \in 1 .. Len(keys) |-> keys[i]]  OBVIOUS
<1> QED BY <1>1, <1>2

\* The consolidated groups.
LEMMA MergedKeys ==
  ASSUME NEW done \in Keys, Holds(done), phase = "closed", ~IsAscii, NEW g \in open
  PROVE  \E keys \in Seq(Key) : \E w : IsInjective(keys) /\ InAnyFile(done, g, keys) /\ merged[g]["trial"] = Entries(keys, w)
<1>1. PICK keys \in Seq(Key) :
        /\ IsInjective(keys) /\ Range(keys) = UNION {Range(done[t][g]) : t \in Threads}
        /\ \A k \in 1 .. Len(H5!Row(g)) : merged[g][H5!Row(g)[k][1]] = Entries(keys, H5!Row(g)[k][2])
  BY DEF Holds, WritingInv, Merged
<1>2. g \in RowTables /\ ControlsOK /\ g \in FileNames  BY DEF Holds, Types, ControlsOK, RowTables
<1>3. \E k \in 1 .. Len(H5!Row(g)) : H5!Row(g)[k][1] = "trial"  BY <1>2, RowShapes DEF RowShape
<1>4. PICK w : merged[g]["trial"] = Entries(keys, w)  BY <1>1, <1>3
<1>5. done[NoThread][g] = <<>>  BY <1>2 DEF Holds, WritingInv, Books
<1>6. Range(done[NoThread][g]) = {}  BY <1>5 DEF Range
<1>7. InAnyFile(done, g, keys)
  <2>1. \A key : key \in Range(keys) <=> \E t \in Threads : key \in Range(done[t][g])  BY <1>1
  <2> QED BY <1>6, <2>1 DEF InAnyFile, Owners
<1> QED BY <1>1, <1>4, <1>7

\* The rows of a text file, told by the last line of each.
LEMMA TextKeys ==
  ASSUME NEW done \in Keys, Holds(done), phase = "closed", IsAscii, NEW f \in RowTables, f \in open
  PROVE  LET n == Len(LinesOf(f))
             rows == (Len(lines[f]) - 1) \div n
         IN [i \in 1 .. rows |-> lines[f][i * n][1][3]] = done[NoThread][f]
<1>1. PICK n, text, ls : n = Len(LinesOf(f)) /\ text = lines[f] /\ ls = LinesOf(f)  OBVIOUS
<1>2. f \in FileNames /\ NoThread \in Owners /\ ControlsOK
  BY DEF RowTables, Owners, Holds, Types, ControlsOK
<1>3. ~Within(f)  BY AllBegun DEF Within
<1>4. PICK keys, whole, put : TextIs(text, f, keys, whole, put) /\ put = 0 /\ keys = done[NoThread][f] /\ whole = Len(keys)
  BY <1>1, <1>3, TextLength
<1>5. keys \in Seq(Key) /\ whole \in Nat  BY <1>2, <1>4 DEF Keys
<1>6. n \in Nat \ {0} /\ \A i \in 1 .. n : LineOK(f, ls[i])
  BY <1>1, <1>2, AllLinesUnder DEF LinesUnder
<1>7. PICK c : c = n * whole  OBVIOUS
<1>8. Content(text, f, keys, c, 0)
  <2>1. n * whole \in Nat  BY <1>5, <1>6
  <2>2. n * whole + (0 \div 2) = c /\ 0 % 2 = 0  BY <1>7, <2>1
  <2> QED BY <1>1, <1>4, <2>2 DEF TextIs
<1>9. c \in Nat /\ Len(text) - 1 = c
  <2>1. c \in Nat  BY <1>5, <1>6, <1>7
  <2>2. Len(text) = c + 1  BY <1>8 DEF Content
  <2> QED BY <2>1, <2>2
<1>10. c \div n = whole
  <2>1. 0 \in 0 .. n - 1  BY <1>6
  <2>2. (n * whole + 0) \div n = whole  BY <1>5, <1>6, <2>1, QuotientRemainder
  <2> QED BY <1>7, <1>9, <2>2
<1>11. ASSUME NEW i \in 1 .. whole PROVE text[i * n][1][3] = keys[i]
  <2>1. PICK p : p = i * n  OBVIOUS
  <2>2. PICK q : q = i - 1  OBVIOUS
  <2>3. q \in Nat /\ q + 1 = i /\ n - 1 \in 0 .. n - 1 /\ (n - 1) + 1 = n /\ n \in 1 .. n
    BY <1>5, <1>6, <2>2
  <2>4. p - 1 = n * q + (n - 1)  BY <1>5, <1>6, <2>1, <2>2
  <2>5. (p - 1) \div n = q /\ (p - 1) % n = n - 1
    <3>1. PICK r : r = n - 1  OBVIOUS
    <3>2. r \in 0 .. n - 1  BY <2>3, <3>1
    <3>3. (n * q + r) \div n = q /\ (n * q + r) % n = r  BY <1>6, <2>3, <3>2, QuotientRemainder
    <3>4. n * q + r = p - 1  BY <2>4, <3>1
    <3> QED BY <3>1, <3>3, <3>4
  <2>6. p \in 1 .. c
    <3>1. i * n >= 1 /\ i * n <= n * whole /\ i * n \in Int  BY <1>5, <1>6
    <3> QED BY <1>7, <1>9, <2>1, <3>1
  <2>7. text[p] = TextAt(f, keys, p)  BY <1>8, <2>6 DEF Content
  <2>8. TextAt(f, keys, p) = Tagged(ls[((p - 1) % n) + 1], keys[((p - 1) \div n) + 1])
    BY <1>1 DEF TextAt
  <2>9. text[p] = Tagged(ls[n], keys[i])  BY <2>3, <2>5, <2>7, <2>8
  <2>10. TaggedShape(ls[n], keys[i])  BY <1>6, <2>3, TaggedCells
  <2>11. Tagged(ls[n], keys[i])[1][3] = keys[i]
    <3>1. PICK line, key : line = ls[n] /\ key = keys[i]  OBVIOUS
    <3>2. 1 \in 1 .. Len(line) /\ \A k \in 1 .. Len(line) : Tagged(line, key)[k] = <<line[k][1], line[k][2], key>>
      BY <2>10, <3>1 DEF TaggedShape
    <3>3. Tagged(line, key)[1][3] = key  BY <3>2
    <3> QED BY <3>1, <3>3
  <2> QED BY <2>1, <2>9, <2>11
<1>12. keys = [i \in 1 .. whole |-> keys[i]]  BY <1>4, <1>5
<1>13. [i \in 1 .. whole |-> text[i * n][1][3]] = keys  BY <1>11, <1>12
<1> QED BY <1>1, <1>4, <1>9, <1>10, <1>13

TrialsOf(group) == {group["trial"][i][1][1] : i \in DOMAIN group["trial"]}
\* The trials that have a row in the consolidated file are those of which one has been begun.
LEMMA TrialsInFile ==
  ASSUME NEW done \in Keys, Holds(done), phase = "closed", ~IsAscii
  PROVE  TrialsWritten = TrialsSeen(done)
<1>1. ASSUME NEW g \in open
      PROVE  /\ g \in FileNames
             /\ \A x : x \in TrialsOf(merged[g]) <=>
                  \E o \in Owners : \E key \in Range(done[o][g]) : x = key[1]
  <2>0. PICK keys \in Seq(Key) : \E w : InAnyFile(done, g, keys) /\ merged[g]["trial"] = Entries(keys, w)
    BY MergedKeys
  <2>1. PICK w : InAnyFile(done, g, keys) /\ merged[g]["trial"] = Entries(keys, w)  BY <2>0
  <2>2. PICK entries : entries = merged[g]["trial"]  OBVIOUS
  <2>3. DOMAIN entries = 1 .. Len(keys) /\ \A i \in 1 .. Len(keys) : entries[i][1] = keys[i]
    BY <2>1, <2>2, EntriesAre
  <2>4. DOMAIN keys = 1 .. Len(keys) /\ \A x : x \in Range(keys) <=> \E i \in 1 .. Len(keys) : x = keys[i]
    BY DEF Range
  <2>5. g \in FileNames  BY DEF Holds, Types
  <2>6. \A o \in Owners : Range(done[o][g]) \subseteq Key
    <3>1. \A o \in Owners : done[o][g] \in Seq(Key)  BY <2>5 DEF Keys
    <3> QED BY <3>1 DEF Range
  <2>7. Range(keys) \subseteq Key  BY DEF Range
  <2>8. \A x : x \in Range(keys) <=> x \in UNION {Range(done[o][g]) : o \in Owners}
    BY <2>1, <2>6, <2>7 DEF InAnyFile
  <2>9. PICK T : T = TrialsOf(merged[g])  OBVIOUS
  <2>10. \A x : x \in T <=> \E i \in DOMAIN entries : x = entries[i][1][1]
    BY <2>2, <2>9 DEF TrialsOf
  <2>11. \A x : x \in T <=> \E key \in Range(keys) : x = key[1]  BY <2>3, <2>4, <2>10
  <2>12. \A x : x \in T <=> \E o \in Owners : \E key \in Range(done[o][g]) : x = key[1]
    BY <2>8, <2>11
  <2> QED BY <2>5, <2>9, <2>12
<1>2. ASSUME NEW o \in Owners, NEW f \in FileNames, NEW key \in Range(done[o][f]) PROVE f \in open
  <2>1. key[1] < next /\ [table |-> f, key |-> key] \in Range(Rows(key[1])) /\ key \in Key
    <3>1. done[o][f] \in Seq(Key)  BY DEF Keys
    <3>2. key \in Key  BY <3>1 DEF Range
    <3> QED BY <3>2 DEF Holds, WritingInv, Books
  <2>2. PICK trial, row : trial = key[1] /\ row = [table |-> f, key |-> key]  OBVIOUS
  <2>3. trial \in Trials /\ row \in Range(Rows(trial))  BY <2>1, <2>2 DEF Key
  <2>4. RowOfTrial(trial, row)  BY <2>3, RowsOpen DEF Holds
  <2> QED BY <2>2, <2>4 DEF RowOfTrial
<1>3. ASSUME NEW x
      PROVE  x \in TrialsWritten <=> \E g \in open : \E o \in Owners : \E key \in Range(done[o][g]) : x = key[1]
  <2>1. x \in TrialsWritten <=>
          \E g \in open : \E i \in DOMAIN merged[g]["trial"] : x = merged[g]["trial"][i][1][1]
    BY DEF TrialsWritten
  <2>2. ASSUME NEW g \in open
        PROVE  (\E i \in DOMAIN merged[g]["trial"] : x = merged[g]["trial"][i][1][1]) <=>
                 \E o \in Owners : \E key \in Range(done[o][g]) : x = key[1]
    <3>1. x \in TrialsOf(merged[g]) <=> \E i \in DOMAIN merged[g]["trial"] : x = merged[g]["trial"][i][1][1]
      BY DEF TrialsOf
    <3>2. x \in TrialsOf(merged[g]) <=> \E o \in Owners : \E key \in Range(done[o][g]) : x = key[1]
      BY <1>1
    <3> QED BY <3>1, <3>2
  <2>3. ASSUME x \in TrialsWritten
        PROVE  \E g \in open : \E o \in Owners : \E key \in Range(done[o][g]) : x = key[1]
    <3>1. PICK g \in open : \E i \in DOMAIN merged[g]["trial"] : x = merged[g]["trial"][i][1][1]
      BY <2>1, <2>3
    <3>2. \E o \in Owners : \E key \in Range(done[o][g]) : x = key[1]  BY <2>2, <3>1
    <3> QED BY <3>2
  <2>4. ASSUME NEW g \in open, \E o \in Owners : \E key \in Range(done[o][g]) : x = key[1]
        PROVE  x \in TrialsWritten
    <3>1. \E i \in DOMAIN merged[g]["trial"] : x = merged[g]["trial"][i][1][1]  BY <2>2, <2>4
    <3> QED BY <2>1, <3>1
  <2> QED BY <2>3, <2>4
<1>4. \A x : x \in TrialsSeen(done) <=>
        \E g \in FileNames : \E o \in Owners : \E key \in Range(done[o][g]) : x = key[1]
  <2>1. {t \in Threads : pc[t] = "writing"} = {}  BY AllBegun
  <2> QED BY <2>1 DEF TrialsSeen
<1>5. \A x : x \in TrialsSeen(done) <=> x \in TrialsWritten  BY <1>1, <1>2, <1>3, <1>4
<1> QED BY <1>5

\* The largest of them has been recorded.
LEMMA LargestRecorded ==
  ASSUME NEW done \in Keys, Holds(done), phase = "closed", ~IsAscii
  PROVE  maxTrial = IF TrialsWritten = {} THEN 0 ELSE Max(TrialsWritten)
<1>1. PICK S : S = TrialsWritten  OBVIOUS
<1>2. S = TrialsSeen(done)  BY <1>1, TrialsInFile
<1>3. (\A trial \in S : trial <= maxTrial) /\ (maxTrial \in S \/ (maxTrial = 0 /\ S = {}))
  BY <1>2 DEF Holds, WritingInv, LargestSeen
<1>4. S \subseteq Nat /\ maxTrial \in Nat
  <2>1. \A o \in Owners, f \in FileNames : done[o][f] \in Seq(Key)  BY DEF Keys
  <2>2. \A o \in Owners, f \in FileNames : \A key \in Range(done[o][f]) : key[1] \in Trials
    BY <2>1 DEF Range, Key
  <2>3. {t \in Threads : pc[t] = "writing"} = {}  BY AllBegun
  <2>4. S \subseteq Trials  BY <1>2, <2>2, <2>3 DEF TrialsSeen
  <2> QED BY <2>4, TrialsNatural DEF Holds, Types
<1>5. CASE S = {}  BY <1>1, <1>3, <1>5
<1>6. CASE S # {}
  <2>1. maxTrial \in S  BY <1>3, <1>6
  <2>2. \A y \in S : maxTrial >= y  BY <1>3, <1>4
  <2>3. Max(S) \in S /\ \A y \in S : Max(S) >= y  BY <2>1, <2>2 DEF Max
  <2>4. Max(S) >= maxTrial /\ maxTrial >= Max(S) /\ Max(S) \in Nat  BY <1>4, <2>1, <2>2, <2>3
  <2>5. Max(S) = maxTrial  BY <1>4, <2>4
  <2> QED BY <1>1, <1>6, <2>5
<1> QED BY <1>5, <1>6

\* A finished run has every row, once.
LEMMA AllRowsOnce ==
  ASSUME NEW done \in Keys, Holds(done), \A f \in open : ~NeedsGalaxyTable(f)
  PROVE  EveryRowWrittenOnce
<1>1. ASSUME phase = "closed", ~IsAscii, NEW g \in open
      PROVE  WrittenOnce(g, [i \in DOMAIN merged[g]["trial"] |-> merged[g]["trial"][i][1]])
  <2>0. PICK keys \in Seq(Key) : \E w :
          IsInjective(keys) /\ InAnyFile(done, g, keys) /\ merged[g]["trial"] = Entries(keys, w)
    BY <1>1, MergedKeys
  <2>1. PICK w :
          IsInjective(keys) /\ InAnyFile(done, g, keys) /\ merged[g]["trial"] = Entries(keys, w)
    BY <2>0
  <2>2. PICK entries : entries = merged[g]["trial"]  OBVIOUS
  <2>3. [i \in DOMAIN entries |-> entries[i][1]] = keys  BY <2>1, <2>2, EntriesAre
  <2>4. g \in RowTables  BY <1>1 DEF Holds, Types
  <2>5. WrittenOnce(g, keys)  BY <1>1, <2>1, <2>4, WrittenFrom
  <2> QED BY <2>2, <2>3, <2>5
<1>2. ASSUME phase = "closed", IsAscii, NEW f \in open \cap Range(OpenOrder)
      PROVE  LET n == Len(LinesOf(f))
                 rows == (Len(lines[f]) - 1) \div n
             IN WrittenOnce(f, [i \in 1 .. rows |-> lines[f][i * n][1][3]])
  <2>1. f \in RowTables /\ f \in open /\ f \in FileNames
    <3>1. Range(OpenOrder) \subseteq RowTables  BY Orders DEF Range
    <3> QED BY <1>2, <3>1 DEF RowTables
  <2>2. PICK keys : keys = done[NoThread][f]  OBVIOUS
  <2>3. keys \in Seq(Key) /\ IsInjective(keys)
    BY <2>1, <2>2 DEF Keys, Owners, Holds, WritingInv, Books
  <2>4. InAnyFile(done, f, keys)
    <3>1. \A o \in Owners : o # NoThread => done[o][f] = <<>>
      BY <1>2, <2>1 DEF Holds, WritingInv, Books
    <3>2. \A o \in Owners : o # NoThread => Range(done[o][f]) = {}  BY <3>1 DEF Range
    <3> QED BY <2>2, <3>2 DEF InAnyFile, Owners
  <2>5. WrittenOnce(f, keys)  BY <1>2, <2>1, <2>3, <2>4, WrittenFrom
  <2>6. LET n == Len(LinesOf(f))
            rows == (Len(lines[f]) - 1) \div n
        IN [i \in 1 .. rows |-> lines[f][i * n][1][3]] = keys
    BY <1>2, <2>1, <2>2, TextKeys
  <2> QED BY <2>5, <2>6
<1>3. \A f \in DOMAIN lines : lines[f] # <<>> => f \in open \/ lines[f] = <<<<"earlier">>>>
  BY DEF Holds, WritingInv, Texts
<1> QED BY <1>1, <1>2, <1>3, LargestRecorded DEF EveryRowWrittenOnce

\* Whatever the threads do, nobody reads a torn or shifted row: outside the critical
\* section of a file its lines, and the datasets of each of its groups, are aligned, and
\* so they are in the consolidated file (OutputManagerAscii.cpp and OutputManagerH5.cpp
\* write*, HDF5Utils.cpp appendFileContents).
THEOREM RowsAlwaysAligned == Spec => []RowsAligned
<1>1. IInv => RowsAligned  BY HoldsIsIInv, AllAligned
<1> QED BY <1>1, WritingKept, PTL

-----------------------------------------------------------------------------
(* The tables the HDF5 writers reach the clusters through.                 *)

\* The properties, spectra and photometry of clusters are asked for only with the galaxy's.
GalaxyTablesOn ==
  ~IsAscii /\ IsGalaxy => \A i \in 1 .. 3 : Created(ClusterTables[i]) => Created(GalaxyTables[i])

\* The groups of an HDF5 file are the tables the constructor creates.
GroupsCreated == ~IsAscii => \A g \in RowTables : g \in open \cup Range(toOpen) <=> Created(g)

\* All of them have their place in the constructor's order.
LEMMA AllOrdered ==
  Range(H5!GroupOrder) = RowTables
<1>1. H5!ClusterTables \in Seq(RowTables) /\ H5!GalaxyTables \in Seq(RowTables)
  BY DEF H5!ClusterTables, H5!GalaxyTables, RowTables, FileNames
<1>2. Range(H5!GroupOrder) = Range(H5!ClusterTables) \cup Range(H5!GalaxyTables)
  BY <1>1, JoinedElements DEF H5!GroupOrder
<1>3. DOMAIN H5!ClusterTables = 1 .. 5 /\ DOMAIN H5!GalaxyTables = 1 .. 5
  BY DEF H5!ClusterTables, H5!GalaxyTables
<1>4. \A i \in 1 .. 5 : i = 1 \/ i = 2 \/ i = 3 \/ i = 4 \/ i = 5  OBVIOUS
<1>5. Range(H5!ClusterTables) = {"clusters", "cluster_spectra", "cluster_phot", "cluster_yields", "cluster_feedback"}
  BY <1>3, <1>4 DEF Range, H5!ClusterTables
<1>6. Range(H5!GalaxyTables) = {"galaxy", "galaxy_spectra", "galaxy_phot", "galaxy_yields", "galaxy_feedback"}
  BY <1>3, <1>4 DEF Range, H5!GalaxyTables
<1> QED BY <1>2, <1>5, <1>6 DEF RowTables, FileNames

\* What the controls ask for changes only with them.
LEMMA AskedSame ==
  ASSUME [Next]_vars
  PROVE  /\ UNCHANGED controls /\ IsAscii' = IsAscii /\ IsGalaxy' = IsGalaxy
         /\ \A g : Created(g)' <=> Created(g)
<1>1. UNCHANGED controls
  BY DEF Next, vars, OpenFile, OpenGroups, Start, Close, Stopped, BeginTrial, Compute, Enter, Put, Leave
<1> QED BY <1>1 DEF IsAscii, IsGalaxy, Created, RelevantKeys, Requested, Filters

\* The invariant has them.
LEMMA GroupsCreatedAlways ==
  Spec => [](IInv /\ GroupsCreated)
<1>1. Init => GroupsCreated
  <2> SUFFICES ASSUME Init, ~IsAscii, NEW g \in RowTables PROVE g \in open \cup Range(toOpen) <=> Created(g)
    BY DEF GroupsCreated
  <2>1. open = {} /\ toOpen = TablesCreated(H5!GroupOrder)  BY DEF Init
  <2>2. \A x : x \in Range(TablesCreated(H5!GroupOrder)) <=> x \in Range(H5!GroupOrder) /\ Created(x)
    BY Orders, TablesMade
  <2> QED BY <2>1, <2>2, AllOrdered
<1>2. IInv /\ GroupsCreated /\ [Next]_vars => GroupsCreated'
  <2> SUFFICES ASSUME IInv, GroupsCreated, [Next]_vars, ~IsAscii
               PROVE  \A g \in RowTables : g \in (open \cup Range(toOpen))' <=> Created(g)
    BY AskedSame DEF GroupsCreated
  <2>1. Range(<<>>) = {}  BY DEF Range
  <2>2. CASE OpenGroups
    <3>1. open = {} /\ open' = Range(toOpen) /\ toOpen' = <<>>
      BY <2>2 DEF OpenGroups, IInv, Opening
    <3>2. (open \cup Range(toOpen))' = open \cup Range(toOpen)  BY <2>1, <3>1
    <3> QED BY <3>2 DEF GroupsCreated
  <2>3. CASE UNCHANGED <<open, toOpen>>
    <3>1. (open \cup Range(toOpen))' = open \cup Range(toOpen)  BY <2>3
    <3> QED BY <3>1 DEF GroupsCreated
  <2> QED BY <2>2, <2>3 DEF Next, vars, OpenFile, Start, Close, Stopped, BeginTrial, Compute, Enter, Put, Leave
<1> QED BY <1>1, <1>2, WritingKept, PTL DEF Spec

\* So every writer is reached.
LEMMA WritersReached ==
  ASSUME IInv, GroupsCreated, GalaxyTablesOn, NEW f \in open
  PROVE  ~NeedsGalaxyTable(f)
<1> SUFFICES ASSUME ~IsAscii, IsGalaxy, NEW i \in 1 .. 3, ClusterTables[i] = f
             PROVE  GalaxyTables[i] \in open
  BY DEF NeedsGalaxyTable
<1>1. toOpen = <<>> /\ f \in RowTables  BY DEF IInv, Opening, Types
<1>2. Range(toOpen) = {}  BY <1>1 DEF Range
<1>3. Created(GalaxyTables[i])  BY <1>1 DEF GroupsCreated, GalaxyTablesOn
<1>4. GalaxyTables[i] \in RowTables  BY DEF GalaxyTables, RowTables, FileNames
<1> QED BY <1>2, <1>3, <1>4 DEF GroupsCreated

\* And the controls stay as they are.
LEMMA StaysOn ==
  GalaxyTablesOn /\ [Next]_vars => GalaxyTablesOn'
BY AskedSame DEF GalaxyTablesOn, ClusterTables, GalaxyTables

\* A finished run has every row of every table it was asked to write, once
\* (SimCluster::runTrial, SimGalaxy::runTrial and the writers), whatever the order in
\* which the threads wrote them, and the largest trial number recorded is the largest in
\* the file: with ascii output and in a cluster simulation always, with HDF5 output of a
\* galaxy simulation when its clusters are asked for only together with the galaxy.
THEOREM RowsWrittenOnce == Spec /\ GalaxyTablesOn => []EveryRowWrittenOnce
<1>1. IInv /\ GroupsCreated /\ GalaxyTablesOn => EveryRowWrittenOnce
  BY HoldsIsIInv, AllRowsOnce, WritersReached
<1> QED BY <1>1, GroupsCreatedAlways, StaysOn, PTL DEF Spec

\* While a spectrum or photometry is computed, the birth states of the clusters it is
\* computed from, the disrupted ones too, are already on disk, under the same condition
\* (OutputManagerH5.cpp writeCluster, its flush).
THEOREM BirthStatesFirst == Spec /\ GalaxyTablesOn => []RngStateOnDiskFirst
<1>1. IInv /\ GroupsCreated /\ GalaxyTablesOn => RngStateOnDiskFirst
  <2> SUFFICES ASSUME IInv, GroupsCreated, GalaxyTablesOn PROVE RngStateOnDiskFirst
    OBVIOUS
  <2>1. CASE "clusters" \in open  BY <2>1, HoldsIsIInv, BirthsOnDisk, WritersReached
  <2>2. CASE "clusters" \notin open  BY <2>2 DEF RngStateOnDiskFirst
  <2> QED BY <2>1, <2>2
<1> QED BY <1>1, GroupsCreatedAlways, StaysOn, PTL DEF Spec

=============================================================================
