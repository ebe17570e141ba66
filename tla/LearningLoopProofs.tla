------------------------- MODULE LearningLoopProofs -------------------------
(***************************************************************************)
(* What LearningLoop promises for any number of metrics, configurations,   *)
(* centroids and iterations, and any number of deaths, departures,         *)
(* restarts and shutdowns.                                                 *)
(*                                                                         *)
(* Every action is first brought into a form that says member by member    *)
(* what it does to the handler, the disk and the processes (WelcomeDoes,   *)
(* DoeBeginDoes, ...).  On these forms rest, one upon the other,           *)
(*   LearnInv   the types, and that until the first fault nothing but the  *)
(*              first design is made without the table of all              *)
(*              configurations;                                            *)
(*   DesignInv  a design is even: what was sent less often is in front;    *)
(*   WholeInv   without a read of an open file, closed tables are whole,   *)
(*              and so is what was read of them;                           *)
(*   IterInv    in the last iteration each model, the clusters and the     *)
(*              predictions are there or somebody is making them;          *)
(*   KeptInv    where there are observations there is a design;            *)
(*   CalmInv    until the first fault plugins find what earlier ones left. *)
(* The theorems are those about the properties of LearningLoop.            *)
(***************************************************************************)
EXTENDS LearningLoop, FiniteSetTheorems, SequenceTheorems, TLAPS

-----------------------------------------------------------------------------
(* Tables and designs *)

\* The elements of a finite set, one after the other.
LEMMA SequenceOfSet ==
  ASSUME NEW S, IsFiniteSet(S)
  PROVE  /\ Cardinality(S) \in Nat
         /\ SetToSeq(S) \in [1 .. Cardinality(S) -> S]
         /\ \A i, j \in 1 .. Cardinality(S) : SetToSeq(S)[i] = SetToSeq(S)[j] => i = j
<1>1. Cardinality(S) \in Nat /\ ExistsBijection(1 .. Cardinality(S), S) BY FS_CardinalityType
<1>2. \E f \in [1 .. Cardinality(S) -> S] : IsInjective(f)
  BY <1>1, Zenon DEF ExistsBijection, Bijection, Injection
<1> DEFINE s == SetToSeq(S)
<1>3. s \in [1 .. Cardinality(S) -> S] /\ IsInjective(s) BY <1>2, Zenon DEF SetToSeq
<1> HIDE DEF s
<1>4. s \in [1 .. Cardinality(S) -> S]
        /\ \A i, j \in 1 .. Cardinality(S) : s[i] = s[j] => i = j
  BY <1>3 DEF IsInjective
<1> QED BY <1>1, <1>4 DEF s

\* The larger and the smaller of two numbers.
LEMMA MaxOfTwo ==
  ASSUME NEW a \in Int, NEW b \in Int
  PROVE  /\ Max({a, b}) \in {a, b} /\ Max({a, b}) >= a /\ Max({a, b}) >= b
         /\ Min({a, b}) \in {a, b} /\ Min({a, b}) <= a /\ Min({a, b}) <= b
<1>1. \E x \in {a, b} : \A y \in {a, b} : x >= y BY DEF Max
<1>2. \E x \in {a, b} : \A y \in {a, b} : x <= y BY DEF Min
<1>3. Max({a, b}) \in {a, b} /\ \A y \in {a, b} : Max({a, b}) >= y BY <1>1, Zenon DEF Max
<1>4. Min({a, b}) \in {a, b} /\ \A y \in {a, b} : Min({a, b}) <= y BY <1>2, Zenon DEF Min
<1> QED BY <1>3, <1>4

\* What is found of a table while it is written belongs to the table.
LEMMA PartsAreParts ==
  ASSUME NEW S, IsFiniteSet(S), NEW part \in PartsOf(S)
  PROVE  part \subseteq S
<1>1. PICK n \in 0 .. Max({Cardinality(S) - 1, 0}) : part = ToSet(SubSeq(SetToSeq(S), 1, n))
  BY DEF PartsOf
<1> DEFINE s == SetToSeq(S)
<1>2. Cardinality(S) \in Nat /\ s \in [1 .. Cardinality(S) -> S] BY SequenceOfSet
<1>3. n \in Nat /\ n <= Cardinality(S)
  <2> DEFINE c == Cardinality(S) - 1
  <2>1. c \in Int /\ 0 \in Int BY <1>2
  <2>2. Max({c, 0}) \in {c, 0} /\ Max({c, 0}) >= 0
    <3> HIDE DEF c
    <3> QED BY <2>1, MaxOfTwo
  <2> QED BY <1>2, <2>2
<1> HIDE DEF s
<1>4. SubSeq(s, 1, n) = [i \in 1 .. n |-> s[i]]
  <2>1. s \in Seq(S) /\ Len(s) = Cardinality(S) BY <1>2
  <2> QED BY <1>2, <1>3, <2>1
<1>5. ASSUME NEW x \in part PROVE x \in S
  <2>1. PICK i \in DOMAIN SubSeq(s, 1, n) : x = SubSeq(s, 1, n)[i] BY <1>1 DEF ToSet, s
  <2>2. i \in 1 .. n /\ x = s[i] BY <1>4, <2>1
  <2> QED BY <1>2, <1>3, <2>2
<1> QED BY <1>5

\* A row of a design: a configuration and how often it is still to be sent.
Row == [conf : Allowed, counter : 1 .. PerConfiguration]

\* A design that nothing was sent of.
Unsent(d) ==
  /\ d \in Seq(Row)
  /\ \A i, j \in 1 .. Len(d) : i # j => d[i].conf # d[j].conf
  /\ \A i \in 1 .. Len(d) : d[i].counter = PerConfiguration

\* The table of a design: each configuration once, none sent yet.
LEMMA RowsOfASet ==
  ASSUME NEW S \in SUBSET Allowed
  PROVE  Unsent(Rows(S)) /\ Rows(S) # None /\ (S # {} => Rows(S) # <<>>)
<1>1. IsFiniteSet(S) BY LearningAssumption, FS_Subset DEF LearningAssumption
<1> DEFINE n == Cardinality(S)
           s == SetToSeq(S)
<1>2. n \in Nat /\ s \in [1 .. n -> S] /\ \A i, j \in 1 .. n : s[i] = s[j] => i = j
  BY <1>1, SequenceOfSet
<1>3. S # {} => n # 0 BY <1>1, FS_EmptySet
<1>4. Rows(S) = [i \in 1 .. n |-> [conf |-> s[i], counter |-> PerConfiguration]] BY DEF Rows
<1> HIDE DEF n, s
<1>5. PerConfiguration \in 1 .. PerConfiguration BY LearningAssumption DEF LearningAssumption
<1>6. Rows(S) \in Seq(Row) /\ Len(Rows(S)) = n
  <2>1. \A i \in 1 .. n : [conf |-> s[i], counter |-> PerConfiguration] \in Row BY <1>2, <1>5 DEF Row
  <2> QED BY <1>2, <1>4, <2>1
<1>7. Unsent(Rows(S)) BY <1>2, <1>4, <1>6 DEF Unsent
<1>8. Rows(S) # None
  <2>1. S \in SUBSET Confs BY LearningAssumption DEF LearningAssumption
  <2> QED BY <2>1, NoneAssumption DEF NoneAssumption
<1> QED BY <1>3, <1>6, <1>7, <1>8

\* UpFromZero of MonitorsProofs: least numbers instead of induction.
LEMMA StepByStep ==
  ASSUME NEW n \in Nat, NEW T, 0 \in T, \A i \in 0 .. n - 1 : i \in T => i + 1 \in T
  PROVE  0 .. n \subseteq T
<1> DEFINE Missing == (0 .. n) \ T
<1> SUFFICES ASSUME Missing # {} PROVE FALSE OBVIOUS
<1>1. Missing \subseteq Nat OBVIOUS
<1>2. PICK u \in Missing : \A w \in Missing : u <= w
  <2> HIDE DEF Missing
  <2>1. \E u \in Missing : \A w \in Missing : <<w, u>> \notin OpToRel(<, Nat)
    BY <1>1, NatLessThanWellFounded, WFMin, Zenon
  <2>2. \E u \in Missing : \A w \in Missing : w \in Nat /\ u \in Nat => ~(w < u)
    BY <2>1, Zenon DEF OpToRel
  <2> QED BY <1>1, <2>2
<1>3. u # 0 OBVIOUS
<1>4. u - 1 \in 0 .. n - 1 /\ u - 1 \in T BY <1>2, <1>3
<1> QED BY <1>2, <1>4

\* load_doe turns a design that is not used up around.
LEMMA LoadedRows ==
  ASSUME NEW d, Unsent(d)
  PROVE  LoadRows(d) = [k \in 1 .. Len(d) |-> d[Len(d) + 1 - k]]
<1> DEFINE n == Len(d)
           T(i) == [k \in 1 .. i |-> d[i + 1 - k]]
           turned == [i \in 0 .. n |-> T(i)]
           body(g) == [i \in 0 .. n |-> IF i = 0 THEN <<>>
                                        ELSE IF d[i].counter > 0 THEN <<d[i]>> \o g[i - 1]
                                        ELSE g[i - 1]]
<1>1. n \in Nat /\ d \in [1 .. n -> Row] /\ \A i \in 1 .. n : d[i].counter > 0
  BY LearningAssumption DEF Unsent, LearningAssumption
<1>2. LoadRows(d) = (CHOOSE g : g = body(g))[n] BY DEF LoadRows
<1>0. T(0) = <<>> OBVIOUS
<1> HIDE DEF n
<1>3. ASSUME NEW i \in 1 .. n PROVE <<d[i]>> \o T(i - 1) = T(i)
  <2> DEFINE t == T(i - 1)
  <2>1. t \in Seq(Row) /\ Len(t) = i - 1 /\ \A k \in 1 .. i - 1 : t[k] = d[i - k]
    <3>1. i - 1 \in Nat /\ \A k \in 1 .. i - 1 : d[i - k] \in Row /\ (i - 1) + 1 - k = i - k BY <1>1
    <3> QED BY <3>1
  <2>2. <<d[i]>> \in Seq(Row) /\ Len(<<d[i]>>) = 1 BY <1>1
  <2> HIDE DEF t
  <2> DEFINE s == <<d[i]>> \o t
  <2>3. s \in Seq(Row) /\ Len(s) = i BY <1>1, <2>1, <2>2
  <2>4. ASSUME NEW k \in 1 .. i PROVE s[k] = d[i + 1 - k]
    <3>1. CASE k = 1 BY <1>1, <2>1, <2>2, <3>1
    <3>2. CASE k # 1
      <4>1. k - 1 \in 1 .. i - 1 BY <1>1, <3>2
      <4>2. s[k] = t[k - 1] BY <1>1, <2>1, <2>2, <3>2
      <4>3. t[k - 1] = d[i - (k - 1)] BY <2>1, <4>1
      <4>4. i - (k - 1) = i + 1 - k BY <1>1
      <4> QED BY <4>2, <4>3, <4>4
    <3> QED BY <3>1, <3>2
  <2> HIDE DEF s
  <2>5. s = [k \in 1 .. i |-> s[k]] BY <2>3
  <2>6. s = T(i) BY <2>4, <2>5
  <2> QED BY <2>6 DEF s, t
<1> HIDE DEF T
<1>4. turned = body(turned)
  <2>1. ASSUME NEW i \in 0 .. n
        PROVE  turned[i] = IF i = 0 THEN <<>>
                           ELSE IF d[i].counter > 0 THEN <<d[i]>> \o turned[i - 1]
                           ELSE turned[i - 1]
    <3>1. CASE i = 0 BY <1>0, <3>1
    <3>2. CASE i # 0
      <4>1. i \in 1 .. n /\ i - 1 \in 0 .. n /\ d[i].counter > 0 BY <1>1, <3>2
      <4>2. turned[i - 1] = T(i - 1) /\ turned[i] = T(i) BY <4>1
      <4> QED BY <1>3, <3>2, <4>1, <4>2
    <3> QED BY <3>1, <3>2
  <2> QED BY <2>1
<1> DEFINE loaded == CHOOSE g : g = body(g)
<1>5. loaded = body(loaded) BY <1>4, Zenon
<1>6. LoadRows(d) = loaded[n] BY <1>2
<1> HIDE DEF loaded
<1>7. loaded[0] = <<>> /\ \A i \in 1 .. n : loaded[i] = <<d[i]>> \o loaded[i - 1]
  <2>1. \A i \in 0 .. n : loaded[i] = IF i = 0 THEN <<>>
                                      ELSE IF d[i].counter > 0 THEN <<d[i]>> \o loaded[i - 1]
                                      ELSE loaded[i - 1]
    BY <1>5
  <2>2. loaded[0] = <<>>
    <3>1. 0 \in 0 .. n BY <1>1
    <3> QED BY <2>1, <3>1, Zenon
  <2>3. ASSUME NEW i \in 1 .. n PROVE loaded[i] = <<d[i]>> \o loaded[i - 1]
    <3>1. i \in 0 .. n /\ i # 0 /\ d[i].counter > 0 BY <1>1
    <3> QED BY <2>1, <3>1, Zenon
  <2> QED BY <2>2, <2>3
<1> DEFINE U == {i \in 0 .. n : loaded[i] = T(i)}
<1>8. 0 \in U BY <1>1, <1>7, <1>0
<1>9. ASSUME NEW i \in 0 .. n - 1, i \in U PROVE i + 1 \in U
  <2>1. i + 1 \in 1 .. n /\ (i + 1) - 1 = i BY <1>1
  <2>2. loaded[i + 1] = <<d[i + 1]>> \o loaded[i] BY <1>7, <2>1
  <2>3. loaded[i] = T(i) BY <1>9
  <2>4. <<d[i + 1]>> \o T(i) = T(i + 1)
    <3>1. <<d[i + 1]>> \o T((i + 1) - 1) = T(i + 1) BY <1>3, <2>1, Zenon
    <3> QED BY <2>1, <3>1
  <2>5. i + 1 \in 0 .. n /\ loaded[i + 1] = T(i + 1) BY <1>1, <2>1, <2>2, <2>3, <2>4
  <2> QED BY <2>5, Zenon
<1>10. n \in U
  <2> HIDE DEF U
  <2>1. 0 .. n \subseteq U BY <1>1, <1>8, <1>9, StepByStep
  <2> QED BY <1>1, <2>1
<1>11. LoadRows(d) = T(n) BY <1>6, <1>10
<1> QED BY <1>11 DEF n, T

\* What is loaded of a design is not used up either, and not less.
LEMMA LoadKeepsDesigns ==
  ASSUME NEW d, Unsent(d)
  PROVE  Unsent(LoadRows(d)) /\ (LoadRows(d) = <<>> <=> d = <<>>)
<1> DEFINE n == Len(d)
           r == LoadRows(d)
<1>1. n \in Nat /\ d \in [1 .. n -> Row] /\ d = [i \in 1 .. n |-> d[i]] BY DEF Unsent
<1>2. r = [k \in 1 .. n |-> d[n + 1 - k]] BY LoadedRows
<1> HIDE DEF n, r
<1>3. \A k \in 1 .. n : n + 1 - k \in 1 .. n BY <1>1
<1>4. r \in Seq(Row) /\ Len(r) = n
  <2>1. \A k \in 1 .. n : d[n + 1 - k] \in Row BY <1>1, <1>3
  <2> QED BY <1>1, <1>2, <2>1
<1>5. \A k \in 1 .. n : r[k] = d[n + 1 - k] BY <1>2
<1>6. \A i \in 1 .. n : d[i].counter = PerConfiguration BY DEF Unsent, n
<1>7. \A i, j \in 1 .. n : i # j => d[i].conf # d[j].conf BY DEF Unsent, n
<1>8. \A i, j \in 1 .. n : i # j => r[i].conf # r[j].conf
  <2>1. SUFFICES ASSUME NEW i \in 1 .. n, NEW j \in 1 .. n, i # j PROVE r[i].conf # r[j].conf
    OBVIOUS
  <2>2. n + 1 - i # n + 1 - j BY <1>1, <2>1
  <2> QED BY <1>3, <1>5, <1>7, <2>2
<1>9. Unsent(r) BY <1>3, <1>4, <1>5, <1>6, <1>8 DEF Unsent
<1>10. n = 0 <=> d = <<>> BY <1>1 DEF n
<1>11. n = 0 <=> r = <<>> BY <1>4
<1> QED BY <1>9, <1>10, <1>11 DEF r

-----------------------------------------------------------------------------
(* Types *)

\* What the members of the handler, the files and the processes range over.
Phases == {"clueless", "waiting", "exploring", "informed", "undefined", "down"}
Nexts == {"none", "recovered", "first_doe", "next_doe", "models", "prediction"}
Kinds == Metrics \cup {"doe", "cluster", "predict"}
Ats == {"begin", "total", "design", "write", "encoders", "save", "fit", "load"}
Designs == {d \in Seq(Row) : Unsent(d)}

\* The memory of the handler, the disk and a process.
HandlerOK(s) ==
  s \in [phase : Phases, next : Nexts, doe : Seq(Row), sent : Nat, iteration : Nat,
         cluster : {s.cluster}, prediction : {s.prediction}]
DiskOK(d) ==
  d \in [total : {None} \cup SUBSET Allowed, doe : {None} \cup Designs,
         table : {None} \cup 0 .. Enough, models : SUBSET Metrics,
         clusters : {None} \cup SUBSET Centroids, predictions : {d.predictions},
         partial : SUBSET Files, global : {"absent", "ready"},
         local : [Workspaces -> {"absent", "torn", "ready"}]]
ProcessOK(p) ==
  p \in [at : Ats, read : {p.read}, born : 1 .. life, kind : Kinds, iteration : {p.iteration}]

\* What a plugin has read, or is about to write.
ReadOK(p) ==
  /\ p.kind = "doe" /\ p.at # "begin" => p.read \subseteq Allowed
  /\ p.kind = "cluster" /\ p.at = "write" => p.read \subseteq Centroids
  /\ p.kind = "predict" /\ p.at # "begin" => IsFiniteSet(p.read)

\* Until the first fault only the first design is made without the table of all
\* configurations.
TotalKnown ==
  (faults = 0 /\ disk.total = None) =>
    /\ disk.doe = None /\ disk.models = {} /\ disk.clusters = None
    /\ \A p \in plugins : p.kind = "doe" /\ p.at = "begin"
    /\ server.phase # "exploring" /\ (server.phase = "waiting" => server.next = "first_doe")

\* Until then nothing is predicted before the clusters are known.
ClustersKnown ==
  (faults = 0 /\ setup.features /\ \E p \in plugins : p.kind = "predict") => disk.clusters # None

\* All that the other invariants and the actions need of the types.
VariablesOK ==
  /\ setup \in Setups /\ life \in Nat \ {0} /\ faults \in Nat /\ damaged \in BOOLEAN
  /\ HandlerOK(server) /\ DiskOK(disk) /\ given \in [Confs -> Int]
  /\ server.phase = "exploring" => server.next = "none"
PluginsOK == \A p \in plugins : ProcessOK(p) /\ ReadOK(p)
LearnInv == VariablesOK /\ PluginsOK /\ TotalKnown /\ ClustersKnown

\* The constants, one fact at a time.
LEMMA Constants ==
  /\ PerConfiguration \in Nat \ {0} /\ MaxIteration \in Nat \ {0}
  /\ Allowed \subseteq Confs /\ Allowed # {} /\ IsFiniteSet(Allowed) /\ IsFiniteSet(Confs)
  /\ Centroids # {} /\ IsFiniteSet(Centroids)
  /\ "doe" \notin Metrics /\ "cluster" \notin Metrics /\ "predict" \notin Metrics
  /\ "total" \notin Metrics /\ "clusters" \notin Metrics /\ "predictions" \notin Metrics
  /\ Enough \in Nat /\ Enough >= 4 /\ NumClusters \in Nat \ {0}
<1>1. IsFiniteSet(Allowed) BY LearningAssumption, FS_Subset DEF LearningAssumption
<1>2. NumClusters \in Int /\ 4 \in Int BY LearningAssumption DEF LearningAssumption
<1>3. Enough \in {4, NumClusters} /\ Enough >= 4 BY <1>2, MaxOfTwo DEF Enough
<1>4. Metrics \cap {"doe", "cluster", "predict", "total", "clusters", "predictions"} = {}
  BY LearningAssumption DEF LearningAssumption
<1>5. {PerIteration, PerConfiguration, MaxIteration, NumClusters} \subseteq Nat \ {0}
  BY LearningAssumption DEF LearningAssumption
<1>6. PerConfiguration \in Nat \ {0} /\ MaxIteration \in Nat \ {0} /\ NumClusters \in Nat \ {0}
  BY <1>5
<1>7. /\ "doe" \notin Metrics /\ "cluster" \notin Metrics /\ "predict" \notin Metrics
      /\ "total" \notin Metrics /\ "clusters" \notin Metrics /\ "predictions" \notin Metrics
  BY <1>4
<1>8. /\ Allowed \subseteq Confs /\ Allowed # {} /\ IsFiniteSet(Confs)
      /\ Centroids # {} /\ IsFiniteSet(Centroids)
  BY LearningAssumption DEF LearningAssumption
<1>9. Enough \in Nat /\ Enough >= 4 BY <1>3, <1>6
<1> QED BY <1>1, <1>6, <1>7, <1>8, <1>9

\* The description, one fact at a time.
LEMMA SetupFacts ==
  ASSUME setup \in Setups
  PROVE  /\ setup.features \in BOOLEAN /\ setup.algorithm \in {"full-factorial", "lhs"}
         /\ setup.clustering \in {"kmeans", "dbscan", "unknown"} /\ setup.scaled \in BOOLEAN
         /\ DOMAIN setup.plugin \subseteq Metrics /\ DOMAIN setup.plugin # {}
         /\ setup.parameters \subseteq DOMAIN setup.plugin
         /\ \A m \in DOMAIN setup.plugin : setup.plugin[m] \in {"model", "model_plus"}
BY LearningAssumption DEF LearningAssumption

\* The design that is loaded has nothing sent of it; it is empty only if the file is.
LEMMA LoadDoeOK ==
  ASSUME DiskOK(disk)
  PROVE  /\ LoadDoe \in Designs
         /\ LoadDoe = <<>> <=> (disk.doe = None \/ disk.doe = <<>>)
<1>1. disk.doe \in {None} \cup Designs BY DEF DiskOK
<1>2. CASE disk.doe = None
  <2>1. <<>> \in Seq(Row) /\ Len(<<>>) = 0 OBVIOUS
  <2>2. Unsent(<<>>) BY <2>1 DEF Unsent
  <2>3. <<>> \in Designs BY <2>1, <2>2 DEF Designs
  <2> QED BY <1>2, <2>3 DEF LoadDoe
<1>3. CASE disk.doe # None
  <2>1. Unsent(disk.doe) BY <1>1, <1>3 DEF Designs
  <2>2. Unsent(LoadRows(disk.doe)) /\ (LoadRows(disk.doe) = <<>> <=> disk.doe = <<>>)
    BY <2>1, LoadKeepsDesigns
  <2> QED BY <1>3, <2>2 DEF LoadDoe, Designs, Unsent
<1> QED BY <1>2, <1>3

\* The design after its next configuration was given.
LEMMA NextOfADesign ==
  ASSUME NEW d \in Seq(Row), d # <<>>
  PROVE  /\ GetNext(d).configuration = d[1].conf /\ d[1] \in Row
         /\ GetNext(d).rest \in Seq(Row)
         /\ d[1].counter > 1 =>
              /\ Len(GetNext(d).rest) = Len(d)
              /\ \A i \in 1 .. Len(d) - 1 : GetNext(d).rest[i] = d[i + 1]
              /\ GetNext(d).rest[Len(d)].conf = d[1].conf
              /\ GetNext(d).rest[Len(d)].counter = d[1].counter - 1
         /\ d[1].counter = 1 =>
              /\ Len(GetNext(d).rest) = Len(d) - 1
              /\ \A i \in 1 .. Len(d) - 1 : GetNext(d).rest[i] = d[i + 1]
<1> DEFINE ref == [conf |-> d[1].conf, counter |-> d[1].counter - 1]
<1>0. Len(d) \in Nat /\ Len(d) >= 1 /\ d[1] \in Row OBVIOUS
<1>1. d[1] \in Row /\ Len(d) \in Nat /\ Len(d) >= 1 /\ d[1].counter \in 1 .. PerConfiguration
      /\ d[1].conf \in Allowed
  BY <1>0 DEF Row
<1>2. [d[1] EXCEPT !.counter = @ - 1] = ref BY <1>1 DEF Row
<1>3. GetNext(d).configuration = d[1].conf
      /\ GetNext(d).rest = IF d[1].counter - 1 > 0 THEN Append(Tail(d), ref) ELSE Tail(d)
  BY <1>2 DEF GetNext
<1>4. Tail(d) \in Seq(Row) /\ Len(Tail(d)) = Len(d) - 1
      /\ \A i \in 1 .. Len(d) - 1 : Tail(d)[i] = d[i + 1]
  BY <1>1
<1>5. CASE d[1].counter > 1
  <2>1. ref \in Row BY <1>1, <1>5, Constants DEF Row
  <2>2. GetNext(d).rest = Append(Tail(d), ref) BY <1>1, <1>3, <1>5
  <2> HIDE DEF ref
  <2>3. Append(Tail(d), ref) \in Seq(Row) /\ Len(Append(Tail(d), ref)) = Len(d)
    BY <1>1, <1>4, <2>1
  <2>4. \A i \in 1 .. Len(d) - 1 : Append(Tail(d), ref)[i] = d[i + 1] BY <1>1, <1>4, <2>1
  <2>5. Append(Tail(d), ref)[Len(d)] = ref BY <1>1, <1>4, <2>1
  <2>6. ref.conf = d[1].conf /\ ref.counter = d[1].counter - 1 BY DEF ref
  <2>7. Append(Tail(d), ref)[Len(d)].conf = d[1].conf
        /\ Append(Tail(d), ref)[Len(d)].counter = d[1].counter - 1
    BY <2>5, <2>6
  <2> DEFINE rest == Append(Tail(d), ref)
  <2> HIDE DEF rest
  <2>8. ~(d[1].counter = 1) BY <1>1, <1>5
  <2>9. /\ rest \in Seq(Row) /\ Len(rest) = Len(d)
        /\ \A i \in 1 .. Len(d) - 1 : rest[i] = d[i + 1]
        /\ rest[Len(d)].conf = d[1].conf /\ rest[Len(d)].counter = d[1].counter - 1
    BY <2>3, <2>4, <2>7 DEF rest
  <2> QED BY <1>1, <1>3, <2>2, <2>8, <2>9, Zenon DEF rest
<1>6. CASE d[1].counter = 1
  <2>1. GetNext(d).rest = Tail(d) BY <1>1, <1>3, <1>6
  <2> QED BY <1>1, <1>3, <1>4, <1>6, <2>1
<1> QED BY <1>1, <1>5, <1>6

-----------------------------------------------------------------------------
(* What the handler does, one member after the other *)

\* The members of the handler after a step, and what the ghost counts then.
Becomes(phase, next, doe, iteration, cluster, prediction) ==
  server' \in [phase : {phase}, next : {next}, doe : {doe}, sent : Nat, iteration : {iteration},
               cluster : {cluster}, prediction : {prediction}]
Counts(doe) == IF doe = <<>> \/ doe # server.doe THEN Fresh ELSE given
GoneTo(phase, next, doe, iteration, cluster, prediction) ==
  /\ Becomes(phase, next, doe, iteration, cluster, prediction)
  /\ given' = Counts(doe)
Explored(doe, counts, cluster, prediction) ==
  IF doe = <<>>
  THEN /\ Becomes("exploring", "none", <<>>, server.iteration, cluster, prediction)
       /\ given' = counts
  ELSE /\ Becomes("exploring", "none", GetNext(doe).rest, server.iteration, cluster, prediction)
       /\ given' = [counts EXCEPT ![GetNext(doe).configuration] = @ + 1]
Launched(kinds) ==
  /\ plugins \subseteq plugins'
  /\ \A p \in plugins' \ plugins :
       p \in [at : {"begin"}, read : {{}}, born : {life}, kind : kinds, iteration : {server'.iteration}]
  /\ \A k \in kinds : \E p \in plugins' :
       p.kind = k /\ p.born = life /\ p.iteration = server'.iteration
Found == IF setup.features THEN LoadCluster ELSE server.cluster

\* The first client, case by case.
WelcomeDoes ==
  /\ server.phase = "clueless"
  /\ Damage({"doe", "predictions"} \cup IF setup.features THEN {"clusters"} ELSE {})
  /\ \/ /\ disk.predictions # {} /\ UNCHANGED plugins
        /\ GoneTo("informed", "none", LoadDoe, server.iteration, Found, disk.predictions)
     \/ /\ disk.predictions = {} /\ AreModelsValid /\ (setup.features => Found # {})
        /\ GoneTo("waiting", "recovered", LoadDoe, server.iteration, Found, {}) /\ Launched({"predict"})
     \/ /\ disk.predictions = {} /\ LoadDoe # <<>> /\ UNCHANGED plugins
        /\ Explored(LoadDoe, Fresh, Found, {})
     \/ /\ disk.predictions = {} /\ LoadDoe = <<>>
        /\ GoneTo("waiting", "first_doe", <<>>, server.iteration, Found, {}) /\ Launched({"doe"})
  /\ UNCHANGED <<setup, disk, life, faults, reason>>

\* The end of a recovery.
RecoveredDoes ==
  /\ Waited("recovered") /\ Damage({"predictions"})
  /\ \/ /\ disk.predictions # {} /\ UNCHANGED plugins
        /\ GoneTo("informed", "none", server.doe, server.iteration, server.cluster, disk.predictions)
     \/ /\ disk.predictions = {} /\ server.doe # <<>> /\ UNCHANGED plugins
        /\ Explored(server.doe, Fresh, server.cluster, {})
     \/ /\ disk.predictions = {} /\ server.doe = <<>>
        /\ GoneTo("waiting", "first_doe", <<>>, server.iteration, server.cluster, {})
        /\ Launched({"doe"})
  /\ UNCHANGED <<setup, disk, life, faults, reason>>

\* The files and the encoders on disk, one after the other.
DiskBecomes(total, doe, table, models, clusters, predictions, partial, global, local) ==
  disk' \in [total : {total}, doe : {doe}, table : {table}, models : {models}, clusters : {clusters},
             predictions : {predictions}, partial : {partial}, global : {global}, local : {local}]
TableBecomes(table) ==
  DiskBecomes(disk.total, disk.doe, table, disk.models, disk.clusters, disk.predictions, disk.partial,
              disk.global, disk.local)

\* The handler after a design was made.
DoeCreatedDoes ==
  /\ (Waited("first_doe") \/ Waited("next_doe")) /\ Damage({"doe"})
  /\ \/ /\ LoadDoe = <<>> /\ disk' = disk
        /\ GoneTo("undefined", "none", <<>>, server.iteration, server.cluster, server.prediction)
     \/ /\ LoadDoe # <<>> /\ IF server.next = "first_doe" THEN TableBecomes(0) ELSE disk' = disk
        /\ Explored(LoadDoe, Fresh, server.cluster, server.prediction)
  /\ UNCHANGED <<setup, plugins, life, faults, reason>>

\* The handler after an observation.
ObservationDoes ==
  /\ server.phase = "exploring" /\ TableBecomes(InsertObservation)
  /\ \/ /\ server.doe # <<>> /\ UNCHANGED plugins
        /\ Explored(server.doe, given, server.cluster, server.prediction)
     \/ /\ GoneTo("waiting", "models", server.doe, server.iteration + 1, server.cluster, server.prediction)
        /\ Launched(Models \cup Clustering)
  /\ UNCHANGED <<setup, life, faults, reason, damaged>>

\* The handler that explores on or asks for another design.
LearntOn(cluster, prediction) ==
  \/ /\ server.doe # <<>> /\ UNCHANGED plugins
     /\ Explored(server.doe, given, cluster, prediction)
  \/ /\ server.doe = <<>> /\ Launched({"doe"})
     /\ GoneTo("waiting", "next_doe", <<>>, server.iteration, cluster, prediction)

\* The handler after the models were built.
ModelsBuiltDoes ==
  /\ Waited("models") /\ Damage(IF setup.features THEN {"clusters"} ELSE {})
  /\ \/ /\ AreModelsValid /\ (setup.features => Found # {}) /\ Launched({"predict"})
        /\ GoneTo("waiting", "prediction", server.doe, server.iteration, Found, server.prediction)
     \/ /\ ~(AreModelsValid /\ (setup.features => Found # {}))
        /\ LearntOn(Found, server.prediction)
  /\ UNCHANGED <<setup, disk, life, faults, reason>>

\* The handler after a prediction.
PredictedDoes ==
  /\ Waited("prediction") /\ Damage({"predictions"})
  /\ \/ /\ disk.predictions # {} /\ UNCHANGED plugins
        /\ GoneTo("informed", "none", server.doe, server.iteration, server.cluster, disk.predictions)
     \/ /\ disk.predictions = {} /\ LearntOn(server.cluster, {})
  /\ UNCHANGED <<setup, disk, life, faults, reason>>

\* Goes sets the phase and what is waited for.
LEMMA GoesDoes ==
  ASSUME NEW h, HandlerOK(h), NEW phase, NEW next, Goes(h, phase, next)
  PROVE  GoneTo(phase, next, h.doe, h.iteration, h.cluster, h.prediction)
<1>1. server' = [h EXCEPT !.phase = phase, !.next = next] /\ given' = Counts(h.doe)
  BY DEF Goes, Counts
<1>2. Becomes(phase, next, h.doe, h.iteration, h.cluster, h.prediction)
  BY <1>1 DEF Becomes, HandlerOK
<1> QED BY <1>1, <1>2 DEF GoneTo

\* Explores sends the next configuration of the design.
LEMMA ExploresDoes ==
  ASSUME NEW h, HandlerOK(h), h.iteration = server.iteration, NEW counts, Explores(h, counts)
  PROVE  Explored(h.doe, counts, h.cluster, h.prediction)
<1> DEFINE g == [h EXCEPT !.phase = "exploring", !.next = "none"]
<1>1. Sends(g, counts) BY DEF Explores
<1>2. /\ g \in [phase : {"exploring"}, next : {"none"}, doe : {h.doe}, sent : Nat,
               iteration : {server.iteration}, cluster : {h.cluster}, prediction : {h.prediction}]
  BY DEF HandlerOK
<1> HIDE DEF g
<1>3. g.doe = h.doe BY <1>2
<1>4. CASE h.doe = <<>>
  <2>1. server' = g /\ given' = counts BY <1>1, <1>3, <1>4 DEF Sends
  <2> QED BY <1>2, <1>4, <2>1 DEF Explored, Becomes
<1>5. CASE h.doe # <<>>
  <2>1. /\ server' = [g EXCEPT !.doe = GetNext(h.doe).rest, !.sent = @ + 1]
        /\ given' = [counts EXCEPT ![GetNext(h.doe).configuration] = @ + 1]
    BY <1>1, <1>3, <1>5 DEF Sends
  <2>2. ASSUME NEW rest, NEW n \in Nat
        PROVE  [g EXCEPT !.doe = rest, !.sent = n]
                 \in [phase : {"exploring"}, next : {"none"}, doe : {rest}, sent : Nat,
                      iteration : {server.iteration}, cluster : {h.cluster},
                      prediction : {h.prediction}]
    BY <1>2
  <2>3. Becomes("exploring", "none", GetNext(h.doe).rest, server.iteration, h.cluster, h.prediction)
    <3>1. g.sent + 1 \in Nat BY <1>2
    <3> QED BY <2>1, <2>2, <3>1 DEF Becomes
  <2> QED BY <1>5, <2>1, <2>3 DEF Explored
<1> QED BY <1>4, <1>5

\* The new processes are at their beginning, one for each kind.
LEMMA LaunchDoes ==
  ASSUME NEW kinds, Launch(kinds)
  PROVE  Launched(kinds)
<1>1. plugins' = plugins \cup {Process(k) : k \in kinds} BY DEF Launch
<1>2. ASSUME NEW k PROVE Process(k) = [at |-> "begin", read |-> {}, born |-> life, kind |-> k,
                                      iteration |-> server'.iteration]
  BY DEF Process, Environment
<1>3. ASSUME NEW p \in plugins' \ plugins
      PROVE  p \in [at : {"begin"}, read : {{}}, born : {life}, kind : kinds, iteration : {server'.iteration}]
  <2>1. PICK k \in kinds : p = Process(k) BY <1>1, Zenon
  <2> QED BY <1>2, <2>1
<1>4. ASSUME NEW k \in kinds
      PROVE  \E p \in plugins' : p.kind = k /\ p.born = life /\ p.iteration = server'.iteration
  <2>1. Process(k) \in plugins' BY <1>1, Zenon
  <2>2. Process(k).kind = k /\ Process(k).born = life /\ Process(k).iteration = server'.iteration
    BY <1>2
  <2> QED BY <2>1, <2>2, Zenon
<1>5. plugins \subseteq plugins' BY <1>1, Zenon
<1> QED BY <1>3, <1>4, <1>5 DEF Launched

\* The members of a handler after a load.
Loaded(h, doe, iteration, cluster, prediction) ==
  /\ HandlerOK(h) /\ h.doe = doe /\ h.iteration = iteration
  /\ h.cluster = cluster /\ h.prediction = prediction

\* A handler that loads some of its members.
LEMMA Loading ==
  ASSUME HandlerOK(server), NEW doe \in Seq(Row), NEW cluster, NEW prediction
  PROVE  /\ Loaded([server EXCEPT !.doe = doe, !.prediction = prediction, !.cluster = cluster],
                   doe, server.iteration, cluster, prediction)
         /\ Loaded([server EXCEPT !.doe = doe], doe, server.iteration, server.cluster, server.prediction)
         /\ Loaded([server EXCEPT !.prediction = prediction],
                   server.doe, server.iteration, server.cluster, prediction)
         /\ Loaded([server EXCEPT !.cluster = cluster],
                   server.doe, server.iteration, cluster, server.prediction)
         /\ Loaded(server, server.doe, server.iteration, server.cluster, server.prediction)
<1>1. Loaded([server EXCEPT !.doe = doe, !.prediction = prediction, !.cluster = cluster],
             doe, server.iteration, cluster, prediction)
  BY DEF HandlerOK, Loaded
<1>2. Loaded([server EXCEPT !.doe = doe], doe, server.iteration, server.cluster, server.prediction)
  BY DEF HandlerOK, Loaded
<1>3. Loaded([server EXCEPT !.prediction = prediction],
             server.doe, server.iteration, server.cluster, prediction)
  BY DEF HandlerOK, Loaded
<1>4. Loaded([server EXCEPT !.cluster = cluster],
             server.doe, server.iteration, cluster, server.prediction)
  BY DEF HandlerOK, Loaded
<1>5. Loaded(server, server.doe, server.iteration, server.cluster, server.prediction)
  BY DEF HandlerOK, Loaded
<1> QED BY <1>1, <1>2, <1>3, <1>4, <1>5

\* Going or exploring with a loaded handler.
LEMMA GoesLoaded ==
  ASSUME NEW h, NEW doe, NEW iteration, NEW cluster, NEW prediction,
         Loaded(h, doe, iteration, cluster, prediction), NEW phase, NEW next, Goes(h, phase, next)
  PROVE  GoneTo(phase, next, doe, iteration, cluster, prediction)
BY GoesDoes DEF Loaded

\* Explores after loading.
LEMMA ExploresLoaded ==
  ASSUME NEW h, NEW doe, NEW cluster, NEW prediction,
         Loaded(h, doe, server.iteration, cluster, prediction), NEW counts, Explores(h, counts)
  PROVE  Explored(doe, counts, cluster, prediction)
BY ExploresDoes DEF Loaded

\* The steps of the handler are what is written above.
LEMMA WelcomeIs ==
  ASSUME VariablesOK, Welcome PROVE WelcomeDoes
<1> DEFINE loaded == [server EXCEPT !.doe = LoadDoe, !.prediction = LoadPrediction,
                                    !.cluster = IF setup.features THEN LoadCluster ELSE @]
<1>1. HandlerOK(server) /\ LoadDoe \in Seq(Row) BY LoadDoeOK DEF VariablesOK, Designs
<1>2. loaded = [server EXCEPT !.doe = LoadDoe, !.prediction = disk.predictions, !.cluster = Found]
  BY DEF LoadPrediction, Found
<1>3. /\ server.phase = "clueless"
      /\ Damage({"doe", "predictions"} \cup IF setup.features THEN {"clusters"} ELSE {})
      /\ UNCHANGED <<setup, disk, life, faults, reason>>
  BY DEF Welcome
<1>4. \/ /\ loaded.prediction # {} /\ Goes(loaded, "informed", "none") /\ UNCHANGED plugins
      \/ /\ loaded.prediction = {} /\ HasWhatPredictionNeeds(loaded)
         /\ Goes(loaded, "waiting", "recovered") /\ Launch(Prediction)
      \/ /\ loaded.prediction = {} /\ loaded.doe # <<>>
         /\ Explores(loaded, Fresh) /\ UNCHANGED plugins
      \/ /\ loaded.prediction = {} /\ loaded.doe = <<>>
         /\ Goes(loaded, "waiting", "first_doe") /\ Launch(Doe)
  BY Zenon DEF Welcome
<1> HIDE DEF loaded
<1>5. Loaded(loaded, LoadDoe, server.iteration, Found, disk.predictions) BY <1>1, <1>2, Loading
<1>6. /\ loaded.doe = LoadDoe /\ loaded.cluster = Found /\ loaded.prediction = disk.predictions
  BY <1>5 DEF Loaded
<1>7. CASE loaded.prediction # {} /\ Goes(loaded, "informed", "none") /\ UNCHANGED plugins
  <2>1. GoneTo("informed", "none", LoadDoe, server.iteration, Found, disk.predictions)
    BY <1>5, <1>7, GoesLoaded
  <2> QED BY <1>3, <1>6, <1>7, <2>1, Zenon DEF WelcomeDoes
<1>8. CASE /\ loaded.prediction = {} /\ HasWhatPredictionNeeds(loaded)
           /\ Goes(loaded, "waiting", "recovered") /\ Launch(Prediction)
  <2>1. GoneTo("waiting", "recovered", LoadDoe, server.iteration, Found, {})
    BY <1>5, <1>6, <1>8, GoesLoaded
  <2>2. Launched({"predict"}) BY <1>8, LaunchDoes DEF Prediction
  <2>3. AreModelsValid /\ (setup.features => Found # {}) BY <1>6, <1>8 DEF HasWhatPredictionNeeds
  <2> QED BY <1>3, <1>6, <1>8, <2>1, <2>2, <2>3, Zenon DEF WelcomeDoes
<1>9. CASE /\ loaded.prediction = {} /\ loaded.doe # <<>>
           /\ Explores(loaded, Fresh) /\ UNCHANGED plugins
  <2>1. Explored(LoadDoe, Fresh, Found, {}) BY <1>5, <1>6, <1>9, ExploresLoaded
  <2> QED BY <1>3, <1>6, <1>9, <2>1, Zenon DEF WelcomeDoes
<1>10. CASE /\ loaded.prediction = {} /\ loaded.doe = <<>>
            /\ Goes(loaded, "waiting", "first_doe") /\ Launch(Doe)
  <2>1. GoneTo("waiting", "first_doe", <<>>, server.iteration, Found, {})
    BY <1>5, <1>6, <1>10, GoesLoaded
  <2>2. Launched({"doe"}) BY <1>10, LaunchDoes DEF Doe
  <2> QED BY <1>3, <1>6, <1>10, <2>1, <2>2, Zenon DEF WelcomeDoes
<1> QED BY <1>4, <1>7, <1>8, <1>9, <1>10

\* The end of a recovery is what is written above.
LEMMA RecoveredIs ==
  ASSUME VariablesOK, Recovered PROVE RecoveredDoes
<1> DEFINE loaded == [server EXCEPT !.prediction = LoadPrediction]
<1>1. HandlerOK(server) BY DEF VariablesOK
<1>2. loaded = [server EXCEPT !.prediction = disk.predictions] BY DEF LoadPrediction
<1>3. /\ Waited("recovered") /\ Damage({"predictions"})
      /\ UNCHANGED <<setup, disk, life, faults, reason>>
  BY DEF Recovered
<1>4. \/ /\ loaded.prediction # {} /\ Goes(loaded, "informed", "none") /\ UNCHANGED plugins
      \/ /\ loaded.prediction = {} /\ loaded.doe # <<>>
         /\ Explores(loaded, Fresh) /\ UNCHANGED plugins
      \/ /\ loaded.prediction = {} /\ loaded.doe = <<>>
         /\ Goes(loaded, "waiting", "first_doe") /\ Launch(Doe)
  BY Zenon DEF Recovered
<1> HIDE DEF loaded
<1>5. Loaded(loaded, server.doe, server.iteration, server.cluster, disk.predictions)
  <2>1. <<>> \in Seq(Row) OBVIOUS
  <2> QED BY <1>1, <1>2, <2>1, Loading
<1>6. /\ loaded.doe = server.doe /\ loaded.prediction = disk.predictions BY <1>5 DEF Loaded
<1>7. CASE loaded.prediction # {} /\ Goes(loaded, "informed", "none") /\ UNCHANGED plugins
  <2>1. GoneTo("informed", "none", server.doe, server.iteration, server.cluster, disk.predictions)
    BY <1>5, <1>7, GoesLoaded
  <2> QED BY <1>3, <1>6, <1>7, <2>1, Zenon DEF RecoveredDoes
<1>8. CASE /\ loaded.prediction = {} /\ loaded.doe # <<>>
           /\ Explores(loaded, Fresh) /\ UNCHANGED plugins
  <2>1. Explored(server.doe, Fresh, server.cluster, {}) BY <1>5, <1>6, <1>8, ExploresLoaded
  <2> QED BY <1>3, <1>6, <1>8, <2>1, Zenon DEF RecoveredDoes
<1>9. CASE /\ loaded.prediction = {} /\ loaded.doe = <<>>
           /\ Goes(loaded, "waiting", "first_doe") /\ Launch(Doe)
  <2>1. GoneTo("waiting", "first_doe", <<>>, server.iteration, server.cluster, {})
    BY <1>5, <1>6, <1>9, GoesLoaded
  <2>2. Launched({"doe"}) BY <1>9, LaunchDoes DEF Doe
  <2> QED BY <1>3, <1>6, <1>9, <2>1, <2>2, Zenon DEF RecoveredDoes
<1> QED BY <1>4, <1>7, <1>8, <1>9

\* Writing the table of observations.
LEMMA TableWritten ==
  ASSUME DiskOK(disk), NEW table, disk' = [disk EXCEPT !.table = table]
  PROVE  TableBecomes(table)
BY DEF DiskOK, TableBecomes, DiskBecomes

\* So is the step after a design was made.
LEMMA DoeCreatedIs ==
  ASSUME VariablesOK, DoeCreated PROVE DoeCreatedDoes
<1> DEFINE loaded == [server EXCEPT !.doe = LoadDoe]
<1>1. HandlerOK(server) /\ DiskOK(disk) /\ LoadDoe \in Seq(Row)
  BY LoadDoeOK DEF VariablesOK, Designs
<1>2. /\ (Waited("first_doe") \/ Waited("next_doe")) /\ Damage({"doe"})
      /\ UNCHANGED <<setup, plugins, life, faults, reason>>
  BY DEF DoeCreated
<1>3. IF loaded.doe = <<>> THEN Goes(loaded, "undefined", "none") ELSE Explores(loaded, Fresh)
  BY Zenon DEF DoeCreated
<1>4. disk' = IF server.next = "first_doe" /\ loaded.doe # <<>>
              THEN [disk EXCEPT !.table = 0] ELSE disk
  BY Zenon DEF DoeCreated
<1>5. Loaded(loaded, LoadDoe, server.iteration, server.cluster, server.prediction) BY <1>1, Loading
<1> HIDE DEF loaded
<1>6. loaded.doe = LoadDoe BY <1>5 DEF Loaded
<1>7. CASE loaded.doe = <<>>
  <2>1. GoneTo("undefined", "none", <<>>, server.iteration, server.cluster, server.prediction)
    BY <1>3, <1>5, <1>6, <1>7, GoesLoaded
  <2>2. disk' = disk BY <1>4, <1>7
  <2> QED BY <1>2, <1>6, <1>7, <2>1, <2>2, Zenon DEF DoeCreatedDoes
<1>8. CASE loaded.doe # <<>>
  <2>1. Explored(LoadDoe, Fresh, server.cluster, server.prediction)
    BY <1>3, <1>5, <1>8, ExploresLoaded
  <2>2. IF server.next = "first_doe" THEN TableBecomes(0) ELSE disk' = disk
    BY <1>1, <1>4, <1>8, TableWritten
  <2> QED BY <1>2, <1>6, <1>8, <2>1, <2>2, Zenon DEF DoeCreatedDoes
<1> QED BY <1>7, <1>8

\* So is the step of an observation.
LEMMA ObservationIs ==
  ASSUME VariablesOK, Observation PROVE ObservationDoes
<1>1. HandlerOK(server) /\ DiskOK(disk) /\ server.phase = "exploring" /\ server.next = "none"
  BY DEF VariablesOK, Observation
<1>2. TableBecomes(InsertObservation) /\ UNCHANGED <<setup, life, faults, reason, damaged>>
  BY <1>1, TableWritten DEF Observation
<1>3. \/ server.doe # <<>> /\ Sends(server, given) /\ UNCHANGED plugins
      \/ StartsModelling
  BY DEF Observation
<1>4. CASE server.doe # <<>> /\ Sends(server, given) /\ UNCHANGED plugins
  <2>1. [server EXCEPT !.phase = "exploring", !.next = "none"] = server BY <1>1 DEF HandlerOK
  <2>2. Explores(server, given) BY <1>4, <2>1 DEF Explores
  <2>3. Loaded(server, server.doe, server.iteration, server.cluster, server.prediction)
    BY <1>1 DEF Loaded
  <2>4. Explored(server.doe, given, server.cluster, server.prediction)
    BY <2>2, <2>3, ExploresLoaded
  <2> QED BY <1>1, <1>2, <1>4, <2>4, Zenon DEF ObservationDoes
<1>5. CASE StartsModelling
  <2> DEFINE h == [server EXCEPT !.sent = 0, !.iteration = @ + 1]
  <2>1. Goes(h, "waiting", "models") /\ Launch(Models \cup Clustering)
    BY <1>5 DEF StartsModelling
  <2>2. ASSUME NEW n \in Nat
        PROVE  Loaded([server EXCEPT !.sent = 0, !.iteration = n],
                      server.doe, n, server.cluster, server.prediction)
    BY <1>1 DEF Loaded, HandlerOK
  <2>3. server.iteration \in Nat BY <1>1 DEF HandlerOK
  <2>7. PICK n \in Nat : n = server.iteration + 1 BY <2>3
  <2>8. h = [server EXCEPT !.sent = 0, !.iteration = n] BY <2>7
  <2> HIDE DEF h
  <2>9. Loaded(h, server.doe, n, server.cluster, server.prediction) BY <2>2, <2>8
  <2>4. Loaded(h, server.doe, server.iteration + 1, server.cluster, server.prediction)
    BY <2>7, <2>9
  <2>5. GoneTo("waiting", "models", server.doe, server.iteration + 1, server.cluster, server.prediction)
    BY <2>1, <2>4, GoesLoaded
  <2>6. Launched(Models \cup Clustering) BY <2>1, LaunchDoes
  <2> QED BY <1>1, <1>2, <2>5, <2>6, Zenon DEF ObservationDoes
<1> QED BY <1>3, <1>4, <1>5

\* So is exploring on.
LEMMA LearnOnDoes ==
  ASSUME NEW h, NEW cluster, NEW prediction,
         Loaded(h, server.doe, server.iteration, cluster, prediction), LearnOn(h)
  PROVE  LearntOn(cluster, prediction)
<1>1. h.doe = server.doe BY DEF Loaded
<1>2. CASE h.doe # <<>>
  <2>1. Explores(h, given) /\ UNCHANGED plugins BY <1>2 DEF LearnOn
  <2>2. Explored(server.doe, given, cluster, prediction) BY <2>1, ExploresLoaded
  <2> QED BY <1>1, <1>2, <2>1, <2>2, Zenon DEF LearntOn
<1>3. CASE h.doe = <<>>
  <2>1. Goes(h, "waiting", "next_doe") /\ Launch(Doe) BY <1>3 DEF LearnOn
  <2>2. GoneTo("waiting", "next_doe", <<>>, server.iteration, cluster, prediction)
    BY <1>1, <1>3, <2>1, GoesLoaded
  <2>3. Launched({"doe"}) BY <2>1, LaunchDoes DEF Doe
  <2> QED BY <1>1, <1>3, <2>2, <2>3, Zenon DEF LearntOn
<1> QED BY <1>2, <1>3

\* So is the step after the models were built.
LEMMA ModelsBuiltIs ==
  ASSUME VariablesOK, ModelsBuilt PROVE ModelsBuiltDoes
<1> DEFINE loaded == [server EXCEPT !.cluster = IF setup.features THEN LoadCluster ELSE @]
<1>1. HandlerOK(server) BY DEF VariablesOK
<1>2. loaded = [server EXCEPT !.cluster = Found] BY DEF Found
<1>3. /\ Waited("models") /\ Damage(IF setup.features THEN {"clusters"} ELSE {})
      /\ UNCHANGED <<setup, disk, life, faults, reason>>
  BY DEF ModelsBuilt
<1>4. IF HasWhatPredictionNeeds(loaded)
      THEN Goes(loaded, "waiting", "prediction") /\ Launch(Prediction)
      ELSE LearnOn(loaded)
  BY Zenon DEF ModelsBuilt
<1> HIDE DEF loaded
<1>5. Loaded(loaded, server.doe, server.iteration, Found, server.prediction)
  <2>1. <<>> \in Seq(Row) OBVIOUS
  <2> QED BY <1>1, <1>2, <2>1, Loading
<1>6. HasWhatPredictionNeeds(loaded) <=> (AreModelsValid /\ (setup.features => Found # {}))
  BY <1>5 DEF Loaded, HasWhatPredictionNeeds
<1>7. CASE HasWhatPredictionNeeds(loaded)
  <2>1. Goes(loaded, "waiting", "prediction") /\ Launch(Prediction) BY <1>4, <1>7
  <2>2. GoneTo("waiting", "prediction", server.doe, server.iteration, Found, server.prediction)
    BY <1>5, <2>1, GoesLoaded
  <2>3. Launched({"predict"}) BY <2>1, LaunchDoes DEF Prediction
  <2> QED BY <1>3, <1>6, <1>7, <2>2, <2>3, Zenon DEF ModelsBuiltDoes
<1>8. CASE ~HasWhatPredictionNeeds(loaded)
  <2>1. LearntOn(Found, server.prediction) BY <1>4, <1>5, <1>8, LearnOnDoes
  <2> QED BY <1>3, <1>6, <1>8, <2>1, Zenon DEF ModelsBuiltDoes
<1> QED BY <1>7, <1>8

\* So is the step after a prediction.
LEMMA PredictedIs ==
  ASSUME VariablesOK, Predicted PROVE PredictedDoes
<1> DEFINE loaded == [server EXCEPT !.prediction = LoadPrediction]
<1>1. HandlerOK(server) BY DEF VariablesOK
<1>2. loaded = [server EXCEPT !.prediction = disk.predictions] BY DEF LoadPrediction
<1>3. /\ Waited("prediction") /\ Damage({"predictions"})
      /\ UNCHANGED <<setup, disk, life, faults, reason>>
  BY DEF Predicted
<1>4. IF loaded.prediction # {}
      THEN Goes(loaded, "informed", "none") /\ UNCHANGED plugins
      ELSE LearnOn(loaded)
  BY Zenon DEF Predicted
<1> HIDE DEF loaded
<1>5. Loaded(loaded, server.doe, server.iteration, server.cluster, disk.predictions)
  <2>1. <<>> \in Seq(Row) OBVIOUS
  <2> QED BY <1>1, <1>2, <2>1, Loading
<1>6. loaded.prediction = disk.predictions BY <1>5 DEF Loaded
<1>7. CASE disk.predictions # {}
  <2>1. Goes(loaded, "informed", "none") /\ UNCHANGED plugins BY <1>4, <1>6, <1>7
  <2>2. GoneTo("informed", "none", server.doe, server.iteration, server.cluster, disk.predictions)
    BY <1>5, <2>1, GoesLoaded
  <2> QED BY <1>3, <1>7, <2>1, <2>2, Zenon DEF PredictedDoes
<1>8. CASE disk.predictions = {}
  <2>1. LearntOn(server.cluster, {}) BY <1>4, <1>5, <1>6, <1>8, LearnOnDoes
  <2> QED BY <1>3, <1>8, <2>1, Zenon DEF PredictedDoes
<1> QED BY <1>7, <1>8

-----------------------------------------------------------------------------
(* What the plugins and the faults do, one member after the other *)

\* A step that leaves the encoders alone, and one that touches nothing else; a process
\* that goes on, and one that ends the server with it.
FilesBecome(total, doe, models, clusters, predictions, partial) ==
  DiskBecomes(total, doe, disk.table, models, clusters, predictions, partial, disk.global, disk.local)
EncodersBecome(global, local) ==
  DiskBecomes(disk.total, disk.doe, disk.table, disk.models, disk.clusters, disk.predictions,
              disk.partial, global, local)
Moved(p, at, read) ==
  /\ \E q \in [at : {at}, read : {read}, born : {p.born}, kind : {p.kind}, iteration : {p.iteration}] :
       plugins' = (plugins \ {p}) \cup {q}
  /\ UNCHANGED <<server, reason>>
Downed == Becomes("down", "none", <<>>, 0, {}, {})
Orphaned(p) ==
  /\ plugins' = plugins \ {p} /\ (server' = server \/ Downed)
  /\ p.born = life /\ server.phase # "down" => Downed
Failed(p, why) == Orphaned(p) /\ reason' = why /\ UNCHANGED <<disk, damaged>>
Quiet == UNCHANGED <<setup, life, faults, given>>

\* The doe plugin.
DoeBeginDoes(p) ==
  /\ p.kind = "doe" /\ p.at = "begin" /\ Quiet
  /\ \/ /\ disk.total = None /\ Moved(p, "total", Allowed) /\ UNCHANGED damaged
        /\ \E part \in SUBSET Allowed :
             DiskBecomes(part, disk.doe, disk.table, disk.models, disk.clusters, disk.predictions,
                         Opened("total"), "ready", disk.local)
     \/ disk.total # None /\ Moved(p, "design", disk.total) /\ Damage({"total"}) /\ disk' = disk
DoeTotalDoes(p) ==
  /\ p.kind = "doe" /\ p.at = "total" /\ Quiet /\ UNCHANGED damaged /\ Moved(p, "design", Allowed)
  /\ FilesBecome(Allowed, disk.doe, disk.models, disk.clusters, disk.predictions, Closed("total"))
DoeDesignDoes(p) ==
  /\ p.kind = "doe" /\ p.at = "design" /\ Quiet /\ UNCHANGED damaged
  /\ \E design \in CreateDoe : \E part \in SUBSET (design \cap p.read) :
       /\ FilesBecome(disk.total, Rows(part), disk.models, disk.clusters, disk.predictions, Opened("doe"))
       /\ Moved(p, "write", design \cap p.read)
DoeWriteDoes(p) ==
  /\ p.kind = "doe" /\ p.at = "write" /\ Quiet /\ UNCHANGED damaged /\ Ends(p)
  /\ FilesBecome(disk.total, Rows(p.read), disk.models, disk.clusters, disk.predictions, Closed("doe"))

\* The model plugins and the encoders they share with the prediction.
ModelBeginDoes(p) ==
  /\ p.kind \in Metrics /\ p.at = "begin" /\ Quiet /\ UNCHANGED <<disk, damaged>>
  /\ \/ ~StoresParameters(p.kind) /\ Failed(p, "no_parameters")
     \/ disk.table = None /\ Failed(p, "no_table")
     \/ disk.table = 0 /\ Ends(p)
     \/ disk.table \notin {None, 0} /\ Moved(p, "encoders", 1 .. disk.table)
EncodersDoes(p, workspace, there, global) ==
  /\ p.at = "encoders" /\ Quiet /\ UNCHANGED damaged
  /\ \/ disk.local[workspace] = "ready" /\ Moved(p, there, p.read) /\ disk' = disk
     \/ disk.local[workspace] = "torn" /\ Failed(p, "torn_encoders")
     \/ disk.local[workspace] = "absent" /\ disk.global = "absent" /\ Failed(p, "no_encoders")
     \/ /\ disk.local[workspace] = "absent" /\ disk.global = "ready" /\ Moved(p, "save", p.read)
        /\ EncodersBecome(global, [disk.local EXCEPT ![workspace] = "torn"])
Workspace(p) == IF p.kind = "predict" THEN "predict" ELSE setup.plugin[p.kind]
EncodersSavedDoes(p) ==
  /\ p.kind \in Metrics \cup {"predict"} /\ p.at = "save" /\ Quiet /\ UNCHANGED damaged
  /\ EncodersBecome(disk.global, [disk.local EXCEPT ![Workspace(p)] = "ready"])
  /\ Moved(p, AfterEncoders(p), p.read)
ModelFitDoes(p) ==
  /\ p.kind \in Metrics /\ p.at = "fit" /\ Quiet /\ UNCHANGED damaged
  /\ \/ \E why \in {"few_observations", "not_positive", "no_estimator"} : Failed(p, why)
     \/ /\ Moved(p, "write", p.read)
        /\ FilesBecome(disk.total, disk.doe, disk.models \cup {p.kind}, disk.clusters, disk.predictions,
                       Opened(p.kind))
     \/ ~Forced(p) /\ Ends(p) /\ disk' = disk
ModelWriteDoes(p) ==
  /\ p.kind \in Metrics /\ p.at = "write" /\ Quiet /\ UNCHANGED damaged /\ Ends(p)
  /\ FilesBecome(disk.total, disk.doe, disk.models, disk.clusters, disk.predictions, Closed(p.kind))

\* The cluster plugin.
ClusterBeginDoes(p) ==
  /\ p.kind = "cluster" /\ p.at = "begin" /\ Quiet /\ UNCHANGED damaged
  /\ \/ disk.table = None /\ Failed(p, "no_table")
     \/ \E why \in {"few_observations", "no_clusters"} : disk.table # None /\ Failed(p, why)
     \/ \E found \in SUBSET Centroids : \E part \in SUBSET found :
          /\ setup.clustering # "unknown" \/ setup.scaled => found # {}
          /\ FilesBecome(disk.total, disk.doe, disk.models, part, disk.predictions, Opened("clusters"))
          /\ Moved(p, "write", found)
ClusterWriteDoes(p) ==
  /\ p.kind = "cluster" /\ p.at = "write" /\ Quiet /\ UNCHANGED damaged /\ Ends(p)
  /\ FilesBecome(disk.total, disk.doe, disk.models, p.read, disk.predictions, Closed("clusters"))

\* The prediction.
Predictable == disk.total \X IF setup.features THEN disk.clusters ELSE {"no_features"}
PredictBeginDoes(p) ==
  /\ p.kind = "predict" /\ p.at = "begin" /\ Quiet /\ disk' = disk
  /\ \/ CannotPredict /\ Failed(p, "no_table")
     \/ /\ ~CannotPredict /\ Moved(p, "encoders", Predictable)
        /\ Damage({"total"} \cup IF setup.features THEN {"clusters"} ELSE {})
PredictLoadDoes(p) ==
  /\ p.kind = "predict" /\ p.at = "load" /\ Quiet /\ UNCHANGED damaged
  /\ \/ ~AreModelsValid /\ Failed(p, "no_model")
     \/ disk.partial \cap Metrics # {} /\ Failed(p, "torn_model")
     \/ /\ Moved(p, "write", p.read)
        /\ \E part \in SUBSET p.read :
             FilesBecome(disk.total, disk.doe, disk.models, disk.clusters, part, Opened("predictions"))
PredictWriteDoes(p) ==
  /\ p.kind = "predict" /\ p.at = "write" /\ Quiet /\ UNCHANGED damaged /\ Ends(p)
  /\ FilesBecome(disk.total, disk.doe, disk.models, disk.clusters, p.read, Closed("predictions"))

\* Departures, deaths and shutdowns.
ByeDoes ==
  /\ server.phase \in {"exploring", "informed", "undefined"}
  /\ Becomes("clueless", server.next, <<>>, server.iteration, {}, {})
  /\ UNCHANGED <<setup, disk, plugins, life, reason, damaged, given>>
CrashDoes == Downed /\ UNCHANGED <<setup, disk, plugins, life, reason, damaged, given>>
KillDoes(p) ==
  /\ Orphaned(p) /\ UNCHANGED <<setup, disk, life, reason, damaged, given>>
Survives(p, q) ==
  /\ q.kind = p.kind /\ q.born = p.born /\ q.iteration = p.iteration /\ q.read = p.read
  /\ \/ p.at \in {"total", "design"} /\ q.at = "design"
     \/ p.at = "fit" /\ q.at = "fit"
     \/ p.at = "load" /\ q.at = "load"
     \/ p.at = "save" /\ q.at = AfterEncoders(p)
ShutdownDoes ==
  /\ server.phase \in {"clueless", "exploring", "informed", "undefined"} /\ Downed
  /\ \A q \in plugins' : \E p \in plugins : ProcessOK(q) /\ Survives(p, q)
  /\ DiskBecomes(None, None, None, {}, None, {}, {}, disk.global, [w \in Workspaces |-> "absent"])
  /\ UNCHANGED <<setup, life, reason, damaged, given>>
RestartDoes ==
  /\ server.phase = "down" /\ life' = life + 1 /\ Becomes("clueless", "none", <<>>, 0, {}, {})
  /\ UNCHANGED <<setup, disk, plugins, faults, reason, damaged, given>>

\* Step changes a process and nothing else.
LEMMA StepMoves ==
  ASSUME NEW p, ProcessOK(p), NEW at, NEW read, Step(p, at, read)
  PROVE  Moved(p, at, read)
<1>1. [p EXCEPT !.at = at, !.read = read]
        \in [at : {at}, read : {read}, born : {p.born}, kind : {p.kind}, iteration : {p.iteration}]
  BY DEF ProcessOK
<1>2. plugins' = (plugins \ {p}) \cup {[p EXCEPT !.at = at, !.read = read]}
      /\ UNCHANGED <<server, reason>>
  BY DEF Step
<1> QED BY <1>1, <1>2, Zenon DEF Moved

\* ServerEnds leaves nothing in the memory of the handler.
LEMMA EndIsDown ==
  ASSUME ServerEnds PROVE Downed
BY DEF ServerEnds, NewHandler, Downed, Becomes

\* Fails ends the process, and its server if it still waits for it.
LEMMA FailsFails ==
  ASSUME NEW p, NEW why, Fails(p, why)
  PROVE  Failed(p, why)
BY EndIsDown DEF Fails, Failed, Orphaned

\* Some of the files change.
LEMMA FilesWritten ==
  ASSUME DiskOK(disk), NEW x, NEW partial
  PROVE  /\ disk' = [disk EXCEPT !.total = x, !.partial = partial] =>
              FilesBecome(x, disk.doe, disk.models, disk.clusters, disk.predictions, partial)
         /\ disk' = [disk EXCEPT !.doe = x, !.partial = partial] =>
              FilesBecome(disk.total, x, disk.models, disk.clusters, disk.predictions, partial)
         /\ disk' = [disk EXCEPT !.models = x, !.partial = partial] =>
              FilesBecome(disk.total, disk.doe, x, disk.clusters, disk.predictions, partial)
         /\ disk' = [disk EXCEPT !.clusters = x, !.partial = partial] =>
              FilesBecome(disk.total, disk.doe, disk.models, x, disk.predictions, partial)
         /\ disk' = [disk EXCEPT !.predictions = x, !.partial = partial] =>
              FilesBecome(disk.total, disk.doe, disk.models, disk.clusters, x, partial)
         /\ disk' = [disk EXCEPT !.partial = partial] =>
              FilesBecome(disk.total, disk.doe, disk.models, disk.clusters, disk.predictions, partial)
<1>0. disk \in [total : {disk.total}, doe : {disk.doe}, table : {disk.table}, models : {disk.models},
               clusters : {disk.clusters}, predictions : {disk.predictions}, partial : {disk.partial},
               global : {disk.global}, local : {disk.local}]
  BY DEF DiskOK
<1>1. disk' = [disk EXCEPT !.total = x, !.partial = partial] =>
        FilesBecome(x, disk.doe, disk.models, disk.clusters, disk.predictions, partial)
  BY <1>0 DEF FilesBecome, DiskBecomes
<1>2. disk' = [disk EXCEPT !.doe = x, !.partial = partial] =>
        FilesBecome(disk.total, x, disk.models, disk.clusters, disk.predictions, partial)
  BY <1>0 DEF FilesBecome, DiskBecomes
<1>3. disk' = [disk EXCEPT !.models = x, !.partial = partial] =>
        FilesBecome(disk.total, disk.doe, x, disk.clusters, disk.predictions, partial)
  BY <1>0 DEF FilesBecome, DiskBecomes
<1>4. disk' = [disk EXCEPT !.clusters = x, !.partial = partial] =>
        FilesBecome(disk.total, disk.doe, disk.models, x, disk.predictions, partial)
  BY <1>0 DEF FilesBecome, DiskBecomes
<1>5. disk' = [disk EXCEPT !.predictions = x, !.partial = partial] =>
        FilesBecome(disk.total, disk.doe, disk.models, disk.clusters, x, partial)
  BY <1>0 DEF FilesBecome, DiskBecomes
<1>6. disk' = [disk EXCEPT !.partial = partial] =>
        FilesBecome(disk.total, disk.doe, disk.models, disk.clusters, disk.predictions, partial)
  BY <1>0 DEF FilesBecome, DiskBecomes
<1> QED BY <1>1, <1>2, <1>3, <1>4, <1>5, <1>6

\* The disk after the encoders were written.
LEMMA EncodersWritten ==
  ASSUME DiskOK(disk), NEW local, NEW global, NEW partial, NEW total
  PROVE  /\ disk' = [disk EXCEPT !.local = local] => EncodersBecome(disk.global, local)
         /\ disk' = [disk EXCEPT !.local = local, !.global = global] => EncodersBecome(global, local)
         /\ disk' = [disk EXCEPT !.global = global, !.total = total, !.partial = partial] =>
              DiskBecomes(total, disk.doe, disk.table, disk.models, disk.clusters, disk.predictions,
                          partial, global, disk.local)
<1>0. disk \in [total : {disk.total}, doe : {disk.doe}, table : {disk.table}, models : {disk.models},
               clusters : {disk.clusters}, predictions : {disk.predictions}, partial : {disk.partial},
               global : {disk.global}, local : {disk.local}]
  BY DEF DiskOK
<1>1. disk' = [disk EXCEPT !.local = local] => EncodersBecome(disk.global, local)
  BY <1>0 DEF EncodersBecome, DiskBecomes
<1>2. disk' = [disk EXCEPT !.local = local, !.global = global] => EncodersBecome(global, local)
  BY <1>0 DEF EncodersBecome, DiskBecomes
<1>3. disk' = [disk EXCEPT !.global = global, !.total = total, !.partial = partial] =>
        DiskBecomes(total, disk.doe, disk.table, disk.models, disk.clusters, disk.predictions,
                    partial, global, disk.local)
  BY <1>0 DEF DiskBecomes
<1> QED BY <1>1, <1>2, <1>3

\* One step of each plugin.
LEMMA DoeBeginIs ==
  ASSUME VariablesOK, NEW p, ProcessOK(p), DoeBegin(p) PROVE DoeBeginDoes(p)
<1>1. p.kind = "doe" /\ p.at = "begin" /\ Quiet BY DEF DoeBegin, Plugin, Quiet
<1>2. CASE disk.total = None
  <2>1. PICK part \in PartsOf(Allowed) :
          /\ disk' = [disk EXCEPT !.global = "ready", !.total = part, !.partial = Opened("total")]
          /\ Step(p, "total", Allowed) /\ UNCHANGED damaged
    BY <1>2 DEF DoeBegin
  <2>2. part \in SUBSET Allowed BY <2>1, Constants, PartsAreParts
  <2>3. DiskBecomes(part, disk.doe, disk.table, disk.models, disk.clusters, disk.predictions,
                    Opened("total"), "ready", disk.local)
    BY <2>1, EncodersWritten DEF VariablesOK
  <2>4. Moved(p, "total", Allowed) BY <2>1, StepMoves
  <2> QED BY <1>1, <1>2, <2>1, <2>2, <2>3, <2>4, Zenon DEF DoeBeginDoes
<1>3. CASE disk.total # None
  <2>1. Step(p, "design", disk.total) /\ Damage({"total"}) /\ disk' = disk BY <1>3 DEF DoeBegin
  <2>2. Moved(p, "design", disk.total) BY <2>1, StepMoves
  <2> QED BY <1>1, <1>3, <2>1, <2>2, Zenon DEF DoeBeginDoes
<1> QED BY <1>2, <1>3

\* The steps of the doe plugin are what is written above.
LEMMA DoeTotalIs ==
  ASSUME VariablesOK, NEW p, ProcessOK(p), DoeTotal(p) PROVE DoeTotalDoes(p)
<1>1. p.kind = "doe" /\ p.at = "total" /\ Quiet BY DEF DoeTotal, Plugin, Quiet
<1>2. /\ disk' = [disk EXCEPT !.total = Allowed, !.partial = Closed("total")]
      /\ Step(p, "design", Allowed) /\ UNCHANGED damaged
  BY DEF DoeTotal
<1>3. FilesBecome(Allowed, disk.doe, disk.models, disk.clusters, disk.predictions, Closed("total"))
  BY <1>2, FilesWritten DEF VariablesOK
<1>4. Moved(p, "design", Allowed) BY <1>2, StepMoves
<1> QED BY <1>1, <1>2, <1>3, <1>4 DEF DoeTotalDoes

\* Parts of a design are parts of what is read.
LEMMA DoeDesignIs ==
  ASSUME VariablesOK, NEW p, ProcessOK(p), ReadOK(p), DoeDesign(p) PROVE DoeDesignDoes(p)
<1>1. p.kind = "doe" /\ p.at = "design" /\ Quiet BY DEF DoeDesign, Plugin, Quiet
<1>2. PICK design \in CreateDoe : \E part \in PartsOf(design \cap p.read) :
        /\ disk' = [disk EXCEPT !.doe = Rows(part), !.partial = Opened("doe")]
        /\ Step(p, "write", design \cap p.read)
  BY DEF DoeDesign
<1>3. PICK part \in PartsOf(design \cap p.read) :
        /\ disk' = [disk EXCEPT !.doe = Rows(part), !.partial = Opened("doe")]
        /\ Step(p, "write", design \cap p.read)
  BY <1>2
<1>4. UNCHANGED damaged BY DEF DoeDesign
<1>5. IsFiniteSet(design \cap p.read)
  <2>1. design \cap p.read \subseteq Allowed BY <1>1 DEF ReadOK
  <2> QED BY <2>1, Constants, FS_Subset
<1>6. part \in SUBSET (design \cap p.read) BY <1>5, PartsAreParts
<1>7. FilesBecome(disk.total, Rows(part), disk.models, disk.clusters, disk.predictions, Opened("doe"))
  BY <1>3, FilesWritten DEF VariablesOK
<1>8. Moved(p, "write", design \cap p.read) BY <1>3, StepMoves
<1> QED BY <1>1, <1>4, <1>6, <1>7, <1>8, Zenon DEF DoeDesignDoes

\* The last step of the doe plugin.
LEMMA DoeWriteIs ==
  ASSUME VariablesOK, NEW p, ProcessOK(p), DoeWrite(p) PROVE DoeWriteDoes(p)
<1>1. p.kind = "doe" /\ p.at = "write" /\ Quiet BY DEF DoeWrite, Plugin, Quiet
<1>2. /\ disk' = [disk EXCEPT !.doe = Rows(p.read), !.partial = Closed("doe")]
      /\ Ends(p) /\ UNCHANGED damaged
  BY DEF DoeWrite
<1>3. FilesBecome(disk.total, Rows(p.read), disk.models, disk.clusters, disk.predictions, Closed("doe"))
  BY <1>2, FilesWritten DEF VariablesOK
<1> QED BY <1>1, <1>2, <1>3 DEF DoeWriteDoes

\* The steps of the model plugins are what is written above.
LEMMA ModelBeginIs ==
  ASSUME VariablesOK, NEW p, ProcessOK(p), ModelBegin(p) PROVE ModelBeginDoes(p)
<1>1. p.kind \in Metrics /\ p.at = "begin" /\ Quiet BY DEF ModelBegin, Plugin, Quiet
<1>2. CASE ~StoresParameters(p.kind) /\ Fails(p, "no_parameters")
  <2>1. Failed(p, "no_parameters") BY <1>2, FailsFails
  <2> QED BY <1>1, <1>2, <2>1 DEF ModelBeginDoes, Failed
<1>3. CASE disk.table = None /\ Fails(p, "no_table")
  <2>1. Failed(p, "no_table") BY <1>3, FailsFails
  <2> QED BY <1>1, <1>3, <2>1 DEF ModelBeginDoes, Failed
<1>4. CASE disk.table = 0 /\ Ends(p) /\ UNCHANGED <<disk, damaged>>
  BY <1>1, <1>4 DEF ModelBeginDoes
<1>5. CASE /\ disk.table \notin {None, 0}
           /\ Step(p, "encoders", 1 .. disk.table) /\ UNCHANGED <<disk, damaged>>
  <2>1. Moved(p, "encoders", 1 .. disk.table) BY <1>5, StepMoves
  <2> QED BY <1>1, <1>5, <2>1, Zenon DEF ModelBeginDoes
<1> QED BY <1>2, <1>3, <1>4, <1>5 DEF ModelBegin

\* Looking for the encoders, for a model and for the prediction.
LEMMA EncodersIs ==
  ASSUME VariablesOK, NEW p, ProcessOK(p), NEW workspace, NEW there, NEW global,
         p.at = "encoders", Quiet, Encoders(p, workspace, there, global)
  PROVE  EncodersDoes(p, workspace, there, global)
<1>1. UNCHANGED damaged BY DEF Encoders
<1>2. CASE disk.local[workspace] = "ready" /\ Step(p, there, p.read) /\ UNCHANGED disk
  <2>1. Moved(p, there, p.read) BY <1>2, StepMoves
  <2> QED BY <1>1, <1>2, <2>1, Zenon DEF EncodersDoes
<1>3. CASE disk.local[workspace] = "torn" /\ Fails(p, "torn_encoders")
  <2>1. Failed(p, "torn_encoders") BY <1>3, FailsFails
  <2> QED BY <1>1, <1>3, <2>1, Zenon DEF EncodersDoes
<1>4. CASE disk.local[workspace] = "absent" /\ disk.global = "absent" /\ Fails(p, "no_encoders")
  <2>1. Failed(p, "no_encoders") BY <1>4, FailsFails
  <2> QED BY <1>1, <1>4, <2>1, Zenon DEF EncodersDoes
<1>5. CASE /\ disk.local[workspace] = "absent" /\ disk.global = "ready"
           /\ disk' = [disk EXCEPT !.local[workspace] = "torn", !.global = global]
           /\ Step(p, "save", p.read)
  <2>1. Moved(p, "save", p.read) BY <1>5, StepMoves
  <2>2. disk' = [disk EXCEPT !.local = [disk.local EXCEPT ![workspace] = "torn"], !.global = global]
    BY <1>5 DEF VariablesOK, DiskOK
  <2>3. EncodersBecome(global, [disk.local EXCEPT ![workspace] = "torn"])
    BY <2>2, EncodersWritten DEF VariablesOK
  <2> QED BY <1>1, <1>5, <2>1, <2>3, Zenon DEF EncodersDoes
<1> QED BY <1>2, <1>3, <1>4, <1>5 DEF Encoders

\* The end of the copy of the encoders.
LEMMA EncodersSavedIs ==
  ASSUME VariablesOK, NEW p, ProcessOK(p), EncodersSaved(p) PROVE EncodersSavedDoes(p)
<1>1. p.kind \in Metrics \cup {"predict"} /\ p.at = "save" /\ Quiet
  BY DEF EncodersSaved, Plugin, Quiet
<1>2. /\ disk' = [disk EXCEPT !.local[Workspace(p)] = "ready"]
      /\ Step(p, AfterEncoders(p), p.read) /\ UNCHANGED damaged
  BY DEF EncodersSaved, Workspace
<1>3. Moved(p, AfterEncoders(p), p.read) BY <1>2, StepMoves
<1>4. disk' = [disk EXCEPT !.local = [disk.local EXCEPT ![Workspace(p)] = "ready"]]
  BY <1>2 DEF VariablesOK, DiskOK
<1>5. EncodersBecome(disk.global, [disk.local EXCEPT ![Workspace(p)] = "ready"])
  BY <1>4, EncodersWritten DEF VariablesOK
<1> QED BY <1>1, <1>2, <1>3, <1>5, Zenon DEF EncodersSavedDoes

\* The fit of a model.
LEMMA ModelFitIs ==
  ASSUME VariablesOK, NEW p, ProcessOK(p), ModelFit(p) PROVE ModelFitDoes(p)
<1>1. p.kind \in Metrics /\ p.at = "fit" /\ Quiet BY DEF ModelFit, Plugin, Quiet
<1>2. ASSUME NEW why \in {"few_observations", "not_positive", "no_estimator"}, Fails(p, why)
      PROVE  ModelFitDoes(p)
  <2>1. Failed(p, why) BY <1>2, FailsFails
  <2>2. UNCHANGED damaged BY <1>2 DEF Fails
  <2> QED BY <1>1, <2>1, <2>2, Zenon DEF ModelFitDoes
<1>3. CASE /\ disk' = [disk EXCEPT !.models = @ \cup {p.kind}, !.partial = Opened(p.kind)]
           /\ Step(p, "write", p.read) /\ UNCHANGED damaged
  <2>1. Moved(p, "write", p.read) BY <1>3, StepMoves
  <2>2. FilesBecome(disk.total, disk.doe, disk.models \cup {p.kind}, disk.clusters, disk.predictions,
                    Opened(p.kind))
    BY <1>3, FilesWritten DEF VariablesOK
  <2> QED BY <1>1, <1>3, <2>1, <2>2 DEF ModelFitDoes
<1>4. CASE ~Forced(p) /\ Ends(p) /\ UNCHANGED <<disk, damaged>>
  BY <1>1, <1>4, Zenon DEF ModelFitDoes
<1> QED BY <1>2, <1>3, <1>4 DEF ModelFit

\* The last step of a model plugin.
LEMMA ModelWriteIs ==
  ASSUME VariablesOK, NEW p, ProcessOK(p), ModelWrite(p) PROVE ModelWriteDoes(p)
<1>1. p.kind \in Metrics /\ p.at = "write" /\ Quiet BY DEF ModelWrite, Plugin, Quiet
<1>2. disk' = [disk EXCEPT !.partial = Closed(p.kind)] /\ Ends(p) /\ UNCHANGED damaged
  BY DEF ModelWrite
<1>3. FilesBecome(disk.total, disk.doe, disk.models, disk.clusters, disk.predictions, Closed(p.kind))
  BY <1>2, FilesWritten DEF VariablesOK
<1> QED BY <1>1, <1>2, <1>3 DEF ModelWriteDoes

\* The steps of the cluster plugin are what is written above.
LEMMA ClusterBeginIs ==
  ASSUME VariablesOK, NEW p, ProcessOK(p), ClusterBegin(p) PROVE ClusterBeginDoes(p)
<1>1. p.kind = "cluster" /\ p.at = "begin" /\ Quiet BY DEF ClusterBegin, Plugin, Quiet
<1>2. CASE disk.table = None /\ Fails(p, "no_table")
  <2>1. Failed(p, "no_table") BY <1>2, FailsFails
  <2> QED BY <1>1, <1>2, <2>1 DEF ClusterBeginDoes, Failed
<1>3. ASSUME disk.table # None, NEW why \in {"few_observations", "no_clusters"}, Fails(p, why)
      PROVE  ClusterBeginDoes(p)
  <2>1. Failed(p, why) BY <1>3, FailsFails
  <2>2. UNCHANGED damaged BY <2>1 DEF Failed
  <2> QED BY <1>1, <1>3, <2>1, <2>2, Zenon DEF ClusterBeginDoes
<1>4. CASE /\ UNCHANGED damaged
           /\ \E found \in CreateCluster : \E part \in PartsOf(found) :
                /\ disk' = [disk EXCEPT !.clusters = part, !.partial = Opened("clusters")]
                /\ Step(p, "write", found)
  <2>1. PICK found \in CreateCluster : \E part \in PartsOf(found) :
                /\ disk' = [disk EXCEPT !.clusters = part, !.partial = Opened("clusters")]
                /\ Step(p, "write", found)
    BY <1>4
  <2>2. PICK part \in PartsOf(found) :
                /\ disk' = [disk EXCEPT !.clusters = part, !.partial = Opened("clusters")]
                /\ Step(p, "write", found)
    BY <2>1
  <2>0. found \in SUBSET Centroids /\ (setup.clustering # "unknown" \/ setup.scaled => found # {})
    BY DEF CreateCluster
  <2>3. IsFiniteSet(found) BY <2>0, Constants, FS_Subset
  <2>4. part \in SUBSET found BY <2>3, PartsAreParts
  <2>5. FilesBecome(disk.total, disk.doe, disk.models, part, disk.predictions, Opened("clusters"))
    BY <2>2, FilesWritten DEF VariablesOK
  <2>6. Moved(p, "write", found) BY <2>2, StepMoves
  <2> QED BY <1>1, <1>4, <2>0, <2>4, <2>5, <2>6, Zenon DEF ClusterBeginDoes
<1> QED BY <1>2, <1>3, <1>4 DEF ClusterBegin

\* The last step of the cluster plugin.
LEMMA ClusterWriteIs ==
  ASSUME VariablesOK, NEW p, ProcessOK(p), ClusterWrite(p) PROVE ClusterWriteDoes(p)
<1>1. p.kind = "cluster" /\ p.at = "write" /\ Quiet BY DEF ClusterWrite, Plugin, Quiet
<1>2. /\ disk' = [disk EXCEPT !.clusters = p.read, !.partial = Closed("clusters")]
      /\ Ends(p) /\ UNCHANGED damaged
  BY DEF ClusterWrite
<1>3. FilesBecome(disk.total, disk.doe, disk.models, p.read, disk.predictions, Closed("clusters"))
  BY <1>2, FilesWritten DEF VariablesOK
<1> QED BY <1>1, <1>2, <1>3 DEF ClusterWriteDoes

\* The steps of the prediction are what is written above.
LEMMA PredictBeginIs ==
  ASSUME VariablesOK, NEW p, ProcessOK(p), PredictBegin(p) PROVE PredictBeginDoes(p)
<1>1. p.kind = "predict" /\ p.at = "begin" /\ Quiet BY DEF PredictBegin, Plugin, Quiet
<1>2. CASE CannotPredict /\ Fails(p, "no_table")
  <2>1. Failed(p, "no_table") BY <1>2, FailsFails
  <2> QED BY <1>1, <1>2, <2>1 DEF PredictBeginDoes, Failed
<1>3. CASE ~CannotPredict
  <2>1. /\ disk' = disk /\ Damage({"total"} \cup IF setup.features THEN {"clusters"} ELSE {})
        /\ Step(p, "encoders", Predictable)
    BY <1>3 DEF PredictBegin, Predictable
  <2>2. Moved(p, "encoders", Predictable) BY <2>1, StepMoves
  <2> QED BY <1>1, <1>3, <2>1, <2>2, Zenon DEF PredictBeginDoes
<1> QED BY <1>2, <1>3 DEF PredictBegin

\* The prediction opens its table.
LEMMA PredictLoadIs ==
  ASSUME VariablesOK, NEW p, ProcessOK(p), ReadOK(p), PredictLoad(p) PROVE PredictLoadDoes(p)
<1>1. p.kind = "predict" /\ p.at = "load" /\ Quiet BY DEF PredictLoad, Plugin, Quiet
<1>4. CASE ~AreModelsValid /\ Fails(p, "no_model")
  <2>1. Failed(p, "no_model") BY <1>4, FailsFails
  <2> QED BY <1>1, <1>4, <2>1 DEF PredictLoadDoes, Failed
<1>2. CASE disk.partial \cap Metrics # {} /\ Fails(p, "torn_model")
  <2>1. Failed(p, "torn_model") BY <1>2, FailsFails
  <2> QED BY <1>1, <1>2, <2>1 DEF PredictLoadDoes, Failed
<1>3. CASE /\ UNCHANGED damaged
           /\ \E part \in PartsOf(p.read) :
                disk' = [disk EXCEPT !.predictions = part, !.partial = Opened("predictions")]
           /\ Step(p, "write", p.read)
  <2>1. PICK part \in PartsOf(p.read) :
          disk' = [disk EXCEPT !.predictions = part, !.partial = Opened("predictions")]
    BY <1>3
  <2>2. IsFiniteSet(p.read) BY <1>1 DEF ReadOK
  <2>3. part \in SUBSET p.read BY <2>2, PartsAreParts
  <2>4. FilesBecome(disk.total, disk.doe, disk.models, disk.clusters, part, Opened("predictions"))
    BY <2>1, FilesWritten DEF VariablesOK
  <2>5. Moved(p, "write", p.read) BY <1>3, StepMoves
  <2> QED BY <1>1, <1>3, <2>3, <2>4, <2>5, Zenon DEF PredictLoadDoes
<1> QED BY <1>2, <1>3, <1>4 DEF PredictLoad

\* The last step of the prediction.
LEMMA PredictWriteIs ==
  ASSUME VariablesOK, NEW p, ProcessOK(p), PredictWrite(p) PROVE PredictWriteDoes(p)
<1>1. p.kind = "predict" /\ p.at = "write" /\ Quiet BY DEF PredictWrite, Plugin, Quiet
<1>2. /\ disk' = [disk EXCEPT !.predictions = p.read, !.partial = Closed("predictions")]
      /\ Ends(p) /\ UNCHANGED damaged
  BY DEF PredictWrite
<1>3. FilesBecome(disk.total, disk.doe, disk.models, disk.clusters, p.read, Closed("predictions"))
  BY <1>2, FilesWritten DEF VariablesOK
<1> QED BY <1>1, <1>2, <1>3 DEF PredictWriteDoes

\* The faults.
LEMMA ByeIs ==
  ASSUME VariablesOK, Bye PROVE ByeDoes
<1>1. HandlerOK(server) BY DEF VariablesOK
<1>2. server' = [server EXCEPT !.phase = "clueless", !.doe = <<>>, !.cluster = {}, !.prediction = {}]
  BY DEF Bye
<1>3. Becomes("clueless", server.next, <<>>, server.iteration, {}, {})
  BY <1>1, <1>2 DEF HandlerOK, Becomes
<1> QED BY <1>3 DEF Bye, Fault, ByeDoes

\* A server that crashes.
LEMMA CrashIs ==
  ASSUME Crash PROVE CrashDoes
BY EndIsDown DEF Crash, Fault, CrashDoes

\* A plugin that is killed.
LEMMA KillIs ==
  ASSUME NEW p, Kill(p) PROVE KillDoes(p)
BY EndIsDown DEF Kill, Fault, KillDoes, Up, Orphaned

\* A shutdown erases the storage and the workspaces, not the encoders of the doe plugin.
LEMMA ShutdownIs ==
  ASSUME VariablesOK, PluginsOK, Shutdown PROVE ShutdownDoes
<1>1. disk \in [total : {disk.total}, doe : {disk.doe}, table : {disk.table}, models : {disk.models},
                clusters : {disk.clusters}, predictions : {disk.predictions}, partial : {disk.partial},
                global : {disk.global}, local : {disk.local}]
  BY DEF VariablesOK, DiskOK
<1>2. disk' = ClearLaunchers(Erase(disk)) /\ Downed
      /\ plugins' = {Unlinked(p) : p \in {q \in plugins : Outlives(q)}}
      /\ server.phase \in {"clueless", "exploring", "informed", "undefined"}
      /\ UNCHANGED <<setup, life, reason, damaged, given>>
  BY EndIsDown DEF Shutdown, Fault
<1> DEFINE absent == [w \in Workspaces |-> "absent"]
<1>3. disk' \in [total : {None}, doe : {None}, table : {None}, models : {{}}, clusters : {None},
                 predictions : {{}}, partial : {{}}, global : {disk.global}, local : {absent}]
  <2> DEFINE one == [disk EXCEPT !.total = None, !.doe = None, !.table = None]
             two == [one EXCEPT !.models = {}, !.clusters = None]
             three == [two EXCEPT !.predictions = {}, !.partial = {}]
  <2>0. Erase(disk) = three BY DEF Erase
  <2>1. one \in [total : {None}, doe : {None}, table : {None}, models : {disk.models},
                 clusters : {disk.clusters}, predictions : {disk.predictions}, partial : {disk.partial},
                 global : {disk.global}, local : {disk.local}]
    BY <1>1
  <2> HIDE DEF one
  <2>2. two \in [total : {None}, doe : {None}, table : {None}, models : {{}},
                 clusters : {None}, predictions : {disk.predictions}, partial : {disk.partial},
                 global : {disk.global}, local : {disk.local}]
    BY <2>1
  <2> HIDE DEF two
  <2>3. three \in [total : {None}, doe : {None}, table : {None}, models : {{}},
                   clusters : {None}, predictions : {{}}, partial : {{}},
                   global : {disk.global}, local : {disk.local}]
    BY <2>2
  <2> HIDE DEF three
  <2>4. disk' = [three EXCEPT !.local = absent] BY <1>2, <2>0 DEF ClearLaunchers
  <2> HIDE DEF absent
  <2> QED BY <2>3, <2>4
<1> HIDE DEF absent
<1>4. DiskBecomes(None, None, None, {}, None, {}, {}, disk.global, absent) BY <1>3 DEF DiskBecomes
<1>5. ASSUME NEW q \in plugins' PROVE \E p \in plugins : ProcessOK(q) /\ Survives(p, q)
  <2>1. PICK p \in plugins : Outlives(p) /\ q = Unlinked(p) BY <1>2
  <2>2. ProcessOK(p) BY DEF PluginsOK
  <2>3. AfterEncoders(p) \in Ats BY DEF AfterEncoders, Ats
  <2>4. ProcessOK(q)
    BY <2>1, <2>2, <2>3 DEF Unlinked, ProcessOK, Ats
  <2>5. Survives(p, q) BY <2>1, <2>2 DEF Unlinked, Outlives, Survives, ProcessOK
  <2> QED BY <2>4, <2>5
<1> QED BY <1>2, <1>4, <1>5 DEF ShutdownDoes, absent

\* A server that is started again.
LEMMA RestartIs ==
  ASSUME Restart PROVE RestartDoes
BY DEF Restart, Up, NewHandler, Becomes, RestartDoes

-----------------------------------------------------------------------------
(* The types are kept *)

\* The members of the handler after a step, read off.
LEMMA BecomesIs ==
  ASSUME NEW phase, NEW next, NEW doe, NEW iteration, NEW cluster, NEW prediction,
         Becomes(phase, next, doe, iteration, cluster, prediction)
  PROVE  /\ server'.phase = phase /\ server'.next = next /\ server'.doe = doe
         /\ server'.iteration = iteration /\ server'.cluster = cluster
         /\ server'.prediction = prediction
         /\ phase \in Phases /\ next \in Nexts /\ doe \in Seq(Row) /\ iteration \in Nat =>
              HandlerOK(server')
<1>1. /\ server'.phase = phase /\ server'.next = next /\ server'.doe = doe
      /\ server'.iteration = iteration /\ server'.cluster = cluster
      /\ server'.prediction = prediction
  BY DEF Becomes
<1>2. ASSUME phase \in Phases, next \in Nexts, doe \in Seq(Row), iteration \in Nat
      PROVE  HandlerOK(server')
  <2> HIDE DEF Phases, Nexts
  <2> QED BY <1>2 DEF Becomes, HandlerOK
<1> QED BY <1>1, <1>2

\* The handler after Goes.
LEMMA GoneIs ==
  ASSUME NEW phase, NEW next, NEW doe, NEW iteration, NEW cluster, NEW prediction,
         GoneTo(phase, next, doe, iteration, cluster, prediction), VariablesOK
  PROVE  /\ server'.phase = phase /\ server'.next = next /\ server'.doe = doe
         /\ server'.iteration = iteration /\ server'.cluster = cluster
         /\ server'.prediction = prediction /\ given' = Counts(doe) /\ given' \in [Confs -> Int]
         /\ phase \in Phases /\ next \in Nexts /\ doe \in Seq(Row) /\ iteration \in Nat =>
              HandlerOK(server')
<1>1. Becomes(phase, next, doe, iteration, cluster, prediction) /\ given' = Counts(doe)
  BY DEF GoneTo
<1>2. Counts(doe) \in [Confs -> Int] BY DEF VariablesOK, Counts, Fresh
<1> QED BY <1>1, <1>2, BecomesIs

\* The handler after Explores.
LEMMA ExploredIs ==
  ASSUME VariablesOK, NEW doe \in Seq(Row), NEW counts \in [Confs -> Int],
         NEW cluster, NEW prediction, Explored(doe, counts, cluster, prediction)
  PROVE  /\ server'.phase = "exploring" /\ server'.next = "none"
         /\ server'.iteration = server.iteration /\ server'.cluster = cluster
         /\ server'.prediction = prediction
         /\ HandlerOK(server') /\ given' \in [Confs -> Int]
<1>0. server.iteration \in Nat BY DEF VariablesOK, HandlerOK
<1>1. "exploring" \in Phases /\ "none" \in Nexts BY DEF Phases, Nexts
<1>2. CASE doe = <<>>
  <2>1. Becomes("exploring", "none", doe, server.iteration, cluster, prediction) /\ given' = counts
    BY <1>2 DEF Explored
  <2> QED BY <1>0, <1>1, <2>1, BecomesIs
<1>3. CASE doe # <<>>
  <2> DEFINE rest == GetNext(doe).rest
             conf == GetNext(doe).configuration
  <2>1. rest \in Seq(Row) /\ conf = doe[1].conf /\ doe[1] \in Row
    BY <1>3, NextOfADesign
  <2>2. Becomes("exploring", "none", rest, server.iteration, cluster, prediction)
        /\ given' = [counts EXCEPT ![conf] = @ + 1]
    BY <1>3 DEF Explored
  <2> HIDE DEF rest, conf
  <2>3. conf \in Confs BY <2>1, Constants DEF Row
  <2>4. given' \in [Confs -> Int]
    <3>1. counts[conf] + 1 \in Int BY <2>3
    <3> QED BY <2>2, <2>3, <3>1
  <2> QED BY <1>0, <1>1, <2>1, <2>2, <2>4, BecomesIs
<1> QED BY <1>2, <1>3

\* The files after a step, read off.
LEMMA DiskIs ==
  ASSUME NEW total, NEW doe, NEW table, NEW models, NEW clusters, NEW predictions, NEW partial,
         NEW global, NEW local,
         DiskBecomes(total, doe, table, models, clusters, predictions, partial, global, local)
  PROVE  /\ disk'.total = total /\ disk'.doe = doe /\ disk'.table = table
         /\ disk'.models = models /\ disk'.clusters = clusters
         /\ disk'.predictions = predictions /\ disk'.partial = partial
         /\ disk'.global = global /\ disk'.local = local
         /\ (/\ total \in {None} \cup SUBSET Allowed /\ doe \in {None} \cup Designs
             /\ table \in {None} \cup 0 .. Enough /\ models \in SUBSET Metrics
             /\ clusters \in {None} \cup SUBSET Centroids /\ partial \in SUBSET Files
             /\ global \in {"absent", "ready"}
             /\ local \in [Workspaces -> {"absent", "torn", "ready"}]) => DiskOK(disk')
<1>1. /\ disk'.total = total /\ disk'.doe = doe /\ disk'.table = table
      /\ disk'.models = models /\ disk'.clusters = clusters
      /\ disk'.predictions = predictions /\ disk'.partial = partial
      /\ disk'.global = global /\ disk'.local = local
  BY DEF DiskBecomes
<1> DEFINE A == {None} \cup SUBSET Allowed
           B == {None} \cup Designs
           C == {None} \cup 0 .. Enough
           D == SUBSET Metrics
           E == {None} \cup SUBSET Centroids
           F == SUBSET Files
           G == {"absent", "ready"}
           H == [Workspaces -> {"absent", "torn", "ready"}]
<1>2. ASSUME total \in A, doe \in B, table \in C, models \in D, clusters \in E, partial \in F,
             global \in G, local \in H
      PROVE  disk' \in [total : A, doe : B, table : C, models : D, clusters : E,
                        predictions : {disk'.predictions}, partial : F, global : G, local : H]
  <2> HIDE DEF A, B, C, D, E, F, G, H
  <2> QED BY <1>2 DEF DiskBecomes
<1> QED BY <1>1, <1>2 DEF DiskOK

\* The files on disk, one after the other.
LEMMA OnDisk ==
  ASSUME DiskOK(disk)
  PROVE  /\ disk.total \in {None} \cup SUBSET Allowed /\ disk.doe \in {None} \cup Designs
         /\ disk.table \in {None} \cup 0 .. Enough /\ disk.models \in SUBSET Metrics
         /\ disk.clusters \in {None} \cup SUBSET Centroids /\ disk.partial \in SUBSET Files
         /\ disk.global \in {"absent", "ready"}
         /\ disk.local \in [Workspaces -> {"absent", "torn", "ready"}]
BY DEF DiskOK

\* Processes that are started, and one that goes on.
LEMMA LaunchedOK ==
  ASSUME PluginsOK, life \in Nat \ {0}, NEW kinds \in SUBSET Kinds, Launched(kinds), life' = life
  PROVE  PluginsOK'
<1> SUFFICES ASSUME NEW p \in plugins' PROVE ProcessOK(p)' /\ ReadOK(p) BY DEF PluginsOK, ReadOK
<1>1. CASE p \in plugins BY <1>1 DEF PluginsOK, ProcessOK
<1>2. CASE p \notin plugins
  <2>1. p \in [at : {"begin"}, read : {{}}, born : {life}, kind : kinds, iteration : {server'.iteration}]
    BY <1>2 DEF Launched
  <2>2. ProcessOK(p)'
    <3>1. life \in 1 .. life' /\ "begin" \in Ats BY DEF Ats
    <3> QED BY <2>1, <3>1 DEF ProcessOK
  <2>3. p.at = "begin" BY <2>1
  <2> QED BY <2>2, <2>3 DEF ReadOK
<1> QED BY <1>1, <1>2

\* A process that goes on stays a process.
LEMMA MovedOK ==
  ASSUME PluginsOK, NEW p \in plugins, NEW at \in Ats, NEW read, Moved(p, at, read), life' = life,
         p.kind = "doe" => read \subseteq Allowed,
         p.kind = "cluster" => read \subseteq Centroids,
         p.kind = "predict" => IsFiniteSet(read)
  PROVE  PluginsOK'
<1>1. PICK q \in [at : {at}, read : {read}, born : {p.born}, kind : {p.kind}, iteration : {p.iteration}] :
        plugins' = (plugins \ {p}) \cup {q}
  BY DEF Moved
<1>2. ProcessOK(p) BY DEF PluginsOK
<1>3. ProcessOK(q)' BY <1>2 DEF ProcessOK
<1>4. ReadOK(q) BY DEF ReadOK
<1>5. ASSUME NEW r \in plugins PROVE ProcessOK(r)' /\ ReadOK(r) BY DEF PluginsOK, ProcessOK
<1> SUFFICES ASSUME NEW r \in plugins' PROVE ProcessOK(r)' /\ ReadOK(r) BY DEF PluginsOK, ReadOK
<1> QED BY <1>1, <1>3, <1>4, <1>5

\* Processes that end.
LEMMA FewerOK ==
  ASSUME PluginsOK, plugins' \subseteq plugins, life \in Nat, life' \in {life, life + 1}
  PROVE  PluginsOK'
<1> SUFFICES ASSUME NEW r \in plugins' PROVE ProcessOK(r)' /\ ReadOK(r) BY DEF PluginsOK, ReadOK
<1>1. ProcessOK(r) /\ ReadOK(r) BY DEF PluginsOK
<1>2. 1 .. life \subseteq 1 .. life' OBVIOUS
<1> QED BY <1>1, <1>2 DEF ProcessOK

\* The handler after a step.
Turned ==
  /\ HandlerOK(server') /\ given' \in [Confs -> Int]
  /\ server'.phase = "exploring" => server'.next = "none"

\* Goes keeps the types of the handler.
LEMMA GoneTurns ==
  ASSUME VariablesOK, NEW phase \in Phases \ {"exploring"}, NEW next \in Nexts, NEW doe \in Seq(Row),
         NEW iteration \in Nat, NEW cluster, NEW prediction,
         GoneTo(phase, next, doe, iteration, cluster, prediction)
  PROVE  Turned /\ server'.phase = phase /\ server'.next = next
BY GoneIs DEF Turned

\* So does Explores.
LEMMA ExploredTurns ==
  ASSUME VariablesOK, NEW doe \in Seq(Row), NEW counts \in [Confs -> Int],
         NEW cluster, NEW prediction, Explored(doe, counts, cluster, prediction)
  PROVE  Turned /\ server'.phase = "exploring"
BY ExploredIs DEF Turned

\* A run that is spoilt stays spoilt, and is spoilt by reading an open file.
LEMMA DamageDone ==
  ASSUME NEW files, damaged \in BOOLEAN, Damage(files)
  PROVE  /\ damaged' \in BOOLEAN /\ (damaged => damaged')
         /\ files \cap disk.partial # {} => damaged'
BY DEF Damage

\* A step that keeps the types of the handler and of the disk keeps all of them.
LEMMA VariablesKept ==
  ASSUME VariablesOK, setup' = setup, life' \in {life, life + 1}, faults' \in {faults, faults + 1},
         damaged' \in BOOLEAN, DiskOK(disk'), Turned
  PROVE  VariablesOK'
<1>1. life' \in Nat \ {0} /\ faults' \in Nat BY DEF VariablesOK
<1>2. HandlerOK(server)' /\ DiskOK(disk)' BY DEF Turned, HandlerOK, DiskOK
<1> QED BY <1>1, <1>2 DEF VariablesOK, Turned

\* Of a table that is not there nothing is known.
LEMMA NothingKnown ==
  ASSUME LearnInv, faults = 0, disk.total = None
  PROVE  /\ LoadDoe = <<>> /\ ~AreModelsValid /\ Found \in {{}, server.cluster}
         /\ \A p \in plugins : p.kind = "doe" /\ p.at = "begin"
         /\ server.phase # "exploring" /\ (server.phase = "waiting" => server.next = "first_doe")
<1>1. disk.doe = None /\ disk.models = {} /\ disk.clusters = None BY DEF LearnInv, TotalKnown
<1>2. ~AreModelsValid
  <2>1. DOMAIN setup.plugin # {} BY SetupFacts DEF LearnInv, VariablesOK
  <2> QED BY <1>1, <2>1 DEF AreModelsValid, IsModelValid
<1> QED BY <1>1, <1>2 DEF LoadDoe, Found, LoadCluster, LearnInv, TotalKnown

\* A design may be asked for when there is nothing else.
LEMMA FirstLaunch ==
  ASSUME LearnInv, Launched({"doe"}), faults = 0, disk.total = None
  PROVE  \A p \in plugins' : p.kind = "doe" /\ p.at = "begin"
BY NothingKnown DEF Launched

\* The first client keeps the types, and what is known of the tables.
LEMMA WelcomeKeepsTypes ==
  ASSUME LearnInv, Welcome PROVE LearnInv'
<1>1. VariablesOK /\ PluginsOK /\ TotalKnown /\ ClustersKnown /\ DiskOK(disk) BY DEF LearnInv, VariablesOK
<1>2. WelcomeDoes BY <1>1, WelcomeIs
<1>3. LoadDoe \in Seq(Row) /\ <<>> \in Seq(Row) /\ server.iteration \in Nat /\ Fresh \in [Confs -> Int]
  BY <1>1, LoadDoeOK DEF Designs, VariablesOK, HandlerOK, Fresh
<1>4. damaged' \in BOOLEAN BY <1>1, <1>2, DamageDone DEF VariablesOK, WelcomeDoes
<1>5. UNCHANGED <<setup, disk, life, faults>> BY <1>2 DEF WelcomeDoes
<1>6. life \in Nat \ {0} BY <1>1 DEF VariablesOK
<1>7. SUFFICES Turned /\ PluginsOK' /\ TotalKnown' /\ ClustersKnown'
  BY <1>1, <1>4, <1>5, VariablesKept DEF LearnInv
<1>8. CASE /\ disk.predictions # {} /\ UNCHANGED plugins
           /\ GoneTo("informed", "none", LoadDoe, server.iteration, Found, disk.predictions)
  <2>1. Turned /\ server'.phase = "informed" BY <1>1, <1>3, <1>8, GoneTurns DEF Phases, Nexts
  <2>2. PluginsOK' BY <1>1, <1>5, <1>6, <1>8, FewerOK
  <2>3. TotalKnown' /\ ClustersKnown' BY <1>1, <1>5, <1>8, <2>1 DEF TotalKnown, ClustersKnown
  <2> QED BY <2>1, <2>2, <2>3
<1>9. CASE /\ AreModelsValid /\ (setup.features => Found # {}) /\ Launched({"predict"})
           /\ GoneTo("waiting", "recovered", LoadDoe, server.iteration, Found, {})
  <2>1. Turned BY <1>1, <1>3, <1>9, GoneTurns DEF Phases, Nexts
  <2>2. PluginsOK' BY <1>1, <1>5, <1>6, <1>9, LaunchedOK DEF Kinds
  <2>3. TotalKnown' BY <1>5, <1>9, NothingKnown DEF TotalKnown
  <2>4. ClustersKnown' BY <1>5, <1>9 DEF ClustersKnown, Found, LoadCluster
  <2> QED BY <2>1, <2>2, <2>3, <2>4
<1>10. CASE LoadDoe # <<>> /\ UNCHANGED plugins /\ Explored(LoadDoe, Fresh, Found, {})
  <2>1. Turned BY <1>1, <1>3, <1>10, ExploredTurns
  <2>2. PluginsOK' BY <1>1, <1>5, <1>6, <1>10, FewerOK
  <2>3. TotalKnown' BY <1>5, <1>10, NothingKnown DEF TotalKnown
  <2>4. ClustersKnown' BY <1>1, <1>5, <1>10 DEF ClustersKnown
  <2> QED BY <2>1, <2>2, <2>3, <2>4
<1>11. CASE /\ LoadDoe = <<>> /\ Launched({"doe"})
            /\ GoneTo("waiting", "first_doe", <<>>, server.iteration, Found, {})
  <2>1. Turned /\ server'.phase = "waiting" /\ server'.next = "first_doe"
    BY <1>1, <1>3, <1>11, GoneTurns DEF Phases, Nexts
  <2>2. PluginsOK' BY <1>1, <1>5, <1>6, <1>11, LaunchedOK DEF Kinds
  <2>3. TotalKnown' BY <1>1, <1>5, <1>11, <2>1, FirstLaunch DEF TotalKnown
  <2>4. ClustersKnown' BY <1>1, <1>5, <1>11 DEF ClustersKnown, Launched
  <2> QED BY <2>1, <2>2, <2>3, <2>4
<1> QED BY <1>2, <1>8, <1>9, <1>10, <1>11 DEF WelcomeDoes

\* The end of a recovery keeps them.
LEMMA RecoveredKeepsTypes ==
  ASSUME LearnInv, Recovered PROVE LearnInv'
<1>1. VariablesOK /\ PluginsOK /\ TotalKnown /\ ClustersKnown /\ DiskOK(disk) BY DEF LearnInv, VariablesOK
<1>2. RecoveredDoes BY <1>1, RecoveredIs
<1>3. server.doe \in Seq(Row) /\ <<>> \in Seq(Row) /\ server.iteration \in Nat /\ Fresh \in [Confs -> Int]
  BY <1>1 DEF VariablesOK, HandlerOK, Fresh
<1>4. damaged' \in BOOLEAN BY <1>1, <1>2, DamageDone DEF VariablesOK, RecoveredDoes
<1>5. UNCHANGED <<setup, disk, life, faults>> BY <1>2 DEF RecoveredDoes
<1>6. life \in Nat \ {0} BY <1>1 DEF VariablesOK
<1>7. SUFFICES Turned /\ PluginsOK' /\ ClustersKnown'
  <2>1. (faults = 0 => disk.total # None) BY <1>2, NothingKnown DEF RecoveredDoes, Waited
  <2> QED BY <1>1, <1>4, <1>5, <1>7, <2>1, VariablesKept DEF LearnInv, TotalKnown
<1>8. CASE /\ UNCHANGED plugins
           /\ GoneTo("informed", "none", server.doe, server.iteration, server.cluster, disk.predictions)
  <2>1. Turned BY <1>1, <1>3, <1>8, GoneTurns DEF Phases, Nexts
  <2>2. PluginsOK' BY <1>1, <1>5, <1>6, <1>8, FewerOK
  <2>3. ClustersKnown' BY <1>1, <1>5, <1>8 DEF ClustersKnown
  <2> QED BY <2>1, <2>2, <2>3
<1>9. CASE UNCHANGED plugins /\ Explored(server.doe, Fresh, server.cluster, {})
  <2>1. Turned BY <1>1, <1>3, <1>9, ExploredTurns
  <2>2. PluginsOK' BY <1>1, <1>5, <1>6, <1>9, FewerOK
  <2>3. ClustersKnown' BY <1>1, <1>5, <1>9 DEF ClustersKnown
  <2> QED BY <2>1, <2>2, <2>3
<1>10. CASE /\ GoneTo("waiting", "first_doe", <<>>, server.iteration, server.cluster, {})
            /\ Launched({"doe"})
  <2>1. Turned BY <1>1, <1>3, <1>10, GoneTurns DEF Phases, Nexts
  <2>2. PluginsOK' BY <1>1, <1>5, <1>6, <1>10, LaunchedOK DEF Kinds
  <2>3. ClustersKnown' BY <1>1, <1>5, <1>10 DEF ClustersKnown, Launched
  <2> QED BY <2>1, <2>2, <2>3
<1> QED BY <1>2, <1>8, <1>9, <1>10 DEF RecoveredDoes

\* A new table of observations has the type of one.
LEMMA TableOK ==
  ASSUME DiskOK(disk), NEW table \in {None} \cup 0 .. Enough, TableBecomes(table)
  PROVE  /\ DiskOK(disk') /\ disk'.table = table /\ disk'.total = disk.total /\ disk'.doe = disk.doe
         /\ disk'.models = disk.models /\ disk'.clusters = disk.clusters
         /\ disk'.predictions = disk.predictions /\ disk'.partial = disk.partial
         /\ disk'.global = disk.global /\ disk'.local = disk.local
BY OnDisk, DiskIs DEF TableBecomes

\* An observation that is inserted is counted, unless there is no table.
LEMMA InsertedTable ==
  ASSUME DiskOK(disk)
  PROVE  /\ InsertObservation \in {None} \cup 0 .. Enough
         /\ disk.table = None <=> InsertObservation = None
         /\ disk.table # None => InsertObservation >= disk.table /\ InsertObservation # 0
<1>1. disk.table \in {None} \cup 0 .. Enough BY OnDisk
<1>2. CASE disk.table = None
  <2>1. InsertObservation = None BY <1>2, Zenon DEF InsertObservation
  <2> QED BY <1>2, <2>1
<1>3. CASE disk.table # None
  <2> DEFINE n == disk.table + 1
             m == Min({n, Enough})
  <2>1. disk.table \in 0 .. Enough /\ Enough \in Nat /\ Enough >= 4 BY <1>1, <1>3, Constants
  <2>2. n \in Nat /\ n > disk.table BY <2>1
  <2>3. InsertObservation = m BY <1>3 DEF InsertObservation
  <2> HIDE DEF n
  <2>0. n \in Int /\ Enough \in Int BY <2>1, <2>2
  <2>4. m \in {n, Enough} /\ m <= Enough BY <2>0, MaxOfTwo, Zenon
  <2> HIDE DEF m
  <2>5. m \in 0 .. Enough /\ m >= disk.table /\ m # 0 BY <2>1, <2>2, <2>4
  <2>6. m # None BY <2>5, NoneAssumption DEF NoneAssumption
  <2> QED BY <1>3, <2>3, <2>5, <2>6
<1> QED BY <1>2, <1>3

\* The step after a design was made keeps the types.
LEMMA DoeCreatedKeepsTypes ==
  ASSUME LearnInv, DoeCreated PROVE LearnInv'
<1>1. VariablesOK /\ PluginsOK /\ TotalKnown /\ ClustersKnown /\ DiskOK(disk) BY DEF LearnInv, VariablesOK
<1>2. DoeCreatedDoes BY <1>1, DoeCreatedIs
<1>3. LoadDoe \in Seq(Row) /\ <<>> \in Seq(Row) /\ server.iteration \in Nat /\ Fresh \in [Confs -> Int]
  BY <1>1, LoadDoeOK DEF Designs, VariablesOK, HandlerOK, Fresh
<1>4. damaged' \in BOOLEAN BY <1>1, <1>2, DamageDone DEF VariablesOK, DoeCreatedDoes
<1>5. UNCHANGED <<setup, plugins, life, faults>> BY <1>2 DEF DoeCreatedDoes
<1>6. PluginsOK' BY <1>1, <1>5, FewerOK DEF VariablesOK
<1>7. CASE /\ LoadDoe = <<>> /\ disk' = disk
           /\ GoneTo("undefined", "none", <<>>, server.iteration, server.cluster, server.prediction)
  <2>1. Turned /\ server'.phase = "undefined" BY <1>1, <1>3, <1>7, GoneTurns DEF Phases, Nexts
  <2>2. TotalKnown' /\ ClustersKnown' BY <1>1, <1>5, <1>7, <2>1 DEF TotalKnown, ClustersKnown
  <2>3. VariablesOK' BY <1>1, <1>4, <1>5, <1>7, <2>1, VariablesKept
  <2> QED BY <1>6, <2>2, <2>3 DEF LearnInv
<1>8. CASE /\ LoadDoe # <<>> /\ IF server.next = "first_doe" THEN TableBecomes(0) ELSE disk' = disk
           /\ Explored(LoadDoe, Fresh, server.cluster, server.prediction)
  <2>1. Turned BY <1>1, <1>3, <1>8, ExploredTurns
  <2>2. (faults = 0 => disk.total # None) BY <1>8, NothingKnown
  <2>3. DiskOK(disk') /\ disk'.total = disk.total /\ disk'.clusters = disk.clusters
    <3>1. 0 \in {None} \cup 0 .. Enough BY Constants
    <3> QED BY <1>1, <1>8, <3>1, TableOK
  <2>4. TotalKnown' /\ ClustersKnown' BY <1>1, <1>5, <2>2, <2>3 DEF TotalKnown, ClustersKnown
  <2>5. VariablesOK' BY <1>1, <1>4, <1>5, <2>1, <2>3, VariablesKept
  <2> QED BY <1>6, <2>4, <2>5 DEF LearnInv
<1> QED BY <1>2, <1>7, <1>8 DEF DoeCreatedDoes

\* The plugins that model and cluster.
LEMMA ModelledBy ==
  ASSUME VariablesOK
  PROVE  Models \cup Clustering \in SUBSET Kinds /\ "predict" \notin Models \cup Clustering
<1>1. DOMAIN setup.plugin \subseteq Metrics BY SetupFacts DEF VariablesOK
<1> QED BY <1>1, Constants DEF Models, Clustering, Kinds

\* An observation keeps the types.
LEMMA ObservationKeepsTypes ==
  ASSUME LearnInv, Observation PROVE LearnInv'
<1>1. VariablesOK /\ PluginsOK /\ TotalKnown /\ ClustersKnown /\ DiskOK(disk) BY DEF LearnInv, VariablesOK
<1>2. ObservationDoes BY <1>1, ObservationIs
<1>3. server.doe \in Seq(Row) /\ server.iteration \in Nat /\ given \in [Confs -> Int]
      /\ life \in Nat \ {0} /\ damaged \in BOOLEAN
  BY <1>1 DEF VariablesOK, HandlerOK
<1>4. UNCHANGED <<setup, life, faults, damaged>> /\ server.phase = "exploring"
  BY <1>2 DEF ObservationDoes
<1>5. (faults = 0 => disk.total # None) BY <1>4, NothingKnown
<1>6. DiskOK(disk') /\ disk'.total = disk.total /\ disk'.clusters = disk.clusters
  BY <1>1, <1>2, InsertedTable, TableOK DEF ObservationDoes
<1>7. TotalKnown' BY <1>4, <1>5, <1>6 DEF TotalKnown
<1>8. CASE UNCHANGED plugins /\ Explored(server.doe, given, server.cluster, server.prediction)
  <2>1. Turned BY <1>1, <1>3, <1>8, ExploredTurns
  <2>2. PluginsOK' BY <1>1, <1>3, <1>4, <1>8, FewerOK
  <2>3. ClustersKnown' BY <1>1, <1>4, <1>6, <1>8 DEF ClustersKnown
  <2>4. VariablesOK' BY <1>1, <1>3, <1>4, <1>6, <2>1, VariablesKept
  <2> QED BY <1>7, <2>2, <2>3, <2>4 DEF LearnInv
<1>9. CASE /\ GoneTo("waiting", "models", server.doe, server.iteration + 1, server.cluster, server.prediction)
           /\ Launched(Models \cup Clustering)
  <2>1. server.iteration + 1 \in Nat BY <1>3
  <2>2. "waiting" \in Phases \ {"exploring"} /\ "models" \in Nexts BY DEF Phases, Nexts
  <2>3. Turned BY <1>1, <1>3, <1>9, <2>1, <2>2, GoneTurns
  <2>4. PluginsOK' BY <1>1, <1>3, <1>4, <1>9, LaunchedOK, ModelledBy
  <2>5. ClustersKnown' BY <1>1, <1>4, <1>6, <1>9, ModelledBy DEF ClustersKnown, Launched
  <2>6. VariablesOK' BY <1>1, <1>3, <1>4, <1>6, <2>3, VariablesKept
  <2> QED BY <1>7, <2>4, <2>5, <2>6 DEF LearnInv
<1> QED BY <1>2, <1>8, <1>9 DEF ObservationDoes

\* Exploring on, or another design.
LEMMA LearntOnTurns ==
  ASSUME LearnInv, NEW cluster, NEW prediction, LearntOn(cluster, prediction),
         UNCHANGED <<setup, disk, life, faults>>
  PROVE  Turned /\ PluginsOK' /\ ClustersKnown'
<1>1. VariablesOK /\ PluginsOK /\ ClustersKnown BY DEF LearnInv
<1>2. server.doe \in Seq(Row) /\ server.iteration \in Nat /\ given \in [Confs -> Int]
      /\ life \in Nat \ {0} /\ <<>> \in Seq(Row)
  BY <1>1 DEF VariablesOK, HandlerOK
<1>3. CASE UNCHANGED plugins /\ Explored(server.doe, given, cluster, prediction)
  <2>1. Turned BY <1>1, <1>2, <1>3, ExploredTurns
  <2>2. PluginsOK' BY <1>1, <1>2, <1>3, FewerOK
  <2>3. ClustersKnown' BY <1>1, <1>3 DEF ClustersKnown
  <2> QED BY <2>1, <2>2, <2>3
<1>4. CASE /\ Launched({"doe"})
           /\ GoneTo("waiting", "next_doe", <<>>, server.iteration, cluster, prediction)
  <2>1. Turned BY <1>1, <1>2, <1>4, GoneTurns DEF Phases, Nexts
  <2>2. PluginsOK' BY <1>1, <1>2, <1>4, LaunchedOK DEF Kinds
  <2>3. ClustersKnown' BY <1>1, <1>4 DEF ClustersKnown, Launched
  <2> QED BY <2>1, <2>2, <2>3
<1> QED BY <1>3, <1>4 DEF LearntOn

\* The step after the models were built keeps the types.
LEMMA ModelsBuiltKeepsTypes ==
  ASSUME LearnInv, ModelsBuilt PROVE LearnInv'
<1>1. VariablesOK /\ PluginsOK /\ TotalKnown /\ ClustersKnown /\ DiskOK(disk) BY DEF LearnInv, VariablesOK
<1>2. ModelsBuiltDoes BY <1>1, ModelsBuiltIs
<1>3. server.doe \in Seq(Row) /\ server.iteration \in Nat /\ life \in Nat \ {0}
  BY <1>1 DEF VariablesOK, HandlerOK
<1>4. damaged' \in BOOLEAN BY <1>1, <1>2, DamageDone DEF VariablesOK, ModelsBuiltDoes
<1>5. UNCHANGED <<setup, disk, life, faults>> BY <1>2 DEF ModelsBuiltDoes
<1>6. TotalKnown'
  <2>1. (faults = 0 => disk.total # None) BY <1>2, NothingKnown DEF ModelsBuiltDoes, Waited
  <2> QED BY <1>5, <2>1 DEF TotalKnown
<1>7. Turned /\ PluginsOK' /\ ClustersKnown'
  <2>1. CASE /\ AreModelsValid /\ (setup.features => Found # {}) /\ Launched({"predict"})
             /\ GoneTo("waiting", "prediction", server.doe, server.iteration, Found, server.prediction)
    <3>1. Turned BY <1>1, <1>3, <2>1, GoneTurns DEF Phases, Nexts
    <3>2. PluginsOK' BY <1>1, <1>3, <1>5, <2>1, LaunchedOK DEF Kinds
    <3>3. ClustersKnown' BY <1>5, <2>1 DEF ClustersKnown, Found, LoadCluster
    <3> QED BY <3>1, <3>2, <3>3
  <2>2. CASE LearntOn(Found, server.prediction) BY <1>5, <2>2, LearntOnTurns
  <2> QED BY <1>2, <2>1, <2>2 DEF ModelsBuiltDoes
<1>8. VariablesOK' BY <1>1, <1>4, <1>5, <1>7, VariablesKept
<1> QED BY <1>6, <1>7, <1>8 DEF LearnInv

\* The step after a prediction keeps the types.
LEMMA PredictedKeepsTypes ==
  ASSUME LearnInv, Predicted PROVE LearnInv'
<1>1. VariablesOK /\ PluginsOK /\ TotalKnown /\ ClustersKnown /\ DiskOK(disk) BY DEF LearnInv, VariablesOK
<1>2. PredictedDoes BY <1>1, PredictedIs
<1>3. server.doe \in Seq(Row) /\ server.iteration \in Nat /\ life \in Nat \ {0}
  BY <1>1 DEF VariablesOK, HandlerOK
<1>4. damaged' \in BOOLEAN BY <1>1, <1>2, DamageDone DEF VariablesOK, PredictedDoes
<1>5. UNCHANGED <<setup, disk, life, faults>> BY <1>2 DEF PredictedDoes
<1>6. TotalKnown'
  <2>1. (faults = 0 => disk.total # None) BY <1>2, NothingKnown DEF PredictedDoes, Waited
  <2> QED BY <1>5, <2>1 DEF TotalKnown
<1>7. Turned /\ PluginsOK' /\ ClustersKnown'
  <2>1. CASE /\ UNCHANGED plugins
             /\ GoneTo("informed", "none", server.doe, server.iteration, server.cluster, disk.predictions)
    <3>1. Turned BY <1>1, <1>3, <2>1, GoneTurns DEF Phases, Nexts
    <3>2. PluginsOK' BY <1>1, <1>3, <1>5, <2>1, FewerOK
    <3>3. ClustersKnown' BY <1>1, <1>5, <2>1 DEF ClustersKnown
    <3> QED BY <3>1, <3>2, <3>3
  <2>2. CASE LearntOn(server.cluster, {}) BY <1>5, <2>2, LearntOnTurns
  <2> QED BY <1>2, <2>1, <2>2 DEF PredictedDoes
<1>8. VariablesOK' BY <1>1, <1>4, <1>5, <1>7, VariablesKept
<1> QED BY <1>6, <1>7, <1>8 DEF LearnInv

\* The files after a step of a plugin, read off.
LEMMA FilesAre ==
  ASSUME DiskOK(disk), NEW total, NEW doe, NEW models, NEW clusters, NEW predictions, NEW partial,
         FilesBecome(total, doe, models, clusters, predictions, partial)
  PROVE  /\ disk'.total = total /\ disk'.doe = doe /\ disk'.table = disk.table
         /\ disk'.models = models /\ disk'.clusters = clusters
         /\ disk'.predictions = predictions /\ disk'.partial = partial
         /\ disk'.global = disk.global /\ disk'.local = disk.local
         /\ (/\ total \in {None} \cup SUBSET Allowed /\ doe \in {None} \cup Designs
             /\ models \in SUBSET Metrics /\ clusters \in {None} \cup SUBSET Centroids
             /\ partial \in SUBSET Files) => DiskOK(disk')
BY OnDisk, DiskIs DEF FilesBecome

\* The same for the encoders.
LEMMA EncodersAre ==
  ASSUME DiskOK(disk), NEW global, NEW local, EncodersBecome(global, local)
  PROVE  /\ disk'.total = disk.total /\ disk'.doe = disk.doe /\ disk'.table = disk.table
         /\ disk'.models = disk.models /\ disk'.clusters = disk.clusters
         /\ disk'.predictions = disk.predictions /\ disk'.partial = disk.partial
         /\ disk'.global = global /\ disk'.local = local
         /\ (/\ global \in {"absent", "ready"}
             /\ local \in [Workspaces -> {"absent", "torn", "ready"}]) => DiskOK(disk')
BY OnDisk, DiskIs DEF EncodersBecome

\* Until the first fault a plugin that is not creating the first design finds the table of
\* all configurations.
LEMMA TotalThere ==
  ASSUME LearnInv, NEW p \in plugins, ~(p.kind = "doe" /\ p.at = "begin")
  PROVE  (faults = 0 => disk.total # None)
BY DEF LearnInv, TotalKnown

\* What a step of a plugin needs to keep the invariant.
LEMMA PluginKeeps ==
  ASSUME LearnInv, Quiet, server' = server \/ Downed, damaged' \in BOOLEAN, DiskOK(disk'),
         (faults = 0 => disk'.total # None), disk.clusters # None => disk'.clusters # None, PluginsOK',
         \A q \in plugins' : \E r \in plugins : r.kind = q.kind
  PROVE  LearnInv'
<1>1. Turned
  <2>1. CASE server' = server BY <2>1 DEF LearnInv, VariablesOK, HandlerOK, Turned, Quiet
  <2>2. CASE Downed
    <3>1. "down" \in Phases /\ "none" \in Nexts /\ 0 \in Nat /\ <<>> \in Seq(Row) BY DEF Phases, Nexts
    <3>2. server'.phase = "down" /\ HandlerOK(server') BY <2>2, <3>1, BecomesIs DEF Downed
    <3> QED BY <3>2 DEF LearnInv, VariablesOK, Turned, Quiet
  <2> QED BY <2>1, <2>2
<1>2. VariablesOK' BY <1>1, VariablesKept DEF LearnInv, Quiet
<1>3. TotalKnown' BY DEF TotalKnown, Quiet
<1>4. ClustersKnown' BY DEF LearnInv, ClustersKnown, Quiet
<1> QED BY <1>2, <1>3, <1>4 DEF LearnInv

\* A plugin that goes on keeps it.
LEMMA MovedKeeps ==
  ASSUME LearnInv, Quiet, NEW p \in plugins, NEW at \in Ats, NEW read, Moved(p, at, read),
         damaged' \in BOOLEAN, DiskOK(disk'),
         (faults = 0 => disk'.total # None), disk.clusters # None => disk'.clusters # None,
         p.kind = "doe" => read \subseteq Allowed,
         p.kind = "cluster" => read \subseteq Centroids,
         p.kind = "predict" => IsFiniteSet(read)
  PROVE  LearnInv'
<1>1. PluginsOK /\ life' = life BY DEF LearnInv, Quiet
<1>2. PluginsOK' BY <1>1, MovedOK
<1>3. \A q \in plugins' : \E r \in plugins : r.kind = q.kind BY DEF Moved
<1>4. server' = server BY DEF Moved
<1> QED BY <1>2, <1>3, <1>4, PluginKeeps

\* A plugin that ends keeps it.
LEMMA EndsKeeps ==
  ASSUME LearnInv, Quiet, NEW p, Ends(p),
         damaged' \in BOOLEAN, DiskOK(disk'),
         (faults = 0 => disk'.total # None), disk.clusters # None => disk'.clusters # None
  PROVE  LearnInv'
<1>1. PluginsOK /\ life' = life /\ life \in Nat BY DEF LearnInv, Quiet, VariablesOK
<1>2. plugins' \subseteq plugins /\ server' = server BY DEF Ends
<1>3. PluginsOK' BY <1>1, <1>2, FewerOK
<1> QED BY <1>2, <1>3, PluginKeeps

\* A plugin that fails keeps it.
LEMMA FailedKeeps ==
  ASSUME LearnInv, Quiet, NEW p, NEW why, Failed(p, why), (faults = 0 => disk.total # None)
  PROVE  LearnInv'
<1>1. PluginsOK /\ life' = life /\ life \in Nat /\ damaged \in BOOLEAN /\ DiskOK(disk)
  BY DEF LearnInv, Quiet, VariablesOK
<1>2. plugins' \subseteq plugins /\ (server' = server \/ Downed) /\ disk' = disk /\ damaged' = damaged
  BY DEF Failed, Orphaned
<1>3. PluginsOK' BY <1>1, <1>2, FewerOK
<1> QED BY <1>1, <1>2, <1>3, PluginKeeps

\* The doe plugin, step by step.
LEMMA DoeKeepsTypes ==
  ASSUME LearnInv, NEW p \in plugins,
         DoeBegin(p) \/ DoeTotal(p) \/ DoeDesign(p) \/ DoeWrite(p)
  PROVE  LearnInv'
<1>1. VariablesOK /\ DiskOK(disk) /\ damaged \in BOOLEAN /\ ProcessOK(p) /\ ReadOK(p)
  BY DEF LearnInv, VariablesOK, PluginsOK
<1>2. /\ disk.total \in {None} \cup SUBSET Allowed /\ disk.doe \in {None} \cup Designs
      /\ disk.models \in SUBSET Metrics /\ disk.partial \in SUBSET Files
      /\ disk.clusters \in {None} \cup SUBSET Centroids /\ disk.table \in {None} \cup 0 .. Enough
      /\ disk.local \in [Workspaces -> {"absent", "torn", "ready"}]
  BY <1>1, OnDisk
<1>3. \A S \in SUBSET Allowed : S # None BY Constants, NoneAssumption DEF NoneAssumption
<1>4. /\ Opened("total") \in SUBSET Files /\ Closed("total") \in SUBSET Files
      /\ Opened("doe") \in SUBSET Files /\ Closed("doe") \in SUBSET Files
  BY <1>2 DEF Opened, Closed, Files
<1>5. "total" \in Ats /\ "design" \in Ats /\ "write" \in Ats BY DEF Ats
<1>6. \A S \in SUBSET Allowed : Rows(S) \in Designs BY RowsOfASet DEF Designs, Unsent
<1>7. CASE DoeBegin(p)
  <2>1. DoeBeginDoes(p) BY <1>1, <1>7, DoeBeginIs
  <2>2. p.kind # "cluster" /\ p.kind # "predict" /\ Quiet BY <2>1 DEF DoeBeginDoes
  <2>3. CASE Moved(p, "total", Allowed) /\ UNCHANGED damaged
             /\ \E part \in SUBSET Allowed :
                  DiskBecomes(part, disk.doe, disk.table, disk.models, disk.clusters,
                              disk.predictions, Opened("total"), "ready", disk.local)
    <3>1. DiskOK(disk') /\ (faults = 0 => disk'.total # None) /\ disk'.clusters = disk.clusters
      <4>1. PICK part \in SUBSET Allowed :
              DiskBecomes(part, disk.doe, disk.table, disk.models, disk.clusters,
                          disk.predictions, Opened("total"), "ready", disk.local)
        BY <2>3
      <4>2. part \in {None} \cup SUBSET Allowed /\ part # None BY <1>3
      <4> QED BY <1>2, <1>4, <4>1, <4>2, DiskIs
    <3> QED BY <1>1, <1>5, <2>2, <2>3, <3>1, MovedKeeps
  <2>4. CASE disk.total # None /\ Moved(p, "design", disk.total) /\ Damage({"total"}) /\ disk' = disk
    <3>1. damaged' \in BOOLEAN BY <1>1, <2>4, DamageDone
    <3>2. disk.total \subseteq Allowed BY <1>2, <2>4
    <3> QED BY <1>1, <1>5, <2>2, <2>4, <3>1, <3>2, MovedKeeps
  <2> QED BY <2>1, <2>3, <2>4 DEF DoeBeginDoes
<1>8. CASE DoeTotal(p)
  <2>1. DoeTotalDoes(p) BY <1>1, <1>8, DoeTotalIs
  <2>2. /\ p.kind # "cluster" /\ p.kind # "predict" /\ Quiet /\ damaged' = damaged
        /\ Moved(p, "design", Allowed)
    BY <2>1 DEF DoeTotalDoes
  <2>3. DiskOK(disk') /\ (faults = 0 => disk'.total # None) /\ disk'.clusters = disk.clusters
    BY <1>1, <1>2, <1>3, <1>4, <2>1, FilesAre DEF DoeTotalDoes
  <2> QED BY <1>1, <1>5, <2>2, <2>3, MovedKeeps
<1>9. CASE DoeDesign(p)
  <2>1. DoeDesignDoes(p) BY <1>1, <1>9, DoeDesignIs
  <2>2. /\ p.kind = "doe" /\ p.at = "design" /\ Quiet /\ damaged' = damaged
    BY <2>1 DEF DoeDesignDoes
  <2>3. PICK design \in CreateDoe : \E part \in SUBSET (design \cap p.read) :
          /\ FilesBecome(disk.total, Rows(part), disk.models, disk.clusters, disk.predictions, Opened("doe"))
          /\ Moved(p, "write", design \cap p.read)
    BY <2>1 DEF DoeDesignDoes
  <2>4. PICK part \in SUBSET (design \cap p.read) :
          /\ FilesBecome(disk.total, Rows(part), disk.models, disk.clusters, disk.predictions, Opened("doe"))
          /\ Moved(p, "write", design \cap p.read)
    BY <2>3
  <2>5. design \cap p.read \subseteq Allowed BY <1>1, <2>2 DEF ReadOK
  <2>6. (faults = 0 => disk.total # None) BY <2>2, TotalThere
  <2>7. Rows(part) \in {None} \cup Designs BY <1>6, <2>5
  <2>8. DiskOK(disk') /\ (faults = 0 => disk'.total # None) /\ disk'.clusters = disk.clusters
    BY <1>1, <1>2, <1>4, <2>4, <2>6, <2>7, FilesAre
  <2> QED BY <1>1, <1>5, <2>2, <2>4, <2>5, <2>8, MovedKeeps
<1>10. CASE DoeWrite(p)
  <2>1. DoeWriteDoes(p) BY <1>1, <1>10, DoeWriteIs
  <2>2. /\ p.kind = "doe" /\ p.at = "write" /\ Quiet /\ damaged' = damaged /\ Ends(p)
    BY <2>1 DEF DoeWriteDoes
  <2>3. Rows(p.read) \in {None} \cup Designs BY <1>1, <1>6, <2>2 DEF ReadOK
  <2>4. (faults = 0 => disk.total # None) BY <2>2, TotalThere
  <2>5. DiskOK(disk') /\ (faults = 0 => disk'.total # None) /\ disk'.clusters = disk.clusters
    BY <1>1, <1>2, <1>4, <2>1, <2>3, <2>4, FilesAre DEF DoeWriteDoes
  <2> QED BY <1>1, <2>2, <2>5, EndsKeeps
<1> QED BY <1>7, <1>8, <1>9, <1>10

\* Looking for the encoders.
LEMMA EncodersKeep ==
  ASSUME LearnInv, NEW p \in plugins, NEW workspace, NEW there \in Ats, NEW global \in {"absent", "ready"},
         EncodersDoes(p, workspace, there, global), p.kind \notin {"doe", "cluster"}
  PROVE  LearnInv'
<1>1. /\ VariablesOK /\ DiskOK(disk) /\ damaged \in BOOLEAN /\ ReadOK(p) /\ (faults = 0 => disk.total # None)
      /\ "save" \in Ats
  BY TotalThere DEF LearnInv, VariablesOK, PluginsOK, Ats
<1>2. p.at = "encoders" /\ Quiet /\ damaged' = damaged BY DEF EncodersDoes
<1>3. p.kind = "predict" => IsFiniteSet(p.read) BY <1>1, <1>2 DEF ReadOK
<1>4. CASE Moved(p, there, p.read) /\ disk' = disk BY <1>1, <1>2, <1>3, <1>4, MovedKeeps
<1>5. CASE Failed(p, "torn_encoders") \/ Failed(p, "no_encoders")
  BY <1>1, <1>2, <1>5, FailedKeeps
<1>6. CASE /\ Moved(p, "save", p.read)
           /\ EncodersBecome(global, [disk.local EXCEPT ![workspace] = "torn"])
  <2>1. [disk.local EXCEPT ![workspace] = "torn"] \in [Workspaces -> {"absent", "torn", "ready"}]
    BY <1>1, OnDisk
  <2>2. DiskOK(disk') /\ (faults = 0 => disk'.total # None) /\ disk'.clusters = disk.clusters
    BY <1>1, <1>6, <2>1, EncodersAre
  <2> QED BY <1>1, <1>2, <1>3, <1>6, <2>2, MovedKeeps
<1> QED BY <1>4, <1>5, <1>6 DEF EncodersDoes

\* The model plugins, step by step.
LEMMA ModelKeepsTypes ==
  ASSUME LearnInv, NEW p \in plugins,
         ModelBegin(p) \/ ModelEncoders(p) \/ ModelFit(p) \/ ModelWrite(p)
  PROVE  LearnInv'
<1>1. VariablesOK /\ DiskOK(disk) /\ damaged \in BOOLEAN /\ ProcessOK(p)
  BY DEF LearnInv, VariablesOK, PluginsOK
<1>2. /\ disk.total \in {None} \cup SUBSET Allowed /\ disk.doe \in {None} \cup Designs
      /\ disk.models \in SUBSET Metrics /\ disk.partial \in SUBSET Files
      /\ disk.clusters \in {None} \cup SUBSET Centroids
  BY <1>1, OnDisk
<1>3. p.kind \in Metrics BY DEF ModelBegin, ModelEncoders, ModelFit, ModelWrite, Plugin
<1>4. p.kind # "doe" /\ p.kind # "cluster" /\ p.kind # "predict" BY <1>3, Constants
<1>5. (faults = 0 => disk.total # None) BY <1>4, TotalThere
<1>6. "encoders" \in Ats /\ "fit" \in Ats /\ "write" \in Ats BY DEF Ats
<1>7. Opened(p.kind) \in SUBSET Files /\ Closed(p.kind) \in SUBSET Files
  BY <1>2, <1>3 DEF Opened, Closed, Files
<1>8. CASE ModelBegin(p)
  <2>1. ModelBeginDoes(p) BY <1>1, <1>8, ModelBeginIs
  <2>2. Quiet /\ UNCHANGED <<disk, damaged>> BY <2>1 DEF ModelBeginDoes
  <2>3. CASE Failed(p, "no_parameters") \/ Failed(p, "no_table") BY <1>5, <2>2, <2>3, FailedKeeps
  <2>4. CASE Ends(p) BY <1>1, <1>5, <2>2, <2>4, EndsKeeps
  <2>5. CASE Moved(p, "encoders", 1 .. disk.table)
    BY <1>1, <1>4, <1>5, <1>6, <2>2, <2>5, MovedKeeps
  <2> QED BY <2>1, <2>3, <2>4, <2>5 DEF ModelBeginDoes
<1>9. CASE ModelEncoders(p)
  <2>1. p.at = "encoders" /\ Quiet /\ Encoders(p, setup.plugin[p.kind], "fit", "ready")
    BY <1>9 DEF ModelEncoders, Plugin, Quiet
  <2>2. EncodersDoes(p, setup.plugin[p.kind], "fit", "ready") BY <1>1, <2>1, EncodersIs
  <2> QED BY <1>4, <1>6, <2>2, EncodersKeep
<1>10. CASE ModelFit(p)
  <2>1. ModelFitDoes(p) BY <1>1, <1>10, ModelFitIs
  <2>2. Quiet /\ damaged' = damaged BY <2>1 DEF ModelFitDoes
  <2>3. ASSUME NEW why, Failed(p, why) PROVE LearnInv' BY <1>5, <2>2, <2>3, FailedKeeps
  <2>4. CASE /\ Moved(p, "write", p.read)
             /\ FilesBecome(disk.total, disk.doe, disk.models \cup {p.kind}, disk.clusters,
                            disk.predictions, Opened(p.kind))
    <3>1. disk.models \cup {p.kind} \in SUBSET Metrics BY <1>2, <1>3
    <3>2. DiskOK(disk') /\ (faults = 0 => disk'.total # None) /\ disk'.clusters = disk.clusters
      BY <1>1, <1>2, <1>5, <1>7, <2>4, <3>1, FilesAre
    <3> QED BY <1>1, <1>4, <1>6, <2>2, <2>4, <3>2, MovedKeeps
  <2>5. CASE Ends(p) /\ disk' = disk BY <1>1, <1>5, <2>2, <2>5, EndsKeeps
  <2> QED BY <2>1, <2>3, <2>4, <2>5 DEF ModelFitDoes
<1>11. CASE ModelWrite(p)
  <2>1. ModelWriteDoes(p) BY <1>1, <1>11, ModelWriteIs
  <2>2. Quiet /\ damaged' = damaged /\ Ends(p) BY <2>1 DEF ModelWriteDoes
  <2>3. DiskOK(disk') /\ (faults = 0 => disk'.total # None) /\ disk'.clusters = disk.clusters
    BY <1>1, <1>2, <1>5, <1>7, <2>1, FilesAre DEF ModelWriteDoes
  <2> QED BY <1>1, <2>2, <2>3, EndsKeeps
<1> QED BY <1>8, <1>9, <1>10, <1>11

\* The end of the copy of the encoders.
LEMMA SavedKeepsTypes ==
  ASSUME LearnInv, NEW p \in plugins, EncodersSaved(p) PROVE LearnInv'
<1>1. VariablesOK /\ DiskOK(disk) /\ damaged \in BOOLEAN /\ ProcessOK(p) /\ ReadOK(p)
  BY DEF LearnInv, VariablesOK, PluginsOK
<1>2. EncodersSavedDoes(p) BY <1>1, EncodersSavedIs
<1>3. /\ p.kind \in Metrics \cup {"predict"} /\ p.at = "save" /\ Quiet /\ damaged' = damaged
      /\ EncodersBecome(disk.global, [disk.local EXCEPT ![Workspace(p)] = "ready"])
      /\ Moved(p, AfterEncoders(p), p.read)
  BY <1>2 DEF EncodersSavedDoes
<1>4. /\ p.kind # "doe" /\ p.kind # "cluster" /\ (faults = 0 => disk.total # None)
      /\ p.kind = "predict" => IsFiniteSet(p.read)
  BY <1>1, <1>3, Constants, TotalThere DEF ReadOK
<1>5. AfterEncoders(p) \in Ats BY DEF AfterEncoders, Ats
<1>6. /\ [disk.local EXCEPT ![Workspace(p)] = "ready"] \in [Workspaces -> {"absent", "torn", "ready"}]
      /\ disk.global \in {"absent", "ready"}
  BY <1>1, OnDisk
<1>7. DiskOK(disk') /\ (faults = 0 => disk'.total # None) /\ disk'.clusters = disk.clusters
  BY <1>1, <1>3, <1>4, <1>6, EncodersAre
<1> QED BY <1>1, <1>3, <1>4, <1>5, <1>7, MovedKeeps

\* The cluster plugin, step by step.
LEMMA ClusterKeepsTypes ==
  ASSUME LearnInv, NEW p \in plugins, ClusterBegin(p) \/ ClusterWrite(p) PROVE LearnInv'
<1>1. VariablesOK /\ DiskOK(disk) /\ damaged \in BOOLEAN /\ ProcessOK(p) /\ ReadOK(p)
  BY DEF LearnInv, VariablesOK, PluginsOK
<1>2. /\ disk.total \in {None} \cup SUBSET Allowed /\ disk.doe \in {None} \cup Designs
      /\ disk.models \in SUBSET Metrics /\ disk.partial \in SUBSET Files
  BY <1>1, OnDisk
<1>3. p.kind = "cluster" BY DEF ClusterBegin, ClusterWrite, Plugin
<1>4. p.kind # "doe" /\ p.kind # "predict" /\ (faults = 0 => disk.total # None) BY <1>3, TotalThere
<1>5. "write" \in Ats BY DEF Ats
<1>6. Opened("clusters") \in SUBSET Files /\ Closed("clusters") \in SUBSET Files
  BY <1>2 DEF Opened, Closed, Files
<1>7. \A S \in SUBSET Centroids : S # None BY NoneAssumption DEF NoneAssumption
<1>8. CASE ClusterBegin(p)
  <2>1. ClusterBeginDoes(p) BY <1>1, <1>8, ClusterBeginIs
  <2>2. Quiet /\ damaged' = damaged BY <2>1 DEF ClusterBeginDoes
  <2>3. ASSUME NEW why, Failed(p, why) PROVE LearnInv' BY <1>4, <2>2, <2>3, FailedKeeps
  <2>4. ASSUME NEW found \in SUBSET Centroids, NEW part \in SUBSET found,
               FilesBecome(disk.total, disk.doe, disk.models, part, disk.predictions, Opened("clusters")),
               Moved(p, "write", found)
        PROVE  LearnInv'
    <3>1. part \in {None} \cup SUBSET Centroids /\ part # None BY <1>7
    <3>2. DiskOK(disk') /\ (faults = 0 => disk'.total # None) /\ disk'.clusters # None
      BY <1>1, <1>2, <1>4, <1>6, <2>4, <3>1, FilesAre
    <3> QED BY <1>1, <1>4, <1>5, <2>2, <2>4, <3>2, MovedKeeps
  <2> QED BY <2>1, <2>3, <2>4 DEF ClusterBeginDoes
<1>9. CASE ClusterWrite(p)
  <2>1. ClusterWriteDoes(p) BY <1>1, <1>9, ClusterWriteIs
  <2>2. Quiet /\ damaged' = damaged /\ Ends(p) /\ p.at = "write" BY <2>1 DEF ClusterWriteDoes
  <2>3. p.read \in {None} \cup SUBSET Centroids /\ p.read # None BY <1>1, <1>3, <1>7, <2>2 DEF ReadOK
  <2>4. DiskOK(disk') /\ (faults = 0 => disk'.total # None) /\ disk'.clusters # None
    BY <1>1, <1>2, <1>4, <1>6, <2>1, <2>3, FilesAre DEF ClusterWriteDoes
  <2> QED BY <1>1, <2>2, <2>4, EndsKeeps
<1> QED BY <1>8, <1>9

\* Every configuration with every centroid.
LEMMA PredictableIs ==
  ASSUME LearnInv, ~CannotPredict
  PROVE  /\ disk.total \in SUBSET Allowed
         /\ \E K : IsFiniteSet(K) /\ Predictable = disk.total \X K
                   /\ (K = {} => setup.features /\ disk.clusters = {})
         /\ IsFiniteSet(Predictable)
<1>1. VariablesOK /\ DiskOK(disk) BY DEF LearnInv, VariablesOK
<1>2. disk.total # None /\ (setup.features => disk.clusters # None) BY DEF CannotPredict
<1>3. disk.total \in SUBSET Allowed BY <1>1, <1>2, OnDisk
<1>4. IsFiniteSet(disk.total) BY <1>3, Constants, FS_Subset
<1> DEFINE K == IF setup.features THEN disk.clusters ELSE {"no_features"}
<1>5. IsFiniteSet(K) /\ (K = {} => setup.features /\ disk.clusters = {})
  <2>1. CASE setup.features
    <3>1. disk.clusters \in SUBSET Centroids BY <1>1, <1>2, <2>1, OnDisk
    <3>2. IsFiniteSet(disk.clusters) BY <3>1, Constants, FS_Subset
    <3> QED BY <2>1, <3>2
  <2>2. CASE ~setup.features
    <3>1. K = {"no_features"} BY <2>2
    <3>2. IsFiniteSet({"no_features"}) BY FS_Singleton
    <3> QED BY <3>1, <3>2
  <2> QED BY <2>1, <2>2
<1>6. Predictable = disk.total \X K BY DEF Predictable
<1> HIDE DEF K
<1>7. IsFiniteSet(disk.total \X K) BY <1>4, <1>5, FS_Product
<1> QED BY <1>3, <1>5, <1>6, <1>7

\* The prediction, step by step.
LEMMA PredictKeepsTypes ==
  ASSUME LearnInv, NEW p \in plugins,
         PredictBegin(p) \/ PredictEncoders(p) \/ PredictLoad(p) \/ PredictWrite(p)
  PROVE  LearnInv'
<1>1. VariablesOK /\ DiskOK(disk) /\ damaged \in BOOLEAN /\ ProcessOK(p) /\ ReadOK(p)
  BY DEF LearnInv, VariablesOK, PluginsOK
<1>2. /\ disk.total \in {None} \cup SUBSET Allowed /\ disk.doe \in {None} \cup Designs
      /\ disk.models \in SUBSET Metrics /\ disk.partial \in SUBSET Files
      /\ disk.clusters \in {None} \cup SUBSET Centroids
  BY <1>1, OnDisk
<1>3. p.kind = "predict" BY DEF PredictBegin, PredictEncoders, PredictLoad, PredictWrite, Plugin
<1>4. p.kind # "doe" /\ p.kind # "cluster" /\ (faults = 0 => disk.total # None) BY <1>3, TotalThere
<1>5. "encoders" \in Ats /\ "load" \in Ats /\ "write" \in Ats BY DEF Ats
<1>6. Opened("predictions") \in SUBSET Files /\ Closed("predictions") \in SUBSET Files
  BY <1>2 DEF Opened, Closed, Files
<1>7. CASE PredictBegin(p)
  <2>1. PredictBeginDoes(p) BY <1>1, <1>7, PredictBeginIs
  <2>2. Quiet /\ disk' = disk BY <2>1 DEF PredictBeginDoes
  <2>3. CASE Failed(p, "no_table") BY <1>4, <2>2, <2>3, FailedKeeps
  <2>4. CASE ~CannotPredict /\ Moved(p, "encoders", Predictable)
             /\ Damage({"total"} \cup IF setup.features THEN {"clusters"} ELSE {})
    <3>1. IsFiniteSet(Predictable) /\ damaged' \in BOOLEAN BY <1>1, <2>4, PredictableIs, DamageDone
    <3> QED BY <1>1, <1>4, <1>5, <2>2, <2>4, <3>1, MovedKeeps
  <2> QED BY <2>1, <2>3, <2>4 DEF PredictBeginDoes
<1>8. CASE PredictEncoders(p)
  <2>1. p.at = "encoders" /\ Quiet /\ Encoders(p, "predict", "load", "absent")
    BY <1>8 DEF PredictEncoders, Plugin, Quiet
  <2>2. EncodersDoes(p, "predict", "load", "absent") BY <1>1, <2>1, EncodersIs
  <2> QED BY <1>4, <1>5, <2>2, EncodersKeep
<1>9. CASE PredictLoad(p)
  <2>1. PredictLoadDoes(p) BY <1>1, <1>9, PredictLoadIs
  <2>2. Quiet /\ damaged' = damaged /\ p.at = "load" BY <2>1 DEF PredictLoadDoes
  <2>3. ASSUME NEW why, Failed(p, why) PROVE LearnInv' BY <1>4, <2>2, <2>3, FailedKeeps
  <2>4. ASSUME NEW part,
               FilesBecome(disk.total, disk.doe, disk.models, disk.clusters, part, Opened("predictions")),
               Moved(p, "write", p.read)
        PROVE  LearnInv'
    <3>1. DiskOK(disk') /\ (faults = 0 => disk'.total # None) /\ disk'.clusters = disk.clusters
      BY <1>1, <1>2, <1>4, <1>6, <2>4, FilesAre
    <3>2. IsFiniteSet(p.read) BY <1>1, <1>3, <2>2 DEF ReadOK
    <3> QED BY <1>1, <1>4, <1>5, <2>2, <2>4, <3>1, <3>2, MovedKeeps
  <2> QED BY <2>1, <2>3, <2>4 DEF PredictLoadDoes
<1>10. CASE PredictWrite(p)
  <2>1. PredictWriteDoes(p) BY <1>1, <1>10, PredictWriteIs
  <2>2. Quiet /\ damaged' = damaged /\ Ends(p) BY <2>1 DEF PredictWriteDoes
  <2>3. DiskOK(disk') /\ (faults = 0 => disk'.total # None) /\ disk'.clusters = disk.clusters
    BY <1>1, <1>2, <1>4, <1>6, <2>1, FilesAre DEF PredictWriteDoes
  <2> QED BY <1>1, <2>2, <2>3, EndsKeeps
<1> QED BY <1>7, <1>8, <1>9, <1>10

\* Any step of a plugin.
LEMMA PluginKeepsTypes ==
  ASSUME LearnInv, NEW p \in plugins, PluginStep(p) PROVE LearnInv'
BY DoeKeepsTypes, ModelKeepsTypes, SavedKeepsTypes, ClusterKeepsTypes, PredictKeepsTypes DEF PluginStep

\* Departures, deaths, shutdowns and restarts.
LEMMA FaultKeepsTypes ==
  ASSUME LearnInv, Bye \/ Crash \/ Shutdown \/ Restart \/ \E p \in plugins : Kill(p)
  PROVE  LearnInv'
<1>1. /\ VariablesOK /\ DiskOK(disk) /\ damaged \in BOOLEAN /\ PluginsOK /\ TotalKnown
      /\ ClustersKnown /\ given \in [Confs -> Int] /\ life \in Nat \ {0} /\ HandlerOK(server)
  BY DEF LearnInv, VariablesOK
<1>2. /\ server.next \in Nexts /\ server.iteration \in Nat /\ server.phase \in Phases
      /\ (server.phase = "exploring" => server.next = "none")
  BY <1>1 DEF VariablesOK, HandlerOK
<1>3. /\ "clueless" \in Phases /\ "down" \in Phases /\ "none" \in Nexts /\ <<>> \in Seq(Row) /\ 0 \in Nat
      /\ "down" # "exploring" /\ "clueless" # "exploring"
  BY DEF Phases, Nexts
<1>4. ASSUME Downed, given' = given PROVE Turned /\ server'.phase = "down"
  BY <1>1, <1>3, <1>4, BecomesIs DEF Downed, Turned
<1>5. faults' \in {faults, faults + 1} /\ setup' = setup /\ faults \in Nat
  BY DEF Bye, Crash, Shutdown, Restart, Kill, Fault, LearnInv, VariablesOK
<1>11. ASSUME faults' = faults + 1 PROVE TotalKnown' /\ ClustersKnown'
  BY <1>5, <1>11 DEF TotalKnown, ClustersKnown
<1>6. CASE Bye
  <2>1. ByeDoes BY <1>1, <1>6, ByeIs
  <2>2. Turned /\ server'.phase = "clueless"
    BY <1>1, <1>2, <1>3, <2>1, BecomesIs DEF ByeDoes, Turned
  <2>3. UNCHANGED <<setup, disk, plugins, life, damaged>> BY <2>1 DEF ByeDoes
  <2>4. PluginsOK' BY <1>1, <2>3, FewerOK
  <2>5. TotalKnown' /\ ClustersKnown' BY <1>6, <1>11 DEF Bye, Fault
  <2>6. VariablesOK' BY <1>1, <1>5, <2>2, <2>3, VariablesKept
  <2> QED BY <2>4, <2>5, <2>6 DEF LearnInv
<1>7. CASE Crash
  <2>1. CrashDoes BY <1>7, CrashIs
  <2>2. Turned /\ server'.phase = "down" BY <1>4, <2>1 DEF CrashDoes
  <2>3. UNCHANGED <<setup, disk, plugins, life, damaged>> BY <2>1 DEF CrashDoes
  <2>4. PluginsOK' BY <1>1, <2>3, FewerOK
  <2>5. TotalKnown' /\ ClustersKnown' BY <1>7, <1>11 DEF Crash, Fault
  <2>6. VariablesOK' BY <1>1, <1>5, <2>2, <2>3, VariablesKept
  <2> QED BY <2>4, <2>5, <2>6 DEF LearnInv
<1>8. CASE Shutdown
  <2>1. ShutdownDoes BY <1>1, <1>8, ShutdownIs
  <2>2. Turned /\ server'.phase = "down" BY <1>4, <2>1 DEF ShutdownDoes
  <2>3. UNCHANGED <<setup, life, damaged>> BY <2>1 DEF ShutdownDoes
  <2>4. PluginsOK'
    <3> SUFFICES ASSUME NEW q \in plugins' PROVE ProcessOK(q)' /\ ReadOK(q) BY DEF PluginsOK, ReadOK
    <3>1. PICK p \in plugins : ProcessOK(q) /\ Survives(p, q) BY <2>1 DEF ShutdownDoes
    <3>2. ProcessOK(q)' BY <2>3, <3>1 DEF ProcessOK
    <3>3. ReadOK(p) BY <1>1 DEF PluginsOK
    <3> QED BY <3>1, <3>2, <3>3 DEF Survives, ReadOK, AfterEncoders
  <2> DEFINE local == [w \in Workspaces |-> "absent"]
  <2>5. local \in [Workspaces -> {"absent", "torn", "ready"}] /\ disk.global \in {"absent", "ready"}
    BY <1>1, OnDisk
  <2>6. DiskBecomes(None, None, None, {}, None, {}, {}, disk.global, local) BY <2>1 DEF ShutdownDoes
  <2> HIDE DEF local
  <2>7. DiskOK(disk') /\ disk'.doe = None /\ disk'.models = {} /\ disk'.clusters = None
    BY <2>5, <2>6, DiskIs
  <2>8. TotalKnown' /\ ClustersKnown' BY <1>8, <1>11 DEF Shutdown, Fault
  <2>9. VariablesOK' BY <1>1, <1>5, <2>2, <2>3, <2>7, VariablesKept
  <2> QED BY <2>4, <2>8, <2>9 DEF LearnInv
<1>9. CASE Restart
  <2>1. RestartDoes BY <1>9, RestartIs
  <2>2. Turned /\ server'.phase = "clueless" BY <1>1, <1>3, <2>1, BecomesIs DEF RestartDoes, Turned
  <2>3. UNCHANGED <<setup, disk, plugins, faults, damaged>> /\ life' = life + 1 BY <2>1 DEF RestartDoes
  <2>4. PluginsOK' BY <1>1, <2>3, FewerOK
  <2>5. TotalKnown' /\ ClustersKnown' BY <1>1, <2>2, <2>3 DEF TotalKnown, ClustersKnown
  <2>6. VariablesOK' BY <1>1, <1>5, <2>2, <2>3, VariablesKept
  <2> QED BY <2>4, <2>5, <2>6 DEF LearnInv
<1>10. ASSUME NEW p \in plugins, Kill(p) PROVE LearnInv'
  <2>1. KillDoes(p) BY <1>10, KillIs
  <2>2. UNCHANGED <<setup, disk, life, damaged, given>> /\ plugins' \subseteq plugins
        /\ (server' = server \/ Downed)
    BY <2>1 DEF KillDoes, Orphaned
  <2>3. Turned /\ (server' = server \/ server'.phase = "down")
    BY <1>1, <1>2, <1>4, <2>2 DEF Turned
  <2>4. PluginsOK' BY <1>1, <2>2, FewerOK
  <2>5. TotalKnown' /\ ClustersKnown' BY <1>10, <1>11 DEF Kill, Fault
  <2>6. VariablesOK' BY <1>1, <1>5, <2>2, <2>3, VariablesKept
  <2> QED BY <2>4, <2>5, <2>6 DEF LearnInv
<1> QED BY <1>6, <1>7, <1>8, <1>9, <1>10

\* The first state has the types.
LEMMA LearnStarts == LearnInit => LearnInv
<1> SUFFICES ASSUME LearnInit PROVE LearnInv OBVIOUS
<1>1. /\ setup \in Setups /\ disk = EmptyDisk /\ server = NewHandler /\ plugins = {} /\ life = 1
      /\ faults = 0 /\ damaged = FALSE /\ given = [c \in Confs |-> 0]
  BY DEF LearnInit
<1>2. HandlerOK(server) /\ server.phase = "clueless"
  <2>1. /\ "clueless" \in Phases /\ "none" \in Nexts /\ <<>> \in Seq(Row) BY DEF Phases, Nexts
  <2> HIDE DEF Phases, Nexts
  <2> QED BY <1>1, <2>1 DEF NewHandler, HandlerOK
<1>3. DiskOK(disk) /\ disk.doe = None /\ disk.models = {} /\ disk.clusters = None
  BY <1>1 DEF EmptyDisk, DiskOK
<1>4. VariablesOK
  <2>1. life \in Nat \ {0} /\ faults \in Nat /\ given \in [Confs -> Int] BY <1>1
  <2>2. damaged \in BOOLEAN /\ server.phase # "exploring" BY <1>1, <1>2
  <2> QED BY <1>1, <1>2, <1>3, <2>1, <2>2, Zenon DEF VariablesOK
<1>5. PluginsOK /\ TotalKnown /\ ClustersKnown
  BY <1>1, <1>2, <1>3 DEF PluginsOK, TotalKnown, ClustersKnown
<1> QED BY <1>4, <1>5 DEF LearnInv

\* The cases of a step.
LEMMA StepCases ==
  ASSUME LearnNext
  PROVE  \/ UNCHANGED learnVars
         \/ Welcome \/ Recovered \/ DoeCreated \/ Observation \/ ModelsBuilt \/ Predicted
         \/ \E p \in plugins : PluginStep(p)
         \/ Bye \/ Crash \/ Shutdown \/ Restart \/ \E p \in plugins : Kill(p)
BY Zenon DEF LearnNext, Rest, Handler

\* A step that changes nothing.
LEMMA LearnStays ==
  ASSUME LearnInv, UNCHANGED learnVars
  PROVE  LearnInv'
BY DEF LearnInv, learnVars, VariablesOK, HandlerOK, DiskOK, PluginsOK, ProcessOK, ReadOK, TotalKnown,
       ClustersKnown

\* LearnInv is inductive.
LEMMA LearnKeeps == LearnInv /\ [LearnNext]_learnVars => LearnInv'
<1> SUFFICES ASSUME LearnInv, [LearnNext]_learnVars PROVE LearnInv' OBVIOUS
<1>1. CASE UNCHANGED learnVars BY <1>1, LearnStays
<1>2. CASE LearnNext
  BY <1>2, <1>1, StepCases, WelcomeKeepsTypes, RecoveredKeepsTypes, DoeCreatedKeepsTypes,
     ObservationKeepsTypes, ModelsBuiltKeepsTypes, PredictedKeepsTypes, PluginKeepsTypes,
     FaultKeepsTypes, Zenon
<1> QED BY <1>1, <1>2

\* LearnInv holds in every state.
LEMMA LearnInvAlways == LearnSpec => []LearnInv
BY LearnStarts, LearnKeeps, PTL DEF LearnSpec

\* The members of the handler, the files and the processes have their types in every
\* reachable state, whoever dies, leaves or is restarted.
THEOREM LearningTypes == LearnSpec => []LearnTypeOK
<1>1. LearnInv => LearnTypeOK
  <2> SUFFICES ASSUME LearnInv PROVE LearnTypeOK OBVIOUS
  <2>1. VariablesOK /\ HandlerOK(server) /\ DiskOK(disk) /\ PluginsOK BY DEF LearnInv, VariablesOK
  <2>2. /\ server.phase \in Phases /\ server.sent \in Nat /\ server.iteration \in Nat
        /\ server.doe \in Seq(Row)
    BY <2>1 DEF HandlerOK
  <2>3. \A i \in DOMAIN server.doe :
          server.doe[i].conf \in Allowed /\ server.doe[i].counter \in 1 .. PerConfiguration
    <3>1. \A i \in DOMAIN server.doe : server.doe[i] \in Row BY <2>2
    <3> QED BY <3>1 DEF Row
  <2>4. /\ disk.total = None \/ disk.total \subseteq Allowed
        /\ disk.table \in {None} \cup 0 .. Enough
        /\ disk.models \subseteq Metrics /\ disk.partial \subseteq Files
        /\ disk.global \in {"absent", "ready"}
        /\ \A w \in Workspaces : disk.local[w] \in {"absent", "torn", "ready"}
    BY <2>1, OnDisk
  <2>5. \A p \in plugins : p.born \in 1 .. life BY <2>1 DEF PluginsOK, ProcessOK
  <2> QED BY <2>2, <2>3, <2>4, <2>5 DEF LearnTypeOK, Phases
<1> QED BY <1>1, LearnInvAlways, PTL

-----------------------------------------------------------------------------
(* The configurations of a design are given in turns *)

\* A design in force: those in front are to be given as often as those behind, or once
\* more, each was given as often as it lacks, and none more than once more than another
\* that is left.
Even(d, counts) ==
  /\ \A i, j \in 1 .. Len(d) : i < j =>
       /\ d[i].conf # d[j].conf
       /\ d[i].counter = d[j].counter \/ d[i].counter = d[j].counter + 1
  /\ \A i \in 1 .. Len(d) : counts[d[i].conf] = PerConfiguration - d[i].counter
  /\ \A i \in 1 .. Len(d) : \A c \in Confs : counts[c] <= PerConfiguration - d[i].counter + 1

\* The design the handler holds; before the prediction of a recovery nothing was given.
DesignInv ==
  /\ Even(server.doe, given)
  /\ server.phase \in {"clueless", "down"} => server.doe = <<>>
  /\ server.phase = "waiting" /\ server.next = "recovered" => Unsent(server.doe)

\* A design that nothing was sent of is even.
LEMMA UnsentIsEven ==
  ASSUME NEW d, Unsent(d)
  PROVE  Even(d, Fresh)
<1>0. d \in Seq(Row) /\ Len(d) \in Nat /\ \A i \in 1 .. Len(d) : d[i] \in Row BY DEF Unsent
<1>1. Len(d) \in Nat /\ \A i \in 1 .. Len(d) : d[i].conf \in Confs
  BY <1>0, Constants DEF Row
<1>2. \A i \in 1 .. Len(d) : Fresh[d[i].conf] = 0 BY <1>1 DEF Fresh
<1>3. PerConfiguration - PerConfiguration = 0 BY Constants
<1>4. \A c \in Confs : Fresh[c] = 0 BY DEF Fresh
<1> QED BY <1>1, <1>2, <1>3, <1>4 DEF Unsent, Even

\* So is no design.
LEMMA NothingIsEven ==
  ASSUME NEW counts PROVE Even(<<>>, counts)
BY DEF Even

\* What is to be sent as often, or once more, was not sent more often.
LEMMA OnceMore ==
  ASSUME NEW total \in Nat, NEW m \in Nat, NEW l \in Nat, m = l \/ m = l + 1
  PROVE  total - m + 1 <= total - l + 1
OBVIOUS

\* What was sent at most once more often than another is, when the other is sent once more.
LEMMA OnceLess ==
  ASSUME NEW total \in Nat, NEW m \in Nat, NEW a \in Int, a <= total - m + 1
  PROVE  a <= total - (m - 1) + 1 /\ a + 1 <= total - (m - 1) + 1
OBVIOUS

\* The configuration at the front of an even design was sent least: sending it, and putting
\* it at the end, keeps the design even.
LEMMA EvenNext ==
  ASSUME NEW d \in Seq(Row), d # <<>>, NEW counts \in [Confs -> Int], Even(d, counts)
  PROVE  Even(GetNext(d).rest, [counts EXCEPT ![GetNext(d).configuration] = @ + 1])
<1> DEFINE n == Len(d)
           r == GetNext(d).rest
           c == GetNext(d).configuration
           after == [counts EXCEPT ![c] = @ + 1]
<1>1. n \in Nat /\ n >= 1 /\ \A i \in 1 .. n : d[i] \in Row OBVIOUS
<1>2. \A i \in 1 .. n : d[i].conf \in Confs /\ d[i].counter \in Nat /\ d[i].counter >= 1
  BY <1>1, Constants DEF Row
<1>3. c = d[1].conf /\ r \in Seq(Row) BY NextOfADesign, Zenon
<1>4. d[1].counter > 1 =>
        /\ Len(r) = n /\ \A i \in 1 .. n - 1 : r[i] = d[i + 1]
        /\ r[n].conf = d[1].conf /\ r[n].counter = d[1].counter - 1
  BY NextOfADesign, Zenon
<1>5. d[1].counter = 1 => Len(r) = n - 1 /\ \A i \in 1 .. n - 1 : r[i] = d[i + 1]
  BY NextOfADesign, Zenon
<1>6. \A i, j \in 1 .. n : i < j =>
        /\ d[i].conf # d[j].conf
        /\ d[i].counter = d[j].counter \/ d[i].counter = d[j].counter + 1
  BY DEF Even
<1>7. \A i \in 1 .. n : counts[d[i].conf] = PerConfiguration - d[i].counter BY DEF Even
<1>7a. \A i \in 1 .. n : \A k \in Confs : counts[k] <= PerConfiguration - d[i].counter + 1
  BY DEF Even
<1> HIDE DEF n, r, c
<1>8. \A i \in 2 .. n : d[i].conf # c /\ after[d[i].conf] = counts[d[i].conf]
  <2>1. ASSUME NEW i \in 2 .. n PROVE d[i].conf # c /\ after[d[i].conf] = counts[d[i].conf]
    <3>1. i \in 1 .. n /\ 1 \in 1 .. n /\ 1 < i BY <1>1
    <3>2. d[i].conf # c BY <1>3, <1>6, <3>1
    <3> QED BY <1>2, <3>1, <3>2
  <2> QED BY <2>1
<1>9. after[c] = counts[c] + 1 /\ \A k \in Confs : k # c => after[k] = counts[k]
  <2>1. c \in Confs BY <1>1, <1>2, <1>3
  <2> QED BY <2>1
<1> HIDE DEF after
<1>10. \A i \in 1 .. n - 1 : r[i] = d[i + 1] BY <1>1, <1>2, <1>4, <1>5
<1>11. \A i \in 1 .. n - 1 : after[r[i].conf] = PerConfiguration - r[i].counter
  <2>1. ASSUME NEW i \in 1 .. n - 1 PROVE after[r[i].conf] = PerConfiguration - r[i].counter
    <3>1. i + 1 \in 2 .. n /\ i + 1 \in 1 .. n /\ r[i] = d[i + 1] BY <1>1, <1>10
    <3> QED BY <1>7, <1>8, <3>1
  <2> QED BY <2>1
<1>12. \A i, j \in 1 .. n - 1 : i < j =>
         /\ r[i].conf # r[j].conf
         /\ r[i].counter = r[j].counter \/ r[i].counter = r[j].counter + 1
  <2>1. ASSUME NEW i \in 1 .. n - 1, NEW j \in 1 .. n - 1, i < j
        PROVE  /\ r[i].conf # r[j].conf
               /\ r[i].counter = r[j].counter \/ r[i].counter = r[j].counter + 1
    <3>1. i + 1 \in 1 .. n /\ j + 1 \in 1 .. n /\ i + 1 < j + 1 BY <1>1, <2>1
    <3>2. r[i] = d[i + 1] /\ r[j] = d[j + 1] BY <1>10
    <3> QED BY <1>6, <3>1, <3>2
  <2> QED BY <2>1
<1>12a. ASSUME NEW i \in 1 .. n - 1, NEW k \in Confs
        PROVE  after[k] <= PerConfiguration - r[i].counter + 1
  <2>1. i + 1 \in 1 .. n /\ 1 \in 1 .. n /\ 1 < i + 1 /\ r[i] = d[i + 1] BY <1>1, <1>10
  <2>2. r[i].counter \in Nat /\ d[1].counter \in Nat /\ PerConfiguration \in Nat BY <1>2, <2>1, Constants
  <2>3. CASE k = c
    <3>1. after[k] = PerConfiguration - d[1].counter + 1 BY <1>3, <1>7, <1>9, <2>1, <2>3
    <3>2. d[1].counter = r[i].counter \/ d[1].counter = r[i].counter + 1 BY <1>6, <2>1
    <3>3. PICK m \in Nat : m = d[1].counter BY <2>2
    <3>4. PICK l \in Nat : l = r[i].counter BY <2>2
    <3>5. m = l \/ m = l + 1 BY <3>2, <3>3, <3>4
    <3>6. PerConfiguration - m + 1 <= PerConfiguration - l + 1 BY <2>2, <3>5, OnceMore
    <3> QED BY <3>1, <3>3, <3>4, <3>6
  <2>4. CASE k # c BY <1>7a, <1>9, <2>1, <2>4
  <2> QED BY <2>3, <2>4
<1>13. CASE d[1].counter = 1
  <2>1. Len(r) = n - 1 BY <1>5, <1>13
  <2> QED BY <1>11, <1>12, <1>12a, <2>1 DEF Even, r, after, c
<1>14. CASE d[1].counter > 1
  <2>1. Len(r) = n /\ r[n].conf = c /\ r[n].counter = d[1].counter - 1 BY <1>3, <1>4, <1>14
  <2>2. after[r[n].conf] = PerConfiguration - r[n].counter
    <3>1. counts[c] = PerConfiguration - d[1].counter BY <1>1, <1>3, <1>7
    <3> QED BY <1>1, <1>2, <1>9, <2>1, <3>1, Constants
  <2>3. ASSUME NEW i \in 1 .. n - 1
        PROVE  /\ r[i].conf # r[n].conf
               /\ r[i].counter = r[n].counter \/ r[i].counter = r[n].counter + 1
    <3>1. i + 1 \in 2 .. n /\ i + 1 \in 1 .. n /\ 1 \in 1 .. n /\ 1 < i + 1 /\ r[i] = d[i + 1]
      BY <1>1, <1>10
    <3>2. r[i].conf # r[n].conf BY <1>8, <2>1, <3>1
    <3>3. d[1].counter = r[i].counter \/ d[1].counter = r[i].counter + 1 BY <1>6, <3>1
    <3>4. d[1].counter \in Nat /\ r[i].counter \in Nat BY <1>2, <3>1
    <3> QED BY <2>1, <3>2, <3>3, <3>4
  <2>4. \A i \in 1 .. n : i = n \/ i \in 1 .. n - 1 BY <1>1
  <2>5. \A i \in 1 .. n : after[r[i].conf] = PerConfiguration - r[i].counter BY <1>11, <2>2, <2>4
  <2>6. ASSUME NEW i \in 1 .. n, NEW j \in 1 .. n, i < j
        PROVE  /\ r[i].conf # r[j].conf
               /\ r[i].counter = r[j].counter \/ r[i].counter = r[j].counter + 1
    <3>1. i \in 1 .. n - 1 BY <1>1, <2>6
    <3> QED BY <1>12, <2>3, <2>4, <2>6, <3>1
  <2>7. ASSUME NEW i \in 1 .. n, NEW k \in Confs
        PROVE  after[k] <= PerConfiguration - r[i].counter + 1
    <3>1. CASE i \in 1 .. n - 1 BY <1>12a, <3>1
    <3>2. CASE i = n
      <4>1. 1 \in 1 .. n /\ d[1].counter \in Nat /\ PerConfiguration \in Nat BY <1>1, <1>2, Constants
      <4>2. counts[k] <= PerConfiguration - d[1].counter + 1 BY <1>7a, <4>1
      <4>3. counts[k] \in Int /\ (k = c => counts[k] = PerConfiguration - d[1].counter)
        BY <1>3, <1>7, <4>1
      <4>4. PICK m \in Nat : m = d[1].counter BY <4>1
      <4>5. PICK a \in Int : a = counts[k] BY <4>3
      <4>6. after[k] = IF k = c THEN a + 1 ELSE a BY <1>9, <4>5
      <4>7. r[i].counter = m - 1 BY <2>1, <3>2, <4>4
      <4>8. after[k] <= PerConfiguration - (m - 1) + 1
        BY <4>1, <4>2, <4>3, <4>4, <4>5, <4>6, OnceLess
      <4> QED BY <4>7, <4>8
    <3> QED BY <2>4, <3>1, <3>2
  <2> QED BY <2>1, <2>5, <2>6, <2>7 DEF Even, r, after, c
<1> QED BY <1>1, <1>2, <1>13, <1>14

\* Going on with the same design, with a new one or with none, and sending of it.
LEMMA GoneEven ==
  ASSUME VariablesOK, NEW phase, NEW next, NEW doe, NEW iteration, NEW cluster, NEW prediction,
         GoneTo(phase, next, doe, iteration, cluster, prediction),
         doe = <<>> \/ (doe = server.doe /\ Even(doe, given)) \/ (server.doe = <<>> /\ Unsent(doe))
  PROVE  Even(server'.doe, given')
<1>1. server'.doe = doe /\ given' = Counts(doe) BY GoneIs
<1>2. CASE doe = <<>> BY <1>1, <1>2, NothingIsEven
<1>3. CASE doe # <<>> /\ doe = server.doe /\ Even(doe, given) BY <1>1, <1>3 DEF Counts
<1>4. CASE doe # <<>> /\ server.doe = <<>> /\ Unsent(doe) BY <1>1, <1>4, UnsentIsEven DEF Counts
<1> QED BY <1>2, <1>3, <1>4

\* Explores keeps the design even.
LEMMA ExploredEven ==
  ASSUME NEW doe \in Seq(Row), NEW counts \in [Confs -> Int], NEW cluster, NEW prediction,
         Explored(doe, counts, cluster, prediction), Even(doe, counts)
  PROVE  Even(server'.doe, given') /\ server'.phase = "exploring"
<1>1. CASE doe = <<>>
  <2>1. Becomes("exploring", "none", doe, server.iteration, cluster, prediction) /\ given' = counts
    BY <1>1 DEF Explored
  <2> QED BY <2>1, BecomesIs
<1>2. CASE doe # <<>>
  <2> DEFINE rest == GetNext(doe).rest
             after == [counts EXCEPT ![GetNext(doe).configuration] = @ + 1]
  <2>1. Becomes("exploring", "none", rest, server.iteration, cluster, prediction) /\ given' = after
    BY <1>2 DEF Explored
  <2>2. Even(rest, after) BY <1>2, EvenNext
  <2> HIDE DEF rest, after
  <2> QED BY <2>1, <2>2, BecomesIs
<1> QED BY <1>1, <1>2

\* No plugin touches the memory of the handler: the server goes on or ends.
LEMMA ServersOfPlugins ==
  ASSUME NEW p, PluginStep(p)
  PROVE  (server' = server \/ Downed) /\ Quiet
<1>1. ASSUME NEW why, Fails(p, why) PROVE server' = server \/ Downed
  BY <1>1, FailsFails DEF Failed, Orphaned
<1>2. ASSUME NEW at, NEW read, Step(p, at, read) PROVE server' = server BY <1>2 DEF Step
<1>3. ASSUME Ends(p) PROVE server' = server BY <1>3 DEF Ends
<1>4. ASSUME NEW w, NEW there, NEW global, Encoders(p, w, there, global)
      PROVE  server' = server \/ Downed
  BY <1>1, <1>2, <1>4, Zenon DEF Encoders
<1>5. CASE DoeBegin(p) BY <1>2, <1>5, Zenon DEF DoeBegin, Plugin, Quiet
<1>6. CASE DoeTotal(p) BY <1>2, <1>6, Zenon DEF DoeTotal, Plugin, Quiet
<1>7. CASE DoeDesign(p) BY <1>2, <1>7, Zenon DEF DoeDesign, Plugin, Quiet
<1>8. CASE DoeWrite(p) BY <1>3, <1>8, Zenon DEF DoeWrite, Plugin, Quiet
<1>9. CASE ModelBegin(p) BY <1>1, <1>2, <1>3, <1>9, Zenon DEF ModelBegin, Plugin, Quiet
<1>10. CASE ModelEncoders(p) BY <1>4, <1>10, Zenon DEF ModelEncoders, Plugin, Quiet
<1>11. CASE EncodersSaved(p) BY <1>2, <1>11, Zenon DEF EncodersSaved, Plugin, Quiet
<1>12. CASE ModelFit(p) BY <1>1, <1>2, <1>3, <1>12, Zenon DEF ModelFit, Plugin, Quiet
<1>13. CASE ModelWrite(p) BY <1>3, <1>13, Zenon DEF ModelWrite, Plugin, Quiet
<1>14. CASE ClusterBegin(p) BY <1>1, <1>2, <1>14, Zenon DEF ClusterBegin, Plugin, Quiet
<1>15. CASE ClusterWrite(p) BY <1>3, <1>15, Zenon DEF ClusterWrite, Plugin, Quiet
<1>16. CASE PredictBegin(p) BY <1>1, <1>2, <1>16, Zenon DEF PredictBegin, Plugin, Quiet
<1>17. CASE PredictEncoders(p) BY <1>4, <1>17, Zenon DEF PredictEncoders, Plugin, Quiet
<1>18. CASE PredictLoad(p) BY <1>1, <1>2, <1>18, Zenon DEF PredictLoad, Plugin, Quiet
<1>19. CASE PredictWrite(p) BY <1>3, <1>19, Zenon DEF PredictWrite, Plugin, Quiet
<1> QED
  BY <1>5, <1>6, <1>7, <1>8, <1>9, <1>10, <1>11, <1>12, <1>13, <1>14, <1>15, <1>16, <1>17, <1>18,
     <1>19, Zenon
  DEF PluginStep

\* There is no design at first.
LEMMA DesignStarts == LearnInit => DesignInv
<1> SUFFICES ASSUME LearnInit PROVE DesignInv OBVIOUS
<1>1. server.doe = <<>> /\ server.phase = "clueless" BY DEF LearnInit, NewHandler
<1> QED BY <1>1, NothingIsEven DEF DesignInv

\* Every step keeps the design even.
LEMMA DesignKept ==
  ASSUME LearnInv, DesignInv, LearnNext
  PROVE  DesignInv'
<1>1. /\ VariablesOK /\ DiskOK(disk) /\ server.doe \in Seq(Row) /\ given \in [Confs -> Int]
      /\ Fresh \in [Confs -> Int] /\ server.phase \in Phases
  BY DEF LearnInv, VariablesOK, HandlerOK, Fresh
<1>2. /\ Even(server.doe, given)
      /\ server.phase \in {"clueless", "down"} => server.doe = <<>>
      /\ server.phase = "waiting" /\ server.next = "recovered" => Unsent(server.doe)
  BY DEF DesignInv
<1>3. Unsent(LoadDoe) /\ LoadDoe \in Seq(Row) BY <1>1, LoadDoeOK DEF Designs, Unsent
<1>4. ASSUME NEW phase \in {"waiting", "informed", "undefined"}, NEW next, NEW doe,
             NEW iteration, NEW cluster, NEW prediction,
             GoneTo(phase, next, doe, iteration, cluster, prediction),
             next # "recovered",
             doe = <<>> \/ doe = server.doe \/ (server.doe = <<>> /\ Unsent(doe))
      PROVE  DesignInv'
  <2>1. Even(server'.doe, given') BY <1>1, <1>2, <1>4, GoneEven
  <2>2. server'.phase = phase /\ server'.next = next BY <1>1, <1>4, GoneIs
  <2> QED BY <1>4, <2>1, <2>2 DEF DesignInv
<1>5. ASSUME NEW doe \in Seq(Row), NEW counts \in [Confs -> Int], NEW cluster, NEW prediction,
             Explored(doe, counts, cluster, prediction), Even(doe, counts)
      PROVE  DesignInv'
  <2>1. Even(server'.doe, given') /\ server'.phase = "exploring" BY <1>5, ExploredEven
  <2> QED BY <2>1 DEF DesignInv
<1>6. ASSUME UNCHANGED <<server, given>> PROVE DesignInv' BY <1>2, <1>6 DEF DesignInv
<1>7. ASSUME Downed, given' = given PROVE DesignInv'
  <2>1. server'.phase = "down" /\ server'.doe = <<>> BY <1>7, BecomesIs DEF Downed
  <2> QED BY <2>1, NothingIsEven DEF DesignInv
<1>8. ASSUME NEW cluster, NEW prediction, LearntOn(cluster, prediction) PROVE DesignInv'
  <2>1. CASE Explored(server.doe, given, cluster, prediction) BY <1>1, <1>2, <1>5, <2>1
  <2>2. CASE GoneTo("waiting", "next_doe", <<>>, server.iteration, cluster, prediction)
    BY <1>4, <2>2
  <2> QED BY <1>8, <2>1, <2>2 DEF LearntOn
<1>9. CASE Welcome
  <2>1. WelcomeDoes BY <1>1, <1>9, WelcomeIs
  <2>2. server.doe = <<>> BY <1>2, <2>1 DEF WelcomeDoes
  <2>3. CASE GoneTo("informed", "none", LoadDoe, server.iteration, Found, disk.predictions)
    BY <1>3, <1>4, <2>2, <2>3
  <2>4. CASE GoneTo("waiting", "recovered", LoadDoe, server.iteration, Found, {})
    <3>1. Even(server'.doe, given') BY <1>1, <1>3, <2>2, <2>4, GoneEven
    <3>2. server'.phase = "waiting" /\ server'.doe = LoadDoe BY <1>1, <2>4, GoneIs
    <3> QED BY <1>3, <3>1, <3>2 DEF DesignInv
  <2>5. CASE Explored(LoadDoe, Fresh, Found, {})
    <3>1. Even(LoadDoe, Fresh) BY <1>3, UnsentIsEven
    <3> QED BY <1>1, <1>3, <1>5, <2>5, <3>1
  <2>6. CASE GoneTo("waiting", "first_doe", <<>>, server.iteration, Found, {}) BY <1>4, <2>6
  <2> QED BY <2>1, <2>3, <2>4, <2>5, <2>6 DEF WelcomeDoes
<1>10. CASE Recovered
  <2>1. RecoveredDoes BY <1>1, <1>10, RecoveredIs
  <2>2. Unsent(server.doe) BY <1>2, <2>1 DEF RecoveredDoes, Waited
  <2>3. CASE GoneTo("informed", "none", server.doe, server.iteration, server.cluster, disk.predictions)
    BY <1>4, <2>3
  <2>4. CASE Explored(server.doe, Fresh, server.cluster, {})
    <3>1. Even(server.doe, Fresh) BY <2>2, UnsentIsEven
    <3> QED BY <1>1, <1>5, <2>4, <3>1
  <2>5. CASE GoneTo("waiting", "first_doe", <<>>, server.iteration, server.cluster, {}) BY <1>4, <2>5
  <2> QED BY <2>1, <2>3, <2>4, <2>5 DEF RecoveredDoes
<1>11. CASE DoeCreated
  <2>1. DoeCreatedDoes BY <1>1, <1>11, DoeCreatedIs
  <2>2. CASE GoneTo("undefined", "none", <<>>, server.iteration, server.cluster, server.prediction)
    BY <1>4, <2>2
  <2>3. CASE Explored(LoadDoe, Fresh, server.cluster, server.prediction)
    <3>1. Even(LoadDoe, Fresh) BY <1>3, UnsentIsEven
    <3> QED BY <1>1, <1>3, <1>5, <2>3, <3>1
  <2> QED BY <2>1, <2>2, <2>3 DEF DoeCreatedDoes
<1>12. CASE Observation
  <2>1. ObservationDoes BY <1>1, <1>12, ObservationIs
  <2>2. CASE Explored(server.doe, given, server.cluster, server.prediction)
    BY <1>1, <1>2, <1>5, <2>2
  <2>3. CASE GoneTo("waiting", "models", server.doe, server.iteration + 1, server.cluster, server.prediction)
    BY <1>4, <2>3
  <2> QED BY <2>1, <2>2, <2>3 DEF ObservationDoes
<1>13. CASE ModelsBuilt
  <2>1. ModelsBuiltDoes BY <1>1, <1>13, ModelsBuiltIs
  <2>2. CASE GoneTo("waiting", "prediction", server.doe, server.iteration, Found, server.prediction)
    BY <1>4, <2>2
  <2> QED BY <1>8, <2>1, <2>2 DEF ModelsBuiltDoes
<1>14. CASE Predicted
  <2>1. PredictedDoes BY <1>1, <1>14, PredictedIs
  <2>2. CASE GoneTo("informed", "none", server.doe, server.iteration, server.cluster, disk.predictions)
    BY <1>4, <2>2
  <2> QED BY <1>8, <2>1, <2>2 DEF PredictedDoes
<1>15. ASSUME NEW p \in plugins, PluginStep(p) PROVE DesignInv'
  <2>1. (server' = server \/ Downed) /\ given' = given BY <1>15, ServersOfPlugins DEF Quiet
  <2> QED BY <1>6, <1>7, <2>1
<1>16. CASE Bye
  <2>1. ByeDoes BY <1>1, <1>16, ByeIs
  <2>2. server'.phase = "clueless" /\ server'.doe = <<>> BY <2>1, BecomesIs DEF ByeDoes
  <2> QED BY <2>2, NothingIsEven DEF DesignInv
<1>17. CASE Crash \/ Shutdown \/ \E p \in plugins : Kill(p)
  <2>1. (server' = server \/ Downed) /\ given' = given BY <1>17, EndIsDown DEF Crash, Shutdown, Kill
  <2> QED BY <1>6, <1>7, <2>1
<1>18. CASE Restart
  <2>1. RestartDoes BY <1>18, RestartIs
  <2>2. server'.phase = "clueless" /\ server'.doe = <<>> BY <2>1, BecomesIs DEF RestartDoes
  <2> QED BY <2>2, NothingIsEven DEF DesignInv
<1>19. CASE UNCHANGED learnVars BY <1>6, <1>19 DEF learnVars
<1> QED BY <1>9, <1>10, <1>11, <1>12, <1>13, <1>14, <1>15, <1>16, <1>17, <1>18, <1>19, StepCases

\* The configurations of a DOE are sent in turns, for every number of observations per
\* configuration and every size of an iteration, whoever leaves, dies or is restarted.
THEOREM DesignsAreBalanced == LearnSpec => []Balanced
<1>1. LearnInv /\ DesignInv => Balanced
  <2> SUFFICES ASSUME LearnInv, DesignInv, NEW i \in DOMAIN server.doe, NEW c \in Confs
               PROVE  given[c] <= given[server.doe[i].conf] + 1
    BY DEF Balanced
  <2>1. server.doe \in Seq(Row) BY DEF LearnInv, VariablesOK, HandlerOK
  <2>2. i \in 1 .. Len(server.doe) BY <2>1
  <2>3. /\ given[server.doe[i].conf] = PerConfiguration - server.doe[i].counter
        /\ given[c] <= PerConfiguration - server.doe[i].counter + 1
    BY <2>2 DEF DesignInv, Even
  <2> QED BY <2>3
<1>2. LearnInv /\ DesignInv /\ [LearnNext]_learnVars => DesignInv'
  <2> SUFFICES ASSUME LearnInv, DesignInv, [LearnNext]_learnVars PROVE DesignInv' OBVIOUS
  <2>1. CASE UNCHANGED learnVars BY <2>1 DEF learnVars, DesignInv
  <2>2. CASE LearnNext BY <2>2, DesignKept
  <2> QED BY <2>1, <2>2
<1>3. LearnSpec => [](LearnInv /\ DesignInv)
  BY <1>2, LearnInvAlways, DesignStarts, PTL DEF LearnSpec
<1> QED BY <1>1, <1>3, PTL

-----------------------------------------------------------------------------
(* Files that nobody read too early are whole *)

\* The rows of every cluster are complete.
Complete(rows) == \A row \in rows : \A c \in Allowed : <<c, row[2]>> \in rows

\* The algorithm that is asked for finds clusters, or fails.
Finds == setup.clustering # "unknown" \/ setup.scaled

\* A file is whole when nobody has it open.
DiskWhole(d) ==
  /\ "total" \notin d.partial => d.total \in {None, Allowed}
  /\ "clusters" \notin d.partial /\ Finds => d.clusters # {}
  /\ "predictions" \notin d.partial => Complete(d.predictions)
  /\ "doe" \notin d.partial /\ setup.algorithm = "full-factorial" => d.doe # <<>>

\* What a plugin has read is whole.
ReadsWhole(kind, at, read) ==
  /\ kind = "doe" /\ at \in {"total", "design"} => read = Allowed
  /\ kind = "doe" /\ at = "write" /\ setup.algorithm = "full-factorial" => read = Allowed
  /\ kind = "cluster" /\ at = "write" /\ Finds => read # {}
  /\ kind = "predict" /\ at # "begin" => Complete(read) /\ (Clusters => read # {})
ReadWhole(p) == ReadsWhole(p.kind, p.at, p.read)

\* What is on disk, what the plugins have read and what the handler tells its client.
Whole ==
  /\ DiskWhole(disk) /\ \A p \in plugins : ReadWhole(p)
  /\ server.phase = "informed" => Complete(server.prediction)
WholeInv == damaged = FALSE => Whole

\* The handler starts nothing, or waits for what it has started.
Started ==
  \/ plugins' = plugins
  \/ /\ server'.phase = "waiting"
     /\ \A q \in plugins' :
          q \in plugins \/ (q.at = "begin" /\ q.born = life /\ q.iteration = server'.iteration)

\* What all the steps of the handler have in common.
Handled ==
  /\ UNCHANGED <<setup, life, faults, reason>>
  /\ damaged' \in BOOLEAN /\ (damaged = TRUE => damaged' = TRUE)
  /\ disk'.total = disk.total /\ disk'.doe = disk.doe /\ disk'.models = disk.models
  /\ disk'.clusters = disk.clusters /\ disk'.predictions = disk.predictions
  /\ disk'.partial = disk.partial /\ disk'.global = disk.global /\ disk'.local = disk.local
  /\ Started
  /\ server'.phase = "informed" =>
       server'.prediction = disk.predictions /\ ("predictions" \in disk.partial => damaged' = TRUE)

\* A handler that looks into a file that is open spoils the run.
LEMMA Spoilt ==
  ASSUME NEW files, NEW f \in files, damaged \in BOOLEAN, Damage(files)
  PROVE  f \in disk.partial => damaged' = TRUE
<1>1. files \cap disk.partial # {} => damaged' = TRUE BY DamageDone
<1> QED BY <1>1

\* The new processes of a handler have not begun.
LEMMA LaunchedBegins ==
  ASSUME NEW kinds, Launched(kinds), server'.phase = "waiting"
  PROVE  Started
BY DEF Launched, Started

\* The files stay when only the table of observations changes.
LEMMA TableIs ==
  ASSUME NEW table, TableBecomes(table)
  PROVE  /\ disk'.total = disk.total /\ disk'.doe = disk.doe /\ disk'.models = disk.models
         /\ disk'.clusters = disk.clusters /\ disk'.predictions = disk.predictions
         /\ disk'.partial = disk.partial /\ disk'.global = disk.global /\ disk'.local = disk.local
         /\ disk'.table = table
BY DiskIs DEF TableBecomes

\* Every step of the handler is as described.
LEMMA HandlerHandles ==
  ASSUME LearnInv,
         Welcome \/ Recovered \/ DoeCreated \/ Observation \/ ModelsBuilt \/ Predicted
  PROVE  Handled
<1>1. VariablesOK /\ DiskOK(disk) /\ damaged \in BOOLEAN /\ server.doe \in Seq(Row)
      /\ LoadDoe \in Seq(Row) /\ Fresh \in [Confs -> Int] /\ given \in [Confs -> Int]
  BY LoadDoeOK DEF LearnInv, VariablesOK, HandlerOK, Fresh, Designs
<1>0. damaged \in BOOLEAN BY <1>1
<1> DEFINE Same == /\ disk'.total = disk.total /\ disk'.doe = disk.doe /\ disk'.models = disk.models
                   /\ disk'.clusters = disk.clusters /\ disk'.predictions = disk.predictions
                   /\ disk'.partial = disk.partial /\ disk'.global = disk.global
                   /\ disk'.local = disk.local
           Spoils == damaged' \in BOOLEAN /\ (damaged = TRUE => damaged' = TRUE)
           Told == server'.phase = "informed" =>
                     /\ server'.prediction = disk.predictions
                     /\ "predictions" \in disk.partial => damaged' = TRUE
<1>2. ASSUME UNCHANGED <<setup, life, faults, reason>>, Spoils, Same, Started, Told PROVE Handled
  BY <1>2, Zenon DEF Handled
<1>3. ASSUME disk' = disk PROVE Same BY <1>3
<1>4. ASSUME plugins' = plugins PROVE Started BY <1>4 DEF Started
<1>5. ASSUME NEW next, NEW doe, NEW iteration, NEW cluster, NEW prediction, NEW kinds,
             GoneTo("waiting", next, doe, iteration, cluster, prediction), Launched(kinds)
      PROVE  Started
  <2>1. server'.phase = "waiting" BY <1>1, <1>5, GoneIs
  <2> QED BY <1>5, <2>1, LaunchedBegins
<1>6. ASSUME NEW doe \in Seq(Row), NEW counts \in [Confs -> Int], NEW cluster, NEW prediction,
             Explored(doe, counts, cluster, prediction)
      PROVE  Told
  <2>1. server'.phase = "exploring" BY <1>1, <1>6, ExploredIs
  <2> QED BY <2>1
<1>7. ASSUME NEW phase, phase # "informed", NEW next, NEW doe, NEW iteration, NEW cluster,
             NEW prediction, GoneTo(phase, next, doe, iteration, cluster, prediction)
      PROVE  Told
  <2>1. server'.phase = phase BY <1>1, <1>7, GoneIs
  <2> QED BY <1>7, <2>1
<1>8. ASSUME NEW next, NEW doe, NEW iteration, NEW cluster, NEW files, Damage(files),
             "predictions" \in files,
             GoneTo("informed", next, doe, iteration, cluster, disk.predictions)
      PROVE  Told
  <2>1. server'.prediction = disk.predictions BY <1>1, <1>8, GoneIs
  <2>2. "predictions" \in disk.partial => damaged' = TRUE
    <3>1. "predictions" \in files /\ Damage(files) BY <1>8
    <3> QED BY <1>0, <3>1, Spoilt
  <2> QED BY <2>1, <2>2
<1>9. ASSUME NEW files, Damage(files) PROVE Spoils
  <2>1. damaged' \in BOOLEAN /\ (damaged = TRUE => damaged' = TRUE)
    BY <1>0, <1>9, DamageDone
  <2> QED BY <2>1
<1>10. ASSUME NEW cluster, NEW prediction, LearntOn(cluster, prediction) PROVE Started /\ Told
  <2> HIDE DEF Told
  <2>1. CASE Explored(server.doe, given, cluster, prediction) /\ plugins' = plugins
    BY <1>1, <1>4, <1>6, <2>1
  <2>2. CASE GoneTo("waiting", "next_doe", <<>>, server.iteration, cluster, prediction)
             /\ Launched({"doe"})
    BY <1>5, <1>7, <2>2
  <2> QED BY <1>10, <2>1, <2>2 DEF LearntOn
<1> HIDE DEF Same, Spoils, Told
<1>11. CASE Welcome
  <2> DEFINE files == {"doe", "predictions"} \cup IF setup.features THEN {"clusters"} ELSE {}
  <2>1. WelcomeDoes BY <1>1, <1>11, WelcomeIs
  <2>2. Damage(files) /\ "predictions" \in files /\ UNCHANGED <<setup, disk, life, faults, reason>>
    BY <2>1, Zenon DEF WelcomeDoes
  <2> HIDE DEF files
  <2>3. Spoils /\ Same BY <1>3, <1>9, <2>2
  <2>4. Started /\ Told
    <3>1. CASE GoneTo("informed", "none", LoadDoe, server.iteration, Found, disk.predictions)
               /\ UNCHANGED plugins
      BY <1>4, <1>8, <2>2, <3>1
    <3>2. CASE GoneTo("waiting", "recovered", LoadDoe, server.iteration, Found, {})
               /\ Launched({"predict"})
      BY <1>5, <1>7, <3>2
    <3>3. CASE Explored(LoadDoe, Fresh, Found, {}) /\ UNCHANGED plugins BY <1>1, <1>4, <1>6, <3>3
    <3>4. CASE GoneTo("waiting", "first_doe", <<>>, server.iteration, Found, {}) /\ Launched({"doe"})
      BY <1>5, <1>7, <3>4
    <3> QED BY <2>1, <3>1, <3>2, <3>3, <3>4 DEF WelcomeDoes
  <2> QED BY <1>2, <2>2, <2>3, <2>4
<1>12. CASE Recovered
  <2>1. RecoveredDoes BY <1>1, <1>12, RecoveredIs
  <2>2. Damage({"predictions"}) /\ UNCHANGED <<setup, disk, life, faults, reason>> BY <2>1, Zenon DEF RecoveredDoes
  <2>3. Spoils /\ Same BY <1>3, <1>9, <2>2
  <2>4. Started /\ Told
    <3>1. CASE GoneTo("informed", "none", server.doe, server.iteration, server.cluster, disk.predictions)
               /\ UNCHANGED plugins
      <4>1. "predictions" \in {"predictions"} OBVIOUS
      <4> QED BY <1>4, <1>8, <2>2, <3>1, <4>1
    <3>2. CASE Explored(server.doe, Fresh, server.cluster, {}) /\ UNCHANGED plugins
      BY <1>1, <1>4, <1>6, <3>2
    <3>3. CASE GoneTo("waiting", "first_doe", <<>>, server.iteration, server.cluster, {})
               /\ Launched({"doe"})
      BY <1>5, <1>7, <3>3
    <3> QED BY <2>1, <3>1, <3>2, <3>3 DEF RecoveredDoes
  <2> QED BY <1>2, <2>2, <2>3, <2>4
<1>13. CASE DoeCreated
  <2>1. DoeCreatedDoes BY <1>1, <1>13, DoeCreatedIs
  <2>2. Damage({"doe"}) /\ UNCHANGED <<setup, life, plugins, faults, reason>> BY <2>1, Zenon DEF DoeCreatedDoes
  <2>3. Spoils /\ Started BY <1>4, <1>9, <2>2
  <2>4. Same
    <3>1. disk' = disk \/ TableBecomes(0) BY <2>1 DEF DoeCreatedDoes
    <3> QED BY <1>3, <3>1, TableIs DEF Same
  <2>5. Told
    <3>1. CASE GoneTo("undefined", "none", <<>>, server.iteration, server.cluster, server.prediction)
      BY <1>7, <3>1
    <3>2. CASE Explored(LoadDoe, Fresh, server.cluster, server.prediction) BY <1>1, <1>6, <3>2
    <3> QED BY <2>1, <3>1, <3>2 DEF DoeCreatedDoes
  <2> QED BY <1>2, <2>2, <2>3, <2>4, <2>5
<1>14. CASE Observation
  <2>1. ObservationDoes BY <1>1, <1>14, ObservationIs
  <2>2. TableBecomes(InsertObservation) /\ UNCHANGED <<setup, life, damaged, faults, reason>> BY <2>1 DEF ObservationDoes
  <2>3. Spoils BY <1>1, <2>2 DEF Spoils
  <2>4. Same BY <2>2, TableIs DEF Same
  <2>5. Started /\ Told
    <3>1. CASE Explored(server.doe, given, server.cluster, server.prediction) /\ UNCHANGED plugins
      BY <1>1, <1>4, <1>6, <3>1
    <3>2. CASE GoneTo("waiting", "models", server.doe, server.iteration + 1, server.cluster, server.prediction)
               /\ Launched(Models \cup Clustering)
      BY <1>5, <1>7, <3>2
    <3> QED BY <2>1, <3>1, <3>2 DEF ObservationDoes
  <2> QED BY <1>2, <2>2, <2>3, <2>4, <2>5
<1>15. CASE ModelsBuilt
  <2>1. ModelsBuiltDoes BY <1>1, <1>15, ModelsBuiltIs
  <2>2. Damage(IF setup.features THEN {"clusters"} ELSE {}) /\ UNCHANGED <<setup, disk, life, faults, reason>>
    BY <2>1, Zenon DEF ModelsBuiltDoes
  <2>3. Spoils /\ Same BY <1>3, <1>9, <2>2
  <2>4. CASE GoneTo("waiting", "prediction", server.doe, server.iteration, Found, server.prediction)
             /\ Launched({"predict"})
    BY <1>2, <1>5, <1>7, <2>2, <2>3, <2>4
  <2>5. CASE LearntOn(Found, server.prediction) BY <1>2, <1>10, <2>2, <2>3, <2>5
  <2> QED BY <2>1, <2>4, <2>5 DEF ModelsBuiltDoes
<1>16. CASE Predicted
  <2>1. PredictedDoes BY <1>1, <1>16, PredictedIs
  <2>2. Damage({"predictions"}) /\ UNCHANGED <<setup, disk, life, faults, reason>> BY <2>1, Zenon DEF PredictedDoes
  <2>3. Spoils /\ Same BY <1>3, <1>9, <2>2
  <2>4. CASE GoneTo("informed", "none", server.doe, server.iteration, server.cluster, disk.predictions)
             /\ UNCHANGED plugins
    <3>1. "predictions" \in {"predictions"} OBVIOUS
    <3> QED BY <1>2, <1>4, <1>8, <2>2, <2>3, <2>4, <3>1
  <2>5. CASE LearntOn(server.cluster, {}) BY <1>2, <1>10, <2>2, <2>3, <2>5
  <2> QED BY <2>1, <2>4, <2>5 DEF PredictedDoes
<1> QED BY <1>11, <1>12, <1>13, <1>14, <1>15, <1>16

\* A whole state after a step.
LEMMA WholeFrom ==
  ASSUME setup' = setup, DiskWhole(disk'), \A q \in plugins' : ReadWhole(q),
         server'.phase = "informed" => Complete(server'.prediction)
  PROVE  Whole'
<1>1. (Finds <=> Finds') /\ (Clusters <=> Clusters') BY DEF Finds, Clusters
<1> QED BY <1>1 DEF Whole, DiskWhole, ReadWhole, ReadsWhole, Complete

\* The handler leaves the files and what was read alone.
LEMMA HandledWhole ==
  ASSUME Handled, WholeInv, damaged \in BOOLEAN
  PROVE  WholeInv'
<1> SUFFICES ASSUME damaged' = FALSE PROVE Whole' BY DEF WholeInv
<1>1. damaged = FALSE BY DEF Handled
<1>2. Whole BY <1>1 DEF WholeInv
<1>3. DiskWhole(disk') BY <1>2 DEF Handled, Whole, DiskWhole
<1>4. \A q \in plugins' : ReadWhole(q) BY <1>2 DEF Handled, Started, Whole, ReadWhole, ReadsWhole
<1>5. server'.phase = "informed" => Complete(server'.prediction)
  BY <1>2 DEF Handled, Whole, DiskWhole
<1>6. setup' = setup BY DEF Handled
<1> QED BY <1>3, <1>4, <1>5, <1>6, WholeFrom

\* The processes after a step of one of them.
LEMMA MovedWhole ==
  ASSUME Whole, NEW p, NEW at, NEW read, Moved(p, at, read), ReadsWhole(p.kind, at, read)
  PROVE  /\ \A q \in plugins' : ReadWhole(q)
         /\ server'.phase = "informed" => Complete(server'.prediction)
<1>1. PICK q \in [at : {at}, read : {read}, born : {p.born}, kind : {p.kind}, iteration : {p.iteration}] :
        plugins' = (plugins \ {p}) \cup {q}
  BY DEF Moved
<1>2. ReadWhole(q) BY DEF ReadWhole
<1>3. server' = server BY DEF Moved
<1> QED BY <1>1, <1>2, <1>3 DEF Whole

\* A plugin that ends, with its parent or without.
LEMMA EndedWhole ==
  ASSUME Whole, plugins' \subseteq plugins, server' = server \/ Downed
  PROVE  /\ \A q \in plugins' : ReadWhole(q)
         /\ server'.phase = "informed" => Complete(server'.prediction)
<1>1. Downed => server'.phase = "down" BY BecomesIs DEF Downed
<1> QED BY <1>1 DEF Whole

\* A plugin that fails leaves the files as they are.
LEMMA FailedWhole ==
  ASSUME Whole, NEW p, NEW why, Failed(p, why), setup' = setup
  PROVE  Whole'
<1>1. disk' = disk /\ plugins' \subseteq plugins /\ (server' = server \/ Downed) BY DEF Failed, Orphaned
<1>2. DiskWhole(disk') BY <1>1 DEF Whole
<1> QED BY <1>1, <1>2, EndedWhole, WholeFrom

\* Whole files, one after the other.
LEMMA WholeFiles ==
  ASSUME Whole
  PROVE  /\ "total" \notin disk.partial => disk.total \in {None, Allowed}
         /\ "clusters" \notin disk.partial /\ Finds => disk.clusters # {}
         /\ "predictions" \notin disk.partial => Complete(disk.predictions)
         /\ "doe" \notin disk.partial /\ setup.algorithm = "full-factorial" => disk.doe # <<>>
BY DEF Whole, DiskWhole

\* The doe plugin writes all allowed configurations into the table of all of them.
LEMMA DoeWhole ==
  ASSUME LearnInv, WholeInv, NEW p \in plugins,
         DoeBegin(p) \/ DoeTotal(p) \/ DoeDesign(p) \/ DoeWrite(p)
  PROVE  WholeInv'
<1>1. VariablesOK /\ DiskOK(disk) /\ ProcessOK(p) /\ ReadOK(p)
  BY DEF LearnInv, VariablesOK, PluginsOK
<1>0. damaged \in BOOLEAN BY DEF LearnInv, VariablesOK
<1> SUFFICES ASSUME damaged' = FALSE PROVE Whole' BY DEF WholeInv
<1>2. CASE DoeBegin(p)
  <2>1. DoeBeginDoes(p) BY <1>1, <1>2, DoeBeginIs
  <2>2. p.kind = "doe" /\ setup' = setup BY <2>1 DEF DoeBeginDoes, Quiet
  <2>3. CASE /\ Moved(p, "total", Allowed) /\ UNCHANGED damaged
             /\ \E part \in SUBSET Allowed :
                  DiskBecomes(part, disk.doe, disk.table, disk.models, disk.clusters,
                              disk.predictions, Opened("total"), "ready", disk.local)
    <3>1. Whole BY <2>3 DEF WholeInv
    <3>2. /\ disk'.doe = disk.doe /\ disk'.clusters = disk.clusters
          /\ disk'.predictions = disk.predictions /\ disk'.partial = disk.partial \cup {"total"}
      BY <2>3, DiskIs DEF Opened
    <3>3. DiskWhole(disk') BY <3>1, <3>2, WholeFiles DEF DiskWhole
    <3>4. ReadsWhole(p.kind, "total", Allowed) BY <2>2 DEF ReadsWhole
    <3> QED BY <2>2, <2>3, <3>1, <3>3, <3>4, MovedWhole, WholeFrom
  <2>4. CASE disk.total # None /\ Moved(p, "design", disk.total) /\ Damage({"total"}) /\ disk' = disk
    <3>1. damaged = FALSE
      <4>1. damaged = TRUE => damaged' = TRUE BY <1>0, <2>4, DamageDone
      <4> QED BY <1>0, <4>1
    <3>2. "total" \notin disk.partial
      <4>1. "total" \in {"total"} OBVIOUS
      <4>2. "total" \in disk.partial => damaged' = TRUE BY <1>0, <2>4, <4>1, Spoilt
      <4> QED BY <4>2
    <3>3. Whole BY <3>1 DEF WholeInv
    <3>4. disk.total = Allowed BY <2>4, <3>2, <3>3, WholeFiles
    <3>5. ReadsWhole(p.kind, "design", disk.total) BY <2>2, <3>4 DEF ReadsWhole
    <3>6. DiskWhole(disk') BY <2>4, <3>3 DEF Whole
    <3> QED BY <2>2, <2>4, <3>3, <3>5, <3>6, MovedWhole, WholeFrom
  <2> QED BY <2>1, <2>3, <2>4 DEF DoeBeginDoes
<1>3. CASE DoeTotal(p)
  <2>1. DoeTotalDoes(p) BY <1>1, <1>3, DoeTotalIs
  <2>2. p.kind = "doe" /\ setup' = setup /\ damaged' = damaged BY <2>1 DEF DoeTotalDoes, Quiet
  <2>3. Whole BY <2>2 DEF WholeInv
  <2>4. /\ disk'.doe = disk.doe /\ disk'.clusters = disk.clusters /\ disk'.total = Allowed
        /\ disk'.predictions = disk.predictions /\ disk'.partial = disk.partial \ {"total"}
    BY <1>1, <2>1, FilesAre DEF Closed, DoeTotalDoes
  <2>5. DiskWhole(disk') BY <2>3, <2>4, WholeFiles DEF DiskWhole
  <2>6. ReadsWhole(p.kind, "design", Allowed) BY <2>2 DEF ReadsWhole
  <2>7. Moved(p, "design", Allowed) BY <2>1 DEF DoeTotalDoes
  <2> QED BY <2>2, <2>3, <2>5, <2>6, <2>7, MovedWhole, WholeFrom
<1>4. CASE DoeDesign(p)
  <2>1. DoeDesignDoes(p) BY <1>1, <1>4, DoeDesignIs
  <2>2. p.kind = "doe" /\ p.at = "design" /\ setup' = setup /\ damaged' = damaged
    BY <2>1 DEF DoeDesignDoes, Quiet
  <2>3. Whole BY <2>2 DEF WholeInv
  <2>4. PICK design \in CreateDoe : \E part \in SUBSET (design \cap p.read) :
          /\ FilesBecome(disk.total, Rows(part), disk.models, disk.clusters, disk.predictions, Opened("doe"))
          /\ Moved(p, "write", design \cap p.read)
    BY <2>1 DEF DoeDesignDoes
  <2>5. /\ disk'.total = disk.total /\ disk'.clusters = disk.clusters
        /\ disk'.predictions = disk.predictions /\ disk'.partial = disk.partial \cup {"doe"}
    BY <1>1, <2>4, FilesAre DEF Opened
  <2>6. DiskWhole(disk') BY <2>3, <2>5, WholeFiles DEF DiskWhole
  <2>7. p.read = Allowed BY <2>2, <2>3 DEF Whole, ReadWhole, ReadsWhole
  <2>8. setup.algorithm = "full-factorial" => design \cap p.read = Allowed
    BY <2>7, Constants DEF CreateDoe
  <2>9. ReadsWhole(p.kind, "write", design \cap p.read) BY <2>2, <2>8 DEF ReadsWhole
  <2> QED BY <2>2, <2>3, <2>4, <2>6, <2>9, MovedWhole, WholeFrom
<1>5. CASE DoeWrite(p)
  <2>1. DoeWriteDoes(p) BY <1>1, <1>5, DoeWriteIs
  <2>2. p.kind = "doe" /\ p.at = "write" /\ setup' = setup /\ damaged' = damaged /\ Ends(p)
    BY <2>1 DEF DoeWriteDoes, Quiet
  <2>3. Whole BY <2>2 DEF WholeInv
  <2>4. /\ disk'.total = disk.total /\ disk'.clusters = disk.clusters /\ disk'.doe = Rows(p.read)
        /\ disk'.predictions = disk.predictions /\ disk'.partial = disk.partial \ {"doe"}
    BY <1>1, <2>1, FilesAre DEF Closed, DoeWriteDoes
  <2>5. setup.algorithm = "full-factorial" => p.read = Allowed
    BY <2>2, <2>3 DEF Whole, ReadWhole, ReadsWhole
  <2>6. setup.algorithm = "full-factorial" => disk'.doe # <<>>
    BY <2>4, <2>5, Constants, RowsOfASet
  <2>7. DiskWhole(disk') BY <2>3, <2>4, <2>6, WholeFiles DEF DiskWhole
  <2>8. plugins' \subseteq plugins /\ server' = server BY <2>2 DEF Ends
  <2> QED BY <2>2, <2>3, <2>7, <2>8, EndedWhole, WholeFrom
<1> QED BY <1>2, <1>3, <1>4, <1>5

\* The encoders are none of the files that are read here.
LEMMA EncodersWhole ==
  ASSUME LearnInv, Whole, NEW p \in plugins, NEW workspace, NEW there, NEW global,
         EncodersDoes(p, workspace, there, global), p.kind \in Metrics \cup {"predict"},
         there # "begin"
  PROVE  Whole'
<1>1. DiskOK(disk) /\ setup' = setup /\ p.at = "encoders"
  BY DEF LearnInv, VariablesOK, EncodersDoes, Quiet
<1>2. ASSUME NEW at, at # "begin" PROVE ReadsWhole(p.kind, at, p.read)
  BY <1>1, <1>2, Constants DEF Whole, ReadWhole, ReadsWhole
<1>3. ASSUME NEW why, Failed(p, why) PROVE Whole' BY <1>1, <1>3, FailedWhole
<1>4. CASE Moved(p, there, p.read) /\ disk' = disk
  <2>1. DiskWhole(disk') BY <1>4 DEF Whole
  <2> QED BY <1>1, <1>2, <1>4, <2>1, MovedWhole, WholeFrom
<1>5. CASE /\ Moved(p, "save", p.read)
           /\ EncodersBecome(global, [disk.local EXCEPT ![workspace] = "torn"])
  <2>1. /\ disk'.total = disk.total /\ disk'.doe = disk.doe /\ disk'.clusters = disk.clusters
        /\ disk'.predictions = disk.predictions /\ disk'.partial = disk.partial
    BY <1>1, <1>5, EncodersAre
  <2>2. DiskWhole(disk') BY <2>1, WholeFiles DEF DiskWhole
  <2>3. ReadsWhole(p.kind, "save", p.read) BY <1>2
  <2> QED BY <1>1, <1>5, <2>2, <2>3, MovedWhole, WholeFrom
<1> QED BY <1>3, <1>4, <1>5 DEF EncodersDoes

\* The model plugins do not touch the tables the prediction reads.
LEMMA ModelWhole ==
  ASSUME LearnInv, WholeInv, NEW p \in plugins,
         ModelBegin(p) \/ ModelEncoders(p) \/ EncodersSaved(p) \/ ModelFit(p) \/ ModelWrite(p)
  PROVE  WholeInv'
<1>1. VariablesOK /\ DiskOK(disk) /\ ProcessOK(p) /\ ReadOK(p)
  BY DEF LearnInv, VariablesOK, PluginsOK
<1> SUFFICES ASSUME damaged' = FALSE PROVE Whole' BY DEF WholeInv
<1>2. ASSUME p.kind \in Metrics, NEW at, NEW read PROVE ReadsWhole(p.kind, at, read)
  BY <1>2, Constants DEF ReadsWhole
<1>3. ASSUME Whole, setup' = setup, NEW why, Failed(p, why) PROVE Whole' BY <1>3, FailedWhole
<1>4. ASSUME Whole, setup' = setup, Ends(p), DiskWhole(disk') PROVE Whole'
  <2>1. plugins' \subseteq plugins /\ server' = server BY <1>4 DEF Ends
  <2> QED BY <1>4, <2>1, EndedWhole, WholeFrom
<1>5. CASE ModelBegin(p)
  <2>1. ModelBeginDoes(p) BY <1>1, <1>5, ModelBeginIs
  <2>2. p.kind \in Metrics /\ setup' = setup /\ damaged' = damaged /\ disk' = disk
    BY <2>1 DEF ModelBeginDoes, Quiet
  <2>3. Whole BY <2>2 DEF WholeInv
  <2>4. DiskWhole(disk') BY <2>2, <2>3 DEF Whole
  <2>5. CASE Moved(p, "encoders", 1 .. disk.table)
    <3>1. ReadsWhole(p.kind, "encoders", 1 .. disk.table) BY <1>2, <2>2
    <3> QED BY <2>2, <2>3, <2>4, <2>5, <3>1, MovedWhole, WholeFrom
  <2> QED BY <1>3, <1>4, <2>1, <2>2, <2>3, <2>4, <2>5 DEF ModelBeginDoes
<1>6. CASE ModelEncoders(p)
  <2>1. p.kind \in Metrics /\ p.at = "encoders" /\ Quiet /\ Encoders(p, setup.plugin[p.kind], "fit", "ready")
    BY <1>6 DEF ModelEncoders, Plugin, Quiet
  <2>2. EncodersDoes(p, setup.plugin[p.kind], "fit", "ready") BY <1>1, <2>1, EncodersIs
  <2>3. damaged' = damaged BY <2>2 DEF EncodersDoes
  <2>4. Whole BY <2>3 DEF WholeInv
  <2>5. p.kind \in Metrics \cup {"predict"} BY <2>1
  <2> QED BY <2>2, <2>4, <2>5, EncodersWhole
<1>7. CASE EncodersSaved(p)
  <2>1. EncodersSavedDoes(p) BY <1>1, <1>7, EncodersSavedIs
  <2>2. p.kind \in Metrics \cup {"predict"} /\ p.at = "save" /\ setup' = setup /\ damaged' = damaged
    BY <2>1 DEF EncodersSavedDoes, Quiet
  <2>3. Whole BY <2>2 DEF WholeInv
  <2>4. EncodersBecome(disk.global, [disk.local EXCEPT ![Workspace(p)] = "ready"])
    BY <2>1 DEF EncodersSavedDoes
  <2>5. /\ disk'.total = disk.total /\ disk'.doe = disk.doe /\ disk'.clusters = disk.clusters
        /\ disk'.predictions = disk.predictions /\ disk'.partial = disk.partial
    BY <1>1, <2>4, EncodersAre
  <2>6. DiskWhole(disk') BY <2>3, <2>5, WholeFiles DEF DiskWhole
  <2>7. PICK at \in {"load", "fit"} : Moved(p, at, p.read) BY <2>1 DEF EncodersSavedDoes, AfterEncoders
  <2>8. ReadsWhole(p.kind, at, p.read)
    BY <2>2, <2>3, Constants DEF Whole, ReadWhole, ReadsWhole
  <2> QED BY <2>2, <2>3, <2>6, <2>7, <2>8, MovedWhole, WholeFrom
<1>8. CASE ModelFit(p)
  <2>1. ModelFitDoes(p) BY <1>1, <1>8, ModelFitIs
  <2>2. p.kind \in Metrics /\ setup' = setup /\ damaged' = damaged BY <2>1 DEF ModelFitDoes, Quiet
  <2>3. Whole BY <2>2 DEF WholeInv
  <2>4. CASE Moved(p, "write", p.read)
             /\ FilesBecome(disk.total, disk.doe, disk.models \cup {p.kind}, disk.clusters,
                            disk.predictions, Opened(p.kind))
    <3>1. /\ disk'.total = disk.total /\ disk'.doe = disk.doe /\ disk'.clusters = disk.clusters
          /\ disk'.predictions = disk.predictions /\ disk'.partial = disk.partial \cup {p.kind}
      BY <1>1, <2>4, FilesAre DEF Opened
    <3>2. DiskWhole(disk') BY <2>3, <3>1, WholeFiles DEF DiskWhole
    <3>3. ReadsWhole(p.kind, "write", p.read) BY <1>2, <2>2
    <3> QED BY <2>2, <2>3, <2>4, <3>2, <3>3, MovedWhole, WholeFrom
  <2>5. CASE Ends(p) /\ disk' = disk
    <3>1. DiskWhole(disk') BY <2>3, <2>5 DEF Whole
    <3> QED BY <1>4, <2>2, <2>3, <2>5, <3>1
  <2> QED BY <1>3, <2>1, <2>2, <2>3, <2>4, <2>5 DEF ModelFitDoes
<1>9. CASE ModelWrite(p)
  <2>1. ModelWriteDoes(p) BY <1>1, <1>9, ModelWriteIs
  <2>2. p.kind \in Metrics /\ setup' = setup /\ damaged' = damaged /\ Ends(p)
    BY <2>1 DEF ModelWriteDoes, Quiet
  <2>3. Whole BY <2>2 DEF WholeInv
  <2>4. /\ disk'.total = disk.total /\ disk'.doe = disk.doe /\ disk'.clusters = disk.clusters
        /\ disk'.predictions = disk.predictions /\ disk'.partial = disk.partial \ {p.kind}
    BY <1>1, <2>1, FilesAre DEF Closed, ModelWriteDoes
  <2>5. DiskWhole(disk') BY <2>2, <2>3, <2>4, WholeFiles, Constants DEF DiskWhole
  <2> QED BY <1>4, <2>2, <2>3, <2>5
<1> QED BY <1>5, <1>6, <1>7, <1>8, <1>9

\* The cluster plugin finds at least one centroid, if its algorithm finds any.
LEMMA ClusterWhole ==
  ASSUME LearnInv, WholeInv, NEW p \in plugins, ClusterBegin(p) \/ ClusterWrite(p)
  PROVE  WholeInv'
<1>1. VariablesOK /\ DiskOK(disk) /\ ProcessOK(p) BY DEF LearnInv, VariablesOK, PluginsOK
<1> SUFFICES ASSUME damaged' = FALSE PROVE Whole' BY DEF WholeInv
<1>2. CASE ClusterBegin(p)
  <2>1. ClusterBeginDoes(p) BY <1>1, <1>2, ClusterBeginIs
  <2>2. p.kind = "cluster" /\ setup' = setup /\ damaged' = damaged BY <2>1 DEF ClusterBeginDoes, Quiet
  <2>3. Whole BY <2>2 DEF WholeInv
  <2>4. ASSUME NEW why, Failed(p, why) PROVE Whole' BY <2>2, <2>3, <2>4, FailedWhole
  <2>5. ASSUME NEW found \in SUBSET Centroids, NEW part \in SUBSET found, Finds => found # {},
               FilesBecome(disk.total, disk.doe, disk.models, part, disk.predictions, Opened("clusters")),
               Moved(p, "write", found)
        PROVE  Whole'
    <3>1. /\ disk'.total = disk.total /\ disk'.doe = disk.doe
          /\ disk'.predictions = disk.predictions /\ disk'.partial = disk.partial \cup {"clusters"}
      BY <1>1, <2>5, FilesAre DEF Opened
    <3>2. DiskWhole(disk') BY <2>3, <3>1, WholeFiles DEF DiskWhole
    <3>3. ReadsWhole(p.kind, "write", found) BY <2>2, <2>5 DEF ReadsWhole
    <3> QED BY <2>2, <2>3, <2>5, <3>2, <3>3, MovedWhole, WholeFrom
  <2> QED BY <2>1, <2>4, <2>5 DEF ClusterBeginDoes, Finds
<1>3. CASE ClusterWrite(p)
  <2>1. ClusterWriteDoes(p) BY <1>1, <1>3, ClusterWriteIs
  <2>2. p.kind = "cluster" /\ p.at = "write" /\ setup' = setup /\ damaged' = damaged /\ Ends(p)
    BY <2>1 DEF ClusterWriteDoes, Quiet
  <2>3. Whole BY <2>2 DEF WholeInv
  <2>4. /\ disk'.total = disk.total /\ disk'.doe = disk.doe /\ disk'.clusters = p.read
        /\ disk'.predictions = disk.predictions /\ disk'.partial = disk.partial \ {"clusters"}
    BY <1>1, <2>1, FilesAre DEF Closed, ClusterWriteDoes
  <2>5. Finds => p.read # {} BY <2>2, <2>3 DEF Whole, ReadWhole, ReadsWhole
  <2>6. DiskWhole(disk') BY <2>3, <2>4, <2>5, WholeFiles DEF DiskWhole
  <2>7. plugins' \subseteq plugins /\ server' = server BY <2>2 DEF Ends
  <2> QED BY <2>2, <2>3, <2>6, <2>7, EndedWhole, WholeFrom
<1> QED BY <1>2, <1>3

\* A prediction that read whole tables writes all their pairs.
LEMMA PredictWhole ==
  ASSUME LearnInv, WholeInv, NEW p \in plugins,
         PredictBegin(p) \/ PredictEncoders(p) \/ PredictLoad(p) \/ PredictWrite(p)
  PROVE  WholeInv'
<1>1. VariablesOK /\ DiskOK(disk) /\ ProcessOK(p) /\ ReadOK(p) BY DEF LearnInv, VariablesOK, PluginsOK
<1>0. damaged \in BOOLEAN BY DEF LearnInv, VariablesOK
<1> SUFFICES ASSUME damaged' = FALSE PROVE Whole' BY DEF WholeInv
<1>2. CASE PredictBegin(p)
  <2> DEFINE files == {"total"} \cup IF setup.features THEN {"clusters"} ELSE {}
  <2>1. PredictBeginDoes(p) BY <1>1, <1>2, PredictBeginIs
  <2>0. CASE Failed(p, "no_table")
    <3>1. setup' = setup /\ damaged' = damaged BY <2>0, <2>1 DEF PredictBeginDoes, Quiet, Failed
    <3>2. Whole BY <3>1 DEF WholeInv
    <3> QED BY <2>0, <3>1, <3>2, FailedWhole
  <2> SUFFICES ASSUME ~Failed(p, "no_table") PROVE Whole' BY <2>0
  <2>2. /\ p.kind = "predict" /\ setup' = setup /\ disk' = disk /\ ~CannotPredict
        /\ Moved(p, "encoders", Predictable)
    BY <2>1, Zenon DEF PredictBeginDoes, Quiet
  <2>3. Damage(files) BY <2>1, Zenon DEF PredictBeginDoes
  <2>4. "total" \in files /\ (setup.features => "clusters" \in files) OBVIOUS
  <2> HIDE DEF files
  <2>5. damaged = FALSE
    <3>1. damaged = TRUE => damaged' = TRUE BY <1>0, <2>3, DamageDone
    <3> QED BY <1>0, <3>1
  <2>6. "total" \notin disk.partial
    <3>1. "total" \in disk.partial => damaged' = TRUE BY <1>0, <2>3, <2>4, Spoilt
    <3> QED BY <3>1
  <2>7. setup.features => "clusters" \notin disk.partial
    <3>1. setup.features => ("clusters" \in disk.partial => damaged' = TRUE)
      BY <1>0, <2>3, <2>4, Spoilt
    <3> QED BY <3>1
  <2>8. Whole BY <2>5 DEF WholeInv
  <2>9. disk.total = Allowed
    <3>1. disk.total # None BY <2>2 DEF CannotPredict
    <3> QED BY <2>6, <2>8, <3>1, WholeFiles
  <2>10. PICK K : Predictable = disk.total \X K /\ (K = {} => setup.features /\ disk.clusters = {})
    BY <2>2, PredictableIs
  <2>11. Clusters => K # {} BY <2>7, <2>8, <2>10, WholeFiles DEF Clusters, Finds
  <2>12. Predictable = Allowed \X K BY <2>9, <2>10
  <2>13. (Clusters => Predictable # {}) /\ Complete(Predictable)
    <3>1. Allowed # {} BY Constants
    <3>3. ASSUME K # {} PROVE Allowed \X K # {}
      <4>1. PICK c \in Allowed, k \in K : TRUE BY <3>1, <3>3
      <4>2. <<c, k>> \in Allowed \X K BY <4>1
      <4> QED BY <4>2
    <3>4. \A row \in Allowed \X K : row[2] \in K OBVIOUS
    <3>5. Complete(Allowed \X K) BY <3>4 DEF Complete
    <3> QED BY <2>11, <2>12, <3>3, <3>5
  <2>14. ReadsWhole(p.kind, "encoders", Predictable) BY <2>2, <2>13 DEF ReadsWhole
  <2>15. DiskWhole(disk') BY <2>2, <2>8 DEF Whole
  <2> QED BY <2>2, <2>8, <2>14, <2>15, MovedWhole, WholeFrom
<1>3. CASE PredictEncoders(p)
  <2>1. p.kind = "predict" /\ p.at = "encoders" /\ Quiet /\ Encoders(p, "predict", "load", "absent")
    BY <1>3 DEF PredictEncoders, Plugin, Quiet
  <2>2. EncodersDoes(p, "predict", "load", "absent") BY <1>1, <2>1, EncodersIs
  <2>3. damaged' = damaged BY <2>2 DEF EncodersDoes
  <2>4. Whole BY <2>3 DEF WholeInv
  <2>5. p.kind \in Metrics \cup {"predict"} BY <2>1
  <2> QED BY <2>2, <2>4, <2>5, EncodersWhole
<1>4. CASE PredictLoad(p)
  <2>1. PredictLoadDoes(p) BY <1>1, <1>4, PredictLoadIs
  <2>2. p.kind = "predict" /\ p.at = "load" /\ setup' = setup /\ damaged' = damaged
    BY <2>1 DEF PredictLoadDoes, Quiet
  <2>3. Whole BY <2>2 DEF WholeInv
  <2>4. ASSUME NEW why, Failed(p, why) PROVE Whole' BY <2>2, <2>3, <2>4, FailedWhole
  <2>5. ASSUME Moved(p, "write", p.read), NEW part \in SUBSET p.read,
               FilesBecome(disk.total, disk.doe, disk.models, disk.clusters, part, Opened("predictions"))
        PROVE  Whole'
    <3>1. /\ disk'.total = disk.total /\ disk'.doe = disk.doe
          /\ disk'.clusters = disk.clusters /\ disk'.partial = disk.partial \cup {"predictions"}
      BY <1>1, <2>5, FilesAre DEF Opened
    <3>2. DiskWhole(disk') BY <2>3, <3>1, WholeFiles DEF DiskWhole
    <3>3. ReadsWhole(p.kind, "write", p.read) BY <2>2, <2>3 DEF Whole, ReadWhole, ReadsWhole
    <3> QED BY <2>2, <2>3, <2>5, <3>2, <3>3, MovedWhole, WholeFrom
  <2> QED BY <2>1, <2>4, <2>5 DEF PredictLoadDoes
<1>5. CASE PredictWrite(p)
  <2>1. PredictWriteDoes(p) BY <1>1, <1>5, PredictWriteIs
  <2>2. p.kind = "predict" /\ p.at = "write" /\ setup' = setup /\ damaged' = damaged /\ Ends(p)
    BY <2>1 DEF PredictWriteDoes, Quiet
  <2>3. Whole BY <2>2 DEF WholeInv
  <2>4. /\ disk'.total = disk.total /\ disk'.doe = disk.doe /\ disk'.clusters = disk.clusters
        /\ disk'.predictions = p.read /\ disk'.partial = disk.partial \ {"predictions"}
    BY <1>1, <2>1, FilesAre DEF Closed, PredictWriteDoes
  <2>5. Complete(p.read) BY <2>2, <2>3 DEF Whole, ReadWhole, ReadsWhole
  <2>6. DiskWhole(disk') BY <2>3, <2>4, <2>5, WholeFiles DEF DiskWhole
  <2>7. plugins' \subseteq plugins /\ server' = server BY <2>2 DEF Ends
  <2> QED BY <2>2, <2>3, <2>6, <2>7, EndedWhole, WholeFrom
<1> QED BY <1>2, <1>3, <1>4, <1>5

\* Nothing on disk is nothing that is cut.
LEMMA NothingIsWhole ==
  ASSUME NEW d, d.total = None, d.doe = None, d.clusters = None, d.predictions = {}
  PROVE  DiskWhole(d)
<1>1. None # {} BY NoneAssumption, Zenon DEF NoneAssumption
<1>2. None # <<>>
  <2>1. Rows({}) = <<>>
    <3>1. Cardinality({}) = 0 BY FS_EmptySet
    <3> QED BY <3>1 DEF Rows
  <2>2. None # Rows({}) BY NoneAssumption DEF NoneAssumption
  <2> QED BY <2>1, <2>2
<1> QED BY <1>1, <1>2 DEF DiskWhole, Complete

\* Whoever dies leaves the file it was writing open.
LEMMA FaultWhole ==
  ASSUME LearnInv, WholeInv, Bye \/ Crash \/ Shutdown \/ Restart \/ \E p \in plugins : Kill(p)
  PROVE  WholeInv'
<1>1. VariablesOK BY DEF LearnInv
<1> SUFFICES ASSUME damaged' = FALSE PROVE Whole' BY DEF WholeInv
<1>2. ASSUME NEW phase, phase # "informed", server'.phase = phase,
             UNCHANGED <<setup, disk, damaged>>, plugins' \subseteq plugins
      PROVE  Whole'
  <2>1. Whole BY <1>2 DEF WholeInv
  <2>2. \A q \in plugins' : ReadWhole(q) BY <1>2, <2>1 DEF Whole
  <2>3. DiskWhole(disk') BY <1>2, <2>1 DEF Whole
  <2> QED BY <1>2, <2>2, <2>3, WholeFrom
<1>3. CASE Bye
  <2>1. ByeDoes BY <1>1, <1>3, ByeIs
  <2>2. server'.phase = "clueless" BY <2>1, BecomesIs DEF ByeDoes
  <2> QED BY <1>2, <2>1, <2>2 DEF ByeDoes
<1>4. CASE Crash
  <2>1. CrashDoes BY <1>4, CrashIs
  <2>2. server'.phase = "down" BY <2>1, BecomesIs DEF CrashDoes, Downed
  <2> QED BY <1>2, <2>1, <2>2 DEF CrashDoes
<1>5. CASE Shutdown
  <2>1. ShutdownDoes BY <1>1, <1>5, ShutdownIs DEF LearnInv
  <2>2. server'.phase = "down" BY <2>1, BecomesIs DEF ShutdownDoes, Downed
  <2>3. disk'.total = None /\ disk'.doe = None /\ disk'.clusters = None /\ disk'.predictions = {}
    BY <2>1, DiskIs DEF ShutdownDoes
  <2>4. DiskWhole(disk') BY <2>3, NothingIsWhole
  <2>5. setup' = setup /\ damaged' = damaged BY <2>1 DEF ShutdownDoes
  <2>6. ASSUME NEW q \in plugins' PROVE ReadWhole(q)
    <3>1. PICK p \in plugins : Survives(p, q) BY <2>1 DEF ShutdownDoes
    <3>2. ReadWhole(p) BY <2>5 DEF WholeInv, Whole
    <3>3. /\ q.kind = p.kind /\ q.read = p.read /\ p.at # "begin" /\ q.at # "write"
          /\ q.at = "design" /\ p.kind = "doe" => p.at \in {"total", "design"}
          /\ q.at # "total"
      BY <3>1 DEF Survives, AfterEncoders
    <3> QED BY <3>2, <3>3 DEF ReadWhole, ReadsWhole
  <2> QED BY <2>2, <2>4, <2>5, <2>6, WholeFrom
<1>6. CASE Restart
  <2>1. RestartDoes BY <1>6, RestartIs
  <2>2. server'.phase = "clueless" BY <2>1, BecomesIs DEF RestartDoes
  <2> QED BY <1>2, <2>1, <2>2 DEF RestartDoes
<1>7. ASSUME NEW p \in plugins, Kill(p) PROVE Whole'
  <2>1. KillDoes(p) BY <1>7, KillIs
  <2>2. /\ UNCHANGED <<setup, disk, damaged>> /\ plugins' \subseteq plugins
        /\ (server' = server \/ Downed)
    BY <2>1 DEF KillDoes, Orphaned
  <2>3. Whole BY <2>2 DEF WholeInv
  <2>4. DiskWhole(disk') BY <2>2, <2>3 DEF Whole
  <2> QED BY <2>2, <2>3, <2>4, EndedWhole, WholeFrom
<1> QED BY <1>3, <1>4, <1>5, <1>6, <1>7

\* WholeInv holds in every state.
LEMMA WholeAlways == LearnSpec => [](LearnInv /\ WholeInv)
<1>1. LearnInit => WholeInv
  <2> SUFFICES ASSUME LearnInit PROVE Whole BY DEF WholeInv
  <2>1. disk = EmptyDisk /\ plugins = {} /\ server.phase = "clueless" BY DEF LearnInit, NewHandler
  <2>2. DiskWhole(disk) BY <2>1, NothingIsWhole DEF EmptyDisk
  <2> QED BY <2>1, <2>2 DEF Whole
<1>2. LearnInv /\ WholeInv /\ [LearnNext]_learnVars => WholeInv'
  <2> SUFFICES ASSUME LearnInv, WholeInv, [LearnNext]_learnVars PROVE WholeInv' OBVIOUS
  <2>0. damaged \in BOOLEAN BY DEF LearnInv, VariablesOK
  <2>1. CASE UNCHANGED learnVars
    <3>1. (Finds <=> Finds') /\ (Clusters <=> Clusters') BY <2>1 DEF learnVars, Finds, Clusters
    <3> QED BY <2>1, <3>1 DEF learnVars, WholeInv, Whole, DiskWhole, ReadWhole, ReadsWhole
  <2>2. CASE LearnNext
    <3>1. ASSUME NEW p \in plugins, PluginStep(p) PROVE WholeInv'
      BY <3>1, DoeWhole, ModelWhole, ClusterWhole, PredictWhole, Zenon DEF PluginStep
    <3>2. CASE Welcome \/ Recovered \/ DoeCreated \/ Observation \/ ModelsBuilt \/ Predicted
      BY <2>0, <3>2, HandlerHandles, HandledWhole
    <3>3. CASE Bye \/ Crash \/ Shutdown \/ Restart \/ \E p \in plugins : Kill(p)
      BY <3>3, FaultWhole, Zenon
    <3> QED BY <2>1, <2>2, <3>1, <3>2, <3>3, StepCases, Zenon
  <2> QED BY <2>1, <2>2
<1> QED BY <1>1, <1>2, LearnInvAlways, PTL DEF LearnSpec

\* The knowledge a client is given has every allowed configuration for each of its clusters,
\* whoever died before and whatever start_recovering found, unless somebody read a table
\* between its opening and its closing.
THEOREM ClientsGetEverything == LearnSpec => []KnowledgeIsComplete
<1>1. LearnInv /\ WholeInv => KnowledgeIsComplete
  <2> SUFFICES ASSUME LearnInv, WholeInv, server.phase = "informed", ~damaged
               PROVE  Complete(server.prediction)
    BY DEF KnowledgeIsComplete, Complete
  <2>1. damaged \in BOOLEAN BY DEF LearnInv, VariablesOK
  <2>2. damaged = FALSE BY <2>1
  <2> QED BY <2>2 DEF WholeInv, Whole
<1> QED BY <1>1, WholeAlways, PTL

-----------------------------------------------------------------------------
(* The iterations are bounded *)

\* In the last iteration every plugin takes what it has.
Top == MaxIteration + IF \E m \in DOMAIN setup.plugin : setup.plugin[m] = "model" THEN 1 ELSE 0
HasPredictions(d) == d.predictions # {} \/ "predictions" \in d.partial
Runs(k) == \E p \in plugins : p.born = life /\ p.kind = k

\* Plugins of this server run only while it waits for them, and for this iteration.
RunInv ==
  /\ server.phase \in {"clueless", "exploring", "informed", "undefined"} =>
       \A p \in plugins : p.born # life
  /\ server.phase = "waiting" => \A p \in plugins : p.born = life => p.iteration = server.iteration

\* A model that is being written is in its place.
WrittenInv == \A p \in plugins : p.kind \in Metrics /\ p.at = "write" => p.kind \in disk.models

\* In the last iteration the handler only waits for the models and for the prediction, and
\* each one is there or is being made.
AtTop ==
  /\ server.phase \in {"clueless", "waiting", "informed"}
  /\ server.phase = "waiting" => server.next \in {"models", "prediction"}
  /\ server.phase = "waiting" /\ server.next = "models" =>
       /\ disk.table # 0
       /\ \A m \in DOMAIN setup.plugin : m \in disk.models \/ Runs(m)
       /\ setup.features = TRUE => disk.clusters # None \/ Runs("cluster")
  /\ server.phase = "waiting" /\ server.next = "prediction" => HasPredictions(disk) \/ Runs("predict")
  /\ server.phase \in {"clueless", "informed"} => HasPredictions(disk)
Bounded == server.iteration <= Top /\ (server.iteration = Top => AtTop)
TopInv == damaged = FALSE /\ Clusters => Bounded
IterInv == RunInv /\ WrittenInv /\ TopInv

\* A plugin that ends has made what it is there for, unless there is no observation or it
\* may still wait for a better model.
Settled(p) ==
  /\ p.kind \in DOMAIN setup.plugin =>
       p.kind \in disk'.models \/ disk.table = 0 \/ p.iteration # Top
  /\ p.kind = "cluster" => disk'.clusters # None
  /\ p.kind = "predict" => damaged' = TRUE \/ ~Clusters \/ HasPredictions(disk')

\* A plugin that goes on.
Advanced(p) ==
  /\ server' = server
  /\ \E q : /\ q.born = p.born /\ q.kind = p.kind /\ q.iteration = p.iteration
            /\ q.kind \in Metrics /\ q.at = "write" => q.kind \in disk'.models
            /\ plugins' = (plugins \ {p}) \cup {q}

\* What all the steps of the plugins have in common.
Works(p) ==
  /\ setup' = setup /\ life' = life /\ disk'.table = disk.table
  /\ disk.models \subseteq disk'.models /\ (disk.clusters # None => disk'.clusters # None)
  /\ damaged' \in BOOLEAN /\ (damaged = TRUE => damaged' = TRUE)
  /\ HasPredictions(disk) => damaged' = TRUE \/ ~Clusters \/ HasPredictions(disk')
  /\ Advanced(p) \/ (Ends(p) /\ Settled(p)) \/ Orphaned(p)

\* A process that goes on is the same process.
LEMMA MovedAdvances ==
  ASSUME NEW p, NEW at, NEW read, Moved(p, at, read),
         p.kind \in Metrics /\ at = "write" => p.kind \in disk'.models
  PROVE  Advanced(p)
<1>1. PICK q \in [at : {at}, read : {read}, born : {p.born}, kind : {p.kind}, iteration : {p.iteration}] :
        plugins' = (plugins \ {p}) \cup {q}
  BY DEF Moved
<1>2. q.born = p.born /\ q.kind = p.kind /\ q.iteration = p.iteration /\ q.at = at OBVIOUS
<1>3. server' = server BY DEF Moved
<1> QED BY <1>1, <1>2, <1>3 DEF Advanced

\* A step that leaves the models, the clusters and the predictions alone.
LEMMA WorksAlone ==
  ASSUME Quiet, damaged' \in BOOLEAN, damaged = TRUE => damaged' = TRUE,
         disk'.table = disk.table, disk'.models = disk.models,
         disk'.clusters = disk.clusters, disk'.predictions = disk.predictions,
         "predictions" \in disk.partial => "predictions" \in disk'.partial,
         NEW p, Advanced(p) \/ (Ends(p) /\ Settled(p)) \/ Orphaned(p)
  PROVE  Works(p)
BY DEF Works, Quiet, HasPredictions

\* A plugin that fails.
LEMMA FailedWorks ==
  ASSUME Quiet, damaged \in BOOLEAN, NEW p, NEW why, Failed(p, why)
  PROVE  Works(p)
<1>1. disk' = disk /\ damaged' = damaged /\ Orphaned(p) BY DEF Failed
<1> QED BY <1>1, WorksAlone

\* The doe plugin has nothing to settle.
LEMMA DoeWorks ==
  ASSUME LearnInv, NEW p \in plugins, DoeBegin(p) \/ DoeTotal(p) \/ DoeDesign(p) \/ DoeWrite(p)
  PROVE  Works(p)
<1>1. VariablesOK /\ DiskOK(disk) /\ ProcessOK(p) /\ ReadOK(p)
  BY DEF LearnInv, VariablesOK, PluginsOK
<1>0. damaged \in BOOLEAN BY DEF LearnInv, VariablesOK
<1>2. ASSUME p.kind = "doe", NEW at, NEW read, Moved(p, at, read) PROVE Advanced(p)
  BY <1>2, Constants, MovedAdvances
<1>3. CASE DoeBegin(p)
  <2>1. DoeBeginDoes(p) BY <1>1, <1>3, DoeBeginIs
  <2>2. p.kind = "doe" /\ Quiet BY <2>1 DEF DoeBeginDoes
  <2>3. CASE /\ Moved(p, "total", Allowed) /\ UNCHANGED damaged
             /\ \E part \in SUBSET Allowed :
                  DiskBecomes(part, disk.doe, disk.table, disk.models, disk.clusters,
                              disk.predictions, Opened("total"), "ready", disk.local)
    <3>1. /\ disk'.table = disk.table /\ disk'.models = disk.models /\ disk'.clusters = disk.clusters
          /\ disk'.predictions = disk.predictions /\ disk'.partial = disk.partial \cup {"total"}
      BY <2>3, DiskIs DEF Opened
    <3>2. Advanced(p) BY <1>2, <2>2, <2>3
    <3> QED BY <1>0, <2>2, <2>3, <3>1, <3>2, WorksAlone
  <2>4. CASE Moved(p, "design", disk.total) /\ Damage({"total"}) /\ disk' = disk
    <3>1. damaged' \in BOOLEAN /\ (damaged = TRUE => damaged' = TRUE) BY <1>0, <2>4, DamageDone
    <3>2. Advanced(p) BY <1>2, <2>2, <2>4
    <3> QED BY <2>2, <2>4, <3>1, <3>2, WorksAlone
  <2> QED BY <2>1, <2>3, <2>4 DEF DoeBeginDoes
<1>4. CASE DoeTotal(p)
  <2>1. DoeTotalDoes(p) BY <1>1, <1>4, DoeTotalIs
  <2>2. p.kind = "doe" /\ Quiet /\ damaged' = damaged /\ Moved(p, "design", Allowed)
    BY <2>1 DEF DoeTotalDoes
  <2>3. /\ disk'.table = disk.table /\ disk'.models = disk.models /\ disk'.clusters = disk.clusters
        /\ disk'.predictions = disk.predictions /\ disk'.partial = disk.partial \ {"total"}
    BY <1>1, <2>1, FilesAre DEF Closed, DoeTotalDoes
  <2>4. Advanced(p) BY <1>2, <2>2
  <2> QED BY <1>0, <2>2, <2>3, <2>4, WorksAlone
<1>5. CASE DoeDesign(p)
  <2>1. DoeDesignDoes(p) BY <1>1, <1>5, DoeDesignIs
  <2>2. p.kind = "doe" /\ Quiet /\ damaged' = damaged BY <2>1 DEF DoeDesignDoes
  <2>3. PICK design \in CreateDoe : \E part \in SUBSET (design \cap p.read) :
          /\ FilesBecome(disk.total, Rows(part), disk.models, disk.clusters, disk.predictions, Opened("doe"))
          /\ Moved(p, "write", design \cap p.read)
    BY <2>1 DEF DoeDesignDoes
  <2>4. /\ disk'.table = disk.table /\ disk'.models = disk.models /\ disk'.clusters = disk.clusters
        /\ disk'.predictions = disk.predictions /\ disk'.partial = disk.partial \cup {"doe"}
    BY <1>1, <2>3, FilesAre DEF Opened
  <2>5. Advanced(p) BY <1>2, <2>2, <2>3
  <2> QED BY <1>0, <2>2, <2>4, <2>5, WorksAlone
<1>6. CASE DoeWrite(p)
  <2>1. DoeWriteDoes(p) BY <1>1, <1>6, DoeWriteIs
  <2>2. p.kind = "doe" /\ Quiet /\ damaged' = damaged /\ Ends(p) BY <2>1 DEF DoeWriteDoes
  <2>3. /\ disk'.table = disk.table /\ disk'.models = disk.models /\ disk'.clusters = disk.clusters
        /\ disk'.predictions = disk.predictions /\ disk'.partial = disk.partial \ {"doe"}
    BY <1>1, <2>1, FilesAre DEF Closed, DoeWriteDoes
  <2>4. Settled(p)
    <3>1. p.kind \notin DOMAIN setup.plugin BY <1>1, <2>2, SetupFacts, Constants DEF VariablesOK
    <3> QED BY <2>2, <3>1 DEF Settled
  <2> QED BY <1>0, <2>2, <2>3, <2>4, WorksAlone
<1> QED BY <1>3, <1>4, <1>5, <1>6

\* Looking for the encoders.
LEMMA EncodersWork ==
  ASSUME LearnInv, NEW p \in plugins, NEW workspace, NEW there, NEW global,
         EncodersDoes(p, workspace, there, global), there # "write"
  PROVE  Works(p)
<1>1. DiskOK(disk) /\ Quiet /\ damaged' = damaged BY DEF LearnInv, VariablesOK, EncodersDoes
<1>0. damaged \in BOOLEAN BY DEF LearnInv, VariablesOK
<1>2. ASSUME NEW why, Failed(p, why) PROVE Works(p) BY <1>0, <1>1, <1>2, FailedWorks
<1>3. CASE Moved(p, there, p.read) /\ disk' = disk
  <2>1. Advanced(p) BY <1>3, MovedAdvances
  <2> QED BY <1>0, <1>1, <1>3, <2>1, WorksAlone
<1>4. CASE /\ Moved(p, "save", p.read)
           /\ EncodersBecome(global, [disk.local EXCEPT ![workspace] = "torn"])
  <2>1. /\ disk'.table = disk.table /\ disk'.models = disk.models /\ disk'.clusters = disk.clusters
        /\ disk'.predictions = disk.predictions /\ disk'.partial = disk.partial
    BY <1>1, <1>4, EncodersAre
  <2>2. Advanced(p) BY <1>4, MovedAdvances
  <2> QED BY <1>0, <1>1, <2>1, <2>2, WorksAlone
<1> QED BY <1>2, <1>3, <1>4 DEF EncodersDoes

\* In the last iteration any model is taken.
LEMMA ForcedAtTop ==
  ASSUME NEW p, p.iteration = Top, p.kind \in DOMAIN setup.plugin
  PROVE  Forced(p)
<1>1. CASE setup.plugin[p.kind] = "model"
  <2>1. p.iteration > MaxIteration BY <1>1, Constants DEF Top
  <2> QED BY <1>1, <2>1 DEF Forced
<1>2. CASE setup.plugin[p.kind] # "model"
  <2>1. p.iteration >= MaxIteration BY Constants DEF Top
  <2> QED BY <1>2, <2>1 DEF Forced
<1> QED BY <1>1, <1>2

\* There is an iteration before the last, and the first one is below it.
LEMMA FirstIsLow ==
  ASSUME server'.iteration = 0
  PROVE  TopInv'
<1>1. Top' \in Nat /\ Top' >= 1 BY Constants DEF Top
<1>2. server'.iteration <= Top' /\ server'.iteration # Top' BY <1>1
<1> QED BY <1>2 DEF TopInv, Bounded

\* The last iteration is always the same.
LEMMA TopStays ==
  ASSUME setup' = setup
  PROVE  Top' = Top /\ Top \in Nat /\ (Clusters' <=> Clusters)
BY Constants DEF Top, Clusters

\* A model plugin that ends has left a model, or there is an iteration left.
LEMMA ModelWorks ==
  ASSUME LearnInv, WrittenInv, NEW p \in plugins,
         ModelBegin(p) \/ ModelEncoders(p) \/ EncodersSaved(p) \/ ModelFit(p) \/ ModelWrite(p)
  PROVE  Works(p)
<1>1. VariablesOK /\ DiskOK(disk) /\ ProcessOK(p) /\ ReadOK(p)
  BY DEF LearnInv, VariablesOK, PluginsOK
<1>0. damaged \in BOOLEAN BY DEF LearnInv, VariablesOK
<1>2. CASE ModelBegin(p)
  <2>1. ModelBeginDoes(p) BY <1>1, <1>2, ModelBeginIs
  <2>2. p.kind \in Metrics /\ Quiet /\ damaged' = damaged /\ disk' = disk BY <2>1 DEF ModelBeginDoes
  <2>3. ASSUME NEW why, Failed(p, why) PROVE Works(p) BY <1>0, <2>2, <2>3, FailedWorks
  <2>4. CASE disk.table = 0 /\ Ends(p)
    <3>1. Settled(p) BY <2>2, <2>4, Constants DEF Settled
    <3> QED BY <1>0, <2>2, <2>4, <3>1, WorksAlone
  <2>5. CASE Moved(p, "encoders", 1 .. disk.table)
    <3>1. Advanced(p) BY <2>5, MovedAdvances
    <3> QED BY <1>0, <2>2, <3>1, WorksAlone
  <2> QED BY <2>1, <2>3, <2>4, <2>5 DEF ModelBeginDoes
<1>3. CASE ModelEncoders(p)
  <2>1. p.at = "encoders" /\ Quiet /\ Encoders(p, setup.plugin[p.kind], "fit", "ready")
    BY <1>3 DEF ModelEncoders, Plugin, Quiet
  <2>2. EncodersDoes(p, setup.plugin[p.kind], "fit", "ready") BY <1>1, <2>1, EncodersIs
  <2> QED BY <2>2, EncodersWork
<1>4. CASE EncodersSaved(p)
  <2>1. EncodersSavedDoes(p) BY <1>1, <1>4, EncodersSavedIs
  <2>2. Quiet /\ damaged' = damaged BY <2>1 DEF EncodersSavedDoes
  <2>3. EncodersBecome(disk.global, [disk.local EXCEPT ![Workspace(p)] = "ready"])
    BY <2>1 DEF EncodersSavedDoes
  <2>4. /\ disk'.table = disk.table /\ disk'.models = disk.models /\ disk'.clusters = disk.clusters
        /\ disk'.predictions = disk.predictions /\ disk'.partial = disk.partial
    BY <1>1, <2>3, EncodersAre
  <2>5. PICK at \in {"load", "fit"} : Moved(p, at, p.read) BY <2>1 DEF EncodersSavedDoes, AfterEncoders
  <2>6. Advanced(p) BY <2>5, MovedAdvances
  <2> QED BY <1>0, <2>2, <2>4, <2>6, WorksAlone
<1>5. CASE ModelFit(p)
  <2>1. ModelFitDoes(p) BY <1>1, <1>5, ModelFitIs
  <2>2. p.kind \in Metrics /\ Quiet /\ damaged' = damaged BY <2>1 DEF ModelFitDoes
  <2>3. ASSUME NEW why, Failed(p, why) PROVE Works(p) BY <1>0, <2>2, <2>3, FailedWorks
  <2>4. CASE Moved(p, "write", p.read)
             /\ FilesBecome(disk.total, disk.doe, disk.models \cup {p.kind}, disk.clusters,
                            disk.predictions, Opened(p.kind))
    <3>1. /\ disk'.table = disk.table /\ disk'.models = disk.models \cup {p.kind}
          /\ disk'.clusters = disk.clusters /\ disk'.predictions = disk.predictions
          /\ disk'.partial = disk.partial \cup {p.kind}
      BY <1>1, <2>4, FilesAre DEF Opened
    <3>2. Advanced(p) BY <2>4, <3>1, MovedAdvances
    <3>3. HasPredictions(disk) => HasPredictions(disk') BY <3>1 DEF HasPredictions
    <3>4. damaged' \in BOOLEAN /\ (damaged = TRUE => damaged' = TRUE) BY <1>0, <2>2
    <3>5. disk.models \subseteq disk'.models /\ (disk.clusters # None => disk'.clusters # None) BY <3>1
    <3>6. setup' = setup /\ life' = life BY <2>2 DEF Quiet
    <3> QED BY <3>1, <3>2, <3>3, <3>4, <3>5, <3>6, Zenon DEF Works
  <2>5. CASE ~Forced(p) /\ Ends(p) /\ disk' = disk
    <3>1. p.kind \in DOMAIN setup.plugin => p.iteration # Top BY <2>5, ForcedAtTop
    <3>2. Settled(p) BY <2>2, <3>1, Constants DEF Settled
    <3> QED BY <1>0, <2>2, <2>5, <3>2, WorksAlone
  <2> QED BY <2>1, <2>3, <2>4, <2>5 DEF ModelFitDoes
<1>6. CASE ModelWrite(p)
  <2>1. ModelWriteDoes(p) BY <1>1, <1>6, ModelWriteIs
  <2>2. p.kind \in Metrics /\ p.at = "write" /\ Quiet /\ damaged' = damaged /\ Ends(p)
    BY <2>1 DEF ModelWriteDoes
  <2>3. /\ disk'.table = disk.table /\ disk'.models = disk.models /\ disk'.clusters = disk.clusters
        /\ disk'.predictions = disk.predictions /\ disk'.partial = disk.partial \ {p.kind}
    BY <1>1, <2>1, FilesAre DEF Closed, ModelWriteDoes
  <2>4. p.kind \in disk.models BY <2>2 DEF WrittenInv
  <2>5. Settled(p) BY <2>2, <2>3, <2>4, Constants DEF Settled
  <2>6. "predictions" \in disk.partial => "predictions" \in disk'.partial BY <2>2, <2>3, Constants
  <2> QED BY <1>0, <2>2, <2>3, <2>5, <2>6, WorksAlone
<1> QED BY <1>2, <1>3, <1>4, <1>5, <1>6

\* A cluster plugin that ends has left the clusters.
LEMMA ClusterWorks ==
  ASSUME LearnInv, NEW p \in plugins, ClusterBegin(p) \/ ClusterWrite(p)
  PROVE  Works(p)
<1>1. VariablesOK /\ DiskOK(disk) /\ ProcessOK(p) /\ ReadOK(p)
  BY DEF LearnInv, VariablesOK, PluginsOK
<1>0. damaged \in BOOLEAN BY DEF LearnInv, VariablesOK
<1>2. \A S \in SUBSET Centroids : S # None BY NoneAssumption DEF NoneAssumption
<1>3. CASE ClusterBegin(p)
  <2>1. ClusterBeginDoes(p) BY <1>1, <1>3, ClusterBeginIs
  <2>2. p.kind = "cluster" /\ Quiet /\ damaged' = damaged BY <2>1 DEF ClusterBeginDoes
  <2>3. ASSUME NEW why, Failed(p, why) PROVE Works(p) BY <1>0, <2>2, <2>3, FailedWorks
  <2>4. ASSUME NEW found \in SUBSET Centroids, NEW part \in SUBSET found,
               FilesBecome(disk.total, disk.doe, disk.models, part, disk.predictions, Opened("clusters")),
               Moved(p, "write", found)
        PROVE  Works(p)
    <3>1. /\ disk'.table = disk.table /\ disk'.models = disk.models /\ disk'.clusters = part
          /\ disk'.predictions = disk.predictions /\ disk'.partial = disk.partial \cup {"clusters"}
      BY <1>1, <2>4, FilesAre DEF Opened
    <3>2. Advanced(p) BY <2>2, <2>4, Constants, MovedAdvances
    <3>3. HasPredictions(disk) => HasPredictions(disk') BY <3>1 DEF HasPredictions
    <3>4. damaged' \in BOOLEAN /\ (damaged = TRUE => damaged' = TRUE) BY <1>0, <2>2
    <3>5. disk.models \subseteq disk'.models /\ disk'.clusters # None
      <4>1. part \in SUBSET Centroids BY <2>4
      <4> QED BY <1>2, <3>1, <4>1
    <3>6. setup' = setup /\ life' = life BY <2>2 DEF Quiet
    <3> QED BY <3>1, <3>2, <3>3, <3>4, <3>5, <3>6, Zenon DEF Works
  <2> QED BY <2>1, <2>3, <2>4 DEF ClusterBeginDoes
<1>4. CASE ClusterWrite(p)
  <2>1. ClusterWriteDoes(p) BY <1>1, <1>4, ClusterWriteIs
  <2>2. p.kind = "cluster" /\ p.at = "write" /\ Quiet /\ damaged' = damaged /\ Ends(p)
    BY <2>1 DEF ClusterWriteDoes
  <2>3. /\ disk'.table = disk.table /\ disk'.models = disk.models /\ disk'.clusters = p.read
        /\ disk'.predictions = disk.predictions /\ disk'.partial = disk.partial \ {"clusters"}
    BY <1>1, <2>1, FilesAre DEF Closed, ClusterWriteDoes
  <2>4. disk'.clusters # None BY <1>1, <1>2, <2>2, <2>3 DEF ReadOK
  <2>5. Settled(p)
    <3>1. p.kind \notin DOMAIN setup.plugin BY <1>1, <2>2, SetupFacts, Constants DEF VariablesOK
    <3> QED BY <2>2, <2>4, <3>1 DEF Settled
  <2>6. HasPredictions(disk) => HasPredictions(disk') BY <2>3 DEF HasPredictions
  <2>7. damaged' \in BOOLEAN /\ (damaged = TRUE => damaged' = TRUE) BY <1>0, <2>2
  <2>8. setup' = setup /\ life' = life /\ disk.models \subseteq disk'.models BY <2>2, <2>3 DEF Quiet
  <2> QED BY <2>2, <2>3, <2>4, <2>5, <2>6, <2>7, <2>8, Zenon DEF Works
<1> QED BY <1>3, <1>4

\* A prediction that ends has left predictions, unless it read a file that was open.
LEMMA PredictWorks ==
  ASSUME LearnInv, WholeInv, NEW p \in plugins,
         PredictBegin(p) \/ PredictEncoders(p) \/ PredictLoad(p) \/ PredictWrite(p)
  PROVE  Works(p)
<1>1. VariablesOK /\ DiskOK(disk) /\ ProcessOK(p) /\ ReadOK(p)
  BY DEF LearnInv, VariablesOK, PluginsOK
<1>0. damaged \in BOOLEAN BY DEF LearnInv, VariablesOK
<1>2. ASSUME p.kind = "predict", NEW at, NEW read, Moved(p, at, read) PROVE Advanced(p)
  BY <1>2, Constants, MovedAdvances
<1>3. CASE PredictBegin(p)
  <2> DEFINE files == {"total"} \cup IF setup.features THEN {"clusters"} ELSE {}
  <2>1. PredictBeginDoes(p) BY <1>1, <1>3, PredictBeginIs
  <2>0. CASE Failed(p, "no_table") BY <1>0, <2>0, <2>1, FailedWorks DEF PredictBeginDoes
  <2> SUFFICES ASSUME ~Failed(p, "no_table") PROVE Works(p) BY <2>0
  <2>2. p.kind = "predict" /\ Quiet /\ disk' = disk /\ Moved(p, "encoders", Predictable)
    BY <2>1, Zenon DEF PredictBeginDoes
  <2>3. Damage(files) BY <2>1, Zenon DEF PredictBeginDoes
  <2> HIDE DEF files
  <2>4. damaged' \in BOOLEAN /\ (damaged = TRUE => damaged' = TRUE) BY <1>0, <2>3, DamageDone
  <2>5. Advanced(p) BY <1>2, <2>2
  <2> QED BY <2>2, <2>4, <2>5, WorksAlone
<1>4. CASE PredictEncoders(p)
  <2>1. p.at = "encoders" /\ Quiet /\ Encoders(p, "predict", "load", "absent")
    BY <1>4 DEF PredictEncoders, Plugin, Quiet
  <2>2. EncodersDoes(p, "predict", "load", "absent") BY <1>1, <2>1, EncodersIs
  <2> QED BY <2>2, EncodersWork
<1>5. CASE PredictLoad(p)
  <2>1. PredictLoadDoes(p) BY <1>1, <1>5, PredictLoadIs
  <2>2. p.kind = "predict" /\ Quiet /\ damaged' = damaged BY <2>1 DEF PredictLoadDoes
  <2>3. ASSUME NEW why, Failed(p, why) PROVE Works(p) BY <1>0, <2>2, <2>3, FailedWorks
  <2>4. ASSUME Moved(p, "write", p.read), NEW part \in SUBSET p.read,
               FilesBecome(disk.total, disk.doe, disk.models, disk.clusters, part, Opened("predictions"))
        PROVE  Works(p)
    <3>1. /\ disk'.table = disk.table /\ disk'.models = disk.models /\ disk'.clusters = disk.clusters
          /\ disk'.partial = disk.partial \cup {"predictions"}
      BY <1>1, <2>4, FilesAre DEF Opened
    <3>2. Advanced(p) BY <1>2, <2>2, <2>4
    <3>3. HasPredictions(disk') BY <3>1 DEF HasPredictions
    <3>4. damaged' \in BOOLEAN /\ (damaged = TRUE => damaged' = TRUE) BY <1>0, <2>2
    <3>5. disk.models \subseteq disk'.models /\ (disk.clusters # None => disk'.clusters # None) BY <3>1
    <3>6. setup' = setup /\ life' = life BY <2>2 DEF Quiet
    <3> QED BY <3>1, <3>2, <3>3, <3>4, <3>5, <3>6, Zenon DEF Works
  <2> QED BY <2>1, <2>3, <2>4 DEF PredictLoadDoes
<1>6. CASE PredictWrite(p)
  <2>1. PredictWriteDoes(p) BY <1>1, <1>6, PredictWriteIs
  <2>2. p.kind = "predict" /\ p.at = "write" /\ Quiet /\ damaged' = damaged /\ Ends(p)
    BY <2>1 DEF PredictWriteDoes
  <2>3. /\ disk'.table = disk.table /\ disk'.models = disk.models /\ disk'.clusters = disk.clusters
        /\ disk'.predictions = p.read
    BY <1>1, <2>1, FilesAre DEF PredictWriteDoes
  <2>4. damaged' = TRUE \/ ~Clusters \/ HasPredictions(disk')
    <3>1. CASE damaged = TRUE BY <2>2, <3>1
    <3>2. CASE damaged = FALSE
      <4>1. Whole BY <3>2 DEF WholeInv
      <4>2. Clusters => p.read # {} BY <2>2, <4>1 DEF Whole, ReadWhole, ReadsWhole
      <4> QED BY <2>3, <4>2 DEF HasPredictions
    <3> QED BY <1>0, <3>1, <3>2
  <2>5. Settled(p)
    <3>1. p.kind \notin DOMAIN setup.plugin BY <1>1, <2>2, SetupFacts, Constants DEF VariablesOK
    <3> QED BY <2>2, <2>4, <3>1 DEF Settled
  <2>6. damaged' \in BOOLEAN /\ (damaged = TRUE => damaged' = TRUE) BY <1>0, <2>2
  <2>7. disk.models \subseteq disk'.models /\ (disk.clusters # None => disk'.clusters # None) BY <2>3
  <2>8. setup' = setup /\ life' = life BY <2>2 DEF Quiet
  <2> QED BY <2>2, <2>3, <2>4, <2>5, <2>6, <2>7, <2>8, Zenon DEF Works
<1> QED BY <1>3, <1>4, <1>5, <1>6

\* Any step of a plugin.
LEMMA PluginWorks ==
  ASSUME LearnInv, WholeInv, WrittenInv, NEW p \in plugins, PluginStep(p)
  PROVE  Works(p)
BY DoeWorks, ModelWorks, ClusterWorks, PredictWorks, Zenon DEF PluginStep

\* A server that ends has no iteration.
LEMMA DownIsLow ==
  ASSUME Downed
  PROVE  server'.phase = "down" /\ TopInv'
<1>1. server'.phase = "down" /\ server'.iteration = 0 BY BecomesIs DEF Downed
<1> QED BY <1>1, FirstIsLow

\* What a plugin of this server does, the handler finds.
LEMMA WorkKept ==
  ASSUME LearnInv, IterInv, NEW p \in plugins, Works(p)
  PROVE  IterInv'
<1>0. damaged \in BOOLEAN /\ damaged' \in BOOLEAN BY DEF LearnInv, VariablesOK, Works
<1>1. /\ setup' = setup /\ life' = life /\ disk'.table = disk.table
      /\ disk.models \subseteq disk'.models /\ (disk.clusters # None => disk'.clusters # None)
      /\ HasPredictions(disk) => damaged' = TRUE \/ ~Clusters \/ HasPredictions(disk')
  BY DEF Works
<1>2. CASE Downed /\ plugins' = plugins \ {p}
  <2>1. server'.phase = "down" /\ TopInv' BY <1>2, DownIsLow
  <2>2. RunInv' BY <2>1 DEF RunInv
  <2>3. WrittenInv' BY <1>1, <1>2 DEF IterInv, WrittenInv
  <2> QED BY <2>1, <2>2, <2>3 DEF IterInv
<1>3. ASSUME server' = server, RunInv', WrittenInv',
             \A k : Runs(k) => Runs(k)' \/ (p.born = life /\ p.kind = k /\ Settled(p))
      PROVE  IterInv'
  <2> SUFFICES ASSUME damaged' = FALSE, Clusters PROVE Bounded'
    BY <1>1, <1>3, TopStays DEF IterInv, TopInv
  <2>1. damaged = FALSE BY <1>0 DEF Works
  <2>2. server.iteration <= Top BY <2>1 DEF IterInv, TopInv, Bounded
  <2>3. ASSUME server.iteration = Top PROVE AtTop'
    <3>1. AtTop BY <2>1, <2>3 DEF IterInv, TopInv, Bounded
    <3>2. HasPredictions(disk) => HasPredictions(disk)' BY <1>1 DEF HasPredictions
    <3>3. ASSUME server.phase = "waiting", server.next = "models"
          PROVE  /\ disk'.table # 0
                 /\ \A m \in DOMAIN setup.plugin : m \in disk'.models \/ Runs(m)'
                 /\ setup.features = TRUE => disk'.clusters # None \/ Runs("cluster")'
      <4>1. disk'.table # 0 /\ disk.table # 0 BY <1>1, <3>1, <3>3 DEF AtTop
      <4>2. p.born = life => p.iteration = Top BY <2>3, <3>3 DEF IterInv, RunInv
      <4>3. ASSUME NEW m \in DOMAIN setup.plugin PROVE m \in disk'.models \/ Runs(m)'
        <5>1. m \in disk.models \/ Runs(m) BY <3>1, <3>3 DEF AtTop
        <5>3. ASSUME p.born = life, p.kind = m, Settled(p) PROVE m \in disk'.models
          BY <4>1, <4>2, <5>3 DEF Settled
        <5> QED BY <1>1, <1>3, <5>1, <5>3
      <4>4. setup.features = TRUE => disk'.clusters # None \/ Runs("cluster")'
        <5>1. setup.features = TRUE => disk.clusters # None \/ Runs("cluster") BY <3>1, <3>3 DEF AtTop
        <5>2. ASSUME p.kind = "cluster", Settled(p) PROVE disk'.clusters # None BY <5>2 DEF Settled
        <5> QED BY <1>1, <1>3, <5>1, <5>2
      <4> QED BY <4>1, <4>3, <4>4
    <3>4. ASSUME server.phase = "waiting", server.next = "prediction"
          PROVE  HasPredictions(disk)' \/ Runs("predict")'
      <4>1. HasPredictions(disk) \/ Runs("predict") BY <3>1, <3>4 DEF AtTop
      <4>2. ASSUME p.kind = "predict", Settled(p) PROVE HasPredictions(disk)'
        BY <4>2 DEF Settled, HasPredictions
      <4> QED BY <1>3, <3>2, <4>1, <4>2
    <3>5. /\ server.phase \in {"clueless", "waiting", "informed"}
          /\ server.phase = "waiting" => server.next \in {"models", "prediction"}
          /\ server.phase \in {"clueless", "informed"} => HasPredictions(disk)'
      BY <3>1, <3>2 DEF AtTop
    <3> QED BY <1>1, <1>3, <3>3, <3>4, <3>5 DEF AtTop
  <2>4. Top' = Top BY <1>1, TopStays
  <2> QED BY <1>3, <2>2, <2>3, <2>4 DEF Bounded
<1>4. CASE Advanced(p)
  <2>1. PICK q : /\ q.born = p.born /\ q.kind = p.kind /\ q.iteration = p.iteration
                 /\ q.kind \in Metrics /\ q.at = "write" => q.kind \in disk'.models
                 /\ plugins' = (plugins \ {p}) \cup {q}
    BY <1>4 DEF Advanced
  <2>2. server' = server BY <1>4 DEF Advanced
  <2>3. RunInv' BY <1>1, <2>1, <2>2 DEF IterInv, RunInv
  <2>4. WrittenInv' BY <1>1, <2>1 DEF IterInv, WrittenInv
  <2>5. \A k : Runs(k) => Runs(k)' BY <1>1, <2>1 DEF Runs
  <2> QED BY <1>3, <2>2, <2>3, <2>4, <2>5
<1>5. CASE server' = server /\ plugins' = plugins \ {p} /\ (p.born = life => Settled(p))
  <2>1. RunInv' BY <1>1, <1>5 DEF IterInv, RunInv
  <2>2. WrittenInv' BY <1>1, <1>5 DEF IterInv, WrittenInv
  <2>3. \A k : Runs(k) => Runs(k)' \/ (p.born = life /\ p.kind = k /\ Settled(p))
    BY <1>1, <1>5 DEF Runs
  <2> QED BY <1>3, <1>5, <2>1, <2>2, <2>3
<1>6. CASE server' = server /\ plugins' = plugins \ {p} /\ server.phase = "down"
  <2>1. RunInv' BY <1>6 DEF RunInv
  <2>2. WrittenInv' BY <1>1, <1>6 DEF IterInv, WrittenInv
  <2>3. TopInv'
    <3> SUFFICES ASSUME damaged' = FALSE, Clusters PROVE Bounded'
      BY <1>1, TopStays DEF TopInv
    <3>1. damaged = FALSE BY <1>0 DEF Works
    <3>2. server.iteration <= Top /\ server.iteration # Top
      BY <1>6, <3>1 DEF IterInv, TopInv, Bounded, AtTop
    <3>3. Top' = Top BY <1>1, TopStays
    <3> QED BY <1>6, <3>2, <3>3 DEF Bounded
  <2> QED BY <2>1, <2>2, <2>3 DEF IterInv
<1>7. CASE Ends(p) /\ Settled(p) BY <1>5, <1>7 DEF Ends
<1>8. CASE Orphaned(p) BY <1>2, <1>5, <1>6, <1>8 DEF Orphaned
<1> QED BY <1>4, <1>7, <1>8 DEF Works

\* Departures, deaths and restarts keep what is known of the iterations.
LEMMA FaultKept ==
  ASSUME LearnInv, IterInv, Bye \/ Crash \/ Shutdown \/ Restart \/ \E p \in plugins : Kill(p)
  PROVE  IterInv'
<1>1. VariablesOK /\ PluginsOK /\ life \in Nat BY DEF LearnInv, VariablesOK
<1>0. damaged \in BOOLEAN BY DEF LearnInv, VariablesOK
<1>2. ASSUME Downed, WrittenInv' PROVE IterInv'
  <2>1. server'.phase = "down" /\ TopInv' BY <1>2, DownIsLow
  <2>2. RunInv' BY <2>1 DEF RunInv
  <2> QED BY <1>2, <2>1, <2>2 DEF IterInv
<1>3. CASE Bye
  <2>1. ByeDoes BY <1>1, <1>3, ByeIs
  <2>2. server'.phase = "clueless" /\ server'.iteration = server.iteration BY <2>1, BecomesIs DEF ByeDoes
  <2>3. UNCHANGED <<setup, disk, plugins, life, damaged>>
        /\ server.phase \in {"exploring", "informed", "undefined"}
    BY <2>1 DEF ByeDoes
  <2>4. RunInv' BY <2>2, <2>3 DEF IterInv, RunInv
  <2>5. WrittenInv' BY <2>3 DEF IterInv, WrittenInv
  <2>6. TopInv'
    <3> SUFFICES ASSUME damaged' = FALSE, Clusters PROVE Bounded'
      BY <2>3, TopStays DEF TopInv
    <3>1. server.iteration <= Top /\ (server.iteration = Top => AtTop)
      BY <2>3 DEF IterInv, TopInv, Bounded
    <3>2. server.iteration = Top => HasPredictions(disk)' BY <2>3, <3>1 DEF AtTop, HasPredictions
    <3>3. Top' = Top BY <2>3, TopStays
    <3> QED BY <2>2, <3>1, <3>2, <3>3 DEF AtTop, Bounded
  <2> QED BY <2>4, <2>5, <2>6 DEF IterInv
<1>4. CASE Crash
  <2>1. CrashDoes BY <1>4, CrashIs
  <2> QED BY <1>2, <2>1 DEF CrashDoes, IterInv, WrittenInv
<1>5. CASE Shutdown
  <2>1. ShutdownDoes BY <1>1, <1>5, ShutdownIs
  <2>2. \A q \in plugins' : q.at # "write" BY <2>1 DEF ShutdownDoes, Survives, AfterEncoders
  <2> QED BY <1>2, <2>1, <2>2 DEF ShutdownDoes, WrittenInv
<1>6. CASE Restart
  <2>1. RestartDoes BY <1>6, RestartIs
  <2>2. server'.phase = "clueless" /\ server'.iteration = 0 BY <2>1, BecomesIs DEF RestartDoes
  <2>3. UNCHANGED <<disk, plugins>> /\ life' = life + 1 BY <2>1 DEF RestartDoes
  <2>4. \A p \in plugins : p.born # life'
    <3>1. \A p \in plugins : p.born \in 1 .. life BY <1>1 DEF PluginsOK, ProcessOK
    <3> QED BY <1>1, <2>3, <3>1
  <2>5. RunInv' BY <2>2, <2>3, <2>4 DEF RunInv
  <2>6. WrittenInv' BY <2>3 DEF IterInv, WrittenInv
  <2>7. TopInv' BY <2>2, FirstIsLow
  <2> QED BY <2>5, <2>6, <2>7 DEF IterInv
<1>7. ASSUME NEW p \in plugins, Kill(p) PROVE IterInv'
  <2>1. KillDoes(p) BY <1>7, KillIs
  <2>2. UNCHANGED <<setup, disk, life, damaged>> /\ Orphaned(p) BY <2>1 DEF KillDoes
  <2>3. Works(p) BY <1>0, <2>2 DEF Works
  <2> QED BY <2>3, WorkKept
<1> QED BY <1>3, <1>4, <1>5, <1>6, <1>7

\* The handler goes on when none of its plugins runs.
LEMMA NobodyRuns ==
  ASSUME LearnInv, RunInv,
         Welcome \/ Recovered \/ DoeCreated \/ Observation \/ ModelsBuilt \/ Predicted
  PROVE  \A p \in plugins : p.born # life
<1>1. VariablesOK BY DEF LearnInv
<1>2. ASSUME NEW next, Waited(next) PROVE \A p \in plugins : p.born # life
  BY <1>2 DEF Waited, Running
<1>3. CASE Welcome
  <2>1. server.phase = "clueless" BY <1>1, <1>3, WelcomeIs DEF WelcomeDoes
  <2> QED BY <2>1 DEF RunInv
<1>4. CASE Recovered BY <1>1, <1>2, <1>4, RecoveredIs DEF RecoveredDoes
<1>5. CASE DoeCreated BY <1>1, <1>2, <1>5, DoeCreatedIs DEF DoeCreatedDoes
<1>6. CASE Observation
  <2>1. server.phase = "exploring" BY <1>1, <1>6, ObservationIs DEF ObservationDoes
  <2> QED BY <2>1 DEF RunInv
<1>7. CASE ModelsBuilt BY <1>1, <1>2, <1>7, ModelsBuiltIs DEF ModelsBuiltDoes
<1>8. CASE Predicted BY <1>1, <1>2, <1>8, PredictedIs DEF PredictedDoes
<1> QED BY <1>3, <1>4, <1>5, <1>6, <1>7, <1>8

\* What the plugins of the last iteration leave is enough for an answer.
LEMMA HandlerKept ==
  ASSUME LearnInv, WholeInv, IterInv,
         Welcome \/ Recovered \/ DoeCreated \/ Observation \/ ModelsBuilt \/ Predicted
  PROVE  IterInv'
<1>1. VariablesOK /\ DiskOK(disk) /\ server.iteration \in Nat /\ setup \in Setups
      /\ LoadDoe \in Seq(Row) /\ Fresh \in [Confs -> Int] /\ given \in [Confs -> Int]
      /\ server.doe \in Seq(Row)
  BY LoadDoeOK DEF LearnInv, VariablesOK, HandlerOK, Fresh, Designs
<1>0. damaged \in BOOLEAN BY DEF LearnInv, VariablesOK
<1>2. Handled BY HandlerHandles
<1>3. \A p \in plugins : p.born # life BY NobodyRuns DEF IterInv
<1>4. RunInv' BY <1>2, <1>3 DEF Handled, Started, RunInv
<1>5. WrittenInv' BY <1>2 DEF Handled, Started, IterInv, WrittenInv
<1>21. setup' = setup BY <1>2 DEF Handled
<1> SUFFICES ASSUME damaged' = FALSE, Clusters PROVE Bounded'
  BY <1>4, <1>5, <1>21, TopStays DEF IterInv, TopInv
<1>6. damaged = FALSE BY <1>0, <1>2 DEF Handled
<1>7. server.iteration <= Top /\ (server.iteration = Top => AtTop)
  BY <1>6 DEF IterInv, TopInv, Bounded
<1>8. Whole BY <1>6 DEF WholeInv
<1>9. Top' = Top /\ Top \in Nat BY <1>21, TopStays
<1>10. \A k : ~Runs(k) BY <1>3 DEF Runs
<1>11. ASSUME server.iteration # Top, server'.iteration = server.iteration
       PROVE  Bounded'
  BY <1>7, <1>9, <1>11 DEF Bounded
<1>12. ASSUME NEW next, NEW doe, NEW cluster, HasPredictions(disk), disk' = disk,
              GoneTo("informed", next, doe, server.iteration, cluster, disk.predictions)
       PROVE  Bounded'
  <2>1. server'.phase = "informed" /\ server'.iteration = server.iteration BY <1>1, <1>12, GoneIs
  <2>2. HasPredictions(disk)' BY <1>12 DEF HasPredictions
  <2> QED BY <1>7, <1>9, <2>1, <2>2 DEF AtTop, Bounded
<1>13. ASSUME NEW doe \in Seq(Row), NEW counts \in [Confs -> Int], NEW cluster, NEW prediction,
              Explored(doe, counts, cluster, prediction)
       PROVE  server'.iteration = server.iteration
  BY <1>1, <1>13, ExploredIs
<1>14. ASSUME NEW phase, NEW next, NEW doe, NEW cluster, NEW prediction,
              GoneTo(phase, next, doe, server.iteration, cluster, prediction)
       PROVE  server'.iteration = server.iteration
  BY <1>1, <1>14, GoneIs
<1>15. CASE Welcome
  <2> DEFINE files == {"doe", "predictions"} \cup IF setup.features THEN {"clusters"} ELSE {}
  <2>1. WelcomeDoes BY <1>1, <1>15, WelcomeIs
  <2>2. Damage(files) /\ "predictions" \in files /\ disk' = disk /\ server.phase = "clueless"
    BY <2>1, Zenon DEF WelcomeDoes
  <2> HIDE DEF files
  <2>3. "predictions" \notin disk.partial
    <3>1. "predictions" \in disk.partial => damaged' = TRUE BY <1>0, <2>2, Spoilt
    <3> QED BY <3>1
  <2>4. CASE disk.predictions # {}
             /\ GoneTo("informed", "none", LoadDoe, server.iteration, Found, disk.predictions)
    <3>1. HasPredictions(disk) BY <2>4 DEF HasPredictions
    <3> QED BY <1>12, <2>2, <2>4, <3>1
  <2>5. CASE disk.predictions = {}
    <3>1. server.iteration # Top BY <1>7, <2>2, <2>3, <2>5 DEF AtTop, HasPredictions
    <3>2. server'.iteration = server.iteration
      BY <1>1, <1>13, <1>14, <2>1 DEF WelcomeDoes
    <3> QED BY <1>11, <3>1, <3>2
  <2> QED BY <2>1, <2>4, <2>5 DEF WelcomeDoes
<1>16. CASE Recovered
  <2>1. RecoveredDoes BY <1>1, <1>16, RecoveredIs
  <2>2. server.iteration # Top BY <1>7, <2>1 DEF RecoveredDoes, Waited, AtTop
  <2>3. server'.iteration = server.iteration BY <1>1, <1>13, <1>14, <2>1 DEF RecoveredDoes
  <2> QED BY <1>11, <2>2, <2>3
<1>17. CASE DoeCreated
  <2>1. DoeCreatedDoes BY <1>1, <1>17, DoeCreatedIs
  <2>2. server.iteration # Top BY <1>7, <2>1 DEF DoeCreatedDoes, Waited, AtTop
  <2>3. server'.iteration = server.iteration BY <1>1, <1>13, <1>14, <2>1 DEF DoeCreatedDoes
  <2> QED BY <1>11, <2>2, <2>3
<1>18. CASE Observation
  <2>1. ObservationDoes BY <1>1, <1>18, ObservationIs
  <2>2. server.iteration # Top BY <1>7, <2>1 DEF ObservationDoes, AtTop
  <2>3. CASE Explored(server.doe, given, server.cluster, server.prediction)
    <3>1. server'.iteration = server.iteration BY <1>1, <1>13, <2>3
    <3> QED BY <1>11, <2>2, <3>1
  <2>4. CASE /\ Launched(Models \cup Clustering)
             /\ GoneTo("waiting", "models", server.doe, server.iteration + 1, server.cluster,
                       server.prediction)
    <3>1. server'.phase = "waiting" /\ server'.next = "models" /\ server'.iteration = server.iteration + 1
      BY <1>1, <2>4, GoneIs
    <3>2. server'.iteration <= Top BY <1>1, <1>7, <1>9, <2>2, <3>1
    <3>3. TableBecomes(InsertObservation) /\ UNCHANGED <<setup, life>> BY <2>1 DEF ObservationDoes
    <3>4. disk'.table # 0
      <4>1. disk'.table = InsertObservation BY <3>3, TableIs
      <4>2. None # 0 BY NoneAssumption DEF NoneAssumption
      <4> QED BY <1>1, <4>1, <4>2, InsertedTable
    <3>5. \A k \in Models \cup Clustering : Runs(k)' BY <2>4, <3>3 DEF Launched, Runs
    <3>6. \A m \in DOMAIN setup'.plugin : Runs(m)' BY <3>3, <3>5 DEF Models
    <3>7. setup'.features = TRUE => Runs("cluster")' BY <3>3, <3>5 DEF Clustering
    <3> QED BY <1>9, <3>1, <3>2, <3>4, <3>6, <3>7 DEF AtTop, Bounded
  <2> QED BY <2>1, <2>3, <2>4 DEF ObservationDoes
<1>19. CASE ModelsBuilt
  <2> DEFINE files == IF setup.features THEN {"clusters"} ELSE {}
  <2>1. ModelsBuiltDoes BY <1>1, <1>19, ModelsBuiltIs
  <2>2. Damage(files) /\ disk' = disk /\ setup' = setup /\ life' = life /\ Waited("models")
    BY <2>1, Zenon DEF ModelsBuiltDoes
  <2>3. setup.features \in BOOLEAN BY <1>1, SetupFacts
  <2>4. setup.features = TRUE => "clusters" \in files BY <2>3
  <2> HIDE DEF files
  <2>5. setup.features = TRUE => "clusters" \notin disk.partial
    <3>1. setup.features = TRUE => ("clusters" \in disk.partial => damaged' = TRUE)
      BY <1>0, <2>2, <2>4, Spoilt
    <3> QED BY <3>1
  <2>6. server.iteration = Top => AreModelsValid /\ (setup.features = TRUE => Found # {})
    <3> SUFFICES ASSUME server.iteration = Top
                 PROVE  AreModelsValid /\ (setup.features = TRUE => Found # {})
      OBVIOUS
    <3>1. /\ \A m \in DOMAIN setup.plugin : m \in disk.models
          /\ setup.features = TRUE => disk.clusters # None
      BY <1>7, <1>10, <2>2 DEF AtTop, Waited
    <3>2. AreModelsValid BY <3>1 DEF AreModelsValid, IsModelValid
    <3>3. setup.features = TRUE => disk.clusters # {} BY <1>8, <2>5, WholeFiles DEF Clusters, Finds
    <3> QED BY <3>1, <3>2, <3>3 DEF Found, LoadCluster
  <2>7. CASE /\ Launched({"predict"})
             /\ GoneTo("waiting", "prediction", server.doe, server.iteration, Found, server.prediction)
    <3>1. server'.phase = "waiting" /\ server'.next = "prediction" /\ server'.iteration = server.iteration
      BY <1>1, <2>7, GoneIs
    <3>2. Runs("predict")' BY <2>2, <2>7 DEF Launched, Runs
    <3> QED BY <1>7, <1>9, <3>1, <3>2 DEF AtTop, Bounded
  <2>8. CASE ~(AreModelsValid /\ (setup.features => Found # {})) /\ LearntOn(Found, server.prediction)
    <3>1. server.iteration # Top BY <2>3, <2>6, <2>8
    <3>2. server'.iteration = server.iteration BY <1>1, <1>13, <1>14, <2>8 DEF LearntOn
    <3> QED BY <1>11, <3>1, <3>2
  <2> QED BY <2>1, <2>7, <2>8 DEF ModelsBuiltDoes
<1>20. CASE Predicted
  <2>1. PredictedDoes BY <1>1, <1>20, PredictedIs
  <2>2. Damage({"predictions"}) /\ disk' = disk /\ Waited("prediction") BY <2>1, Zenon DEF PredictedDoes
  <2>3. "predictions" \notin disk.partial
    <3>1. "predictions" \in {"predictions"} OBVIOUS
    <3>2. "predictions" \in disk.partial => damaged' = TRUE BY <1>0, <2>2, <3>1, Spoilt
    <3> QED BY <3>2
  <2>4. CASE /\ disk.predictions # {}
             /\ GoneTo("informed", "none", server.doe, server.iteration, server.cluster, disk.predictions)
    <3>1. HasPredictions(disk) BY <2>4 DEF HasPredictions
    <3> QED BY <1>12, <2>2, <2>4, <3>1
  <2>5. CASE disk.predictions = {} /\ LearntOn(server.cluster, {})
    <3>1. server.iteration # Top
      BY <1>7, <1>10, <2>2, <2>3, <2>5 DEF AtTop, HasPredictions, Waited
    <3>2. server'.iteration = server.iteration BY <1>1, <1>13, <1>14, <2>5 DEF LearntOn
    <3> QED BY <1>11, <3>1, <3>2
  <2> QED BY <2>1, <2>4, <2>5 DEF PredictedDoes
<1> QED BY <1>15, <1>16, <1>17, <1>18, <1>19, <1>20

\* IterInv holds in every state.
LEMMA IterAlways == LearnSpec => [](LearnInv /\ WholeInv /\ IterInv)
<1>1. LearnInit => IterInv
  <2> SUFFICES ASSUME LearnInit PROVE IterInv OBVIOUS
  <2>1. plugins = {} /\ server.phase = "clueless" /\ server.iteration = 0 BY DEF LearnInit, NewHandler
  <2>2. server.iteration <= Top /\ server.iteration # Top BY <2>1, Constants DEF Top
  <2> QED BY <2>1, <2>2 DEF IterInv, RunInv, WrittenInv, TopInv, Bounded
<1>2. LearnInv /\ WholeInv /\ IterInv /\ [LearnNext]_learnVars => IterInv'
  <2> SUFFICES ASSUME LearnInv, WholeInv, IterInv, [LearnNext]_learnVars PROVE IterInv' OBVIOUS
  <2>1. CASE UNCHANGED learnVars
    <3>1. Top' = Top /\ (Clusters' <=> Clusters) BY <2>1, TopStays DEF learnVars
    <3> QED BY <2>1, <3>1 DEF learnVars, IterInv, RunInv, WrittenInv, TopInv, Bounded, AtTop, Runs,
                              HasPredictions
  <2>2. CASE LearnNext
    <3>1. ASSUME NEW p \in plugins, PluginStep(p) PROVE IterInv'
      BY <3>1, PluginWorks, WorkKept DEF IterInv
    <3>2. CASE Welcome \/ Recovered \/ DoeCreated \/ Observation \/ ModelsBuilt \/ Predicted
      BY <3>2, HandlerKept, Zenon
    <3>3. CASE Bye \/ Crash \/ Shutdown \/ Restart \/ \E p \in plugins : Kill(p)
      BY <3>3, FaultKept, Zenon
    <3> QED BY <2>1, <2>2, <3>1, <3>2, <3>3, StepCases, Zenon
  <2> QED BY <2>1, <2>2
<1> QED BY <1>1, <1>2, WholeAlways, PTL DEF LearnSpec

\* The knowledge comes after at most max_number_iteration iterations, or one more if some
\* metric has the plugin model, for every size of a design and every number of metrics, also
\* when clients leave and come back and when plugins of an earlier server are still at work,
\* unless a file was read half-written or no algorithm makes clusters.
THEOREM IterationsEnd == LearnSpec => []LearningIsBounded
<1>1. LearnInv /\ IterInv => LearningIsBounded
  <2> SUFFICES ASSUME LearnInv, IterInv, ~damaged, Clusters PROVE server.iteration <= Top
    BY DEF LearningIsBounded, Top
  <2>1. damaged \in BOOLEAN BY DEF LearnInv, VariablesOK
  <2>2. damaged = FALSE BY <2>1
  <2> QED BY <2>2 DEF IterInv, TopInv, Bounded
<1> QED BY <1>1, IterAlways, PTL

-----------------------------------------------------------------------------
(* Observations are kept *)

\* There is a design, or one is being written.
DesignThere(d) == "doe" \in d.partial \/ d.doe \notin {None, <<>>}

\* Once there are observations no recovery starts with a new design.
KeptInv ==
  (damaged = FALSE /\ setup.algorithm = "full-factorial" /\ disk.table # None) =>
    /\ DesignThere(disk)
    /\ server.phase = "waiting" => server.next # "first_doe"
    /\ server.phase = "waiting" /\ server.next = "recovered" => server.doe # <<>>

\* The design stays on disk when a plugin other than doe writes.
LEMMA OthersKeepDesign ==
  ASSUME LearnInv, NEW p \in plugins, p.kind # "doe", PluginStep(p)
  PROVE  disk'.doe = disk.doe /\ ("doe" \in disk.partial => "doe" \in disk'.partial)
<1>1. VariablesOK /\ DiskOK(disk) /\ ProcessOK(p) /\ ReadOK(p)
  BY DEF LearnInv, VariablesOK, PluginsOK
<1>2. ASSUME disk' = disk PROVE disk'.doe = disk.doe /\ ("doe" \in disk.partial => "doe" \in disk'.partial)
  BY <1>2
<1>3. ASSUME NEW models, NEW clusters, NEW predictions, NEW partial, "doe" \in disk.partial => "doe" \in partial,
             FilesBecome(disk.total, disk.doe, models, clusters, predictions, partial)
      PROVE  disk'.doe = disk.doe /\ ("doe" \in disk.partial => "doe" \in disk'.partial)
  BY <1>1, <1>3, FilesAre
<1>4. ASSUME NEW global, NEW local, EncodersBecome(global, local)
      PROVE  disk'.doe = disk.doe /\ ("doe" \in disk.partial => "doe" \in disk'.partial)
  BY <1>1, <1>4, EncodersAre
<1>5. ASSUME NEW why, Failed(p, why) PROVE disk' = disk BY <1>5 DEF Failed
<1>6. ASSUME NEW workspace, NEW there, NEW global, EncodersDoes(p, workspace, there, global)
      PROVE  disk'.doe = disk.doe /\ ("doe" \in disk.partial => "doe" \in disk'.partial)
  BY <1>2, <1>4, <1>5, <1>6 DEF EncodersDoes
<1>7. ASSUME NEW f, f # "doe"
      PROVE  "doe" \in disk.partial => "doe" \in Opened(f) /\ "doe" \in Closed(f)
  BY <1>7 DEF Opened, Closed
<1>8. CASE DoeBegin(p) \/ DoeTotal(p) \/ DoeDesign(p) \/ DoeWrite(p)
  BY <1>8 DEF DoeBegin, DoeTotal, DoeDesign, DoeWrite, Plugin
<1>9. CASE ModelBegin(p)
  <2>1. ModelBeginDoes(p) BY <1>1, <1>9, ModelBeginIs
  <2> QED BY <1>2, <2>1 DEF ModelBeginDoes
<1>10. CASE ModelEncoders(p)
  <2>1. p.at = "encoders" /\ Quiet /\ Encoders(p, setup.plugin[p.kind], "fit", "ready")
    BY <1>10 DEF ModelEncoders, Plugin, Quiet
  <2>2. EncodersDoes(p, setup.plugin[p.kind], "fit", "ready") BY <1>1, <2>1, EncodersIs
  <2> QED BY <1>6, <2>2
<1>11. CASE EncodersSaved(p)
  <2>1. EncodersSavedDoes(p) BY <1>1, <1>11, EncodersSavedIs
  <2>2. EncodersBecome(disk.global, [disk.local EXCEPT ![Workspace(p)] = "ready"])
    BY <2>1 DEF EncodersSavedDoes
  <2> QED BY <1>4, <2>2
<1>12. CASE ModelFit(p)
  <2>1. ModelFitDoes(p) BY <1>1, <1>12, ModelFitIs
  <2>2. CASE FilesBecome(disk.total, disk.doe, disk.models \cup {p.kind}, disk.clusters,
                         disk.predictions, Opened(p.kind))
    <3>1. "doe" \in disk.partial => "doe" \in Opened(p.kind) BY <1>7
    <3> QED BY <1>3, <2>2, <3>1
  <2>3. CASE disk' = disk BY <1>2, <2>3
  <2> QED BY <1>5, <2>1, <2>2, <2>3 DEF ModelFitDoes
<1>13. CASE ModelWrite(p)
  <2>1. ModelWriteDoes(p) BY <1>1, <1>13, ModelWriteIs
  <2>2. "doe" \in disk.partial => "doe" \in Closed(p.kind) BY <1>7
  <2> QED BY <1>3, <2>1, <2>2 DEF ModelWriteDoes
<1>14. CASE ClusterBegin(p)
  <2>1. ClusterBeginDoes(p) BY <1>1, <1>14, ClusterBeginIs
  <2>2. "doe" \in disk.partial => "doe" \in Opened("clusters") BY <1>7
  <2>3. ASSUME NEW part,
               FilesBecome(disk.total, disk.doe, disk.models, part, disk.predictions, Opened("clusters"))
        PROVE  disk'.doe = disk.doe /\ ("doe" \in disk.partial => "doe" \in disk'.partial)
    BY <1>3, <2>2, <2>3
  <2> QED BY <1>2, <1>5, <2>1, <2>3 DEF ClusterBeginDoes
<1>15. CASE ClusterWrite(p)
  <2>1. ClusterWriteDoes(p) BY <1>1, <1>15, ClusterWriteIs
  <2>2. "doe" \in disk.partial => "doe" \in Closed("clusters") BY <1>7
  <2> QED BY <1>3, <2>1, <2>2 DEF ClusterWriteDoes
<1>16. CASE PredictBegin(p)
  <2>1. PredictBeginDoes(p) BY <1>1, <1>16, PredictBeginIs
  <2> QED BY <1>2, <2>1, Zenon DEF PredictBeginDoes
<1>17. CASE PredictEncoders(p)
  <2>1. p.at = "encoders" /\ Quiet /\ Encoders(p, "predict", "load", "absent")
    BY <1>17 DEF PredictEncoders, Plugin, Quiet
  <2>2. EncodersDoes(p, "predict", "load", "absent") BY <1>1, <2>1, EncodersIs
  <2> QED BY <1>6, <2>2
<1>18. CASE PredictLoad(p)
  <2>1. PredictLoadDoes(p) BY <1>1, <1>18, PredictLoadIs
  <2>2. "doe" \in disk.partial => "doe" \in Opened("predictions") BY <1>7
  <2>3. ASSUME NEW part,
               FilesBecome(disk.total, disk.doe, disk.models, disk.clusters, part, Opened("predictions"))
        PROVE  disk'.doe = disk.doe /\ ("doe" \in disk.partial => "doe" \in disk'.partial)
    BY <1>3, <2>2, <2>3
  <2> QED BY <1>2, <1>5, <2>1, <2>3 DEF PredictLoadDoes
<1>19. CASE PredictWrite(p)
  <2>1. PredictWriteDoes(p) BY <1>1, <1>19, PredictWriteIs
  <2>2. "doe" \in disk.partial => "doe" \in Closed("predictions") BY <1>7
  <2> QED BY <1>3, <2>1, <2>2 DEF PredictWriteDoes
<1> QED BY <1>8, <1>9, <1>10, <1>11, <1>12, <1>13, <1>14, <1>15, <1>16, <1>17, <1>18, <1>19, Zenon
        DEF PluginStep

\* A full factorial design is written over by a full factorial design.
LEMMA DesignStays ==
  ASSUME LearnInv, WholeInv, NEW p \in plugins, PluginStep(p), damaged = FALSE,
         setup.algorithm = "full-factorial", DesignThere(disk)
  PROVE  DesignThere(disk')
<1>1. VariablesOK /\ DiskOK(disk) /\ ProcessOK(p) /\ ReadOK(p)
  BY DEF LearnInv, VariablesOK, PluginsOK
<1>2. ASSUME disk'.doe = disk.doe, "doe" \in disk.partial => "doe" \in disk'.partial
      PROVE  DesignThere(disk')
  BY <1>2 DEF DesignThere
<1>3. CASE p.kind # "doe" BY <1>2, <1>3, OthersKeepDesign
<1>4. CASE DoeBegin(p)
  <2>1. DoeBeginDoes(p) BY <1>1, <1>4, DoeBeginIs
  <2>2. CASE \E part \in SUBSET Allowed :
               DiskBecomes(part, disk.doe, disk.table, disk.models, disk.clusters,
                           disk.predictions, Opened("total"), "ready", disk.local)
    <3>1. disk'.doe = disk.doe /\ disk'.partial = disk.partial \cup {"total"}
      BY <2>2, DiskIs DEF Opened
    <3> QED BY <1>2, <3>1
  <2>3. CASE disk' = disk BY <1>2, <2>3
  <2> QED BY <2>1, <2>2, <2>3 DEF DoeBeginDoes
<1>5. CASE DoeTotal(p)
  <2>1. DoeTotalDoes(p) BY <1>1, <1>5, DoeTotalIs
  <2>2. disk'.doe = disk.doe /\ disk'.partial = disk.partial \ {"total"}
    BY <1>1, <2>1, FilesAre DEF Closed, DoeTotalDoes
  <2> QED BY <1>2, <2>2
<1>6. CASE DoeDesign(p)
  <2>1. DoeDesignDoes(p) BY <1>1, <1>6, DoeDesignIs
  <2>2. disk'.partial = Opened("doe") BY <1>1, <2>1, FilesAre DEF DoeDesignDoes
  <2> QED BY <2>2 DEF DesignThere, Opened
<1>7. CASE DoeWrite(p)
  <2>1. DoeWriteDoes(p) BY <1>1, <1>7, DoeWriteIs
  <2>2. p.kind = "doe" /\ p.at = "write" BY <2>1 DEF DoeWriteDoes
  <2>3. p.read = Allowed BY <2>2 DEF WholeInv, Whole, ReadWhole, ReadsWhole
  <2>4. disk'.doe = Rows(Allowed) BY <1>1, <2>1, <2>3, FilesAre DEF DoeWriteDoes
  <2>5. Rows(Allowed) # None /\ Rows(Allowed) # <<>> BY Constants, RowsOfASet
  <2> QED BY <2>4, <2>5 DEF DesignThere
<1>8. CASE p.kind = "doe" /\ ~(DoeBegin(p) \/ DoeTotal(p) \/ DoeDesign(p) \/ DoeWrite(p))
  <2>1. p.kind \notin Metrics /\ p.kind # "cluster" /\ p.kind # "predict" BY <1>8, Constants
  <2> QED BY <1>8, <2>1, Zenon
          DEF PluginStep, ModelBegin, ModelEncoders, EncodersSaved, ModelFit, ModelWrite, ClusterBegin,
              ClusterWrite, PredictBegin, PredictEncoders, PredictLoad, PredictWrite, Plugin
<1> QED BY <1>3, <1>4, <1>5, <1>6, <1>7, <1>8

\* The table of observations after a step of the handler.
TableKept == disk.table # None => disk'.table # None /\ disk'.table >= disk.table

\* The handler makes a new table only when there is none: a recovery that would make one
\* finds the design instead.
LEMMA HandlerKeepsTable ==
  ASSUME LearnInv, KeptInv, damaged' = FALSE, setup.algorithm = "full-factorial",
         Welcome \/ Recovered \/ DoeCreated \/ Observation \/ ModelsBuilt \/ Predicted
  PROVE  TableKept /\ KeptInv'
<1>1. VariablesOK /\ DiskOK(disk) /\ server.doe \in Seq(Row)
      /\ LoadDoe \in Seq(Row) /\ Fresh \in [Confs -> Int] /\ given \in [Confs -> Int]
  BY LoadDoeOK DEF LearnInv, VariablesOK, HandlerOK, Fresh, Designs
<1>0. damaged \in BOOLEAN BY DEF LearnInv, VariablesOK
<1>2. Handled BY HandlerHandles
<1>3. damaged = FALSE BY <1>0, <1>2 DEF Handled
<1>4. DesignThere(disk) => DesignThere(disk)' BY <1>2 DEF Handled, DesignThere
<1>5. disk.table # None =>
        /\ DesignThere(disk)
        /\ server.phase = "waiting" => server.next # "first_doe"
        /\ server.phase = "waiting" /\ server.next = "recovered" => server.doe # <<>>
  BY <1>3 DEF KeptInv
<1>6. ASSUME disk' = disk PROVE TableKept
  <2>1. disk.table # None => disk.table \in Int BY <1>1, OnDisk, Constants
  <2> QED BY <1>6, <2>1 DEF TableKept
<1>7. ASSUME disk'.table # None => DesignThere(disk), server'.phase # "waiting"
      PROVE  KeptInv'
  BY <1>4, <1>7 DEF KeptInv
<1>8. ASSUME NEW doe \in Seq(Row), NEW counts \in [Confs -> Int], NEW cluster, NEW prediction,
             Explored(doe, counts, cluster, prediction), disk'.table # None => DesignThere(disk)
      PROVE  KeptInv'
  <2>1. server'.phase = "exploring" BY <1>1, <1>8, ExploredIs
  <2> QED BY <1>7, <1>8, <2>1
<1>9. ASSUME NEW next, next # "first_doe", next # "recovered", NEW phase, NEW doe, NEW iteration,
             NEW cluster, NEW prediction, GoneTo(phase, next, doe, iteration, cluster, prediction),
             disk'.table # None => DesignThere(disk)
      PROVE  KeptInv'
  <2>1. server'.next = next BY <1>1, <1>9, GoneIs
  <2> QED BY <1>4, <1>9, <2>1 DEF KeptInv
<1>10. ASSUME NEW cluster, NEW prediction, LearntOn(cluster, prediction), disk' = disk PROVE KeptInv'
  BY <1>1, <1>5, <1>8, <1>9, <1>10 DEF LearntOn
<1>11. CASE Welcome
  <2> DEFINE files == {"doe", "predictions"} \cup IF setup.features THEN {"clusters"} ELSE {}
  <2>1. WelcomeDoes BY <1>1, <1>11, WelcomeIs
  <2>2. Damage(files) /\ "doe" \in files /\ disk' = disk BY <2>1, Zenon DEF WelcomeDoes
  <2> HIDE DEF files
  <2>3. "doe" \notin disk.partial
    <3>1. "doe" \in disk.partial => damaged' = TRUE BY <1>0, <2>2, Spoilt
    <3> QED BY <3>1
  <2>4. disk.table # None => LoadDoe # <<>> BY <1>1, <1>5, <2>3, LoadDoeOK DEF DesignThere
  <2>5. CASE GoneTo("informed", "none", LoadDoe, server.iteration, Found, disk.predictions)
    BY <1>5, <1>6, <1>9, <2>2, <2>5
  <2>6. CASE GoneTo("waiting", "recovered", LoadDoe, server.iteration, Found, {})
    <3>1. server'.next = "recovered" /\ server'.doe = LoadDoe BY <1>1, <2>6, GoneIs
    <3>2. KeptInv' BY <1>4, <1>5, <2>2, <2>4, <3>1 DEF KeptInv
    <3> QED BY <1>6, <2>2, <3>2
  <2>7. CASE Explored(LoadDoe, Fresh, Found, {}) BY <1>1, <1>5, <1>6, <1>8, <2>2, <2>7
  <2>8. CASE LoadDoe = <<>>
    <3>1. disk'.table = None BY <2>2, <2>4, <2>8
    <3>2. KeptInv' BY <3>1 DEF KeptInv
    <3> QED BY <1>6, <2>2, <3>2
  <2> QED BY <2>1, <2>5, <2>6, <2>7, <2>8 DEF WelcomeDoes
<1>12. CASE Recovered
  <2>1. RecoveredDoes BY <1>1, <1>12, RecoveredIs
  <2>2. disk' = disk /\ server.phase = "waiting" /\ server.next = "recovered"
    BY <2>1 DEF RecoveredDoes, Waited
  <2>3. CASE GoneTo("informed", "none", server.doe, server.iteration, server.cluster, disk.predictions)
    BY <1>5, <1>6, <1>9, <2>2, <2>3
  <2>4. CASE Explored(server.doe, Fresh, server.cluster, {}) BY <1>1, <1>5, <1>6, <1>8, <2>2, <2>4
  <2>5. CASE server.doe = <<>>
    <3>1. disk'.table = None BY <1>5, <2>2, <2>5
    <3>2. KeptInv' BY <3>1 DEF KeptInv
    <3> QED BY <1>6, <2>2, <3>2
  <2> QED BY <2>1, <2>3, <2>4, <2>5 DEF RecoveredDoes
<1>13. CASE DoeCreated
  <2>1. DoeCreatedDoes BY <1>1, <1>13, DoeCreatedIs
  <2>2. server.phase = "waiting" BY <2>1 DEF DoeCreatedDoes, Waited
  <2>3. CASE /\ disk' = disk
             /\ GoneTo("undefined", "none", <<>>, server.iteration, server.cluster, server.prediction)
    BY <1>5, <1>6, <1>9, <2>3
  <2>4. CASE /\ LoadDoe # <<>> /\ Explored(LoadDoe, Fresh, server.cluster, server.prediction)
             /\ IF server.next = "first_doe" THEN TableBecomes(0) ELSE disk' = disk
    <3>1. DesignThere(disk) BY <1>1, <2>4, LoadDoeOK DEF DesignThere
    <3>2. KeptInv' BY <1>1, <1>8, <2>4, <3>1
    <3>3. CASE server.next = "first_doe"
      <4>1. disk.table = None BY <1>5, <2>2, <3>3
      <4> QED BY <3>2, <4>1 DEF TableKept
    <3>4. CASE server.next # "first_doe" BY <1>6, <2>4, <3>2, <3>4
    <3> QED BY <3>3, <3>4
  <2> QED BY <2>1, <2>3, <2>4 DEF DoeCreatedDoes
<1>14. CASE Observation
  <2>1. ObservationDoes BY <1>1, <1>14, ObservationIs
  <2>2. disk'.table = InsertObservation BY <2>1, TableIs DEF ObservationDoes
  <2>3. TableKept BY <1>1, <2>2, InsertedTable DEF TableKept
  <2>4. disk'.table # None => DesignThere(disk) BY <1>1, <1>5, <2>2, InsertedTable
  <2>5. CASE Explored(server.doe, given, server.cluster, server.prediction)
    BY <1>1, <1>8, <2>3, <2>4, <2>5
  <2>6. CASE GoneTo("waiting", "models", server.doe, server.iteration + 1, server.cluster, server.prediction)
    BY <1>9, <2>3, <2>4, <2>6
  <2> QED BY <2>1, <2>5, <2>6 DEF ObservationDoes
<1>15. CASE ModelsBuilt
  <2>1. ModelsBuiltDoes BY <1>1, <1>15, ModelsBuiltIs
  <2>2. disk' = disk BY <2>1 DEF ModelsBuiltDoes
  <2>3. CASE GoneTo("waiting", "prediction", server.doe, server.iteration, Found, server.prediction)
    BY <1>5, <1>6, <1>9, <2>2, <2>3
  <2> QED BY <1>6, <1>10, <2>1, <2>2, <2>3 DEF ModelsBuiltDoes
<1>16. CASE Predicted
  <2>1. PredictedDoes BY <1>1, <1>16, PredictedIs
  <2>2. disk' = disk BY <2>1 DEF PredictedDoes
  <2>3. CASE GoneTo("informed", "none", server.doe, server.iteration, server.cluster, disk.predictions)
    BY <1>5, <1>6, <1>9, <2>2, <2>3
  <2> QED BY <1>6, <1>10, <2>1, <2>2, <2>3 DEF PredictedDoes
<1> QED BY <1>11, <1>12, <1>13, <1>14, <1>15, <1>16

\* Who keeps the table, the design and the handler keeps the observations.
LEMMA OthersKeepTable ==
  ASSUME LearnInv, KeptInv, damaged' = FALSE => damaged = FALSE, setup' = setup,
         disk'.table = disk.table,
         damaged = FALSE /\ setup.algorithm = "full-factorial" /\ DesignThere(disk) => DesignThere(disk'),
         server' = server \/ server'.phase \in {"clueless", "down"}
  PROVE  TableKept /\ KeptInv'
<1>1. disk.table # None => disk.table \in Int BY OnDisk, Constants DEF LearnInv, VariablesOK
<1>2. TableKept BY <1>1 DEF TableKept
<1>3. DesignThere(disk)' = DesignThere(disk') BY DEF DesignThere
<1> QED BY <1>2, <1>3 DEF KeptInv

\* Every step but a shutdown.
LEMMA KeptStep ==
  ASSUME LearnInv, WholeInv, IterInv, KeptInv, LearnNext
  PROVE  /\ KeptInv'
         /\ damaged' = FALSE /\ setup.algorithm = "full-factorial" => Shutdown \/ TableKept
<1>1. VariablesOK BY DEF LearnInv
<1>0. damaged \in BOOLEAN BY DEF LearnInv, VariablesOK
<1>2. CASE UNCHANGED learnVars BY <1>2, OthersKeepTable DEF learnVars
<1>3. CASE Welcome \/ Recovered \/ DoeCreated \/ Observation \/ ModelsBuilt \/ Predicted
  <2>1. Handled BY <1>3, HandlerHandles
  <2>2. damaged' \in BOOLEAN /\ setup' = setup BY <2>1 DEF Handled
  <2>3. CASE damaged' = FALSE /\ setup.algorithm = "full-factorial"
    BY <1>3, <2>3, HandlerKeepsTable
  <2>4. CASE ~(damaged' = FALSE /\ setup.algorithm = "full-factorial")
    BY <2>2, <2>4 DEF KeptInv
  <2> QED BY <2>3, <2>4
<1>4. ASSUME NEW p \in plugins, PluginStep(p) PROVE TableKept /\ KeptInv'
  <2>1. Works(p) BY <1>4, PluginWorks DEF IterInv
  <2>2. setup' = setup /\ disk'.table = disk.table /\ (damaged' = FALSE => damaged = FALSE)
    BY <1>0, <2>1 DEF Works
  <2>3. damaged = FALSE /\ setup.algorithm = "full-factorial" /\ DesignThere(disk) => DesignThere(disk')
    BY <1>4, DesignStays
  <2>4. server' = server \/ server'.phase = "down" BY <1>4, ServersOfPlugins, DownIsLow
  <2> QED BY <2>2, <2>3, <2>4, OthersKeepTable
<1>5. CASE Bye
  <2>1. ByeDoes BY <1>1, <1>5, ByeIs
  <2>2. server'.phase = "clueless" BY <2>1, BecomesIs DEF ByeDoes
  <2> QED BY <2>1, <2>2, OthersKeepTable DEF ByeDoes
<1>6. CASE Crash
  <2>1. CrashDoes BY <1>6, CrashIs
  <2>2. server'.phase = "down" BY <2>1, DownIsLow DEF CrashDoes
  <2> QED BY <2>1, <2>2, OthersKeepTable DEF CrashDoes
<1>7. CASE Restart
  <2>1. RestartDoes BY <1>7, RestartIs
  <2>2. server'.phase = "clueless" BY <2>1, BecomesIs DEF RestartDoes
  <2> QED BY <2>1, <2>2, OthersKeepTable DEF RestartDoes
<1>8. ASSUME NEW p \in plugins, Kill(p) PROVE TableKept /\ KeptInv'
  <2>1. KillDoes(p) BY <1>8, KillIs
  <2>2. server' = server \/ server'.phase = "down" BY <2>1, DownIsLow DEF KillDoes, Orphaned
  <2> QED BY <2>1, <2>2, OthersKeepTable DEF KillDoes
<1>9. CASE Shutdown
  <2>1. ShutdownDoes BY <1>1, <1>9, ShutdownIs DEF LearnInv
  <2>2. disk'.table = None BY <2>1, DiskIs DEF ShutdownDoes
  <2> QED BY <1>9, <2>2 DEF KeptInv
<1> QED BY <1>2, <1>3, <1>4, <1>5, <1>6, <1>7, <1>8, <1>9, StepCases, Zenon

\* With a full factorial design only a shutdown throws observations away, whoever dies,
\* leaves or is restarted and whatever start_recovering finds, unless a file was read
\* half-written.
THEOREM ObservationsStay == LearnSpec => ObservationsAreKept
<1>1. LearnInit => KeptInv BY DEF LearnInit, EmptyDisk, KeptInv
<1>2. LearnInv /\ WholeInv /\ IterInv /\ KeptInv /\ [LearnNext]_learnVars => KeptInv'
  <2>1. LearnInv /\ WholeInv /\ IterInv /\ KeptInv /\ LearnNext => KeptInv' BY KeptStep
  <2>2. KeptInv /\ UNCHANGED learnVars => KeptInv' BY DEF learnVars, KeptInv, DesignThere
  <2> QED BY <2>1, <2>2
<1>3. LearnInv /\ WholeInv /\ IterInv /\ KeptInv /\ [LearnNext]_learnVars =>
        [(disk.table # None /\ setup.algorithm = "full-factorial" /\ ~damaged')
           => (Shutdown \/ (disk'.table # None /\ disk'.table >= disk.table))]_learnVars
  <2> SUFFICES ASSUME LearnInv, WholeInv, IterInv, KeptInv, LearnNext,
                      disk.table # None, setup.algorithm = "full-factorial", ~damaged'
               PROVE  Shutdown \/ (disk'.table # None /\ disk'.table >= disk.table)
    OBVIOUS
  <2>1. LearnInv' BY LearnKeeps
  <2>2. damaged' \in BOOLEAN BY <2>1 DEF LearnInv, VariablesOK
  <2>3. damaged' = FALSE BY <2>2
  <2> QED BY <2>3, KeptStep DEF TableKept
<1> QED BY <1>1, <1>2, <1>3, IterAlways, PTL DEF LearnSpec, ObservationsAreKept

-----------------------------------------------------------------------------
(* Why plugins fail *)

\* Nobody has died or left.
Calm == life = 1 /\ faults = 0

\* Which plugins run beside each other, and what there is when they do.
KindsInv ==
  /\ \A p \in plugins : p.kind \in Metrics => p.kind \in DOMAIN setup.plugin
  /\ \A p \in plugins : p.kind \in Metrics \cup {"cluster"} => disk.table # None
  /\ \A p, q \in plugins : p.kind = q.kind => p = q
  /\ \A p, q \in plugins : p.kind = "predict" => q.kind = "predict"
  /\ \A p \in plugins : p.kind = "predict" => AreModelsValid

\* The encoders are there for whoever looks for them, and who copies them is at it.
EncodersInv ==
  /\ \A p \in plugins : p.at = "save" => p.kind \in Metrics \cup {"predict"}
  /\ \A w \in Workspaces : disk.local[w] = "torn" =>
       \E p \in plugins : p.at = "save" /\ Workspace(p) = w
  /\ disk.total # None => disk.global = "ready" \/ disk.local["predict"] # "absent"
  /\ disk.total # None /\ disk.global = "absent" => AreModelsValid
  /\ \A m \in disk.models : m \in DOMAIN setup.plugin /\ disk.local[setup.plugin[m]] = "ready"
  /\ \A p \in plugins : p.kind \in Metrics /\ p.at \in {"fit", "write"} =>
       disk.local[setup.plugin[p.kind]] = "ready"

\* Who has opened a model is about to close it.
ModelsInv ==
  \A m \in Metrics : m \in disk.partial => \E p \in plugins : p.kind = m /\ p.at = "write"

\* The handler has not recovered anything.
FirstInv ==
  /\ server.phase = "clueless" => disk = EmptyDisk /\ plugins = {}
  /\ server.phase = "waiting" => server.next # "recovered"
  /\ server.phase = "exploring" \/ (server.phase = "waiting" /\ server.next # "first_doe") =>
       disk.table # None

\* What holds until the first fault.
CalmInv ==
  Calm => KindsInv /\ EncodersInv /\ ModelsInv /\ FirstInv /\ PluginsFindTheirFiles

\* The reasons that are left: the data, the parameters and shared encoders.
Data == {"no_parameters", "few_observations", "not_positive", "no_estimator", "no_clusters"}
Excused(why) ==
  \/ why \in Data
  \/ /\ why = "torn_encoders"
     /\ \E m, n \in DOMAIN setup.plugin : m # n /\ setup.plugin[m] = setup.plugin[n]

\* The plugins and what they have made, after a step of one of them.
LEMMA KindsKept ==
  ASSUME KindsInv, NEW p \in plugins, Works(p)
  PROVE  KindsInv'
<1>1. /\ setup' = setup /\ disk'.table = disk.table /\ disk.models \subseteq disk'.models BY DEF Works
<1>2. AreModelsValid => AreModelsValid' BY <1>1 DEF AreModelsValid, IsModelValid
<1>3. CASE plugins' \subseteq plugins BY <1>1, <1>2, <1>3 DEF KindsInv
<1>4. CASE Advanced(p)
  <2>1. PICK q : q.kind = p.kind /\ plugins' = (plugins \ {p}) \cup {q} BY <1>4 DEF Advanced
  <2>2. \A r \in plugins' : r = q \/ (r \in plugins /\ r # p) BY <2>1
  <2>3. \A r, s \in plugins' : r.kind = s.kind => r = s BY <2>1, <2>2 DEF KindsInv
  <2>4. \A r, s \in plugins' : r.kind = "predict" => s.kind = "predict" BY <2>1, <2>2 DEF KindsInv
  <2>5. \A r \in plugins' : r.kind \in Metrics => r.kind \in DOMAIN setup'.plugin
    BY <1>1, <2>1, <2>2 DEF KindsInv
  <2>6. \A r \in plugins' : r.kind \in Metrics \cup {"cluster"} => disk'.table # None
    BY <1>1, <2>1, <2>2 DEF KindsInv
  <2>7. \A r \in plugins' : r.kind = "predict" => AreModelsValid' BY <1>2, <2>1, <2>2 DEF KindsInv
  <2> QED BY <2>3, <2>4, <2>5, <2>6, <2>7 DEF KindsInv
<1>5. plugins' \subseteq plugins \/ Advanced(p) BY DEF Works, Ends, Orphaned
<1> QED BY <1>3, <1>4, <1>5

\* A plugin that leaves the encoders alone.
LEMMA EncodersStay ==
  ASSUME EncodersInv, setup' = setup, disk'.global = disk.global, disk'.local = disk.local,
         disk.models \subseteq disk'.models, disk.total # None, NEW p \in plugins, p.at # "save",
         \A m \in disk'.models : m \in disk.models \/ (m \in DOMAIN setup.plugin /\ disk.local[setup.plugin[m]] = "ready"),
         plugins \ {p} \subseteq plugins',
         \A q \in plugins' :
           \/ q \in plugins
           \/ /\ q.at # "save"
              /\ q.kind \in Metrics /\ q.at \in {"fit", "write"} => disk.local[setup.plugin[q.kind]] = "ready"
  PROVE  EncodersInv'
<1>1. AreModelsValid => AreModelsValid' BY DEF AreModelsValid, IsModelValid
<1>2. \A w \in Workspaces : disk'.local[w] = "torn" =>
        \E q \in plugins' : q.at = "save" /\ Workspace(q)' = w
  <2> SUFFICES ASSUME NEW w \in Workspaces, disk'.local[w] = "torn"
               PROVE  \E q \in plugins' : q.at = "save" /\ Workspace(q)' = w
    OBVIOUS
  <2>1. PICK q \in plugins : q.at = "save" /\ Workspace(q) = w BY DEF EncodersInv
  <2>2. q \in plugins' /\ Workspace(q)' = Workspace(q) BY <2>1 DEF Workspace
  <2> QED BY <2>1, <2>2
<1>3. \A q \in plugins' : q.at = "save" => q.kind \in Metrics \cup {"predict"} BY DEF EncodersInv
<1>4. /\ disk'.total # None => disk'.global = "ready" \/ disk'.local["predict"] # "absent"
      /\ disk'.total # None /\ disk'.global = "absent" => AreModelsValid'
  BY <1>1 DEF EncodersInv
<1>5. \A m \in disk'.models : m \in DOMAIN setup'.plugin /\ disk'.local[setup'.plugin[m]] = "ready"
  BY DEF EncodersInv
<1>6. \A q \in plugins' : q.kind \in Metrics /\ q.at \in {"fit", "write"} =>
        disk'.local[setup'.plugin[q.kind]] = "ready"
  BY DEF EncodersInv
<1> QED BY <1>2, <1>3, <1>4, <1>5, <1>6 DEF EncodersInv

\* What is left to show of a step of a plugin.
Excusable == EncodersInv' /\ ModelsInv' /\ (reason' = reason \/ Excused(reason'))

\* A plugin that ends, with or without a reason to fail.
LEMMA GoneExcusable ==
  ASSUME EncodersInv, ModelsInv, NEW p \in plugins, plugins' = plugins \ {p}, setup' = setup,
         reason' = reason \/ Excused(reason'),
         disk'.global = disk.global, disk'.local = disk.local, disk'.models = disk.models,
         disk.total # None, p.at # "save", p.kind \in Metrics /\ p.at = "write" => p.kind \notin disk'.partial,
         \A m \in Metrics : m \in disk'.partial => m \in disk.partial
  PROVE  Excusable
<1>1. EncodersInv' BY EncodersStay
<1>2. ModelsInv'
  <2> SUFFICES ASSUME NEW m \in Metrics, m \in disk'.partial
               PROVE  \E q \in plugins' : q.kind = m /\ q.at = "write"
    BY DEF ModelsInv
  <2>1. PICK q \in plugins : q.kind = m /\ q.at = "write" BY DEF ModelsInv
  <2>2. q # p BY <2>1
  <2> QED BY <2>1, <2>2
<1> QED BY <1>1, <1>2 DEF Excusable

\* A plugin that fails for one of the reasons that are left.
LEMMA FailedExcusable ==
  ASSUME EncodersInv, ModelsInv, NEW p \in plugins, NEW why, Failed(p, why), Excused(why), setup' = setup,
         disk.total # None, p.at # "save", p.at # "write"
  PROVE  Excusable
<1>1. /\ plugins' = plugins \ {p} /\ disk' = disk /\ reason' = why BY DEF Failed, Orphaned
<1> QED BY <1>1, GoneExcusable

\* A plugin that goes on without touching the encoders.
LEMMA MovedExcusable ==
  ASSUME EncodersInv, ModelsInv, NEW p \in plugins, NEW at, NEW read, Moved(p, at, read), setup' = setup,
         at # "save", disk.total # None, p.at # "save", p.at # "write",
         p.kind \in Metrics /\ at \in {"fit", "write"} => disk.local[setup.plugin[p.kind]] = "ready",
         disk'.global = disk.global, disk'.local = disk.local, disk.models \subseteq disk'.models,
         \A m \in disk'.models : m \in disk.models \/ (m \in DOMAIN setup.plugin /\ disk.local[setup.plugin[m]] = "ready"),
         \A m \in Metrics : m \in disk'.partial => m \in disk.partial \/ (m = p.kind /\ at = "write")
  PROVE  Excusable
<1>1. PICK q \in [at : {at}, read : {read}, born : {p.born}, kind : {p.kind}, iteration : {p.iteration}] :
        plugins' = (plugins \ {p}) \cup {q}
  BY DEF Moved
<1>2. q.at = at /\ q.kind = p.kind OBVIOUS
<1>3. reason' = reason BY DEF Moved
<1>4. EncodersInv'
  <2>1. plugins \ {p} \subseteq plugins' BY <1>1
  <2>2. \A r \in plugins' :
          \/ r \in plugins
          \/ /\ r.at # "save"
             /\ r.kind \in Metrics /\ r.at \in {"fit", "write"} => disk.local[setup.plugin[r.kind]] = "ready"
    BY <1>1, <1>2
  <2> QED BY <2>1, <2>2, EncodersStay
<1>5. ModelsInv'
  <2> SUFFICES ASSUME NEW m \in Metrics, m \in disk'.partial
               PROVE  \E r \in plugins' : r.kind = m /\ r.at = "write"
    BY DEF ModelsInv
  <2>1. CASE m = p.kind /\ at = "write" BY <1>1, <1>2, <2>1
  <2>2. CASE m \in disk.partial
    <3>1. PICK r \in plugins : r.kind = m /\ r.at = "write" BY <2>2 DEF ModelsInv
    <3> QED BY <1>1, <3>1
  <2> QED BY <2>1, <2>2
<1> QED BY <1>3, <1>4, <1>5 DEF Excusable

\* The doe plugin makes the encoders before anybody looks for them.
LEMMA DoeExcusable ==
  ASSUME faults = 0, LearnInv, EncodersInv, ModelsInv, NEW p \in plugins,
         DoeBegin(p) \/ DoeTotal(p) \/ DoeDesign(p) \/ DoeWrite(p)
  PROVE  Excusable
<1>1. VariablesOK /\ DiskOK(disk) /\ ProcessOK(p) /\ ReadOK(p)
  BY DEF LearnInv, VariablesOK, PluginsOK
<1>3. CASE DoeBegin(p)
  <2>1. DoeBeginDoes(p) BY <1>1, <1>3, DoeBeginIs
  <2>2. p.kind = "doe" /\ p.at = "begin" /\ setup' = setup BY <2>1 DEF DoeBeginDoes, Quiet
  <2>3. CASE /\ disk.total = None /\ Moved(p, "total", Allowed)
             /\ \E part \in SUBSET Allowed :
                  DiskBecomes(part, disk.doe, disk.table, disk.models, disk.clusters,
                              disk.predictions, Opened("total"), "ready", disk.local)
    <3>1. /\ disk'.global = "ready" /\ disk'.local = disk.local /\ disk'.models = disk.models
          /\ disk'.partial = disk.partial \cup {"total"}
      BY <2>3, DiskIs DEF Opened
    <3>2. disk.models = {} /\ \A q \in plugins : q.kind = "doe" /\ q.at = "begin"
      BY <2>3 DEF LearnInv, TotalKnown
    <3>3. reason' = reason BY <2>3 DEF Moved
    <3>4. \A q \in plugins' : q.kind = "doe" /\ q.at \in {"begin", "total"}
      BY <2>2, <2>3, <3>2 DEF Moved
    <3>5. \A w \in Workspaces : disk.local[w] # "torn" BY <3>2 DEF EncodersInv
    <3>6. EncodersInv' BY <3>1, <3>2, <3>4, <3>5, Constants DEF EncodersInv
    <3>7. ModelsInv' BY <3>1, <3>2, Constants DEF ModelsInv
    <3> QED BY <3>3, <3>6, <3>7 DEF Excusable
  <2>4. CASE disk.total # None /\ Moved(p, "design", disk.total) /\ disk' = disk
    BY <2>2, <2>4, Constants, MovedExcusable
  <2> QED BY <2>1, <2>3, <2>4 DEF DoeBeginDoes
<1>4. CASE DoeTotal(p)
  <2>1. DoeTotalDoes(p) BY <1>1, <1>4, DoeTotalIs
  <2>2. p.kind = "doe" /\ p.at = "total" /\ setup' = setup /\ Moved(p, "design", Allowed)
    BY <2>1 DEF DoeTotalDoes, Quiet
  <2>3. /\ disk'.global = disk.global /\ disk'.local = disk.local /\ disk'.models = disk.models
        /\ disk'.partial = disk.partial \ {"total"}
    BY <1>1, <2>1, FilesAre DEF Closed, DoeTotalDoes
  <2>4. disk.total # None BY <2>2, TotalThere
  <2> QED BY <2>2, <2>3, <2>4, Constants, MovedExcusable
<1>5. CASE DoeDesign(p)
  <2>1. DoeDesignDoes(p) BY <1>1, <1>5, DoeDesignIs
  <2>2. p.kind = "doe" /\ p.at = "design" /\ setup' = setup BY <2>1 DEF DoeDesignDoes, Quiet
  <2>3. PICK design \in CreateDoe : \E part \in SUBSET (design \cap p.read) :
          /\ FilesBecome(disk.total, Rows(part), disk.models, disk.clusters, disk.predictions, Opened("doe"))
          /\ Moved(p, "write", design \cap p.read)
    BY <2>1 DEF DoeDesignDoes
  <2>4. /\ disk'.global = disk.global /\ disk'.local = disk.local /\ disk'.models = disk.models
        /\ disk'.partial = disk.partial \cup {"doe"}
    BY <1>1, <2>3, FilesAre DEF Opened
  <2>5. disk.total # None BY <2>2, TotalThere
  <2>6. PICK read : Moved(p, "write", read) BY <2>3
  <2>7. \A m \in Metrics : m \in disk'.partial => m \in disk.partial BY <2>4, Constants
  <2>8. p.kind \notin Metrics BY <2>2, Constants
  <2> QED BY <2>2, <2>4, <2>5, <2>6, <2>7, <2>8, MovedExcusable
<1>6. CASE DoeWrite(p)
  <2>1. DoeWriteDoes(p) BY <1>1, <1>6, DoeWriteIs
  <2>2. p.kind = "doe" /\ p.at = "write" /\ setup' = setup /\ plugins' = plugins \ {p} /\ reason' = reason
    BY <2>1 DEF DoeWriteDoes, Quiet, Ends
  <2>3. /\ disk'.global = disk.global /\ disk'.local = disk.local /\ disk'.models = disk.models
        /\ disk'.partial = disk.partial \ {"doe"}
    BY <1>1, <2>1, FilesAre DEF Closed, DoeWriteDoes
  <2>4. disk.total # None BY <2>2, TotalThere
  <2> QED BY <2>2, <2>3, <2>4, Constants, GoneExcusable
<1> QED BY <1>3, <1>4, <1>5, <1>6

\* The cluster plugin fails only for want of observations.
LEMMA ClusterExcusable ==
  ASSUME faults = 0, LearnInv, KindsInv, EncodersInv, ModelsInv, NEW p \in plugins, ClusterBegin(p) \/ ClusterWrite(p)
  PROVE  Excusable
<1>1. VariablesOK /\ DiskOK(disk) /\ ProcessOK(p) /\ ReadOK(p)
  BY DEF LearnInv, VariablesOK, PluginsOK
<1>2. CASE ClusterBegin(p)
  <2>1. ClusterBeginDoes(p) BY <1>1, <1>2, ClusterBeginIs
  <2>2. p.kind = "cluster" /\ p.at = "begin" /\ setup' = setup BY <2>1 DEF ClusterBeginDoes, Quiet
  <2>3. disk.total # None BY <2>2, TotalThere
  <2>4. disk.table # None BY <2>2 DEF KindsInv
  <2>5. ASSUME NEW why \in {"few_observations", "no_clusters"}, Failed(p, why) PROVE Excusable
    <3>1. Excused(why) BY DEF Excused, Data
    <3> QED BY <2>2, <2>3, <2>5, <3>1, FailedExcusable
  <2>6. ASSUME NEW found \in SUBSET Centroids, NEW part \in SUBSET found,
               FilesBecome(disk.total, disk.doe, disk.models, part, disk.predictions, Opened("clusters")),
               Moved(p, "write", found)
        PROVE  Excusable
    <3>1. /\ disk'.global = disk.global /\ disk'.local = disk.local /\ disk'.models = disk.models
          /\ disk'.partial = disk.partial \cup {"clusters"}
      BY <1>1, <2>6, FilesAre DEF Opened
    <3>2. \A m \in Metrics : m \in disk'.partial => m \in disk.partial BY <3>1, Constants
    <3>3. p.kind \notin Metrics BY <2>2, Constants
    <3> QED BY <2>2, <2>3, <2>6, <3>1, <3>2, <3>3, MovedExcusable
  <2> QED BY <2>1, <2>4, <2>5, <2>6 DEF ClusterBeginDoes
<1>3. CASE ClusterWrite(p)
  <2>1. ClusterWriteDoes(p) BY <1>1, <1>3, ClusterWriteIs
  <2>2. p.kind = "cluster" /\ p.at = "write" /\ setup' = setup /\ plugins' = plugins \ {p} /\ reason' = reason
    BY <2>1 DEF ClusterWriteDoes, Quiet, Ends
  <2>3. /\ disk'.global = disk.global /\ disk'.local = disk.local /\ disk'.models = disk.models
        /\ disk'.partial = disk.partial \ {"clusters"}
    BY <1>1, <2>1, FilesAre DEF Closed, ClusterWriteDoes
  <2>4. disk.total # None BY <2>2, TotalThere
  <2> QED BY <2>2, <2>3, <2>4, Constants, GoneExcusable
<1> QED BY <1>2, <1>3

\* Two metrics of one plugin share its encoders: one finds them half copied by the other.
\* Nobody else finds them so, and nobody finds none.
LEMMA EncodersExcusable ==
  ASSUME faults = 0, LearnInv, KindsInv, EncodersInv, ModelsInv, NEW p \in plugins, NEW there, NEW global,
         EncodersDoes(p, Workspace(p), there, global),
         \/ p.kind = "predict" /\ there = "load" /\ global = "absent"
         \/ p.kind \in Metrics /\ there = "fit" /\ global = "ready"
  PROVE  Excusable
<1> DEFINE ws == Workspace(p)
<1>1. DiskOK(disk) /\ setup \in Setups BY DEF LearnInv, VariablesOK
<1>2. p.at = "encoders" /\ setup' = setup BY DEF EncodersDoes, Quiet
<1>3. disk.total # None BY <1>2, TotalThere
<1>4. p.kind \in Metrics => p.kind \in DOMAIN setup.plugin /\ ws = setup.plugin[p.kind]
  BY Constants DEF KindsInv, Workspace
<1>5. p.kind = "predict" => ws = "predict" BY DEF Workspace
<1>6. ws \in Workspaces BY <1>1, <1>4, <1>5, SetupFacts DEF Workspaces
<1>7. CASE disk.local[ws] = "ready" /\ Moved(p, there, p.read) /\ disk' = disk
  BY <1>2, <1>3, <1>4, <1>7, Constants, MovedExcusable
<1>8. CASE disk.local[ws] = "torn" /\ Failed(p, "torn_encoders")
  <2>1. PICK q \in plugins : q.at = "save" /\ Workspace(q) = ws BY <1>6, <1>8 DEF EncodersInv
  <2>2. q.kind # p.kind /\ q.kind \in Metrics \cup {"predict"} BY <1>2, <2>1 DEF KindsInv, EncodersInv
  <2>3. p.kind # "predict" /\ q.kind # "predict" BY <2>2 DEF KindsInv
  <2>4. q.kind \in DOMAIN setup.plugin /\ setup.plugin[q.kind] = ws
    BY <2>1, <2>2, <2>3 DEF KindsInv, Workspace
  <2>5. Excused("torn_encoders") BY <1>4, <2>2, <2>3, <2>4 DEF Excused
  <2> QED BY <1>2, <1>3, <1>8, <2>5, FailedExcusable
<1>9. CASE disk.local[ws] = "absent" /\ disk.global = "absent"
  <2>1. AreModelsValid /\ disk.local["predict"] # "absent" BY <1>3, <1>9 DEF EncodersInv
  <2>2. p.kind \in Metrics BY <1>5, <1>9, <2>1
  <2>3. p.kind \in disk.models BY <1>4, <2>1, <2>2 DEF AreModelsValid, IsModelValid
  <2> QED BY <1>4, <1>9, <2>2, <2>3 DEF EncodersInv
<1>10. CASE /\ disk.local[ws] = "absent" /\ disk.global = "ready" /\ Moved(p, "save", p.read)
            /\ EncodersBecome(global, [disk.local EXCEPT ![ws] = "torn"])
  <2> HIDE DEF ws
  <2>1. PICK q \in [at : {"save"}, read : {p.read}, born : {p.born}, kind : {p.kind},
                    iteration : {p.iteration}] : plugins' = (plugins \ {p}) \cup {q}
    BY <1>10 DEF Moved
  <2>2. q.at = "save" /\ q.kind = p.kind OBVIOUS
  <2>3. /\ disk'.global = global /\ disk'.local = [disk.local EXCEPT ![ws] = "torn"]
        /\ disk'.models = disk.models /\ disk'.partial = disk.partial /\ disk'.total = disk.total
    BY <1>1, <1>10, EncodersAre
  <2>4. disk.local \in [Workspaces -> {"absent", "torn", "ready"}] BY <1>1 DEF DiskOK
  <2>5. /\ disk'.local[ws] = "torn"
        /\ \A w \in Workspaces : w # ws => disk'.local[w] = disk.local[w]
    BY <1>6, <2>3, <2>4
  <2>6. reason' = reason BY <1>10 DEF Moved
  <2>7. AreModelsValid' = AreModelsValid BY <1>2, <2>3 DEF AreModelsValid, IsModelValid
  <2>8. \A m \in DOMAIN setup.plugin : setup.plugin[m] \in Workspaces
    BY <1>1, SetupFacts DEF Workspaces
  <2>9. EncodersInv'
    <3>1. \A r \in plugins' : r.at = "save" => r.kind \in Metrics \cup {"predict"}
      BY <2>1, <2>2 DEF EncodersInv
    <3>2. ASSUME NEW w \in Workspaces, disk'.local[w] = "torn"
          PROVE  \E r \in plugins' : r.at = "save" /\ Workspace(r)' = w
      <4>1. CASE w = ws
        <5>1. Workspace(q)' = ws BY <1>2, <2>2 DEF Workspace, ws
        <5> QED BY <2>1, <2>2, <4>1, <5>1
      <4>2. CASE w # ws
        <5>1. disk.local[w] = "torn" BY <2>5, <3>2, <4>2
        <5>2. PICK r \in plugins : r.at = "save" /\ Workspace(r) = w BY <5>1 DEF EncodersInv
        <5>3. r \in plugins' /\ Workspace(r)' = Workspace(r) BY <1>2, <2>1, <5>2 DEF Workspace
        <5> QED BY <5>2, <5>3
      <4> QED BY <4>1, <4>2
    <3>3. disk'.global = "ready" \/ disk'.local["predict"] # "absent" BY <1>5, <2>3, <2>5
    <3>4. disk'.global = "absent" => AreModelsValid' BY <2>3, <2>7 DEF KindsInv
    <3>5. ASSUME NEW m \in disk'.models
          PROVE  m \in DOMAIN setup'.plugin /\ disk'.local[setup'.plugin[m]] = "ready"
      <4>1. m \in DOMAIN setup.plugin /\ disk.local[setup.plugin[m]] = "ready"
        BY <2>3, <3>5 DEF EncodersInv
      <4>2. setup.plugin[m] # ws /\ setup.plugin[m] \in Workspaces BY <1>10, <2>8, <4>1
      <4> QED BY <1>2, <2>5, <4>1, <4>2
    <3>6. ASSUME NEW r \in plugins', r.kind \in Metrics, r.at \in {"fit", "write"}
          PROVE  disk'.local[setup'.plugin[r.kind]] = "ready"
      <4>1. r \in plugins BY <2>1, <2>2, <3>6
      <4>2. r.kind \in DOMAIN setup.plugin /\ disk.local[setup.plugin[r.kind]] = "ready"
        BY <3>6, <4>1 DEF EncodersInv, KindsInv
      <4>3. setup.plugin[r.kind] # ws /\ setup.plugin[r.kind] \in Workspaces BY <1>10, <2>8, <4>2
      <4> QED BY <1>2, <2>5, <4>2, <4>3
    <3> QED BY <3>1, <3>2, <3>3, <3>4, <3>5, <3>6 DEF EncodersInv
  <2>10. ModelsInv' BY <1>2, <2>1, <2>3 DEF ModelsInv
  <2> QED BY <2>6, <2>9, <2>10 DEF Excusable
<1> QED BY <1>7, <1>8, <1>9, <1>10 DEF EncodersDoes

\* Whoever has copied the encoders leaves them whole.
LEMMA SavedExcusable ==
  ASSUME faults = 0, LearnInv, KindsInv, EncodersInv, ModelsInv, NEW p \in plugins, EncodersSaved(p)
  PROVE  Excusable
<1> DEFINE ws == Workspace(p)
<1>1. VariablesOK /\ DiskOK(disk) /\ ProcessOK(p) /\ ReadOK(p) /\ setup \in Setups
  BY DEF LearnInv, VariablesOK, PluginsOK
<1>2. EncodersSavedDoes(p) BY <1>1, EncodersSavedIs
<1>3. p.kind \in Metrics \cup {"predict"} /\ p.at = "save" /\ setup' = setup
  BY <1>2 DEF EncodersSavedDoes, Quiet
<1>4. EncodersBecome(disk.global, [disk.local EXCEPT ![ws] = "ready"]) BY <1>2 DEF EncodersSavedDoes
<1>5. ws \in Workspaces BY <1>1, <1>3, SetupFacts DEF Workspaces, Workspace, KindsInv
<1>6. PICK at \in {"load", "fit"} : Moved(p, at, p.read) BY <1>2 DEF EncodersSavedDoes, AfterEncoders
<1>7. p.kind \in Metrics => ws = setup.plugin[p.kind] BY Constants DEF Workspace
<1>8. \A r \in plugins : Workspace(r) # ws => r # p OBVIOUS
<1> HIDE DEF ws
<1>9. PICK q \in [at : {at}, read : {p.read}, born : {p.born}, kind : {p.kind}, iteration : {p.iteration}] :
        plugins' = (plugins \ {p}) \cup {q}
  BY <1>6 DEF Moved
<1>10. q.at = at /\ q.kind = p.kind OBVIOUS
<1>11. /\ disk'.global = disk.global /\ disk'.local = [disk.local EXCEPT ![ws] = "ready"]
       /\ disk'.models = disk.models /\ disk'.partial = disk.partial /\ disk'.total = disk.total
  BY <1>1, <1>4, EncodersAre
<1>12. disk.local \in [Workspaces -> {"absent", "torn", "ready"}] BY <1>1 DEF DiskOK
<1>13. /\ disk'.local[ws] = "ready"
       /\ \A w \in Workspaces : w # ws => disk'.local[w] = disk.local[w]
  BY <1>5, <1>11, <1>12
<1>14. \A w \in Workspaces : disk.local[w] = "ready" => disk'.local[w] = "ready" BY <1>13
<1>15. AreModelsValid' = AreModelsValid BY <1>3, <1>11 DEF AreModelsValid, IsModelValid
<1>16. \A m \in DOMAIN setup.plugin : setup.plugin[m] \in Workspaces BY <1>1, SetupFacts DEF Workspaces
<1>17. EncodersInv'
  <2>1. \A r \in plugins' : r.at = "save" => r.kind \in Metrics \cup {"predict"}
    BY <1>9, <1>10 DEF EncodersInv
  <2>2. ASSUME NEW w \in Workspaces, disk'.local[w] = "torn"
        PROVE  \E r \in plugins' : r.at = "save" /\ Workspace(r)' = w
    <3>1. w # ws /\ disk.local[w] = "torn" BY <1>13, <2>2
    <3>2. PICK r \in plugins : r.at = "save" /\ Workspace(r) = w BY <3>1 DEF EncodersInv
    <3>3. r \in plugins' BY <1>8, <1>9, <3>1, <3>2
    <3>4. Workspace(r)' = Workspace(r) BY <1>3 DEF Workspace
    <3> QED BY <3>2, <3>3, <3>4
  <2>3. disk'.total # None => disk'.global = "ready" \/ disk'.local["predict"] # "absent"
    <3>1. "predict" \in Workspaces BY DEF Workspaces
    <3> QED BY <1>11, <1>13, <3>1 DEF EncodersInv
  <2>4. disk'.total # None /\ disk'.global = "absent" => AreModelsValid' BY <1>11, <1>15 DEF EncodersInv
  <2>5. \A m \in disk'.models : m \in DOMAIN setup'.plugin /\ disk'.local[setup'.plugin[m]] = "ready"
    BY <1>3, <1>11, <1>14, <1>16 DEF EncodersInv
  <2>6. ASSUME NEW r \in plugins', r.kind \in Metrics, r.at \in {"fit", "write"}
        PROVE  disk'.local[setup'.plugin[r.kind]] = "ready"
    <3>1. CASE r = q BY <1>3, <1>7, <1>10, <1>13, <2>6, <3>1
    <3>2. CASE r # q
      <4>1. r \in plugins BY <1>9, <3>2
      <4>2. r.kind \in DOMAIN setup.plugin /\ disk.local[setup.plugin[r.kind]] = "ready"
        BY <2>6, <4>1 DEF EncodersInv, KindsInv
      <4> QED BY <1>3, <1>14, <1>16, <4>2
    <3> QED BY <3>1, <3>2
  <2> QED BY <2>1, <2>2, <2>3, <2>4, <2>5, <2>6 DEF EncodersInv
<1>18. ModelsInv' BY <1>3, <1>9, <1>11 DEF ModelsInv
<1>19. reason' = reason BY <1>6 DEF Moved
<1> QED BY <1>17, <1>18, <1>19 DEF Excusable

\* A model fails for want of parameters or observations, or for the encoders.
LEMMA ModelExcusable ==
  ASSUME faults = 0, LearnInv, KindsInv, EncodersInv, ModelsInv, NEW p \in plugins,
         ModelBegin(p) \/ ModelEncoders(p) \/ ModelFit(p) \/ ModelWrite(p)
  PROVE  Excusable
<1>1. VariablesOK /\ DiskOK(disk) /\ ProcessOK(p) /\ ReadOK(p)
  BY DEF LearnInv, VariablesOK, PluginsOK
<1>2. p.kind \in Metrics => disk.table # None /\ p.kind \in DOMAIN setup.plugin /\ disk.total # None
  BY Constants, TotalThere DEF KindsInv
<1>3. CASE ModelBegin(p)
  <2>1. ModelBeginDoes(p) BY <1>1, <1>3, ModelBeginIs
  <2>2. p.kind \in Metrics /\ p.at = "begin" /\ setup' = setup /\ disk' = disk
    BY <2>1 DEF ModelBeginDoes, Quiet
  <2>3. CASE Failed(p, "no_parameters")
    <3>1. Excused("no_parameters") BY DEF Excused, Data
    <3> QED BY <1>2, <2>2, <2>3, <3>1, FailedExcusable
  <2>4. CASE Ends(p)
    <3>1. plugins' = plugins \ {p} /\ reason' = reason BY <2>4 DEF Ends
    <3> QED BY <1>2, <2>2, <3>1, GoneExcusable
  <2>5. CASE Moved(p, "encoders", 1 .. disk.table) BY <1>2, <2>2, <2>5, MovedExcusable
  <2> QED BY <1>2, <2>1, <2>2, <2>3, <2>4, <2>5 DEF ModelBeginDoes
<1>4. CASE ModelEncoders(p)
  <2>1. p.at = "encoders" /\ Quiet /\ Encoders(p, setup.plugin[p.kind], "fit", "ready") /\ p.kind \in Metrics
    BY <1>4 DEF ModelEncoders, Plugin, Quiet
  <2>2. EncodersDoes(p, setup.plugin[p.kind], "fit", "ready") BY <1>1, <2>1, EncodersIs
  <2>3. Workspace(p) = setup.plugin[p.kind] BY <2>1, Constants DEF Workspace
  <2> QED BY <2>1, <2>2, <2>3, EncodersExcusable
<1>5. CASE ModelFit(p)
  <2>1. ModelFitDoes(p) BY <1>1, <1>5, ModelFitIs
  <2>2. p.kind \in Metrics /\ p.at = "fit" /\ setup' = setup BY <2>1 DEF ModelFitDoes, Quiet
  <2>3. ASSUME NEW why \in {"few_observations", "not_positive", "no_estimator"}, Failed(p, why)
        PROVE  Excusable
    <3>1. Excused(why) BY DEF Excused, Data
    <3> QED BY <1>2, <2>2, <2>3, <3>1, FailedExcusable
  <2>4. CASE Moved(p, "write", p.read)
             /\ FilesBecome(disk.total, disk.doe, disk.models \cup {p.kind}, disk.clusters,
                            disk.predictions, Opened(p.kind))
    <3>1. /\ disk'.models = disk.models \cup {p.kind} /\ disk'.global = disk.global
          /\ disk'.local = disk.local /\ disk'.partial = disk.partial \cup {p.kind}
      BY <1>1, <2>4, FilesAre DEF Opened
    <3>2. disk.local[setup.plugin[p.kind]] = "ready" BY <2>2 DEF EncodersInv
    <3> QED BY <1>2, <2>2, <2>4, <3>1, <3>2, MovedExcusable
  <2>5. CASE Ends(p) /\ disk' = disk
    <3>1. plugins' = plugins \ {p} /\ reason' = reason BY <2>5 DEF Ends
    <3> QED BY <1>2, <2>2, <2>5, <3>1, GoneExcusable
  <2> QED BY <2>1, <2>3, <2>4, <2>5 DEF ModelFitDoes
<1>6. CASE ModelWrite(p)
  <2>1. ModelWriteDoes(p) BY <1>1, <1>6, ModelWriteIs
  <2>2. p.kind \in Metrics /\ p.at = "write" /\ setup' = setup /\ plugins' = plugins \ {p} /\ reason' = reason
    BY <2>1 DEF ModelWriteDoes, Quiet, Ends
  <2>3. /\ disk'.global = disk.global /\ disk'.local = disk.local /\ disk'.models = disk.models
        /\ disk'.partial = disk.partial \ {p.kind}
    BY <1>1, <2>1, FilesAre DEF Closed, ModelWriteDoes
  <2> QED BY <1>2, <2>2, <2>3, GoneExcusable
<1> QED BY <1>3, <1>4, <1>5, <1>6

\* A prediction runs alone, and does not fail.
LEMMA PredictExcusable ==
  ASSUME faults = 0, LearnInv, KindsInv, EncodersInv, ModelsInv, NEW p \in plugins,
         PredictBegin(p) \/ PredictEncoders(p) \/ PredictLoad(p) \/ PredictWrite(p)
  PROVE  Excusable
<1>1. VariablesOK /\ DiskOK(disk) /\ ProcessOK(p) /\ ReadOK(p)
  BY DEF LearnInv, VariablesOK, PluginsOK
<1>2. p.kind = "predict" => disk.total # None /\ p.kind \notin Metrics BY Constants, TotalThere
<1>3. CASE PredictBegin(p)
  <2>1. PredictBeginDoes(p) BY <1>1, <1>3, PredictBeginIs
  <2>2. p.kind = "predict" /\ p.at = "begin" /\ disk' = disk /\ setup' = setup
    BY <2>1, Zenon DEF PredictBeginDoes, Quiet
  <2>3. ~CannotPredict BY <1>2, <2>2 DEF LearnInv, ClustersKnown, CannotPredict
  <2>4. Moved(p, "encoders", Predictable) BY <2>1, <2>3, Zenon DEF PredictBeginDoes
  <2> QED BY <1>2, <2>2, <2>4, MovedExcusable
<1>4. CASE PredictEncoders(p)
  <2>1. p.at = "encoders" /\ Quiet /\ Encoders(p, "predict", "load", "absent") /\ p.kind = "predict"
    BY <1>4 DEF PredictEncoders, Plugin, Quiet
  <2>2. EncodersDoes(p, "predict", "load", "absent") BY <1>1, <2>1, EncodersIs
  <2>3. Workspace(p) = "predict" BY <2>1 DEF Workspace
  <2> QED BY <2>1, <2>2, <2>3, EncodersExcusable
<1>5. CASE PredictLoad(p)
  <2>1. PredictLoadDoes(p) BY <1>1, <1>5, PredictLoadIs
  <2>2. p.kind = "predict" /\ p.at = "load" /\ setup' = setup BY <2>1 DEF PredictLoadDoes, Quiet
  <2>3. disk.partial \cap Metrics = {}
    <3>1. \A q \in plugins : q.kind \notin Metrics BY <2>2, Constants DEF KindsInv
    <3> QED BY <3>1 DEF ModelsInv
  <2>4. ASSUME Moved(p, "write", p.read), NEW part \in SUBSET p.read,
               FilesBecome(disk.total, disk.doe, disk.models, disk.clusters, part, Opened("predictions"))
        PROVE  Excusable
    <3>1. /\ disk'.global = disk.global /\ disk'.local = disk.local /\ disk'.models = disk.models
          /\ disk'.partial = disk.partial \cup {"predictions"}
      BY <1>1, <2>4, FilesAre DEF Opened
    <3>2. \A m \in Metrics : m \in disk'.partial => m \in disk.partial BY <3>1, Constants
    <3> QED BY <1>2, <2>2, <2>4, <3>1, <3>2, MovedExcusable
  <2>5. AreModelsValid BY <2>2 DEF KindsInv
  <2> QED BY <2>1, <2>3, <2>4, <2>5 DEF PredictLoadDoes
<1>6. CASE PredictWrite(p)
  <2>1. PredictWriteDoes(p) BY <1>1, <1>6, PredictWriteIs
  <2>2. p.kind = "predict" /\ p.at = "write" /\ setup' = setup /\ plugins' = plugins \ {p} /\ reason' = reason
    BY <2>1 DEF PredictWriteDoes, Quiet, Ends
  <2>3. /\ disk'.global = disk.global /\ disk'.local = disk.local /\ disk'.models = disk.models
        /\ disk'.partial = disk.partial \ {"predictions"}
    BY <1>1, <2>1, FilesAre DEF Closed, PredictWriteDoes
  <2> QED BY <1>2, <2>2, <2>3, GoneExcusable
<1> QED BY <1>3, <1>4, <1>5, <1>6

\* Any step of a plugin.
LEMMA PluginExcusable ==
  ASSUME faults = 0, LearnInv, KindsInv, EncodersInv, ModelsInv, NEW p \in plugins, PluginStep(p)
  PROVE  Excusable
BY DoeExcusable, ModelExcusable, SavedExcusable, ClusterExcusable, PredictExcusable, Zenon DEF PluginStep

\* The processes of a handler that nobody is left of, and what they find.
LEMMA LaunchedKinds ==
  ASSUME NEW kinds, plugins = {}, Launched(kinds), setup \in Setups, setup' = setup,
         disk'.models = disk.models,
         \/ kinds = {"doe"}
         \/ kinds = Models \cup Clustering /\ disk'.table # None
         \/ kinds = {"predict"} /\ AreModelsValid
  PROVE  KindsInv'
<1>1. \A p \in plugins' :
        p \in [at : {"begin"}, read : {{}}, born : {life}, kind : kinds, iteration : {server'.iteration}]
  BY DEF Launched
<1>2. \A p, q \in plugins' : p.kind = q.kind => p = q BY <1>1
<1>3. \A p \in plugins' : p.kind \in kinds BY <1>1
<1>4. AreModelsValid' = AreModelsValid BY DEF AreModelsValid, IsModelValid
<1>5. DOMAIN setup.plugin \subseteq Metrics BY SetupFacts
<1>6. CASE kinds = {"doe"} BY <1>2, <1>3, <1>6, Constants DEF KindsInv
<1>7. CASE kinds = Models \cup Clustering /\ disk'.table # None
  <2>1. kinds \subseteq DOMAIN setup.plugin \cup {"cluster"} BY <1>7 DEF Models, Clustering
  <2>2. \A p \in plugins' : p.kind # "predict" /\ (p.kind \in Metrics => p.kind \in DOMAIN setup.plugin)
    BY <1>3, <1>5, <2>1, Constants
  <2> QED BY <1>2, <1>7, <2>2 DEF KindsInv
<1>8. CASE kinds = {"predict"} /\ AreModelsValid BY <1>2, <1>3, <1>4, <1>8, Constants DEF KindsInv
<1> QED BY <1>6, <1>7, <1>8

\* The handler of a server that nobody has died under starts its plugins in order.
LEMMA HandlerCalm ==
  ASSUME LearnInv, RunInv, life = 1, KindsInv, EncodersInv, ModelsInv, FirstInv,
         Welcome \/ Recovered \/ DoeCreated \/ Observation \/ ModelsBuilt \/ Predicted
  PROVE  KindsInv' /\ EncodersInv' /\ ModelsInv' /\ FirstInv'
<1>1. VariablesOK /\ DiskOK(disk) /\ server.iteration \in Nat /\ setup \in Setups
      /\ LoadDoe \in Seq(Row) /\ Fresh \in [Confs -> Int] /\ given \in [Confs -> Int]
      /\ server.doe \in Seq(Row)
  BY LoadDoeOK DEF LearnInv, VariablesOK, HandlerOK, Fresh, Designs
<1>2. Handled BY HandlerHandles
<1>3. plugins = {}
  <2>1. \A p \in plugins : p.born # life BY NobodyRuns
  <2>2. \A p \in plugins : p.born \in 1 .. life BY DEF LearnInv, PluginsOK, ProcessOK
  <2> QED BY <2>1, <2>2
<1>4. /\ setup' = setup /\ disk'.total = disk.total /\ disk'.models = disk.models
      /\ disk'.partial = disk.partial /\ disk'.global = disk.global /\ disk'.local = disk.local
      /\ \A q \in plugins' : q.at = "begin"
  BY <1>2, <1>3 DEF Handled, Started
<1>5. EncodersInv'
  <2>1. AreModelsValid' = AreModelsValid BY <1>4 DEF AreModelsValid, IsModelValid
  <2>2. \A w \in Workspaces : disk.local[w] # "torn" BY <1>3 DEF EncodersInv
  <2>3. /\ disk'.total # None => disk'.global = "ready" \/ disk'.local["predict"] # "absent"
        /\ disk'.total # None /\ disk'.global = "absent" => AreModelsValid'
        /\ \A m \in disk'.models : m \in DOMAIN setup'.plugin /\ disk'.local[setup'.plugin[m]] = "ready"
    BY <1>4, <2>1 DEF EncodersInv
  <2> QED BY <1>4, <2>2, <2>3 DEF EncodersInv
<1>6. ModelsInv' BY <1>3, <1>4 DEF ModelsInv
<1>7. ASSUME plugins' = plugins PROVE KindsInv' BY <1>3, <1>7 DEF KindsInv
<1>8. ASSUME NEW doe \in Seq(Row), NEW counts \in [Confs -> Int], NEW cluster, NEW prediction,
             Explored(doe, counts, cluster, prediction)
      PROVE  server'.phase = "exploring"
  BY <1>1, <1>8, ExploredIs
<1>9. ASSUME NEW phase, NEW next, NEW doe, NEW iteration, NEW cluster, NEW prediction,
             GoneTo(phase, next, doe, iteration, cluster, prediction)
      PROVE  server'.phase = phase /\ server'.next = next
  BY <1>1, <1>9, GoneIs
<1>10. ASSUME disk.table # None, disk' = disk, NEW cluster, NEW prediction, LearntOn(cluster, prediction)
       PROVE  KindsInv' /\ FirstInv'
  <2>1. CASE UNCHANGED plugins /\ Explored(server.doe, given, cluster, prediction)
    <3>1. server'.phase = "exploring" BY <1>1, <1>8, <2>1
    <3> QED BY <1>7, <1>10, <2>1, <3>1 DEF FirstInv
  <2>2. CASE Launched({"doe"}) /\ GoneTo("waiting", "next_doe", <<>>, server.iteration, cluster, prediction)
    <3>1. server'.phase = "waiting" /\ server'.next = "next_doe" BY <1>9, <2>2
    <3>2. KindsInv' BY <1>1, <1>3, <1>4, <2>2, LaunchedKinds
    <3> QED BY <1>10, <3>1, <3>2 DEF FirstInv
  <2> QED BY <1>10, <2>1, <2>2 DEF LearntOn
<1>11. CASE Welcome
  <2>1. WelcomeDoes BY <1>1, <1>11, WelcomeIs
  <2>2. disk = EmptyDisk BY <2>1 DEF WelcomeDoes, FirstInv
  <2>3. disk.predictions = {} /\ disk.doe = None /\ disk.models = {} BY <2>2 DEF EmptyDisk
  <2>4. LoadDoe = <<>> BY <1>1, <2>3, LoadDoeOK
  <2>5. ~AreModelsValid BY <1>1, <2>3, SetupFacts DEF AreModelsValid, IsModelValid
  <2>6. /\ GoneTo("waiting", "first_doe", <<>>, server.iteration, Found, {}) /\ Launched({"doe"})
    BY <2>1, <2>3, <2>4, <2>5 DEF WelcomeDoes
  <2>7. server'.phase = "waiting" /\ server'.next = "first_doe" BY <1>9, <2>6
  <2>8. KindsInv' BY <1>1, <1>3, <1>4, <2>6, LaunchedKinds
  <2>9. FirstInv' BY <2>7 DEF FirstInv
  <2> QED BY <1>5, <1>6, <2>8, <2>9
<1>12. CASE Recovered
  <2>1. RecoveredDoes BY <1>1, <1>12, RecoveredIs
  <2> QED BY <2>1 DEF RecoveredDoes, Waited, FirstInv
<1>13. CASE DoeCreated
  <2>1. DoeCreatedDoes BY <1>1, <1>13, DoeCreatedIs
  <2>2. server.phase = "waiting" /\ server.next \in {"first_doe", "next_doe"} /\ plugins' = plugins
    BY <2>1 DEF DoeCreatedDoes, Waited
  <2>3. KindsInv' BY <1>7, <2>2
  <2>4. CASE GoneTo("undefined", "none", <<>>, server.iteration, server.cluster, server.prediction)
    <3>1. server'.phase = "undefined" BY <1>9, <2>4
    <3> QED BY <1>5, <1>6, <2>3, <3>1 DEF FirstInv
  <2>5. CASE /\ IF server.next = "first_doe" THEN TableBecomes(0) ELSE disk' = disk
             /\ Explored(LoadDoe, Fresh, server.cluster, server.prediction)
    <3>1. server'.phase = "exploring" BY <1>1, <1>8, <2>5
    <3>2. disk'.table # None
      <4>1. CASE server.next = "first_doe"
        <5>1. disk'.table = 0 BY <2>5, <4>1, TableIs
        <5> QED BY <5>1, NoneAssumption DEF NoneAssumption
      <4>2. CASE server.next = "next_doe" BY <2>2, <2>5, <4>2 DEF FirstInv
      <4> QED BY <2>2, <4>1, <4>2
    <3> QED BY <1>5, <1>6, <2>3, <3>1, <3>2 DEF FirstInv
  <2> QED BY <2>1, <2>4, <2>5 DEF DoeCreatedDoes
<1>14. CASE Observation
  <2>1. ObservationDoes BY <1>1, <1>14, ObservationIs
  <2>2. disk.table # None BY <2>1 DEF ObservationDoes, FirstInv
  <2>3. disk'.table # None
    <3>1. disk'.table = InsertObservation BY <2>1, TableIs DEF ObservationDoes
    <3>2. disk'.table \in Int BY <1>1, <2>2, <3>1, InsertedTable
    <3> QED BY <3>2, NoneAssumption DEF NoneAssumption
  <2>4. CASE UNCHANGED plugins /\ Explored(server.doe, given, server.cluster, server.prediction)
    <3>1. server'.phase = "exploring" BY <1>1, <1>8, <2>4
    <3> QED BY <1>5, <1>6, <1>7, <2>3, <2>4, <3>1 DEF FirstInv
  <2>5. CASE /\ Launched(Models \cup Clustering)
             /\ GoneTo("waiting", "models", server.doe, server.iteration + 1, server.cluster,
                       server.prediction)
    <3>1. server'.phase = "waiting" /\ server'.next = "models" BY <1>9, <2>5
    <3>2. KindsInv' BY <1>1, <1>3, <1>4, <2>3, <2>5, LaunchedKinds
    <3> QED BY <1>5, <1>6, <2>3, <3>1, <3>2 DEF FirstInv
  <2> QED BY <2>1, <2>4, <2>5 DEF ObservationDoes
<1>15. CASE ModelsBuilt
  <2>1. ModelsBuiltDoes BY <1>1, <1>15, ModelsBuiltIs
  <2>2. disk' = disk BY <2>1, Zenon DEF ModelsBuiltDoes
  <2>3. disk.table # None BY <2>1 DEF ModelsBuiltDoes, Waited, FirstInv
  <2>4. CASE /\ AreModelsValid /\ Launched({"predict"})
             /\ GoneTo("waiting", "prediction", server.doe, server.iteration, Found, server.prediction)
    <3>1. server'.phase = "waiting" /\ server'.next = "prediction" BY <1>9, <2>4
    <3>2. KindsInv' BY <1>1, <1>3, <1>4, <2>4, LaunchedKinds
    <3> QED BY <1>5, <1>6, <2>2, <2>3, <3>1, <3>2 DEF FirstInv
  <2>5. CASE LearntOn(Found, server.prediction) BY <1>5, <1>6, <1>10, <2>2, <2>3, <2>5
  <2> QED BY <2>1, <2>4, <2>5 DEF ModelsBuiltDoes
<1>16. CASE Predicted
  <2>1. PredictedDoes BY <1>1, <1>16, PredictedIs
  <2>2. disk' = disk BY <2>1, Zenon DEF PredictedDoes
  <2>3. disk.table # None BY <2>1 DEF PredictedDoes, Waited, FirstInv
  <2>4. CASE /\ UNCHANGED plugins
             /\ GoneTo("informed", "none", server.doe, server.iteration, server.cluster, disk.predictions)
    <3>1. server'.phase = "informed" BY <1>9, <2>4
    <3> QED BY <1>5, <1>6, <1>7, <2>4, <3>1 DEF FirstInv
  <2>5. CASE LearntOn(server.cluster, {}) BY <1>5, <1>6, <1>10, <2>2, <2>3, <2>5
  <2> QED BY <2>1, <2>4, <2>5 DEF PredictedDoes
<1> QED BY <1>11, <1>12, <1>13, <1>14, <1>15, <1>16

\* A step without a fault keeps what is known of a server nobody has died under.
LEMMA CalmKept ==
  ASSUME LearnInv, WholeInv, IterInv, CalmInv, LearnNext
  PROVE  CalmInv'
<1>0. life \in Nat \ {0} /\ faults \in Nat BY DEF LearnInv, VariablesOK
<1>1. CASE UNCHANGED learnVars
  BY <1>1 DEF learnVars, CalmInv, Calm, KindsInv, EncodersInv, ModelsInv, FirstInv, Workspace,
              PluginsFindTheirFiles, AreModelsValid, IsModelValid
<1>2. ASSUME NEW p \in plugins, PluginStep(p) PROVE CalmInv'
  <2>1. Works(p) BY <1>2, PluginWorks DEF IterInv
  <2>2. faults' = faults /\ life' = life /\ setup' = setup
    BY <1>2 DEF PluginStep, DoeBegin, DoeTotal, DoeDesign, DoeWrite, ModelBegin, ModelEncoders,
                EncodersSaved, ModelFit, ModelWrite, ClusterBegin, ClusterWrite, PredictBegin,
                PredictEncoders, PredictLoad, PredictWrite, Plugin
  <2> SUFFICES ASSUME Calm' PROVE KindsInv' /\ EncodersInv' /\ ModelsInv' /\ FirstInv' /\ PluginsFindTheirFiles'
    BY DEF CalmInv
  <2>3. KindsInv /\ EncodersInv /\ ModelsInv /\ FirstInv /\ PluginsFindTheirFiles
    BY <2>2 DEF CalmInv, Calm
  <2>4. KindsInv' BY <2>1, <2>3, KindsKept
  <2>5. Excusable BY <1>2, <2>2, <2>3, PluginExcusable DEF Calm
  <2>6. FirstInv'
    <3>1. CASE server' = server BY <1>2, <2>1, <2>3, <3>1 DEF FirstInv, Works
    <3>2. CASE Downed BY <3>2, DownIsLow DEF FirstInv
    <3> QED BY <2>1, <3>1, <3>2 DEF Works, Advanced, Ends, Orphaned
  <2>7. PluginsFindTheirFiles'
    <3>1. CASE reason' = reason BY <2>2, <2>3, <3>1 DEF PluginsFindTheirFiles
    <3>2. CASE Excused(reason') BY <2>2, <3>2 DEF PluginsFindTheirFiles, Excused, Data
    <3> QED BY <2>5, <3>1, <3>2 DEF Excusable
  <2>8. EncodersInv' /\ ModelsInv' BY <2>5 DEF Excusable
  <2> QED BY <2>4, <2>6, <2>7, <2>8, Zenon
<1>3. CASE Welcome \/ Recovered \/ DoeCreated \/ Observation \/ ModelsBuilt \/ Predicted
  <2>1. Handled BY <1>3, HandlerHandles
  <2>2. faults' = faults /\ life' = life /\ setup' = setup /\ reason' = reason BY <2>1 DEF Handled
  <2> SUFFICES ASSUME Calm' PROVE KindsInv' /\ EncodersInv' /\ ModelsInv' /\ FirstInv' /\ PluginsFindTheirFiles'
    BY DEF CalmInv
  <2>3. life = 1 /\ KindsInv /\ EncodersInv /\ ModelsInv /\ FirstInv /\ PluginsFindTheirFiles
    BY <2>2 DEF CalmInv, Calm
  <2>4. KindsInv' /\ EncodersInv' /\ ModelsInv' /\ FirstInv' BY <1>3, <2>3, HandlerCalm DEF IterInv
  <2>5. PluginsFindTheirFiles' BY <2>2, <2>3 DEF PluginsFindTheirFiles
  <2> QED BY <2>4, <2>5
<1>4. CASE Bye \/ Crash \/ Shutdown \/ Restart \/ \E p \in plugins : Kill(p)
  <2>1. faults' = faults + 1 \/ life' = life + 1
    BY <1>4 DEF Bye, Crash, Shutdown, Restart, Kill, Fault
  <2>2. ~Calm' BY <1>0, <2>1 DEF Calm
  <2> QED BY <2>2 DEF CalmInv
<1> QED BY <1>1, <1>2, <1>3, <1>4, StepCases, Zenon

\* Until the first death or departure no plugin misses a table, the encoders or a model that
\* another process was to leave for it, for every number of metrics and however their processes
\* interleave, also when models are refused and further designs are made; only two metrics that
\* share a plugin may find the encoders half copied by each other.
THEOREM FailuresHaveAReason == LearnSpec => []PluginsFindTheirFiles
<1>1. LearnInit => CalmInv
  <2> SUFFICES ASSUME LearnInit PROVE CalmInv OBVIOUS
  <2>1. /\ plugins = {} /\ disk = EmptyDisk /\ server.phase = "clueless" /\ reason = None
    BY DEF LearnInit, NewHandler
  <2>2. /\ disk.total = None /\ disk.models = {} /\ disk.partial = {}
        /\ \A w \in Workspaces : disk.local[w] = "absent"
    BY <2>1 DEF EmptyDisk
  <2> QED BY <2>1, <2>2 DEF CalmInv, KindsInv, EncodersInv, ModelsInv, FirstInv, PluginsFindTheirFiles
<1>2. LearnInv /\ WholeInv /\ IterInv /\ CalmInv /\ [LearnNext]_learnVars => CalmInv'
  <2>1. CalmInv /\ UNCHANGED learnVars => CalmInv'
    BY DEF learnVars, CalmInv, Calm, KindsInv, EncodersInv, ModelsInv, FirstInv, Workspace,
           PluginsFindTheirFiles, AreModelsValid, IsModelValid
  <2> QED BY <2>1, CalmKept
<1>3. CalmInv => PluginsFindTheirFiles BY DEF CalmInv, Calm, PluginsFindTheirFiles
<1> QED BY <1>1, <1>2, <1>3, IterAlways, PTL DEF LearnSpec
=============================================================================
