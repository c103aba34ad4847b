----------------------- MODULE CoverageWorkflowProofs -----------------------
(***************************************************************************)
(* A coverage report is made of what its own job dumped and merged, loses  *)
(* no endpoint and counts none twice, and the wait before it is given up   *)
(* exactly when it should be: for all documents and every bound on the     *)
(* attempts.                                                               *)
(***************************************************************************)
EXTENDS CoverageWorkflow, FiniteSetTheorems, WellFoundedInduction, TLAPS

\* Nothing was asked or refused while the client is idle, and it sleeps only
\* when an attempt is left.
AttemptsLeft ==
  /\ link = "idle" => attempt = 0 /\ refusal = "none"
  /\ link = "sleeping" => attempt < max_attempts

ClientIInv == ClientTypeOK /\ GivesUpInTime /\ AttemptsLeft

LEMMA InitClient == ClientInit => ClientIInv
BY MaxAttemptsAssumption
   DEF ClientInit, ClientIInv, ClientTypeOK, GivesUpInTime, AttemptsLeft, Fatal, Passing

LEMMA NextClient == ClientIInv /\ [ClientNext]_clientVars => ClientIInv'
<1> SUFFICES ASSUME ClientIInv, [ClientNext]_clientVars PROVE ClientIInv'
  OBVIOUS
<1> USE MaxAttemptsAssumption
    DEF ClientIInv, ClientTypeOK, GivesUpInTime, AttemptsLeft, Fatal, Passing
<1>1. CASE wait_until_available
  BY <1>1 DEF wait_until_available, Ask
<1>2. CASE Available
  BY <1>2 DEF Available
<1>3. CASE AskAgain
  BY <1>3 DEF AskAgain, Ask
<1>4. ASSUME NEW kind \in Fatal \cup Passing, Refused(kind) PROVE ClientIInv'
  BY <1>4 DEF Refused
<1>5. CASE UNCHANGED clientVars
  BY <1>5 DEF clientVars
<1> QED BY <1>1, <1>2, <1>3, <1>4, <1>5 DEF ClientNext

-----------------------------------------------------------------------------
\* Of the path items with one template there is a last one.
LEMMA LastExists ==
  ASSUME NEW d \in Document, NEW t \in TemplatesOf(d)
  PROVE  /\ Last(d, t) \in 1 .. Len(d)
         /\ d[Last(d, t)].template = t
<1> DEFINE T == {n \in 0 .. Len(d) : n < Len(d) /\ d[Len(d) - n].template = t}
<1>0. Len(d) \in Nat
  BY DEF Document
<1>1. T \subseteq Nat
  BY <1>0
<1>2. T # {}
  <2>1. PICK i \in 1 .. Len(d) : d[i].template = t
    BY DEF TemplatesOf
  <2>2. Len(d) - i \in 0 .. Len(d) /\ Len(d) - i < Len(d) /\ Len(d) - (Len(d) - i) = i
    BY <1>0
  <2>3. Len(d) - i \in T
    BY <2>1, <2>2
  <2> QED
    BY <2>3
<1>3. PICK n \in T : \A m \in T : ~ (<<m, n>> \in OpToRel(<, Nat))
  <2> HIDE DEF T
  <2> QED
    BY <1>1, <1>2, NatLessThanWellFounded, WFMin
<1>4. \A m \in T : ~ (m < n)
  BY <1>1, <1>3 DEF OpToRel
<1> DEFINE i == Len(d) - n
<1>5. i \in 1 .. Len(d) /\ d[i].template = t
  BY <1>0
<1>6. \A j \in i + 1 .. Len(d) : d[j].template # t
  <2> SUFFICES ASSUME NEW j \in i + 1 .. Len(d), d[j].template = t
               PROVE  FALSE
    OBVIOUS
  <2>1. Len(d) - j \in 0 .. Len(d) /\ Len(d) - j < Len(d) /\ Len(d) - (Len(d) - j) = j
    BY <1>0, <1>5
  <2>2. Len(d) - j \in T
    BY <2>1
  <2>3. Len(d) - j < n
    BY <1>0, <1>1
  <2> QED
    BY <1>4, <2>2, <2>3
<1> HIDE DEF i
<1> QED
  BY <1>5, <1>6 DEF Last

\* What is collected of a document.
LEMMA CollectType ==
  ASSUME NEW d \in Document
  PROVE  collect(d) \in [TemplatesOf(d) -> SUBSET Methods]
<1> SUFFICES ASSUME NEW t \in TemplatesOf(d)
             PROVE  d[Last(d, t)].methods \in SUBSET Methods
  BY DEF collect
<1> DEFINE i == Last(d, t)
<1>1. i \in 1 .. Len(d)
  BY LastExists
<1> HIDE DEF i
<1>2. d[i] \in [template : Templates, methods : SUBSET Methods]
  <2> DEFINE R == [template : Templates, methods : SUBSET Methods]
  <2>1. d \in Seq(R)
    BY DEF Document
  <2> HIDE DEF R
  <2>2. d[i] \in R
    BY <1>1, <2>1
  <2> QED
    BY <2>2 DEF R
<1>3. d[i].methods \in SUBSET Methods
  BY <1>2
<1> QED
  BY <1>3 DEF i

(***************************************************************************)
(* The type invariant: what is covered is a template of both documents.    *)
(***************************************************************************)
LEMMA InitCalculatorType == CalculatorInit => CalculatorTypeOK
<1> SUFFICES ASSUME CalculatorInit PROVE CalculatorTypeOK
  OBVIOUS
<1>1. documents \in [cluster : Document, input : Document]
  BY DEF CalculatorInit, Document
<1>2. TemplatesOf(documents.cluster) = {} /\ TemplatesOf(documents.input) = {}
  BY DEF CalculatorInit, TemplatesOf
<1> QED
  BY <1>1, <1>2 DEF CalculatorInit, CalculatorTypeOK

LEMMA CalculateType == calculate => CalculatorTypeOK'
<1> SUFFICES ASSUME calculate PROVE CalculatorTypeOK'
  OBVIOUS
<1>1. documents' \in [cluster : Document, input : Document]
  BY DocumentsAssumption DEF calculate
<1>2. documents'.cluster \in Document /\ documents'.input \in Document
  BY <1>1
<1>3. /\ uncovered' \in [TemplatesOf(documents'.cluster) -> SUBSET Methods]
      /\ specified_but_not_provided' \in [TemplatesOf(documents'.input) -> SUBSET Methods]
  BY <1>2, CollectType DEF calculate
<1>4. paths' \subseteq DOMAIN uncovered'
  BY <1>3 DEF calculate
<1>5. TemplatesOf(documents.cluster)' = TemplatesOf(documents'.cluster)
      /\ TemplatesOf(documents.input)' = TemplatesOf(documents'.input)
  BY DEF TemplatesOf
<1> QED
  BY <1>1, <1>3, <1>4, <1>5 DEF calculate, CalculatorTypeOK

LEMMA NextCalculatorType ==
  CalculatorTypeOK /\ [CalculatorNext]_calculatorVars => CalculatorTypeOK'
<1> SUFFICES ASSUME CalculatorTypeOK, [CalculatorNext]_calculatorVars
             PROVE  CalculatorTypeOK'
  OBVIOUS
<1>5. CASE calculate
  BY <1>5, CalculateType
<1> USE DEF CalculatorTypeOK
<1>1. ASSUME NEW t \in paths, Skip(t) PROVE CalculatorTypeOK'
  BY <1>1 DEF Skip
<1>2. ASSUME NEW t \in paths, Cover(t) PROVE CalculatorTypeOK'
  <2>1. t \in DOMAIN uncovered /\ t \in DOMAIN specified_but_not_provided
    BY <1>2 DEF Cover
  <2>2. Both(t) \subseteq Methods
    BY <2>1 DEF Both
  <2>3. uncovered' \in [TemplatesOf(documents.cluster) -> SUBSET Methods]
    BY <1>2, <2>1 DEF Cover
  <2>4. specified_but_not_provided' \in [TemplatesOf(documents.input) -> SUBSET Methods]
    BY <1>2, <2>1 DEF Cover
  <2>5. /\ DOMAIN covered' \subseteq DOMAIN covered \cup {t}
        /\ covered' \in [DOMAIN covered' -> SUBSET Methods]
    <3>1. CASE Both(t) = {}
      BY <1>2, <3>1 DEF Cover
    <3>2. CASE Both(t) # {}
      BY <1>2, <2>2, <3>2 DEF Cover
    <3> QED
      BY <3>1, <3>2
  <2> QED
    BY <1>2, <2>1, <2>3, <2>4, <2>5 DEF Cover
<1>3. CASE Finish
  BY <1>3 DEF Finish
<1>4. CASE UNCHANGED calculatorVars
  BY <1>4 DEF calculatorVars
<1> QED
  BY <1>1, <1>2, <1>3, <1>4, <1>5 DEF CalculatorNext

-----------------------------------------------------------------------------
(***************************************************************************)
(* For the partition it has to be known that the loop comes to a template  *)
(* once: what is still before it is not covered.                           *)
(***************************************************************************)
Before == paths \cap DOMAIN covered = {}

LEMMA InEndpoints ==
  ASSUME NEW f, NEW t, NEW m
  PROVE  <<t, m>> \in Endpoints(f) <=> t \in DOMAIN f /\ m \in f[t]
BY DEF Endpoints

\* Endpoints are pairs.
LEMMA EndpointsPairs ==
  ASSUME NEW f, NEW e \in Endpoints(f)
  PROVE  e = <<e[1], e[2]>>
BY DEF Endpoints

LEMMA CoverPartition ==
  ASSUME CalculatorTypeOK, Before, NEW t \in paths, Cover(t)
  PROVE  /\ Endpoints(uncovered') = Endpoints(uncovered) \ ({t} \X Both(t))
         /\ Endpoints(specified_but_not_provided')
              = Endpoints(specified_but_not_provided) \ ({t} \X Both(t))
         /\ Endpoints(covered') = Endpoints(covered) \cup ({t} \X Both(t))
         /\ {t} \X Both(t) \subseteq Endpoints(uncovered)
         /\ {t} \X Both(t) \subseteq Endpoints(specified_but_not_provided)
<1>1. t \in DOMAIN uncovered /\ t \in DOMAIN specified_but_not_provided /\ t \notin DOMAIN covered
  BY DEF Cover, CalculatorTypeOK, Before
<1>2. Endpoints(uncovered') = Endpoints(uncovered) \ ({t} \X Both(t))
  <2>1. /\ DOMAIN uncovered' = DOMAIN uncovered
        /\ \A u \in DOMAIN uncovered :
             uncovered'[u] = IF u = t THEN uncovered[u] \ Both(t) ELSE uncovered[u]
    BY <1>1 DEF Cover, CalculatorTypeOK
  <2> QED
    BY <1>1, <2>1 DEF Endpoints
<1>3. Endpoints(specified_but_not_provided')
        = Endpoints(specified_but_not_provided) \ ({t} \X Both(t))
  <2> DEFINE s == specified_but_not_provided
  <2>1. /\ DOMAIN s' = DOMAIN s
        /\ \A u \in DOMAIN s : s'[u] = IF u = t THEN s[u] \ Both(t) ELSE s[u]
    BY <1>1 DEF Cover, CalculatorTypeOK
  <2> QED
    BY <1>1, <2>1 DEF Endpoints
<1>4. Endpoints(covered') = Endpoints(covered) \cup ({t} \X Both(t))
  <2>1. CASE Both(t) = {}
    BY <2>1 DEF Cover, Endpoints
  <2>2. CASE Both(t) # {}
    <3>1. /\ DOMAIN covered' = DOMAIN covered \cup {t}
          /\ \A u \in DOMAIN covered' : covered'[u] = IF u = t THEN Both(t) ELSE covered[u]
      BY <2>2 DEF Cover
    <3> QED
      BY <1>1, <3>1 DEF Endpoints
  <2> QED
    BY <2>1, <2>2
<1>5. /\ {t} \X Both(t) \subseteq Endpoints(uncovered)
      /\ {t} \X Both(t) \subseteq Endpoints(specified_but_not_provided)
  BY <1>1 DEF Both, Endpoints
<1> QED
  BY <1>2, <1>3, <1>4, <1>5

LEMMA NextBefore ==
  CalculatorTypeOK /\ Before /\ [CalculatorNext]_calculatorVars => Before'
<1> SUFFICES ASSUME CalculatorTypeOK, Before, [CalculatorNext]_calculatorVars
             PROVE  Before'
  OBVIOUS
<1>1. ASSUME NEW t \in paths, Cover(t) PROVE Before'
  <2>1. DOMAIN covered' \subseteq DOMAIN covered \cup {t}
    BY <1>1 DEF Cover
  <2> QED
    BY <1>1, <2>1 DEF Cover, Before
<1> QED
  BY <1>1 DEF CalculatorNext, calculate, Skip, Finish, calculatorVars, Before

LEMMA NextPartition ==
  CalculatorTypeOK /\ Before /\ Partition /\ [CalculatorNext]_calculatorVars => Partition'
<1> SUFFICES ASSUME CalculatorTypeOK, Before, Partition, [CalculatorNext]_calculatorVars
             PROVE  Partition'
  OBVIOUS
<1>1. ASSUME NEW t \in paths, Cover(t) PROVE Partition'
  <2>1. documents' = documents
    BY <1>1 DEF Cover
  <2> QED
    BY <1>1, <2>1, CoverPartition DEF Partition
<1>2. ASSUME NEW t \in paths, Skip(t) PROVE Partition'
  BY <1>2 DEF Skip, Partition
<1>3. CASE Finish \/ UNCHANGED calculatorVars
  BY <1>3 DEF Finish, calculatorVars, Partition
<1>4. CASE calculate
  <2>1. Endpoints(covered)' = {}
    BY <1>4 DEF calculate, Endpoints
  <2>2. /\ uncovered' = collect(documents.cluster)'
        /\ specified_but_not_provided' = collect(documents.input)'
    BY <1>4 DEF calculate, collect, TemplatesOf, Last
  <2>3. /\ Endpoints(uncovered)' = Endpoints(collect(documents.cluster))'
        /\ Endpoints(specified_but_not_provided)' = Endpoints(collect(documents.input))'
    BY <2>2 DEF Endpoints
  <2> QED
    BY <2>1, <2>3 DEF Partition
<1> QED
  BY <1>1, <1>2, <1>3, <1>4 DEF CalculatorNext

LEMMA InitPartition == CalculatorInit => Before /\ Partition
<1> SUFFICES ASSUME CalculatorInit PROVE Before /\ Partition
  OBVIOUS
<1>1. /\ Endpoints(covered) = {} /\ Endpoints(uncovered) = {}
      /\ Endpoints(specified_but_not_provided) = {}
  BY DEF CalculatorInit, Endpoints
<1>2. /\ DOMAIN collect(documents.cluster) = {}
      /\ DOMAIN collect(documents.input) = {}
  BY DEF CalculatorInit, collect, TemplatesOf
<1>3. /\ Endpoints(collect(documents.cluster)) = {}
      /\ Endpoints(collect(documents.input)) = {}
  BY <1>2 DEF Endpoints
<1> QED
  BY <1>1, <1>3 DEF CalculatorInit, Before, Partition

-----------------------------------------------------------------------------
(***************************************************************************)
(* For the descriptions it has to be known that the loop leaves nothing    *)
(* behind: a template it came to has no method left in both documents.     *)
(***************************************************************************)
Behind ==
  /\ \A t \in DOMAIN uncovered \ paths :
       t \in DOMAIN specified_but_not_provided => Both(t) = {}
  /\ state = "done" => paths = {}

LEMMA NextBehind ==
  CalculatorTypeOK /\ Behind /\ [CalculatorNext]_calculatorVars => Behind'
<1> SUFFICES ASSUME CalculatorTypeOK, Behind, [CalculatorNext]_calculatorVars
             PROVE  Behind'
  OBVIOUS
<1>1. ASSUME NEW t \in paths, Cover(t) PROVE Behind'
  <2>1. t \in DOMAIN uncovered /\ t \in DOMAIN specified_but_not_provided
    BY <1>1 DEF Cover, CalculatorTypeOK
  <2>2. /\ DOMAIN uncovered' = DOMAIN uncovered
        /\ DOMAIN specified_but_not_provided' = DOMAIN specified_but_not_provided
        /\ uncovered'[t] = uncovered[t] \ Both(t)
        /\ \A u \in DOMAIN uncovered : u # t => uncovered'[u] = uncovered[u]
        /\ specified_but_not_provided'[t] = specified_but_not_provided[t] \ Both(t)
        /\ \A u \in DOMAIN specified_but_not_provided :
             u # t => specified_but_not_provided'[u] = specified_but_not_provided[u]
    BY <1>1, <2>1 DEF Cover, CalculatorTypeOK
  <2>3. Both(t)' = {}
    BY <2>1, <2>2 DEF Both
  <2>4. ASSUME NEW u \in DOMAIN uncovered' \ paths', u \in DOMAIN specified_but_not_provided'
        PROVE  Both(u)' = {}
    <3>1. CASE u = t
      BY <2>3, <3>1
    <3>2. CASE u # t
      <4>1. u \in DOMAIN uncovered \ paths /\ u \in DOMAIN specified_but_not_provided
        BY <1>1, <2>2, <2>4, <3>2 DEF Cover
      <4>2. Both(u)' = Both(u)
        BY <2>2, <3>2, <4>1 DEF Both
      <4> QED
        BY <4>1, <4>2 DEF Behind
    <3> QED
      BY <3>1, <3>2
  <2>5. state' = "done" => paths' = {}
    BY <1>1 DEF Cover, Behind
  <2> QED
    BY <2>4, <2>5 DEF Behind
<1>2. ASSUME NEW t \in paths, Skip(t) PROVE Behind'
  BY <1>2 DEF Skip, Behind, Both
<1>3. CASE Finish
  BY <1>3 DEF Finish, Behind, Both
<1>4. CASE UNCHANGED calculatorVars
  BY <1>4 DEF calculatorVars, Behind, Both
<1>5. CASE calculate
  <2>1. DOMAIN uncovered' = paths'
    BY <1>5 DEF calculate, collect
  <2> QED
    BY <1>5, <2>1 DEF calculate, Behind
<1> QED
  BY <1>1, <1>2, <1>3, <1>4, <1>5 DEF CalculatorNext

\* Without two path items of one template nothing is dropped.
LEMMA CollectAll ==
  ASSUME NEW d \in Document, Apart(d)
  PROVE  Endpoints(collect(d)) = Provided(d)
<1>1. ASSUME NEW i \in 1 .. Len(d)
      PROVE  /\ d[i].template \in DOMAIN collect(d)
             /\ collect(d)[d[i].template] = d[i].methods
  <2>1. d[i].template \in TemplatesOf(d)
    BY DEF TemplatesOf
  <2>2. Last(d, d[i].template) = i
    BY <2>1, LastExists DEF Apart
  <2> QED
    BY <2>1, <2>2 DEF collect
<1>2. ASSUME NEW t \in DOMAIN collect(d)
      PROVE  \E i \in 1 .. Len(d) : d[i].template = t
  BY DEF collect, TemplatesOf
<1>3. Endpoints(collect(d)) \subseteq Provided(d)
  <2> SUFFICES ASSUME NEW t \in DOMAIN collect(d), NEW m \in collect(d)[t]
               PROVE  <<t, m>> \in Provided(d)
    BY DEF Endpoints
  <2>1. PICK i \in 1 .. Len(d) : d[i].template = t
    BY <1>2
  <2>2. <<t, m>> \in {d[i].template} \X d[i].methods
    BY <1>1, <2>1
  <2> QED
    BY <2>2 DEF Provided
<1>4. Provided(d) \subseteq Endpoints(collect(d))
  <2> SUFFICES ASSUME NEW i \in 1 .. Len(d), NEW m \in d[i].methods
               PROVE  <<d[i].template, m>> \in Endpoints(collect(d))
    BY DEF Provided
  <2> QED
    BY <1>1, InEndpoints
<1> QED
  BY <1>3, <1>4

LEMMA BehindDescribes ==
  ASSUME CalculatorTypeOK, Partition, Behind
  PROVE  DescribedApart
<1> SUFFICES ASSUME state = "done", Apart(documents.cluster), Apart(documents.input)
             PROVE  Descriptions
  BY DEF DescribedApart
<1>1. /\ Endpoints(collect(documents.cluster)) = Provided(documents.cluster)
      /\ Endpoints(collect(documents.input)) = Provided(documents.input)
  BY CollectAll DEF CalculatorTypeOK
<1>2. Endpoints(uncovered) \cap Endpoints(specified_but_not_provided) = {}
  <2> SUFFICES ASSUME NEW e \in Endpoints(uncovered),
                      e \in Endpoints(specified_but_not_provided)
               PROVE  FALSE
    OBVIOUS
  <2>1. /\ e[1] \in DOMAIN uncovered /\ e[2] \in uncovered[e[1]]
        /\ e[1] \in DOMAIN specified_but_not_provided
        /\ e[2] \in specified_but_not_provided[e[1]]
    BY EndpointsPairs, InEndpoints
  <2> QED
    BY <2>1 DEF Behind, Both
<1> QED
  BY <1>1, <1>2 DEF Descriptions, Partition

-----------------------------------------------------------------------------
(***************************************************************************)
(* A step of the job is at most a step of the client or of the calculator, *)
(* and the calculator runs only after the two commands before it wrote.    *)
(***************************************************************************)
LEMMA Composed ==
  [Next]_vars => [ClientNext]_clientVars /\ [CalculatorNext]_calculatorVars
BY DEF Next, vars, Wait, Dump, DumpFails, Merge, Calculate, CalculateFails, Report,
       CalculatorNext

CalculatorIInv == CalculatorTypeOK /\ Before /\ Partition /\ Behind

FilesInOrder ==
  /\ job \in {"dump", "merge", "coverage", "passed", "failed"}
  /\ files \in [Files -> {"none", "earlier", "now"}]
  /\ job \in {"dump", "merge"} => state = "idle"
  /\ job \in {"merge", "coverage", "passed"} => link = "ready" /\ files["cluster"] = "now"
  /\ job \in {"coverage", "passed"} => files["specification"] = "now"

IInv == ClientIInv /\ CalculatorIInv /\ FilesInOrder /\ ReportOfThisCluster

LEMMA InitIInv == Init => IInv
<1> SUFFICES ASSUME Init PROVE IInv
  OBVIOUS
<1>1. ClientIInv
  BY InitClient DEF Init
<1>2. CalculatorIInv
  <2>1. Behind
    BY DEF Init, CalculatorInit, Behind
  <2> QED
    BY <2>1, InitCalculatorType, InitPartition DEF Init, CalculatorIInv
<1>3. FilesInOrder
  BY DEF Init, CalculatorInit, FilesInOrder
<1>4. ReportOfThisCluster
  BY DEF Init, CalculatorInit, ReportOfThisCluster
<1> QED
  BY <1>1, <1>2, <1>3, <1>4 DEF IInv

LEMMA NextFiles ==
  IInv /\ [Next]_vars => FilesInOrder' /\ ReportOfThisCluster'
<1> SUFFICES ASSUME IInv, [Next]_vars PROVE FilesInOrder' /\ ReportOfThisCluster'
  OBVIOUS
<1> USE DEF IInv, FilesInOrder, ReportOfThisCluster, Files
<1>1. CASE Wait
  BY <1>1 DEF Wait, calculatorVars
<1>2. CASE Dump
  BY <1>2 DEF Dump, Write, clientVars, calculatorVars
<1>3. CASE DumpFails
  BY <1>3 DEF DumpFails, clientVars, calculatorVars
<1>4. CASE Merge
  BY <1>4 DEF Merge, Write, clientVars, calculatorVars
<1>5. CASE Calculate
  BY <1>5 DEF Calculate, clientVars
<1>6. CASE CalculateFails
  BY <1>6 DEF CalculateFails, clientVars, calculatorVars
<1>7. CASE Report
  BY <1>7 DEF Report, Write, clientVars
<1>8. CASE UNCHANGED vars
  BY <1>8 DEF vars, clientVars, calculatorVars
<1> QED
  BY <1>1, <1>2, <1>3, <1>4, <1>5, <1>6, <1>7, <1>8 DEF Next

LEMMA NextIInv == IInv /\ [Next]_vars => IInv'
<1> SUFFICES ASSUME IInv, [Next]_vars PROVE IInv'
  OBVIOUS
<1>1. ClientIInv'
  BY Composed, NextClient DEF IInv
<1>2. CalculatorIInv'
  BY Composed, NextCalculatorType, NextBefore, NextPartition, NextBehind
     DEF IInv, CalculatorIInv
<1> QED
  BY <1>1, <1>2, NextFiles DEF IInv

THEOREM Inductive == Spec => []IInv
BY InitIInv, NextIInv, PTL DEF Spec

\* Client, calculator, job and files have their types; among them, what is
\* covered is a template of both documents.
THEOREM TypeCorrect == Spec => []TypeOK
<1>1. IInv => TypeOK
  BY DEF IInv, TypeOK, ClientIInv, CalculatorIInv, FilesInOrder
<1> QED
  BY <1>1, Inductive, PTL

\* The client makes at most max_attempts attempts, throws with attempts left
\* only on a refusal that cannot change, and never asks again after one.
THEOREM GivesUpCorrect == Spec => []GivesUpInTime
<1>1. IInv => GivesUpInTime
  BY DEF IInv, ClientIInv
<1> QED
  BY <1>1, Inductive, PTL

\* Whatever fails before it, no report is made of files of an earlier job.
THEOREM ReportCorrect == Spec => []ReportOfThisCluster
<1>1. IInv => ReportOfThisCluster
  BY DEF IInv
<1> QED
  BY <1>1, Inductive, PTL

\* Whatever the documents, no endpoint is lost or counted twice.
THEOREM PartitionCorrect == Spec => []Partition
<1>1. IInv => Partition
  BY DEF IInv, CalculatorIInv
<1> QED
  BY <1>1, Inductive, PTL

\* Whatever the documents: if no two path items of one have one template, the
\* three lists are what their descriptions say.
THEOREM DescribedCorrect == Spec => []DescribedApart
<1>1. IInv => DescribedApart
  BY BehindDescribes DEF IInv, CalculatorIInv
<1> QED
  BY <1>1, Inductive, PTL

-----------------------------------------------------------------------------
(***************************************************************************)
(* The job comes nearer to its end with every step: a command after the    *)
(* other, in the first one an attempt after the other, and in the last one *)
(* a template after the other, of which a document has finitely many.      *)
(***************************************************************************)
CommandsLeft ==
  IF job = "dump" THEN 3 ELSE IF job = "merge" THEN 2 ELSE IF job = "coverage" THEN 1 ELSE 0

\* A question and a pause for each attempt that is left.
AttemptsToGo ==
  IF link = "idle" THEN 2 * max_attempts + 3
  ELSE IF link = "asking" THEN 2 * (max_attempts - attempt) + 2
  ELSE IF link = "sleeping" THEN 2 * (max_attempts - attempt) + 1 ELSE 0

ToCollect == IF state = "idle" THEN 1 ELSE 0

Nearer ==
  \/ CommandsLeft' < CommandsLeft
  \/ CommandsLeft' = CommandsLeft /\ job = "dump" /\ AttemptsToGo' < AttemptsToGo
  \/ CommandsLeft' = CommandsLeft /\ job = "coverage" /\ ToCollect' < ToCollect
  \/ /\ CommandsLeft' = CommandsLeft /\ job = "coverage" /\ ToCollect' = ToCollect
     /\ Cardinality(paths') < Cardinality(paths)

LEMMA PathsFinite == CalculatorTypeOK => IsFiniteSet(paths)
<1> SUFFICES ASSUME CalculatorTypeOK PROVE IsFiniteSet(paths)
  OBVIOUS
<1> DEFINE template == [i \in 1 .. Len(documents.cluster) |-> documents.cluster[i].template]
<1>1. Len(documents.cluster) \in Nat
  BY DEF CalculatorTypeOK, Document
<1>2. IsFiniteSet(TemplatesOf(documents.cluster))
  <2>1. template \in Surjection(1 .. Len(documents.cluster), TemplatesOf(documents.cluster))
    BY DEF Surjection, TemplatesOf
  <2>2. IsFiniteSet(1 .. Len(documents.cluster))
    BY <1>1, FS_Interval
  <2> QED
    BY <2>1, <2>2, FS_Surjection
<1>3. paths \subseteq TemplatesOf(documents.cluster)
  BY DEF CalculatorTypeOK
<1> QED
  BY <1>2, <1>3, FS_Subset

LEMMA LeftNatural ==
  IInv => /\ CommandsLeft \in Nat /\ AttemptsToGo \in Nat /\ ToCollect \in Nat
          /\ Cardinality(paths) \in Nat
<1> SUFFICES ASSUME IInv
             PROVE  /\ CommandsLeft \in Nat /\ AttemptsToGo \in Nat /\ ToCollect \in Nat
                    /\ Cardinality(paths) \in Nat
  OBVIOUS
<1>1. Cardinality(paths) \in Nat
  BY PathsFinite, FS_CardinalityType DEF IInv, CalculatorIInv
<1>2. AttemptsToGo \in Nat
  BY MaxAttemptsAssumption DEF AttemptsToGo, IInv, ClientIInv, ClientTypeOK
<1> QED
  BY <1>1, <1>2 DEF CommandsLeft, ToCollect

LEMMA ClientNearer == ClientIInv /\ ClientNext => AttemptsToGo' < AttemptsToGo
<1> SUFFICES ASSUME ClientIInv, ClientNext PROVE AttemptsToGo' < AttemptsToGo
  OBVIOUS
<1> USE MaxAttemptsAssumption DEF ClientIInv, ClientTypeOK, AttemptsLeft, AttemptsToGo
<1>1. CASE wait_until_available
  BY <1>1 DEF wait_until_available, Ask
<1>2. CASE Available
  BY <1>2 DEF Available
<1>3. CASE AskAgain
  BY <1>3 DEF AskAgain, Ask
<1>4. ASSUME NEW kind \in Fatal \cup Passing, Refused(kind) PROVE AttemptsToGo' < AttemptsToGo
  BY <1>4 DEF Refused
<1> QED BY <1>1, <1>2, <1>3, <1>4 DEF ClientNext

LEMMA StepNearer == IInv /\ Next => Nearer
<1> SUFFICES ASSUME IInv, Next PROVE Nearer
  OBVIOUS
<1>1. CASE Wait
  BY <1>1, ClientNearer DEF Wait, IInv, Nearer, CommandsLeft
<1>2. CASE Dump \/ DumpFails \/ Merge \/ CalculateFails \/ Report
  BY <1>2 DEF Dump, DumpFails, Merge, CalculateFails, Report, Nearer, CommandsLeft
<1>3. CASE job = "coverage" /\ calculate /\ job' = job
  BY <1>3 DEF calculate, Nearer, CommandsLeft, ToCollect
<1>4. ASSUME job = "coverage", job' = job, NEW t \in paths, Skip(t) \/ Cover(t)
      PROVE  Nearer
  <2>1. paths' = paths \ {t} /\ state' = state
    BY <1>4 DEF Skip, Cover
  <2>2. Cardinality(paths') = Cardinality(paths) - 1 /\ Cardinality(paths) \in Nat
    BY <2>1, PathsFinite, FS_RemoveElement, FS_CardinalityType DEF IInv, CalculatorIInv
  <2> QED
    BY <1>4, <2>1, <2>2 DEF Nearer, CommandsLeft, ToCollect
<1> QED
  BY <1>1, <1>2, <1>3, <1>4 DEF Next, Calculate

\* Every step of the job leaves less to do, in naturals: the job does not go
\* on for ever, whatever the cluster answers and whatever the documents hold.
\* That it does not stand still before its end is what JobEnds adds.
THEOREM ProgressCorrect ==
  Spec =>
    /\ [](/\ CommandsLeft \in Nat /\ AttemptsToGo \in Nat /\ ToCollect \in Nat
          /\ Cardinality(paths) \in Nat)
    /\ [][Nearer]_vars
<1>1. IInv /\ [Next]_vars => [Nearer]_vars
  BY StepNearer
<1> QED
  BY <1>1, Inductive, LeftNatural, PTL DEF Spec
=============================================================================
