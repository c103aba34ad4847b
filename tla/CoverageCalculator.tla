------------------------- MODULE CoverageCalculator -------------------------
(***************************************************************************)
(* CoverageCalculator.calculate: the endpoints of a cluster and of the     *)
(* specification, by path template and method, and the loop that moves     *)
(* those in both to covered.                                               *)
(***************************************************************************)
EXTENDS Naturals, Sequences

CONSTANTS
  Templates,    \* paths without the names of their parameters
  Methods,
  Documents     \* the path items of a cluster and of a specification

\* The path items in the order of a document; two may have one template.
Document == Seq([template : Templates, methods : SUBSET Methods])

ASSUME DocumentsAssumption ==
  Documents \subseteq [cluster : Document, input : Document]

VARIABLES
  documents,    \* as they were read, empty before
  uncovered, covered, specified_but_not_provided,
  paths,        \* the templates the loop has not come to
  state         \* idle, running or done

calculatorVars ==
  <<documents, uncovered, covered, specified_but_not_provided, paths, state>>

TemplatesOf(document) == {document[i].template : i \in 1 .. Len(document)}

\* collect: the last of the path items with one template stays.
Last(document, t) ==
  CHOOSE i \in 1 .. Len(document) :
    /\ document[i].template = t
    /\ \A j \in i + 1 .. Len(document) : document[j].template # t

collect(document) == [t \in TemplatesOf(document) |-> document[Last(document, t)].methods]

Endpoints(f) == UNION {{t} \X f[t] : t \in DOMAIN f}

CalculatorInit ==
  /\ documents = [cluster |-> <<>>, input |-> <<>>]
  /\ uncovered = <<>> /\ covered = <<>> /\ specified_but_not_provided = <<>>
  /\ paths = {}
  /\ state = "idle"

\* Read both documents and collect their endpoints.
calculate ==
  /\ state = "idle"
  /\ documents' \in Documents
  /\ uncovered' = collect(documents'.cluster)
  /\ specified_but_not_provided' = collect(documents'.input)
  /\ covered' = <<>>
  /\ paths' = TemplatesOf(documents'.cluster)
  /\ state' = "running"

\* Mistake: the entry in covered is made before the look-up.
SkipLate(t) ==
  /\ t \in paths \ DOMAIN specified_but_not_provided
  /\ covered' = [u \in DOMAIN covered \cup {t} |-> IF u = t THEN {} ELSE covered[u]]
  /\ paths' = paths \ {t}
  /\ UNCHANGED <<documents, uncovered, specified_but_not_provided, state>>

Skip(t) ==
  /\ t \in paths \ DOMAIN specified_but_not_provided
  /\ paths' = paths \ {t}
  /\ UNCHANGED <<documents, uncovered, covered, specified_but_not_provided, state>>

\* The methods of a template that both have.
Both(t) == uncovered[t] \cap specified_but_not_provided[t]

\* Mistakes: what is covered stays uncovered; a method of one of the two is
\* covered.
CoverKeeping(t) ==
  /\ t \in paths \cap DOMAIN specified_but_not_provided
  /\ specified_but_not_provided' = [specified_but_not_provided EXCEPT ![t] = @ \ Both(t)]
  /\ covered' = IF Both(t) = {} THEN covered
                ELSE [u \in DOMAIN covered \cup {t} |-> IF u = t THEN Both(t) ELSE covered[u]]
  /\ paths' = paths \ {t}
  /\ UNCHANGED <<documents, uncovered, state>>

CoverEither(t) ==
  /\ t \in paths \cap DOMAIN specified_but_not_provided
  /\ covered' = [u \in DOMAIN covered \cup {t} |-> IF u = t THEN uncovered[t] ELSE covered[u]]
  /\ specified_but_not_provided' =
       [specified_but_not_provided EXCEPT ![t] = @ \ uncovered[t]]
  /\ uncovered' = [uncovered EXCEPT ![t] = {}]
  /\ paths' = paths \ {t}
  /\ UNCHANGED <<documents, state>>

Cover(t) ==
  /\ t \in paths \cap DOMAIN specified_but_not_provided
  /\ uncovered' = [uncovered EXCEPT ![t] = @ \ Both(t)]
  /\ specified_but_not_provided' = [specified_but_not_provided EXCEPT ![t] = @ \ Both(t)]
  /\ covered' = IF Both(t) = {} THEN covered
                ELSE [u \in DOMAIN covered \cup {t} |-> IF u = t THEN Both(t) ELSE covered[u]]
  /\ paths' = paths \ {t}
  /\ UNCHANGED <<documents, state>>

Finish ==
  /\ state = "running" /\ paths = {}
  /\ state' = "done"
  /\ UNCHANGED <<documents, uncovered, covered, specified_but_not_provided, paths>>

CalculatorNext == calculate \/ (\E t \in paths : Skip(t) \/ Cover(t)) \/ Finish

-----------------------------------------------------------------------------
CalculatorTypeOK ==
  /\ documents \in [cluster : Document, input : Document]
  /\ uncovered \in [TemplatesOf(documents.cluster) -> SUBSET Methods]
  /\ specified_but_not_provided \in [TemplatesOf(documents.input) -> SUBSET Methods]
  /\ DOMAIN covered \subseteq TemplatesOf(documents.cluster) \cap TemplatesOf(documents.input)
  /\ covered \in [DOMAIN covered -> SUBSET Methods]
  /\ paths \subseteq DOMAIN uncovered
  /\ state \in {"idle", "running", "done"}

(***************************************************************************)
(* No endpoint is lost or counted twice, at any point of the loop: one of  *)
(* the cluster is either uncovered or covered, one of the specification    *)
(* either covered or not provided.                                         *)
(***************************************************************************)
Partition ==
  /\ Endpoints(uncovered) \cup Endpoints(covered) = Endpoints(collect(documents.cluster))
  /\ Endpoints(specified_but_not_provided) \cup Endpoints(covered)
       = Endpoints(collect(documents.input))
  /\ Endpoints(uncovered) \cap Endpoints(covered) = {}
  /\ Endpoints(specified_but_not_provided) \cap Endpoints(covered) = {}

\* The endpoints of a document as it is written.
Provided(document) ==
  UNION {{document[i].template} \X document[i].methods : i \in 1 .. Len(document)}

\* Two path items of a document do not have the same template.
Apart(document) ==
  \A i, j \in 1 .. Len(document) : document[i].template = document[j].template => i = j

Descriptions ==
  LET cluster == Provided(documents.cluster)
      input == Provided(documents.input)
  IN  /\ Endpoints(uncovered) = cluster \ input
      /\ Endpoints(covered) = cluster \cap input
      /\ Endpoints(specified_but_not_provided) = input \ cluster

(***************************************************************************)
(* The three lists are what the descriptions written beside them say, of   *)
(* documents without two path items of one template.                       *)
(***************************************************************************)
DescribedApart ==
  state = "done" /\ Apart(documents.cluster) /\ Apart(documents.input) => Descriptions
=============================================================================
