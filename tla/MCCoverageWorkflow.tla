------------------------- MODULE MCCoverageWorkflow -------------------------
(***************************************************************************)
(* Documents of up to two path items over two templates, of which two may  *)
(* have the same, and up to three attempts to reach the cluster.           *)
(***************************************************************************)
EXTENDS CoverageWorkflow

CONSTANTS t, u, get, put

MCAttempts == 3

MCTemplates == {t, u}
MCMethods == {get, put}

MCItems == [template : MCTemplates, methods : SUBSET MCMethods]

MCDocument == {<<>>} \cup {<<d>> : d \in MCItems} \cup {<<d, e>> : d, e \in MCItems}

MCDocuments == [cluster : MCDocument, input : MCDocument]
=============================================================================
