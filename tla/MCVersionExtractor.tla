------------------------- MODULE MCVersionExtractor -------------------------
(***************************************************************************)
(* Documents of one path and up to three components, in two shapes: every  *)
(* component holding a part that may refer, or being a reference itself.   *)
(***************************************************************************)
EXTENDS VersionExtractor, FiniteSets

CONSTANTS path, response, media, a, b, c, inA, inB

MCObjects == {path, response, media, a, b, c, inA, inB}

MCComponents == {a, b, c}

Kind == [o \in MCObjects |->
           IF o = path THEN "path" ELSE IF o \in MCComponents THEN "component" ELSE "part"]

Inside == {<<response, path>>, <<media, response>>, <<media, path>>, <<inA, a>>, <<inB, b>>}

Refs == MCComponents \cup {NoRef}

\* The media type and the parts refer; c may be a reference.
Deep ==
  {[kind |-> Kind, inside |-> Inside,
    ref |-> [o \in MCObjects |-> CASE o = media -> m [] o = inA -> r [] o = inB -> s
                                   [] o = c -> t [] OTHER -> NoRef],
    fits |-> [o \in MCObjects |-> o \notin bad]] :
     m \in MCComponents, r \in Refs, s \in Refs, t \in {a, NoRef},
     bad \in {{}, {a}, {inA}, {b}, {c}, {a, c}, {inA, b}}}

\* Two parts of a path refer; the components may all be references.
Flat ==
  {[kind |-> [Kind EXCEPT ![inA] = "path", ![inB] = "part"],
    inside |-> {<<response, path>>, <<media, path>>, <<inB, inA>>},
    ref |-> [o \in MCObjects |-> CASE o = media -> m [] o = inB -> n [] o = a -> r
                                   [] o = b -> s [] o = c -> t [] OTHER -> NoRef],
    fits |-> [o \in MCObjects |-> o \notin bad]] :
     m \in MCComponents, n \in Refs, r \in {a, b, NoRef}, s \in Refs, t \in Refs,
     bad \in {{}, {a}, {response, c}, {inA}}}

MCDocuments == Deep \cup Flat
=============================================================================
