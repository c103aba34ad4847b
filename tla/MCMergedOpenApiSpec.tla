------------------------ MODULE MCMergedOpenApiSpec ------------------------
(***************************************************************************)
(* The documents of MCVersionExtractor without schemas, and documents with *)
(* them, in two shapes: the schema of a response holds inA and the         *)
(* component a holds inB, either as a property, as additionalProperties or *)
(* as the member of an allOf or oneOf; or the schema of the response holds *)
(* both, inA as a property and inB as the member of its combinator.        *)
(***************************************************************************)
EXTENDS MergedOpenApiSpec, MCVersionExtractor

CONSTANT string

MCTypes == {object, string}

NoSchema == [schema |-> FALSE, types |-> {}, combinator |-> "none", member |-> FALSE,
             plain |-> FALSE, open |-> FALSE]
Reference == [NoSchema EXCEPT !.schema = TRUE]
Typed(T) == [Reference EXCEPT !.types = T]
Plain(T) == [Typed(T) EXCEPT !.plain = TRUE]
Combining(k) == [Reference EXCEPT !.combinator = k]

\* With the object inside as a property, as additionalProperties, as a member.
Holders == {Typed({object}), Plain({object}), Combining("allOf"), Combining("oneOf")}

Leaves == {Typed({object}), Typed({string}), [Typed({object}) EXCEPT !.open = TRUE]}

\* A reference, or a schema that refers to nothing.
Leaf(r, f) == IF r = NoRef THEN f ELSE Reference

MemberOf(holder, f) == [f EXCEPT !.member = holder.combinator # "none"]

InPath(o) == {<<o, media>>, <<o, response>>, <<o, path>>}

SchemaDocument(inside, r, s, t, bad) ==
  [kind |-> Kind,
   inside |-> {<<response, path>>, <<media, response>>, <<media, path>>} \cup inside,
   ref |-> [o \in MCObjects |-> CASE o = inA -> r [] o = inB -> s [] o = c -> t [] OTHER -> NoRef],
   fits |-> [o \in MCObjects |-> o \notin bad]]

Forms(holder, first, outer, second, named, last) ==
  [o \in MCObjects |->
     CASE o = media -> holder [] o = inA -> first [] o = a -> outer [] o = inB -> second
       [] o = b -> named [] o = c -> last [] OTHER -> NoSchema]

One(r, s, t, bad, holder, outer, leaf, named) ==
  [doc |-> SchemaDocument(InPath(inA) \cup {<<inB, a>>}, r, s, t, bad),
   form |-> Forms(holder, MemberOf(holder, Leaf(r, leaf)), outer,
                  MemberOf(outer, Leaf(s, Typed({object}))), named, Leaf(t, Plain({object})))]

Both(r, s, bad, holder, outer, leaf) ==
  [doc |-> SchemaDocument(InPath(inA) \cup InPath(inB), r, s, NoRef, bad),
   form |-> Forms(holder, Leaf(r, leaf), outer, MemberOf(holder, Leaf(s, Typed({object}))),
                  Typed({object}), Plain({object}))]

\* What c refers to matters only where something refers to c.
MCInputs ==
  {[doc |-> d, form |-> [o \in MCObjects |-> NoSchema]] : d \in MCDocuments}
  \cup
  {One(r, s, IF r = c THEN t ELSE NoRef, bad, holder, outer, leaf, named) :
     r \in Refs, s \in {a, b, NoRef}, t \in {b, c, NoRef}, bad \in {{}, {b}, {inB}, {inA}},
     holder \in Holders, outer \in Holders, leaf \in Leaves,
     named \in {Typed({object}), Typed(MCTypes), Combining("oneOf")}}
  \cup
  {Both(r, s, bad, holder, outer, leaf) :
     r \in {a, NoRef}, s \in {a, b, NoRef}, bad \in {{}, {b}, {inA}},
     holder \in {Combining("allOf"), Combining("oneOf"),
                 [Typed({object}) EXCEPT !.combinator = "allOf"]},
     outer \in {Typed({object}), Typed({string}), Plain({})}, leaf \in Leaves}
=============================================================================
