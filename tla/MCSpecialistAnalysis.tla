------------------------ MODULE MCSpecialistAnalysis ------------------------
(* Small instances of SpecialistAnalysis for TLC. *)
EXTENDS SpecialistAnalysis, TLC

CONSTANTS c1, c2, p1, p2, p3, f, g

\* c1's diff defines f, then g, which no chunk mentions together with f, and
\* c2's defines f alone; some lines define nothing.
Diffs == c1 :> << [defines |-> {}], [defines |-> {f}] >>
         @@ c2 :> << [defines |-> {f}], [defines |-> {}], [defines |-> {g}] >>
VectorOrder == <<p1, p2, p3>>
TextOrder == <<p3, p1, p2>>
SomeMention == p1 :> {f} @@ p2 :> {g} @@ p3 :> {f, g}
Sizes == p1 :> 2 @@ p2 :> 2 @@ p3 :> 3

\* A list with every kind of item, lists of one kind, an empty list, an object
\* without a list, and texts that hold several values or none.
Report == Object("findings", <<"rejected", "valid", "not_object">>)
SmallTexts ==
    { <<>>, <<Report>>, <<Array(<<"valid">>)>>, <<Object("issues", <<"rejected">>)>>,
      <<Object("findings", <<>>)>>, <<Object("other", <<>>)>>,
      <<Array(<<"not_object">>), Report>>, <<Array(<<>>), Report>> }
=============================================================================
