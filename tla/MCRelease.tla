---------------------------- MODULE MCRelease ----------------------------
(* Two pods, two users, six legacy databases; then one meeting with a guest. *)
EXTENDS Release, TLC

CONSTANTS r1, r2, u1, u2, blue, pink, here, there, n1, n2, nook, pub, peak

Row(i, n, o) == [id |-> i, name |-> n, order |-> o]
Type(n) == [name |-> n, code |-> None]

\* Two participants, one without an avatar; a seeded slug under another name
\* and a category that is no seed.
PlainContent ==
  [categories |-> ("cafe" :> Row(1, "old cafe", 1)) @@ ("brunch" :> Row(2, "brunch", 2)),
   types |-> 3 :> Type("old"), joined |-> {u1, u2},
   nickname |-> (u1 :> n1) @@ (u2 :> n2), avatar |-> (u1 :> pink) @@ (u2 :> None),
   start |-> here]
NobodyContent ==
  [PlainContent EXCEPT !.joined = {}, !.nickname = Nobody, !.avatar = Nobody, !.start = None]
\* What CompletePlaceFlow refuses: equal nicknames, a name or a display order
\* that the seeds want, a meeting type beyond the nine.
TwinContent == [PlainContent EXCEPT !.nickname = [u \in Users |-> n1]]
ClashContent == [NobodyContent EXCEPT !.categories = "old" :> Row(1, "bar", 2)]
TypeContent == [NobodyContent EXCEPT !.types = 10 :> Type("old")]
TypeClashContent ==
  [NobodyContent EXCEPT !.types = (2 :> Type("SOCIAL")) @@ (1 :> Type("OTHER"))]

SomeContents ==
  {PlainContent, NobodyContent, TwinContent, ClashContent, TypeContent, TypeClashContent}

SomeCourses == {<<>>, <<"cafe">>, <<"bar">>, <<"cafe", "bar">>, <<"cafe", "cafe">>}
SomeTypes == {"SOCIAL", "OTHER"}
SlugOfPlace == (nook :> "cafe") @@ (pub :> "bar") @@ (peak :> "walk")
NearSpot == (here :> {nook, pub, peak}) @@ (there :> {pub})
PodSymmetry == Permutations({r1, r2})
==========================================================================
