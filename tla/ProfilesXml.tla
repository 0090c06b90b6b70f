----------------------------- MODULE ProfilesXml -----------------------------
(***************************************************************************)
(* The reader of profiles.xml (profiles.c): a recursive descent over the   *)
(* nodes libxml's text reader visits.  A node is an element (with its      *)
(* attributes, a set of pairs, and whether it is self-ended), a text or    *)
(* the end of an element that is not self-ended.  Blank text, comments and *)
(* the attributes' encoding are left out.                                  *)
(*                                                                         *)
(* The calls in progress are "frames", the innermost last; "depth" is the  *)
(* reader's own depth, which the code asserts and which the frames lose    *)
(* sight of when a function reads past the end of its element.             *)
(***************************************************************************)
EXTENDS Profiles

Element(name, attributes) ==
  [kind |-> "element", name |-> name, attributes |-> attributes, empty |-> FALSE]
EmptyElement(name, attributes) ==
  [kind |-> "element", name |-> name, attributes |-> attributes, empty |-> TRUE]
Text(value) == [kind |-> "text", value |-> value]
End == [kind |-> "end"]

Has(node, id) == \E a \in node.attributes : a[1] = id
Attribute(node, id) ==
  IF Has(node, id) THEN (CHOOSE a \in node.attributes : a[1] = id)[2] ELSE Nothing

\* profile_tree: whether there is one, its nodes as paths of titles and its
\* profile identifiers, each below the path of its node.
NoTree == [made |-> FALSE, nodes |-> <<>>, leaves |-> <<>>]

Frame(in, of) == [in |-> in, of |-> of]
Start == [frames |-> <<Frame("file", <<>>)>>, depth |-> 0, profiles |-> <<>>,
          tree |-> NoTree, end |-> "reading"]

Call(r, in, of) == [r EXCEPT !.frames = Append(@, Frame(in, of))]
Return(r) == [r EXCEPT !.frames = Front(@)]
Fail(r) == [r EXCEPT !.end = "failed"]
Require(condition, r) == IF condition THEN r ELSE [r EXCEPT !.end = "asserted"]

\* profiles_add_profile
AddProfile(r, node) ==
  LET none == [plugin |-> Nothing, settings |-> <<>>]
  IN [r EXCEPT !.profiles = Append(@,
        [id |-> Attribute(node, "id"), inherit |-> Attribute(node, "inherit"),
         hidden |-> Attribute(node, "hidden") \notin {Nothing, "0"},
         app |-> none, enc |-> none, dec |-> none])]

\* profiles_add_setting, on the vector of the profile read last.
AddSetting(r, vector, setting) ==
  [r EXCEPT !.profiles[Len(r.profiles)][vector].settings = Append(@, setting)]

\* profiles_xml_parse_settings: the attributes; a self-ended section is done.
Settings(r, node, vector) ==
  LET last == Len(r.profiles)
      named == IF Has(node, "plugin")
               THEN Require(r.profiles[last][vector].plugin = Nothing,
                      [r EXCEPT !.profiles[last][vector].plugin =
                                  Attribute(node, "plugin")])
               ELSE r
  IN IF node.empty THEN named ELSE Call(named, "settings", vector)

Vectors == {<<"app-settings", "app">>, <<"encoder-settings", "enc">>,
            <<"decoder-settings", "dec">>}

\* profiles_xml_skip_section is called for self-ended elements too, whose end
\* never comes: what it skips then is the rest of the enclosing section.
Skip(r) == Call(r, "skip", <<>>)

(***************************************************************************)
(* An element, by the function that reads it.                              *)
(***************************************************************************)
ElementInFile(r, node) ==
  Require(r.depth = 0, IF node.name = "plc-cape-lab.profile_definitions"
                       THEN Call(r, "definitions", <<>>) ELSE Skip(r))

ElementInDefinitions(r, node) ==
  Require(r.depth = 1,
    CASE node.name = "profiles" -> IF node.empty THEN r ELSE Call(r, "profiles", <<>>)
      [] node.name = "tree" ->
           LET made == [r EXCEPT !.tree = [NoTree EXCEPT !.made = TRUE]]
           IN IF node.empty THEN made ELSE Call(made, "tree", <<>>)
      [] OTHER -> Skip(r))

ElementInProfiles(r, node) ==
  Require(r.depth = 2,
    IF node.name # "profile" THEN Skip(r)
    ELSE Require(~ node.empty /\ Has(node, "id"),
                 Call(AddProfile(r, node), "profile", <<>>)))

ElementInProfile(r, node) ==
  LET named == {v \in Vectors : v[1] = node.name}
  IN Require(r.depth = 3,
       IF named = {} THEN Skip(r)
       ELSE Settings(r, node, (CHOOSE v \in named : TRUE)[2]))

ElementInSettings(r, node, vector) ==
  IF node.name # "setting" THEN Skip(r)
  ELSE Require(~ node.empty /\ Cardinality(node.attributes) = 1 /\ Has(node, "id"),
               Call(r, "setting", <<vector, Attribute(node, "id")>>))

\* A node is entered even when it is self-ended: the question is put to its
\* attribute.  An unknown element ends the function with an error, which the
\* caller keeps in a variable of its own when it is this same function.
ElementInTree(r, node, path) ==
  CASE node.name = "node" ->
         Require(Has(node, "title"),
           LET child == Append(path, Attribute(node, "title"))
           IN Call([r EXCEPT !.tree.nodes = Append(@, child)], "tree", child))
    [] node.name = "profile" ->
         Require(node.empty /\ Has(node, "id"),
           [r EXCEPT !.tree.leaves = Append(@, <<path, Attribute(node, "id")>>)])
    [] OTHER -> IF path = <<>> THEN Fail(r) ELSE Return(r)

OnElement(r, node) ==
  LET frame == Last(r.frames)
  IN CASE frame.in = "file" -> ElementInFile(r, node)
       [] frame.in = "definitions" -> ElementInDefinitions(r, node)
       [] frame.in = "profiles" -> ElementInProfiles(r, node)
       [] frame.in = "profile" -> ElementInProfile(r, node)
       [] frame.in = "settings" -> ElementInSettings(r, node, frame.of)
       [] frame.in = "setting" -> r
       [] frame.in = "tree" -> ElementInTree(r, node, frame.of)
       [] frame.in = "skip" -> IF node.empty THEN r ELSE Skip(r)

\* profiles_xml_parse_setting adds its text; text is ignored anywhere else.
OnText(r, node) ==
  LET frame == Last(r.frames)
  IN IF frame.in = "setting"
     THEN AddSetting(r, frame.of[1], <<frame.of[2], node.value>>) ELSE r

\* Every function but the first returns at the end of an element.
OnEnd(r) == IF Last(r.frames).in = "file" THEN r ELSE Return(r)

ReadNode(r, node) ==
  CASE r.end # "reading" -> r
    [] node.kind = "text" -> OnText(r, node)
    [] node.kind = "end" -> [OnEnd(r) EXCEPT !.depth = @ - 1]
    [] node.kind = "element" ->
         [OnElement(r, node) EXCEPT !.depth = IF node.empty THEN @ ELSE @ + 1]

\* The nodes are read in pieces, each from the value that the one before has
\* left (bound by a set), so that the folds do not recurse deep.
PieceSize == 8
Pieces(nodes) ==
  [k \in 1..(Len(nodes) + PieceSize - 1) \div PieceSize |->
     SubSeq(nodes, PieceSize * (k - 1) + 1,
            IF PieceSize * k < Len(nodes) THEN PieceSize * k ELSE Len(nodes))]
ReadPiece(r, piece) == CHOOSE done \in {FoldLeft(ReadNode, v, piece) : v \in {r}} : TRUE

(***************************************************************************)
(* profiles_load_xml, when the reader fails after "good" nodes: the end of *)
(* the document is a success whatever functions are in progress; a failure *)
(* appends the predefined profiles to those already added.                 *)
(***************************************************************************)
Load(nodes, good, defaults) ==
  LET r == FoldLeft(ReadPiece, Start, Pieces(SubSeq(nodes, 1, good)))
      failed == r.end = "failed" \/ good < Len(nodes)
  IN [profiles |-> IF failed THEN r.profiles \o defaults ELSE r.profiles,
      tree |-> r.tree, asserted |-> r.end = "asserted", failed |-> failed]
=============================================================================
