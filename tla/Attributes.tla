----------------------------- MODULE Attributes -----------------------------
(***************************************************************************)
(* Attributes and how they are merged (bin-templater/merger/merger.go and  *)
(* the vendored mergemap).                                                 *)
(*                                                                         *)
(* A tree is a function from paths, sequences of keys, to what is there:   *)
(* a value, "map" for a map or "nil" for an empty node; the paths below a  *)
(* map are in its domain too.  The root is a map and is left out.          *)
(***************************************************************************)
EXTENDS Naturals, Sequences, SequencesExt

CONSTANTS
  Keys,        \* the keys of the maps
  References,  \* the values that are templates, and the path each names
  Yaml,        \* the texts that are something else when read as YAML, a number,
               \* a boolean, null or a map, and what each is: a tree with a root
  Malformed    \* the texts that are no YAML

Empty == [p \in {} |-> "map"]

At(tree, path) == IF path \in DOMAIN tree THEN tree[path] ELSE "nil"

\* What is above a path is a map.
IsTree(tree) ==
  /\ DOMAIN tree \subseteq Seq(Keys) \ {<<>>}
  /\ \A p \in DOMAIN tree : \A n \in 1..(Len(p) - 1) : At(tree, SubSeq(p, 1, n)) = "map"

\* mergemap.Merge: src wins, and two maps are merged key by key.  Its panic beyond
\* 32 levels is left out.
MergeDstFirst(dst, src) ==
  [p \in DOMAIN dst \cup DOMAIN src |-> IF p \in DOMAIN dst THEN dst[p] ELSE src[p]]
Merge(dst, src) ==
  LET kept == {p \in DOMAIN dst : \A q \in DOMAIN src : IsPrefix(q, p) => src[q] = "map"}
  IN [p \in kept \cup DOMAIN src |-> IF p \in DOMAIN src THEN src[p] ELSE dst[p]]

\* The map below a key.
Below(tree, key) ==
  LET paths == {q \in DOMAIN tree : Len(q) > 1 /\ Head(q) = key}
  IN [p \in {Tail(q) : q \in paths} |-> tree[<<key>> \o p]]

\* ProcessOverride on what the files amount to.  The type assertions of
\* default and override panic unless both are maps; without an override an
\* empty default is no attributes.
HasOverride(tree) == <<"override">> \in DOMAIN tree

OverridePanics(tree) ==
  IF HasOverride(tree) THEN {tree[<<"default">>], tree[<<"override">>]} # {"map"}
                       ELSE tree[<<"default">>] \notin {"map", "nil"}

ProcessOverride(tree) ==
  IF HasOverride(tree) THEN Merge(Below(tree, "default"), Below(tree, "override"))
                       ELSE Below(tree, "default")

\* What a template prints of a value.
Text(value) == CASE value = "nil" -> "<no value>"
                 [] value = "map" -> "map[]"
                 [] OTHER -> value

\* What a template shows for a path, and when its execution fails: a key of
\* something that is there and not a map.
Shown(tree, path) == Text(At(tree, path))

Undefined(tree, path) ==
  \E q \in DOMAIN tree : IsStrictPrefix(q, path) /\ tree[q] # "map"

\* A value on its own, and a value with what is below it.
Leaf(value) == [p \in {<<>>} |-> value]

IsNode(node) == /\ <<>> \in DOMAIN node
                /\ DOMAIN node # {<<>>} => node[<<>>] = "map"
                /\ IsTree([p \in DOMAIN node \ {<<>>} |-> node[p]])

ASSUME AttributesAssumption ==
  /\ {"default", "override"} \subseteq Keys
  /\ DOMAIN References \cap {"map", "nil"} = {}
  /\ \A text \in DOMAIN Yaml : IsNode(Yaml[text])

\* A value whose template printed another text is that text read as YAML.
Parsed(value, text) ==
  IF text # value /\ text \in DOMAIN Yaml THEN Yaml[text] ELSE Leaf(text)

\* ProcessAttributesTemplating: every value that is a template is resolved
\* once, from the attributes as they were before.
TemplatingFails(tree) ==
  \E p \in DOMAIN tree :
    /\ tree[p] \in DOMAIN References
    /\ LET text == Shown(tree, References[tree[p]])
       IN Undefined(tree, References[tree[p]]) \/ (text # tree[p] /\ text \in Malformed)

Became(tree, p) ==
  IF tree[p] \in DOMAIN References THEN Parsed(tree[p], Shown(tree, References[tree[p]]))
                                   ELSE Leaf(tree[p])

Templated(tree) ==
  LET places == UNION {{<<p, q>> : q \in DOMAIN Became(tree, p)} : p \in DOMAIN tree}
  IN [path \in {place[1] \o place[2] : place \in places} |->
        LET place == CHOOSE place \in places : place[1] \o place[2] = path
        IN Became(tree, place[1])[place[2]]]
=============================================================================
