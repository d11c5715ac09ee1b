----------------------------- MODULE MCContainer -----------------------------
(* Attribute files and templates with which TLC checks Container. *)
EXTENDS Container

\* <<"a">> is a value, or a map with the key x.  ref names <<"a">> and back
\* names <<"b", "x">>; printed by one another both are no YAML.
TheKeys == {"default", "override", "a", "b", "x"}
TheReferences == [v \in {"ref", "back"} |-> IF v = "ref" THEN <<"a">> ELSE <<"b", "x">>]
TheMalformed  == DOMAIN TheReferences
TheTemplates  == {"t", "u"}
TheUses       == [t \in TheTemplates |-> IF t = "t" THEN <<"a">> ELSE <<"b", "x">>]
TheLongLines  == {"u"}

\* A tree below a key.
Under(key, node) ==
  [p \in {<<key>>} \cup {<<key>> \o q : q \in DOMAIN node} |->
     IF p = <<key>> THEN "map" ELSE node[Tail(p)]]

One(path, value) == [p \in {path} |-> value]

\* Texts that are a number, null and a map.
TheYaml == [text \in {"1.10", "null", "{x: 1}"} |->
              CASE text = "1.10" -> Leaf("1.1")
                [] text = "null" -> Leaf("nil")
                [] OTHER -> Merge(Leaf("map"), One(<<"x">>, "1"))]

\* What may be below default or override.
Nodes(v) == {One(<<"a">>, v), One(<<"b">>, v),
             Under("b", One(<<"x">>, v)), Under("b", One(<<"x">>, "ref")),
             Merge(One(<<"a">>, v), Under("b", One(<<"x">>, "ref")))}

Nothing(key) == {Empty, [p \in {<<key>>} |-> "nil"]}

Trees(v) == {Merge(d, o) : d \in {Under("default", n) : n \in Nodes(v)} \cup Nothing("default"),
                           o \in {Under("override", n) : n \in {One(<<"a">>, "o"),
                                    Under("b", One(<<"x">>, "o"))}} \cup Nothing("override")}

Files(v, w) == {<<a, b>> : a \in Trees(v), b \in Trees(w)}

\* Two templates that name each other.
Circle == Merge(One(<<"a">>, "back"), Under("b", One(<<"x">>, "ref")))

Envs == {Empty, One(<<"a">>, "{x: 1}"), Under("b", One(<<"x">>, "e"))}

Input(mode, files, listed, env, wait) ==
  [mode |-> mode, files |-> files, listed |-> listed, env |-> env, wait |-> wait]

\* Two files, of which the second may not be listed, and the environment.
Starts ==
  {Input("start", files, 2, env, FALSE) : files \in Files("1.10", "null"), env \in Envs}
  \cup {Input(mode, files, listed, Empty, wait) :
          mode \in {"test", "try"}, listed \in 1..2, wait \in BOOLEAN,
          files \in {<<Under("default", n), Under("default", m)>> :
                       n \in Nodes("1") \cup {Circle}, m \in Nodes("null")}}

=============================================================================
