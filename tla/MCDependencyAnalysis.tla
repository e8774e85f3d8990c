------------------------ MODULE MCDependencyAnalysis ------------------------
EXTENDS DependencyAnalysis, TLC

Link(p)    == [kind |-> "link", to |-> p]
MentionOf(p) == [kind |-> "mention", to |-> p]
Vague      == {[kind |-> k, to |-> Outside] : k \in {"uncertain", "control"}}
Lists(R)   == {<<>>} \cup {<<a>> : a \in R} \cup {<<a, b>> : a, b \in R}
Pages(R)   == {[refs |-> s, uncertain |-> FALSE, read |-> "ok"] : s \in R}
Odd        == {[refs |-> <<>>, uncertain |-> u, read |-> r] :
                  u \in BOOLEAN, r \in {"ok", "fails", "garbled"}}

\* Any links between three documents, with every defect a reference can have.
TangledTexts ==
    LET three == {"SKILL", "a", "b"}
        all == {Link(p) : p \in three \cup Leaves \cup {Gone, Outside}}
               \cup {MentionOf("a"), MentionOf(Outside)} \cup Vague
        top == Pages(Lists(all))
        sub == Pages(Lists({Link(p) : p \in three} \cup {MentionOf("b")}))
    IN  {("SKILL" :> s) @@ ("a" :> a) @@ ("b" :> b) @@ ("c" :> c) :
            s \in top, a \in sub \cup Odd, b \in sub, c \in Pages({<<>>})}

\* Four documents where each links to later ones only, in either order.
Ordered(S) == {<<>>} \cup {<<Link(x)>> : x \in S}
              \cup {<<Link(x), Link(y)>> : x, y \in S}
              \cup {<<Link(x), Link(y), Link(z)>> : x, y, z \in S}
LayeredTexts ==
    {("SKILL" :> s) @@ ("a" :> a) @@ ("b" :> b) @@ ("c" :> c) :
        s \in Pages(Ordered({"a", "b", "c"})), a \in
            Pages({<<>>, <<Link("b")>>, <<Link("c")>>, <<Link("b"), Link("c")>>}),
        b \in Pages({<<>>, <<Link("c")>>, <<Link("x"), Link("c")>>}),
        c \in Pages({<<>>, <<Link("x")>>, <<Link("x"), Link("gone")>>})}

EveryText == TangledTexts \cup LayeredTexts
=============================================================================
