--------------------------- MODULE MCWorkflowRun ---------------------------
(* WorkflowRun on every graph of two triggers and two steps in which at most  *)
(* one step refers to another, and on five larger ones: a condition whose     *)
(* branches meet again, a fan of more steps than run at once, siblings of     *)
(* which one reads another's output, siblings that read each other's, and a   *)
(* step that reads one downstream of it.                                      *)
EXTENDS WorkflowRun, TLC

CONSTANTS t, u, a, b, c, d

Edge(from, to) == [from |-> from, to |-> to, branch |-> "none"]
On(branch, from, to) == [from |-> from, to |-> to, branch |-> branch]
NoRefs == [n \in Nodes |-> {}]

Small ==
    {w \in [order : {<<t, u, a, b>>},
            edges : SUBSET {Edge(t, a), Edge(u, a), Edge(t, b), Edge(u, b), Edge(a, b),
                            On("true", a, b), On("false", a, b)},
            refs : {NoRefs} \cup {[NoRefs EXCEPT ![n] = {r}] : n, r \in {t, u, a, b}},
            triggers : {{t, u}}, manual : {{u}}, conditions : {{}, {a}}] : Valid(w)}

Diamond == [order |-> <<t, u, c, a, b, d>>,
            edges |-> {Edge(t, c), On("true", c, a), On("false", c, b), Edge(u, b),
                       Edge(a, d), Edge(b, d)},
            refs |-> NoRefs, triggers |-> {t, u}, manual |-> {t}, conditions |-> {c}]

Fan == [order |-> <<t, a, b, c>>,
        edges |-> {Edge(t, a), Edge(t, b), Edge(t, c)},
        refs |-> NoRefs, triggers |-> {t}, manual |-> {t}, conditions |-> {}]

Siblings == [order |-> <<u, a, b, c, d>>,
             edges |-> {Edge(u, a), Edge(u, b), Edge(u, c), Edge(a, d), Edge(c, d)},
             refs |-> [NoRefs EXCEPT ![a] = {b}, ![d] = {a, u}],
             triggers |-> {u}, manual |-> {}, conditions |-> {}]

Circle == [order |-> <<t, a, b, c, d>>,
           edges |-> {Edge(t, a), Edge(t, b), Edge(t, c), Edge(t, d)},
           refs |-> [NoRefs EXCEPT ![a] = {b}, ![b] = {a}], triggers |-> {t},
           manual |-> {t}, conditions |-> {}]

Downstream == [order |-> <<t, a, b, c, d>>,
               edges |-> {Edge(t, a), Edge(a, b), Edge(t, c), Edge(t, d)},
               refs |-> [NoRefs EXCEPT ![a] = {b}], triggers |-> {t}, manual |-> {t},
               conditions |-> {}]

OneFan == {Fan}
SomeWorkflows == Small \cup {Diamond, Fan, Siblings, Circle, Downstream}
=============================================================================
