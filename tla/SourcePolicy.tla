---------------------------- MODULE SourcePolicy ----------------------------
(***************************************************************************)
(* inspectSource (source-policy.ts): which uses of CommonJS it reports in  *)
(* a source file.  The file is the sequence of the nodes of its syntax     *)
(* tree in the order of a traversal, each with its parent, of the kinds    *)
(* that the policy tells apart; what else there is are nodes of no kind.   *)
(***************************************************************************)
EXTENDS Naturals, Sequences, FiniteSets

CONSTANT Sources    \* the files: a kind, whether loaders are allowed, and the nodes

\* A tree of nodes, of which the first is the program and has every other below it.
ASSUME SourcesAssumption ==
    \A f \in Sources :
        /\ Len(f.nodes) \in Nat \ {0}
        /\ DOMAIN f.nodes = 1 .. Len(f.nodes)
        /\ f.nodes[1].kind = "program"
        /\ \A n \in 2 .. Len(f.nodes) : f.nodes[n].parent \in 1 .. n - 1

VARIABLES
    file,       \* the inspected file
    at,         \* the next node to be visited
    issues      \* the nodes that were reported

policyVars == <<file, at, issues>>

Kind(n) == file.nodes[n].kind
Name(n) == file.nodes[n].name
Nodes == DOMAIN file.nodes
Parent(n) == IF n = 1 THEN {} ELSE {file.nodes[n].parent}

scopeKinds == {"program", "function", "expression", "block"}
Functions == {"program", "function", "expression"}

\* The node and the ones around it: what every set of nodes has that has it, and with a node
\* the parent.
Around(n) ==
    {m \in Nodes :
        \A S \in SUBSET Nodes : n \in S /\ (\A p \in S : Parent(p) \subseteq S) => m \in S}
Scopes(n) == {s \in Around(n) : Kind(s) \in scopeKinds}
Innermost(S) == CHOOSE n \in S : \A m \in S : m <= n
ScopeOf(n) == Innermost(UNION {Scopes(p) : p \in Parent(n)})

\* The names under which createRequire was imported, wherever they are used.
factories == {Name(n) : n \in {m \in Nodes : Kind(m) = "importFactory"}}
isFactoryCall(n) == Kind(n) = "factoryCall" /\ Name(n) \in factories

\* Is the variable made from such a call?
IsBridge(n) ==
    /\ Kind(n) \in {"let", "var"}
    /\ \E c \in Nodes : n \in Parent(c) /\ isFactoryCall(c)

\* Faulty variant: the declarations of the scopes inside of a scope count as its own.
DeepCollected(s, name) ==
    {n \in Nodes :
        /\ Name(n) = name
        /\ Kind(n) \in {"let", "var", "import", "importFactory", "function", "parameter"}
        /\ s \in Scopes(n)}

\* The declarations of a name that the traversal of a scope finds: it does not enter the scopes
\* inside, of which the function declarations are names of this one.
Collected(s, name) ==
    {n \in Nodes :
        /\ Name(n) = name
        /\ \/ n = s /\ Kind(n) \in {"function", "expression"}
           \/ /\ Kind(n) \in {"let", "var", "import", "importFactory", "function", "parameter"}
              /\ ScopeOf(n) = s}

\* What a name is at a node: a bridge, something local, or nothing.
lookup(n, name) ==
    LET found == {s \in Scopes(n) : Collected(s, name) # {}}
    IN  IF found = {} THEN "global"
        ELSE IF IsBridge(Innermost(Collected(Innermost(found), name))) THEN "bridge" ELSE "local"

\* Declarations inside of a declared module are of somebody else's.
External(n) == file.declarations /\ \E m \in Around(n) : Kind(m) \in {"wildcard", "declared"}

Reported(n) ==
    CASE Kind(n) \in {"wildcard", "any"} -> TRUE
      [] Kind(n) \in {"importEquals", "exportEquals"} -> ~External(n)
      [] Kind(n) = "exports" -> lookup(n, Name(n)) = "global"
      [] Kind(n) = "call" ->
            \/ Name(n) = "require" /\ lookup(n, Name(n)) = "global"
            \/ /\ file.nodes[n].local
               /\ \/ lookup(n, Name(n)) = "bridge"
                  \/ \E c \in Nodes : n \in Parent(c) /\ isFactoryCall(c)
      [] Kind(n) = "factoryCall" -> isFactoryCall(n) /\ ~file.loader
      [] OTHER -> FALSE

PolicyInit == file \in Sources /\ at = 1 /\ issues = {}

\* A file of another language is refused as a whole.
RefuseFile ==
    /\ file.javascript /\ at = 1
    /\ at' = Len(file.nodes) + 1 /\ issues' = {1}
    /\ UNCHANGED file

Visit ==
    /\ ~file.javascript /\ at \in Nodes
    /\ at' = at + 1
    /\ issues' = issues \cup {n \in {at} : Reported(n)}
    /\ UNCHANGED file

PolicyNext == RefuseFile \/ Visit

-----------------------------------------------------------------------------

\* Where the language puts a declaration: a variable of the old kind is one of the whole function.
Home(d) ==
    IF Kind(d) = "var" THEN Innermost(Scopes(d) \cap {s \in Nodes : Kind(s) \in Functions})
    ELSE ScopeOf(d)
Declares(d, n, name) ==
    /\ Name(d) = name
    /\ \/ Kind(d) \in {"function", "expression"} /\ d \in Around(n)
       \/ /\ Kind(d) \in {"let", "var", "import", "importFactory", "function", "parameter"}
          /\ Home(d) \in Around(n)

\* No use of the module globals of CommonJS passes, whatever the same name means in the scopes
\* inside, beside or around; and without variables of the old kind no local name is taken for one
\* (inspectSource).
GlobalsReported ==
    at > Len(file.nodes) /\ ~file.javascript =>
        \A n \in Nodes :
            Kind(n) = "exports" \/ (Kind(n) = "call" /\ Name(n) = "require" /\ ~file.nodes[n].local) =>
                LET declared == \E d \in Nodes : Declares(d, n, Name(n))
                IN  /\ ~declared => n \in issues
                    /\ declared /\ (\A d \in Nodes : Kind(d) # "var") => n \notin issues
=============================================================================
