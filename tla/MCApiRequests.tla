---------------------------- MODULE MCApiRequests ----------------------------
(***************************************************************************)
(* The graphs over two nodes are logged by the framework; handlers throw a *)
(* few that share, nest and close circles.                                 *)
(***************************************************************************)
EXTENDS ApiRequests, TLC

RequestSymmetry == Permutations(HttpRequest)

Plain(own) == [kind |-> "object", own |-> own]
Error(own) == [kind |-> "error", own |-> "name" :> "plain" @@ own]

Maybe(key, values) == {<<>>} \cup {key :> value : value \in values}

\* Bound: an object shares by its message and its cause, or holds a text; what
\* is under the token is a text to hide or an object; and off the root no name
\* of an error holds anything to hide.
LoggedGraphs ==
    LET Own == {cause @@ token : cause \in Maybe("cause", Text \cup Node),
                                 token \in Maybe("token", {"credential", Details})}
        NodesAt(names) ==
            {Plain(message @@ own) : message \in Maybe("message", Node), own \in Own}
               \cup {[kind |-> "error", own |-> "name" :> name @@ "message" :> message @@ own] :
                       name \in names, message \in Text, own \in Own}
        Off == NodesAt({"plain"})
    IN  {graph \in [Node -> NodesAt(Text)] : \A node \in Node \ {Root} : graph[node] \in Off}

\* An error whose cause is an error of its own, with a credential in both, and
\* details with a token; one that is its own cause, its details holding it.
ThrownGraphs ==
    {[node \in Node |-> IF node = Root
                        THEN Error("message" :> "credential" @@ "cause" :> Details)
                        ELSE Error("message" :> "credential" @@ "token" :> "plain")],
     [node \in Node |-> IF node = Root
                        THEN Error("message" :> "plain" @@ "cause" :> Root @@ "token" :> Details)
                        ELSE Plain("cause" :> Root @@ "token" :> "credential")]}
=============================================================================
