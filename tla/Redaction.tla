------------------------------ MODULE Redaction ------------------------------
(***************************************************************************)
(* redactSensitiveValues, through which every log record and every detail  *)
(* of an error response passes: a depth-first walk of an object graph that *)
(* may share objects and may be cyclic.                                    *)
(*                                                                         *)
(* A value is a text or a node of the graph; a graph gives each node its   *)
(* kind and its own properties.  The output is written down as its leaves: *)
(* pairs of the path of keys from the root and what stands there, an       *)
(* object that is walked counting as a leaf of its own.                    *)
(*                                                                         *)
(* Strings are told apart only by whether redactSensitiveText changes      *)
(* them, and keys by whether isSensitiveKey matches them.  The message of  *)
(* an error stands for its stack too, which is treated alike; accessors,   *)
(* which are passed over, are no properties here; and no error has a       *)
(* property `type` of its own, which would take the place of its name.     *)
(***************************************************************************)
EXTENDS Sequences, SequencesExt, FiniteSets, Integers

CONSTANTS
    Node,           \* the objects a graph may have
    Key,            \* the keys of their own properties
    SensitiveKey    \* those that isSensitiveKey matches

Text == {"plain", "credential"}
Kind == {"object", "error"}

ASSUME KeyAssumption ==
    /\ IsFiniteSet(Key) /\ SensitiveKey \subseteq Key
    /\ {"message", "name"} \subseteq Key \ SensitiveKey /\ "type" \notin Key
ASSUME NodeAssumption == IsFiniteSet(Node) /\ Node \cap Text = {}

\* The graphs: an error always has a message and a name.
Properties == UNION {[keys -> Text \cup Node] : keys \in SUBSET Key}

Graph == {graph \in [Node -> [kind : Kind, own : Properties]] :
             \A node \in Node : graph[node].kind = "error" =>
                /\ {"message", "name"} \subseteq DOMAIN graph[node].own
                /\ graph[node].own["message"] \in Text /\ graph[node].own["name"] \in Text}

Censor == "[REDACTED]"

RedactSensitiveText(text) == IF text = "credential" THEN Censor ELSE text

\* The name of an error is written as its `type`.
IsErrorName(graph, node, key) == graph[node].kind = "error" /\ key = "name"
WrittenKey(graph, node, key) == IF IsErrorName(graph, node, key) THEN "type" ELSE key

Leaf(what) == {<< <<>>, what >>}
Under(key, leaves) == {<< <<key>> \o leaf[1], leaf[2] >> : leaf \in leaves}

\* `redact` is redactValue on this graph: redact[seen][value], for the objects
\* `seen` that the walk is inside.  A result is its leaves and that set as the
\* walk leaves it.

\* redactError puts the name down as it stands: no redactSensitiveText.
RedactProperty(redact, graph, node, key, seen) ==
    LET own == graph[node].own[key]
    IN  IF key \in SensitiveKey THEN [leaves |-> Leaf(Censor), seen |-> seen]
        ELSE IF IsErrorName(graph, node, key) THEN [leaves |-> Leaf(own), seen |-> seen]
        ELSE redact[seen][own]

\* The own properties, one after the other.
RedactProperties(redact, graph, node, seen) ==
    LET keys == SetToSeq(DOMAIN graph[node].own)
        walk[i \in 0..Len(keys)] ==
            IF i = 0 THEN [leaves |-> Leaf(graph[node].kind), seen |-> seen]
            ELSE LET done     == walk[i - 1]
                     property == RedactProperty(redact, graph, node, keys[i], done.seen)
                 IN  [leaves |-> done.leaves \cup Under(WrittenKey(graph, node, keys[i]), property.leaves),
                      seen   |-> property.seen]
    IN  walk[Len(keys)]

\* Mutant: an object stays in `seen` once its walk is over.
RedactObjectOnce(redact, graph, node, seen) ==
    RedactProperties(redact, graph, node, seen \cup {node})

RedactObject(redact, graph, node, seen) ==
    LET walked == RedactProperties(redact, graph, node, seen \cup {node})
    IN  [leaves |-> walked.leaves, seen |-> walked.seen \ {node}]

RedactValue(graph) ==
    LET redact[seen \in SUBSET Node] ==
            [value \in Text \cup Node |->
                IF value \in Text THEN [leaves |-> Leaf(RedactSensitiveText(value)), seen |-> seen]
                ELSE IF value \in seen THEN [leaves |-> Leaf("[Circular]"), seen |-> seen]
                ELSE RedactObject(redact, graph, value, seen)]
    IN  redact

RedactSensitiveValues(graph, value) == RedactValue(graph)[{}][value].leaves

-----------------------------------------------------------------------------
(* What it has to yield, path by path and without a walk.                   *)

\* A trail goes from object to object: it names the objects it meets and the
\* property by which it leaves each.  It leads to what that of the last holds.
Steps(graph) == {step \in Node \X Key : step[2] \in DOMAIN graph[step[1]].own}
Trails(graph) == UNION {[1..n -> Steps(graph)] : n \in 0..Cardinality(Node)}

Met(trail) == {trail[i][1] : i \in DOMAIN trail}
Path(graph, trail) == [i \in DOMAIN trail |-> WrittenKey(graph, trail[i][1], trail[i][2])]

End(graph, value, trail) ==
    IF trail = <<>> THEN value ELSE graph[Last(trail)[1]].own[Last(trail)[2]]

Follows(graph, value, trail) ==
    /\ \A i \in DOMAIN trail : trail[i] \in Steps(graph)
    /\ trail # <<>> => trail[1][1] = value
    /\ \A i \in 1..(Len(trail) - 1) : trail[i + 1][1] = graph[trail[i][1]].own[trail[i][2]]

\* A trail is written if it meets no object twice and goes on below no
\* censored key.
Written(graph, value, trail) ==
    /\ Follows(graph, value, trail)
    /\ \A i \in 1..(Len(trail) - 1) : trail[i][2] \notin SensitiveKey
    /\ \A i, j \in DOMAIN trail : trail[i][1] = trail[j][1] => i = j

\* What stands at the end of a trail.
Expected(graph, value, trail) ==
    LET end == End(graph, value, trail)
    IN  IF trail # <<>> /\ Last(trail)[2] \in SensitiveKey THEN Censor
        ELSE IF trail # <<>> /\ IsErrorName(graph, Last(trail)[1], Last(trail)[2]) THEN end
        ELSE IF end \in Text THEN RedactSensitiveText(end)
        ELSE IF end \in Met(trail) THEN "[Circular]"
        ELSE graph[end].kind

Reference(graph, value) ==
    {<<Path(graph, trail), Expected(graph, value, trail)>> :
        trail \in {t \in Trails(graph) : Written(graph, value, t)}}
=============================================================================
