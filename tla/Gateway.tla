------------------------------ MODULE Gateway ------------------------------
(***************************************************************************)
(* gateway/: which model serves a call, when a call may leave sovereign    *)
(* inference, and what is read out of the text that comes back.  The       *)
(* gateway keeps no state; who meters it is in Evaluation.                 *)
(*                                                                         *)
(* A text is a sequence of tokens: the braces of a JSON object, "field"    *)
(* for a key and what it holds ("field{", "field}" and "field+fence" hold  *)
(* a brace or a fence inside a string), the brackets of an array of        *)
(* objects or arrays, "prose", which begins and ends no JSON, the "fence"  *)
(* of a code block and its tag "json".                                     *)
(***************************************************************************)
EXTENDS Integers, Sequences, SequencesExt, FiniteSets

CONSTANTS None

TaskClass == {"triage", "plan", "judge"}

----------------------------------------------------------------------------
\* load_routing_policy: a route with another primary is a ValueError.
Loads(routes) == \A c \in DOMAIN routes : routes[c].primary.sovereign

\* RoutingPolicy.resolve raises nothing: there is a route, and who opts in
\* names a reason and has somewhere to go.
Permitted(routes, c, allow_escalation, escalation_reason) ==
    /\ c \in DOMAIN routes
    /\ allow_escalation => routes[c].escalation # None /\ escalation_reason # ""

\* Mutant of Resolve: the stronger model where there is one.
ResolveStrongest(routes, c, allow_escalation) ==
    IF routes[c].escalation # None THEN routes[c].escalation ELSE routes[c].primary

Resolve(routes, c, allow_escalation) ==
    IF allow_escalation THEN routes[c].escalation ELSE routes[c].primary

\* AnthropicBackend sends nothing without a key.
Credentialed(spec, keyed) == spec.backend = "anthropic" => keyed

----------------------------------------------------------------------------
Fields == {"field", "field{", "field}", "field+fence"}
Token == {"{", "}", "[", "]", "prose", "fence", "json"} \cup Fields
Fence == {"fence", "field+fence"}
Opening == {"{", "field{"}
Closing == {"}", "field}"}

Count(text, tokens) == Cardinality({i \in DOMAIN text : text[i] \in tokens})

\* json.loads gives a dict: strings may hold braces, and an object inside
\* another one has a key.
IsObject(text) ==
    LET depth(i) == Count(SubSeq(text, 1, i), {"{"}) - Count(SubSeq(text, 1, i), {"}"})
    IN  /\ Len(text) >= 2 /\ text[1] = "{"
        /\ Range(text) \subseteq {"{", "}"} \cup Fields
        /\ \A i \in 2..Len(text) : text[i] = "{" => text[i - 1] = "field"
        /\ \A i \in DOMAIN text : depth(i) = 0 <=> i = Len(text)

\* json.loads gives a list: at every place either outside the objects in it,
\* where one of them, or an array, begins or ends, or inside one.
IsArray(text) ==
    LET depth(i, open, close) ==
            Count(SubSeq(text, 1, i), {open}) - Count(SubSeq(text, 1, i), {close})
    IN  /\ Len(text) >= 2 /\ text[1] = "["
        /\ \A i \in DOMAIN text : depth(i, "[", "]") = 0 <=> i = Len(text)
        /\ \A i \in DOMAIN text :
              IF depth(i - 1, "{", "}") = 0 THEN text[i] \in {"{", "[", "]"}
              ELSE /\ text[i] \in {"{", "}"} \cup Fields
                   /\ text[i] = "{" => text[i - 1] = "field"

\* What is between the first fence and the next, wherever that is, or the end;
\* its tag aside.
Unfenced(text) ==
    IF text = <<>> \/ Head(text) # "fence" THEN text
    ELSE LET fences == {i \in 2..Len(text) : text[i] \in Fence}
             inner == SubSeq(text, 2, IF fences = {} THEN Len(text) ELSE Min(fences) - 1)
         IN  IF inner # <<>> /\ Head(inner) = "json" THEN Tail(inner) ELSE inner

\* Where the braces counted from `start` first balance; quotes are not looked at.
Balanced(text, start) ==
    {i \in start..Len(text) :
        Count(SubSeq(text, start, i), Opening) = Count(SubSeq(text, start, i), Closing)}

\* Mutant of Salvaged: up to the first brace that closes.
SalvagedFlat(text) ==
    LET opens == {i \in DOMAIN text : text[i] \in Opening}
        closes == {i \in DOMAIN text : text[i] \in Closing}
        object == SubSeq(text, Min(opens), Min(closes))
    IN  IF opens # {} /\ closes # {} /\ IsObject(object) THEN object ELSE None

\* The text from its first brace to the one that balances it, if that is JSON.
Salvaged(text) ==
    LET opens == {i \in DOMAIN text : text[i] \in Opening}
        ends == Balanced(text, Min(opens))
        object == SubSeq(text, Min(opens), Min(ends))
    IN  IF opens # {} /\ ends # {} /\ IsObject(object) THEN object ELSE None

\* What json.loads or the salvage gives, None for a BackendError; that is what
\* becomes of JSON that is no object, too, and nothing is salvaged from it.
Parsed(text) ==
    IF IsObject(text) THEN text ELSE IF IsArray(text) THEN None ELSE Salvaged(text)

ExtractJson(text) == Parsed(Unfenced(text))
=============================================================================
