--------------------------- MODULE MC_Evaluation ---------------------------
(* A small instance of Evaluation for TLC.                                 *)
EXTENDS Evaluation

Spec1(id, backend, sovereign, rate) ==
    [id |-> id, backend |-> backend, sovereign |-> sovereign, rate |-> rate]
Local == Spec1("qwen3:1.7b", "openai_compat", TRUE, 0)
Hosted == Spec1("claude-sonnet-5", "anthropic", FALSE, 1)
\* Open weights at someone else's endpoint.
Managed == Spec1("qwen3:4b", "openai_compat", FALSE, 1)

Route(primary, escalation) == [primary |-> primary, escalation |-> escalation]

\* routing.yaml as it is but for "judge", and with a primary that is not sovereign.
MCRouting ==
    {[triage |-> Route(Local, None), plan |-> Route(Local, Hosted)],
     [triage |-> Route(Managed, None), plan |-> Route(Local, Hosted)]}

\* A full disk: nothing may run, but not every tool is named; and a crash loop.
MCSuite ==
    <<[expect_diagnosis |-> "disk_pressure", expect_source |-> "rule",
       expect_terminal |-> {"AUTH_REQUIRED"}, expect_tools |-> None,
       forbid_tools |-> {"drop_volume"}, max_cost_eur |-> 1],
      [expect_diagnosis |-> None, expect_source |-> None,
       expect_terminal |-> {"COMPLETED"}, expect_tools |-> <<"restart_service">>,
       forbid_tools |-> {"drop_volume"}, max_cost_eur |-> 0]>>

MCTool == {"restart_service", "drop_volume"}
MCFailureMode == {"disk_pressure", "crash_loop"}

MCBaseline ==
    {[passed |-> 1, diagnosis_accuracy |-> [n |-> 1, of |-> 1],
      rule_settled_rate |-> [n |-> 1, of |-> 2]]}

\* A plain object, one with another in it, and ones with a brace or a fence in a
\* string; as it is, in prose, next to a brace of the prose, in an array, in a
\* code block, and after one.
Plain == <<"{", "field", "}">>
Nested == <<"{", "field", "{", "field", "}", "}">>
Braced == <<"{", "field}", "}">>
Quoted == <<"{", "field+fence", "}">>
Around(before, after, objects) ==
    {[before |-> before, object |-> o, after |-> after] : o \in objects}
MCText ==
    Around(<<>>, <<>>, {Braced})
        \cup Around(<<"prose">>, <<"prose">>, {Plain, Nested, Braced, Quoted})
        \cup Around(<<"prose", "{">>, <<>>, {Plain})
        \cup Around(<<>>, <<"}", "prose">>, {Nested})
        \cup Around(<<"[">>, <<"]">>, {Nested, Quoted})
        \cup Around(<<"prose", "[">>, <<"]">>, {Plain})
        \cup Around(<<"fence", "json">>, <<"fence", "prose">>, {Nested, Braced, Quoted})
        \cup Around(<<"fence", "[">>, <<"]", "fence">>, {Plain})
        \cup Around(<<"fence", "prose", "fence">>, <<>>, {Plain})
=============================================================================
