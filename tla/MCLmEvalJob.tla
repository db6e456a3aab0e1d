----------------------------- MODULE MCLmEvalJob -----------------------------
(***************************************************************************)
(* Values for the constants of LmEvalJob: three tasks in two batches, two  *)
(* stop strings, and what a model may say.                                 *)
(***************************************************************************)
EXTENDS LmEvalJob

CONSTANTS t1, t2, t3

AllTasks == {t1, t2, t3}
TaskList == <<t1, t2, t3>>
Category == [t \in AllTasks |-> IF t = t1 THEN "Math" ELSE "Reasoning"]
BalancedCategories == {"Math", "Reasoning"}
OwnStop == [t \in AllTasks |-> IF t = t1 THEN {"stop 1"} ELSE {"stop 2", Newline}]
TaskLimit == [t \in AllTasks |-> IF t = t1 THEN 1 ELSE 6]

Deltas(f, texts, isFinal) ==
    [i \in DOMAIN texts |-> [field |-> f, text |-> texts[i], final |-> isFinal]]

Thoughts == {<<"idea">>, <<"stop 1">>, <<Newline>>}

\* Thinking in a field of its own, or in content between tags.
ThinkingBlocks ==
    {Deltas("reasoning", th, FALSE) : th \in Thoughts}
    \cup {Deltas("content", <<tags[1]>> \o th \o <<tags[2]>>, FALSE) :
             th \in Thoughts, tags \in ToSet(ThinkingTags)}

FinalTexts == {<<>>, <<"word">>, <<Newline>>, <<Newline, "word">>,
               <<"word", Newline>>, <<"word", "stop 1">>, <<"stop 1", "word">>}

OneBlock == {b \o Deltas("content", f, TRUE) : b \in ThinkingBlocks \cup {<<>>}, f \in FinalTexts}
=============================================================================
