---------------------------- MODULE MCExpressions ----------------------------
EXTENDS Expressions

\* All short sources over one character of each kind
Characters == {"a", "1", " ", "(", ")", "=", "!", "|", "-", "/", "*", "\"", "'"}
Short == UNION {[1..n -> Characters] : n \in 0..4}

\* All sequences of a few words
Words == {<<"a", " ">>, <<"1", " ">>, <<"(">>, <<")">>, <<"=", "=">>, <<"|", "|">>, <<"\"", "\"">>}
RECURSIVE Phrases(_)
Phrases(n) == IF n = 0 THEN {<<>>} ELSE {p \o w : p \in Phrases(n - 1), w \in Words}

MCTexts ==
  {[text |-> s, tree |-> Null] : s \in Short \cup UNION {Phrases(n) : n \in 3..5}}
    \cup UNION {Sentences(n) : n \in 1..5}

MCTwoGroups == TwoGroups(3)

=============================================================================
