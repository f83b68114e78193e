------------------------------- MODULE MC_Wire -------------------------------
(***************************************************************************)
(* Model checking Wire: files of up to two requests, one of them with a      *)
(* name of two letters, and the lines the parser stumbles over.             *)
(***************************************************************************)
EXTENDS Wire

Word(s, n) == [letters |-> s, number |-> n]
Short == Word(<<1>>, 0)
Long == Word(<<2, 1>>, 0)
Number == Word(<<1>>, 5)
TooBig == Word(<<1, 1>>, UMax + 1)

\* No request, one with a word for a number, two; a blank line, a name without a
\* number, a number that does not fit.
MCFiles == {<<>>, <<<<Short, Long>>>>, <<<<Long, Number, Short>>, <<Short, Number>>>>,
            <<<<>>>>, <<<<Short>>>>, <<<<Short, TooBig>>>>, NULL}
MCTexts == {<<>>, <<1, 2, 1, 1>>}
=============================================================================
