------------------------------ MODULE MCProgram ------------------------------
(***************************************************************************)
(* Source files for the assembler: every line of a mnemonic and up to two  *)
(* operands, alone or behind a first instruction, with a separator and a   *)
(* comment; a blank file.  A byte has 8 values and a word two bytes, so    *)
(* -32 .. 31 fit and 40 does not.                                          *)
(***************************************************************************)
EXTENDS Program

Sep     == <<",", 0>>
Comment == <<<<";", 0>>, <<"name", "exit">>>>

Operands == {<<"r", 0>>, <<"r", 1>>, <<"r", 10>>, <<"r", 11>>, <<"#", 9>>,
             <<"#", -1>>, <<"#", 40>>, <<"@", 5>>, <<"int", 1>>, <<"int", 12>>,
             <<"int", 40>>, <<"name", "x">>}

Names == {Mnemonics[k] : k \in 1 .. Len(Mnemonics)} \cup {"nop"}

Lines ==
    {<<<<"name", m>>>> : m \in Names}
    \cup {<<<<"name", m>>, x>> : m \in Names, x \in Operands}
    \cup {<<<<"name", m>>, x, Sep, y>> : m \in Names, x, y \in Operands}

First == <<<<"name", "movi">>, <<"r", 2>>, Sep, <<"#", -3>>>>

AllSources ==
    {<<l>> : l \in Lines} \cup {<<First, Comment, l \o Comment>> : l \in Lines}
    \cup {<<Comment>>}
=============================================================================
