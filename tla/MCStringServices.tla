-------------------------- MODULE MCStringServices --------------------------
(***************************************************************************)
(* An instance of StringServices for TLC: all inputs of at most MaxInput   *)
(* bytes over NUL, newline and a letter of each case, with and without a   *)
(* newline behind them.                                                    *)
(***************************************************************************)
EXTENDS StringServices

CONSTANT MaxInput

MCBytes == {NUL, NewLine, 90, 97}
Typed == UNION {[1 .. n -> MCBytes] : n \in 0 .. MaxInput}
MCInputs == Typed \cup {Append(s, NewLine) : s \in Typed}
=============================================================================
