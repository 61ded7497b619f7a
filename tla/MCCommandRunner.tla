--------------------------- MODULE MCCommandRunner ---------------------------
(***************************************************************************)
(* CommandRunner for TLC: two commands, which write up to three lines to    *)
(* stdout and stderr, up to one of them too long for the Scanner.           *)
(***************************************************************************)
EXTENDS CommandRunner

BothPipes == {"stdout", "stderr"}

MaxLines == 3
Lines == [pipe : BothPipes, line : Line]
Long(output) == {i \in DOMAIN output : output[i].line = "long"}

SmallOutputs == {output \in UNION {[1..n -> Lines] : n \in 0..MaxLines} :
                    \A i, j \in Long(output) : i = j}
ShortOutputs == {<<>>, <<[pipe |-> "stdout", line |-> "short"]>>}
=============================================================================
