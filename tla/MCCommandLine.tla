----------------------------- MODULE MCCommandLine -----------------------------
(* The scripts, and the arguments of their run lines, for CommandLine.        *)
EXTENDS CommandLine

\* What the documentation's example does, without its "end".
WholeBuild == {<<"begin", "set-name", "write">>}
SomeScripts == {<<"edit", "cat-manifest">>, <<"run">>, <<"edit", "end">>}

MCChar == {"r", "u", "n", "a", " ", "'", "\"", "\\", "#", ",", "-"}

\* Words with every character that means something on the way, and commands without
\* arguments or with two: each word is the first one of a command and the last one of
\* another.
Words == <<<<"a">>, <<"a", " ", "a">>, <<"'">>, <<"a", " ">>, <<"\"", "a">>, <<"#", "a">>, <<"\\">>,
           <<"a", "\"">>, <<"-", "a">>, <<"a", ",", "a">>, <<"-", "-">>>>
Follower(i) == Words[(i % Len(Words)) + 1]
MCCalls == {<<<<"a">>>>} \cup {<<<<"a">>, Words[i], Follower(i)>> : i \in DOMAIN Words}
MCFlagWords == {<<>>, <<Tacks>>, <<<<"-", "-", "a">>>>, <<<<"-", "a">>, Tacks>>}

AllButFlush == AllFaults \ {"flush"}
================================================================================
