------------------------------- MODULE MCJobs -------------------------------
(***************************************************************************)
(* Instances of Jobs for TLC: days of three seconds, and set-ups that mix  *)
(* what the environment, the .env files and a payload say.                 *)
(***************************************************************************)
EXTENDS Jobs

MCFold == [x \in {"a", "r/A", "b", "a b"} |->
             CASE x \in {"a", "r/A"} -> "a" [] x = "b" -> "b" [] x = "a b" -> Malformed]
MCForeign == {<<"a", 1>>, <<"a", 4>>, <<"b", 4>>}

Says(last, start, end) ==
    [v \in Variables |-> CASE v = "LAST_DAYS" -> last
                           [] v = "START_DATE" -> start
                           [] v = "END_DATE" -> end]
Nothing == Says(Absent, Absent, Absent)
Asks(targets, start, end, last) ==
    [targets |-> targets, dates |-> [start |-> start, end |-> end], lastDays |-> last]
SpeltTwice == <<"r/A", "b", "a">>
Recurrent == Asks(SpeltTwice, Unset, Unset, Unset)

(* What the environment says, and a file beside it.                        *)
Environs == {Nothing, Says(1, Unset, Unset), Says(Unset, 0, 4), Says(2, Absent, 4),
             Says(0, Absent, Absent)}
Files == {Nothing, Says(2, 1, 5), Says(Bad, 0, Absent)}
OfSettings ==
    [environ : Environs, cwdEnv : Files, configEnv : Files, hasConfig : {TRUE},
     subreddits : {<<"r/A", "b">>}, payload : {Recurrent}]

(* Payloads, with and without a config, and with one that lists nothing.   *)
Payloads ==
    {Recurrent, Asks(<<"b">>, Unset, Unset, 1), Asks(<<"a">>, 0, 3, 2),
     Asks(<<"b">>, 4, 3, Unset), Asks(<<"b">>, 0, Unset, Unset), Asks(<<"b">>, 0, Bad, 1),
     Asks(<<"b">>, 3, 3, 0), Asks(<<>>, 0, 3, Unset), Asks(<<"b", "a b">>, Unset, Unset, 1)}
OfPayloads ==
    [environ : {Nothing}, cwdEnv : {Nothing}, configEnv : {Nothing}, hasConfig : BOOLEAN,
     subreddits : {<<>>, <<"b">>}, payload : Payloads]
AllSetups == OfSettings \cup OfPayloads

(* The image as it is shipped: a config whose placeholders are all unset.  *)
TheImage ==
    [environ : {Nothing}, cwdEnv : {Nothing}, configEnv : {Nothing}, hasConfig : {TRUE},
     subreddits : {<<>>}, payload : {Recurrent}]
=============================================================================
