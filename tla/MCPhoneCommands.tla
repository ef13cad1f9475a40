---------------------------- MODULE MCPhoneCommands ----------------------------
(* The lines of a small instance of PhoneCommands: two clients, events of  *)
(* at most three keys, so lists of keys are cut to five characters.        *)
EXTENDS PhoneCommands

CONSTANTS main, script

Numbers == {0, 2, 130}

(* Two keys, and everything from the last place of gKeyLib on. *)
Places == {15, 53} \cup 254 .. 300

(* A line of words: those it does not have are Stray, and a number no      *)
(* handler will use is 0.                                                  *)
L1(cmd, num)                == [NoLine EXCEPT !.cmd = cmd, !.n = 1, !.num = num]
L2(cmd, num, par, max)      == [L1(cmd, num) EXCEPT !.n = 2, !.par = par, !.max = max]
L3(cmd, num, par, act)      == [L2(cmd, num, par, 0) EXCEPT !.n = 3, !.act = act]

KeyLists ==
  { <<"1", "2", "3">>, <<"vu", "49">>,             \* as long as a list may be
    <<"1", "1", "vu">>, <<"1", "1", "251">>,       \* the last key is cut
    <<"1", "2", "3", "4">>, <<"9", "zz">> }        \* a key too many, an unknown one

MainLines ==
  {L3("ie", 0, keys, "p") : keys \in KeyLists}
  \cup { L3("ioevt", 0, <<"1">>, "l"), L3("ie", 0, <<"1">>, "x"), L3("ie", 2, <<"1">>, "p"),
         L2("call", 0, <<"130">>, 130), L2("call", 2, <<"130">>, 130),
         L2("sl", 0, <<"enable">>, 0), L3("syslog", 0, <<"log">>, "3"),
         L2("hf", 0, <<"enable">>, 0), L1("rk", 0),
         L2("rt", 0, <<"2">>, 2), L2("rt", 2, <<"0">>, 0),
         L1("dy", 2), L1("ac", 2), L1("ac", 0), L1("show", 0) }

ScriptLines ==
  { L3("ie", 0, <<"2">>, "l"), L2("sl", 130, <<"disable">>, 0) }

Lines == [t \in Thread |-> IF t = main THEN MainLines ELSE ScriptLines]

(* The script's lines disturb the operator's, which are all alike. *)
MaxLines == [t \in Thread |-> IF t = main THEN 1 ELSE 2]

Files == [n \in {2} |-> <<[NoLine EXCEPT !.cmd = NoCommand],
                         L2("hideFeature", 0, <<"disable">>, 0),
                         L3("ioevt", 0, <<"s1", "4">>, "p")>>]
=============================================================================
