----------------------------- MODULE PhoneCommands -----------------------------
(***************************************************************************)
(* From a command line to the message for a phone (at_cmdProc.c, keyMap.c):*)
(* ioevt, call, syslog, hideFeature, randomKey, and randomTime, delay and  *)
(* autoConfig, which read their line in the same way.  Every handler reads *)
(* the parsed line gCmdParam piece by piece while other command threads    *)
(* parse lines of their own into it.  Test mode is on here; CommandQueue   *)
(* has what happens when it is not, and the way of the message from msgsnd *)
(* on.                                                                     *)
(*                                                                         *)
(* A handler is the sequence of its uses of the shared line, one step      *)
(* each.  Parsing a line is one step.                                      *)
(***************************************************************************)
EXTENDS Integers, SequencesExt

CONSTANTS
  Thread,      (* the command threads                                      *)
  MAX_CLIENT,  (* number of client slots                                   *)
  MAX_IOEVT,   (* keys one event takes                                     *)
  Number,      (* numbers a line may carry                                 *)
  Line,        (* Line[t]: the lines thread t is given                     *)
  File,        (* File[n]: the lines of the configuration file called n    *)
  RAND_BITS,   (* bits of rand()                                           *)
  FLT_BITS,    (* bits of the mantissa of a float                          *)
  Place,       (* bound: places of gKeyLib randomKey draws from            *)
  MaxLine      (* bound: lines each thread is given                        *)

MIN_CLIENT  == 0
MIN_KEY_NUM == 0
MAX_KEY_NUM == 255
FAILED      == -1
KEY_TEXT    == 2 * MAX_IOEVT - 1   (* characters keyCodes holds *)
Stray       == "?"                 (* what is left where another text was  *)
NoCommand   == "#"                 (* a comment, or a line without a ";"   *)

(* What strtok yields is not empty. *)
Word == {text \in STRING : Len(text) \in Nat \ {0} /\ SubSeq(text, 1, Len(text)) = text}

(* One line: its first word, the number of words that follow, the second   *)
(* word as a number, the third as a list of texts and as a number, and the *)
(* fourth.                                                                 *)
CommandLine == [cmd : STRING, n : 0 .. 3, num : Number, par : Seq(Word),
                max : Number, act : STRING]

(* rand() is less than RANDS, a mantissa less than MANTISSAS, and the last *)
(* bit of a mantissa stands for one of Ulp.                                *)
pow2[n \in 0 .. RAND_BITS + FLT_BITS] == IF n = 0 THEN 1 ELSE 2 * pow2[n - 1]
RANDS     == pow2[RAND_BITS]
MANTISSAS == pow2[FLT_BITS]
Ulp       == {pow2[e] : e \in 0 .. RAND_BITS}

(* A word that is no number counts as 0.  Bound: a float holds every       *)
(* number of a line exactly.                                               *)
ASSUME PhoneAssumption ==
  /\ {MAX_CLIENT, MAX_IOEVT, RAND_BITS, FLT_BITS} \subseteq Nat \ {0}
  /\ Number \subseteq Int /\ 0 \in Number /\ Place \subseteq Int /\ DOMAIN File \subseteq Number
  /\ \A n \in Number \cup {MAX_KEY_NUM} : n < MANTISSAS
  /\ \A t \in Thread : Line[t] \subseteq CommandLine /\ MaxLine[t] \in Nat
  /\ \A n \in DOMAIN File : File[n] \in Seq(CommandLine)

VARIABLES
  gCmdParam,  (* the last line parsed, by whichever thread, n is gParamNum *)
  todo,       (* the steps of its handler a thread has ahead of it         *)
  loc,        (* its locals, and the line it was given                     *)
  config,     (* the lines autoConfig has not yet executed                 *)
  given,      (* lines each thread has been given                          *)
  disturbed   (* threads whose line another thread has overwritten         *)

vars == <<gCmdParam, todo, loc, config, given, disturbed>>

-----------------------------------------------------------------------------
(* gCmdLib: the names and nicknames of these commands.  Any other word is  *)
(* either not found or leads to a handler that belongs to another module.  *)
nickName ==
  [ioevt |-> "ie", call |-> "call", syslog |-> "sl", hideFeature |-> "hf",
   randomKey |-> "rk", randomTime |-> "rt", autoConfig |-> "ac", delay |-> "dy"]

getCmdCode(text) == {c \in DOMAIN nickName : text \in {c, nickName[c]}}

(* Their handlers. *)
ioevt           == <<"args", "range", "code", "client", "action", "keys", "keyCodes", "send">>
call            == <<"args", "client", "code", "par", "send">>
syslogConf      == <<"args", "range", "code", "client", "par", "send">>
hideFeatureProc == <<"args", "range", "code", "client", "par", "send">>
randomKey       == <<"args", "draw", "compose">>
randomTime      == <<"args", "min", "max", "sleep">>
delay           == <<"args", "min", "sleep">>
autoConfig      == <<"args", "open">>

func == [ioevt |-> ioevt, call |-> call, syslog |-> syslogConf,
         hideFeature |-> hideFeatureProc, randomKey |-> randomKey,
         randomTime |-> randomTime, autoConfig |-> autoConfig, delay |-> delay]

(* gKeyLib: all other places of the table are empty. *)
key(name, code) == [name |-> name, code |-> code]

gKeyLib ==
  [i \in {34, 4, 44, 24, 14, 54, 3, 2, 41, 33, 32, 31, 13, 12,
          1, 52, 53, 51, 22, 42, 43, 11, 25, 15, 5, 100, 101} |->
     CASE i = 34 -> key("s1", "251") [] i = 4 -> key("s2", "252")
       [] i = 44 -> key("s3", "253") [] i = 24 -> key("s4", "254")
       [] i = 14 -> key("up", "31") [] i = 54 -> key("dn", "32")
       [] i = 3 -> key("1", "49") [] i = 2 -> key("2", "50")
       [] i = 41 -> key("3", "51") [] i = 33 -> key("4", "52")
       [] i = 32 -> key("5", "53") [] i = 31 -> key("6", "54")
       [] i = 13 -> key("7", "55") [] i = 12 -> key("8", "56")
       [] i = 1 -> key("9", "57") [] i = 52 -> key("0", "48")
       [] i = 53 -> key("*", "10") [] i = 51 -> key("#", "11")
       [] i = 22 -> key("vd", "47") [] i = 42 -> key("me", "64")
       [] i = 43 -> key("vu", "46") [] i = 11 -> key("rl", "63")
       [] i = 25 -> key("he", "61") [] i = 15 -> key("le1", "151")
       [] i = 5 -> key("le2", "152") [] i = 100 -> key("offhook", "100")
       [] i = 101 -> key("onhook", "101")]

KeyCode == {gKeyLib[i].code : i \in DOMAIN gKeyLib}
KeyName == {gKeyLib[i].name : i \in DOMAIN gKeyLib}

(* About the characters of these texts: none is empty, and no name begins  *)
(* with another text of the table.                                         *)
ASSUME KeyAssumption ==
  /\ {Stray, "ioevt", "p"} \cup KeyCode \cup KeyName \subseteq Word
  /\ \A name \in KeyName : \A n \in 1 .. Len(name) - 1 :
       SubSeq(name, 1, n) \notin KeyCode \cup KeyName

lowest(S) == IF S = {} THEN FAILED ELSE Min(S)

(* Mutant: the beginning of a name will do. *)
getKeyCodeByPrefix(text) ==
  lowest({i \in DOMAIN gKeyLib :
            \/ /\ Len(text) <= Len(gKeyLib[i].name)
               /\ SubSeq(gKeyLib[i].name, 1, Len(text)) = text
            \/ text = gKeyLib[i].code})

getKeyCode(text) ==
  lowest({i \in DOMAIN gKeyLib : text \in {gKeyLib[i].name, gKeyLib[i].code}})

-----------------------------------------------------------------------------
(* getTokens(keyCodes): the list of keys, joined by commas, is cut to      *)
(* KEY_TEXT characters before it is taken apart.  A key that begins before *)
(* the cut stays, as much of it as fits.                                   *)
startOf(list, i) == SumFunction([j \in 1 .. i - 1 |-> Len(list[j]) + 1])

cutAt(list, width) ==
  [i \in {j \in DOMAIN list : startOf(list, j) < width} |->
     SubSeq(list[i], 1, Min({Len(list[i]), width - startOf(list, i)}))]

(* Mutant: keyCodes is as long as a text of MAX_IOEVT keys and a comma.    *)
keyTokensLong(list) == cutAt(list, KEY_TEXT + 2)

keyTokens(list) == cutAt(list, KEY_TEXT)

(* Mutant: the field is taken for unsigned. *)
c8Unsigned(n) == n % 256

(* A number as msgQ_obj.clientNum, a c8_t, holds it. *)
c8(n) == ((n + 128) % 256) - 128

(* getRandValue: max * rand() is rounded twice, as rand() becomes a float  *)
(* and as the product does, to the nearest of two floats or to the even    *)
(* one.                                                                    *)
roundFloat(x) ==
  LET ulp  == Min({u \in Ulp : x < MANTISSAS * u})
      q    == x \div ulp
      r    == 2 * (x % ulp)
  IN ulp * (IF r > ulp \/ (r = ulp /\ q % 2 = 1) THEN q + 1 ELSE q)

(* Mutant: the spread is one wider, as if max were to be drawn as well.    *)
drawWider(min, max, rand) ==
  min + roundFloat((max + 1) * roundFloat(rand)) \div RANDS

draw(min, max, rand) ==
  min + roundFloat(max * roundFloat(rand)) \div RANDS

(* Its results for every pair of bounds in use and every rand(). *)
Bound == {<<MIN_KEY_NUM, MAX_KEY_NUM>>} \cup (Number \X Number)

getRandValue ==
  [b \in Bound |->
     IF b[2] <= 0 \/ b[1] < 0 \/ b[2] < b[1] THEN {FAILED}
     ELSE {draw(b[1], b[2], rand) : rand \in 0 .. RANDS - 1}]

-----------------------------------------------------------------------------
NoLine   == [cmd |-> Stray, n |-> 0, num |-> 0, par |-> <<Stray>>, max |-> 0, act |-> Stray]
NoLocals == [line |-> NoLine, cmd |-> Stray, code |-> Stray, client |-> FAILED,
             par |-> <<>>, act |-> Stray, min |-> 0, max |-> 0, value |-> 0]

Init ==
  /\ gCmdParam = NoLine
  /\ todo = [t \in Thread |-> <<>>]
  /\ loc = [t \in Thread |-> NoLocals]
  /\ config = [t \in Thread |-> <<>>]
  /\ given = [t \in Thread |-> 0]
  /\ disturbed = {}

(* The thread's next use of the line is s. *)
at(t, s) == todo[t] # <<>> /\ Head(todo[t]) = s

set(t, field, v) == loc' = [loc EXCEPT ![t][field] = v]

proceed(t) == todo' = [todo EXCEPT ![t] = Tail(@)]

return(t) ==
  /\ todo' = [todo EXCEPT ![t] = <<>>]
  /\ loc' = [loc EXCEPT ![t] = NoLocals]

othersAtWork(t) == {u \in Thread \ {t} : todo[u] # <<>>}

-----------------------------------------------------------------------------
(* cmd_proc: getTokens overwrites the line all threads read; getCmdCode    *)
(* picks the handler by the first word the line has by then.               *)

parse(t, line) ==
  /\ gCmdParam' = line
  /\ todo' = [todo EXCEPT ![t] = <<"dispatch">>]

(* A line typed or taken from a script, or the next one autoConfig has read.*)
Issue(t) ==
  /\ todo[t] = <<>>
  /\ \E line \in IF config[t] = <<>> THEN Line[t] ELSE {Head(config[t])} :
       parse(t, line) /\ set(t, "line", line)
  /\ \/ config[t] # <<>> /\ config' = [config EXCEPT ![t] = Tail(@)] /\ UNCHANGED given
     \/ /\ config[t] = <<>> /\ given[t] < MaxLine[t]
        /\ given' = [given EXCEPT ![t] = @ + 1]
        /\ UNCHANGED config
  /\ disturbed' = (disturbed \ {t}) \cup othersAtWork(t)

Dispatch(t) ==
  /\ at(t, "dispatch")
  /\ \/ \E cmd \in getCmdCode(gCmdParam.cmd) :
          todo' = [todo EXCEPT ![t] = func[cmd]] /\ set(t, "cmd", cmd)
     \/ getCmdCode(gCmdParam.cmd) = {} /\ return(t)
  /\ UNCHANGED <<gCmdParam, config, given, disturbed>>

-----------------------------------------------------------------------------
(* What handlers take from the line, and refuse *)

argsOk(cmd, line) ==
  CASE cmd = "ioevt" -> line.n = 3 /\ line.act \in {"p", "l"}
    [] cmd \in {"syslog", "hideFeature"} -> line.n >= 2
    [] cmd \in {"call", "randomTime"} -> line.n = 2
    [] OTHER -> line.n = 1

CheckArgs(t) ==
  /\ at(t, "args")
  /\ IF argsOk(loc[t].cmd, gCmdParam) THEN proceed(t) /\ UNCHANGED loc ELSE return(t)
  /\ UNCHANGED <<gCmdParam, config, given, disturbed>>

CheckRange(t) ==
  /\ at(t, "range")
  /\ IF gCmdParam.num \in MIN_CLIENT .. MAX_CLIENT - 1
     THEN proceed(t) /\ UNCHANGED loc ELSE return(t)
  /\ UNCHANGED <<gCmdParam, config, given, disturbed>>

(* Mutant: the nickname is sent as it is. *)
TakeCodeRaw(t) ==
  /\ at(t, "code")
  /\ set(t, "code", gCmdParam.cmd)
  /\ proceed(t)
  /\ UNCHANGED <<gCmdParam, config, given, disturbed>>

TakeCode(t) ==
  /\ at(t, "code")
  /\ set(t, "code", IF gCmdParam.cmd = nickName[loc[t].cmd]
                    THEN loc[t].cmd ELSE gCmdParam.cmd)
  /\ proceed(t)
  /\ UNCHANGED <<gCmdParam, config, given, disturbed>>

(* Mutant: ioevt relies on its first check. *)
clientOkOnce(cmd) == cmd = "call" => gCmdParam.num \in MIN_CLIENT .. MAX_CLIENT - 1

(* atoi(gCmdParam[1]) once more: ioevt looks whether it is in range, but   *)
(* takes MAX_CLIENT for a client; call reads it only here; the others take *)
(* what they get.                                                          *)
clientOk(cmd) ==
  CASE cmd = "ioevt" -> gCmdParam.num \in MIN_CLIENT .. MAX_CLIENT
    [] cmd = "call"  -> gCmdParam.num \in MIN_CLIENT .. MAX_CLIENT - 1
    [] OTHER         -> TRUE

TakeClient(t) ==
  /\ at(t, "client")
  /\ IF clientOk(loc[t].cmd) THEN set(t, "client", c8(gCmdParam.num)) /\ proceed(t)
                             ELSE return(t)
  /\ UNCHANGED <<gCmdParam, config, given, disturbed>>

(* The third word, and the fourth when syslog has one. *)
TakePar(t) ==
  /\ at(t, "par")
  /\ set(t, "par", gCmdParam.par \o (IF loc[t].cmd = "syslog" /\ gCmdParam.n = 3
                                     THEN <<gCmdParam.act>> ELSE <<>>))
  /\ proceed(t)
  /\ UNCHANGED <<gCmdParam, config, given, disturbed>>

TakeAction(t) ==
  /\ at(t, "action")
  /\ set(t, "act", gCmdParam.act)
  /\ proceed(t)
  /\ UNCHANGED <<gCmdParam, config, given, disturbed>>

-----------------------------------------------------------------------------
(* The keys of ioevt *)

(* Mutant: one key less is enough to be too many. *)
tooManyAtMax(list) == Len(list) >= MAX_IOEVT

tooMany(list) == Len(list) - 1 >= MAX_IOEVT

(* getTokens uses one static buffer: the list of keys overwrites the line  *)
(* it was taken from, for this thread and every other one.                 *)
TakeKeys(t) ==
  /\ at(t, "keys")
  /\ IF tooMany(keyTokens(gCmdParam.par)) THEN return(t)
     ELSE set(t, "par", keyTokens(gCmdParam.par)) /\ proceed(t)
  /\ \E i, j \in Number :
       gCmdParam' = [gCmdParam EXCEPT !.cmd = Stray, !.num = i, !.par = <<Stray>>,
                                      !.max = j, !.act = Stray]
  /\ disturbed' = disturbed \cup othersAtWork(t)
  /\ UNCHANGED <<config, given>>

(* The keys found still lie in that buffer while they are looked up; a     *)
(* line parsed meanwhile leaves other texts in their places.               *)
TakeKeyCodes(t) ==
  /\ at(t, "keyCodes")
  /\ LET index == [i \in DOMAIN loc[t].par |-> getKeyCode(loc[t].par[i])]
     IN \/ /\ \A i \in DOMAIN index : index[i] # FAILED
           /\ set(t, "par", [i \in DOMAIN index |-> gKeyLib[index[i]].code])
           /\ proceed(t)
        \/ (t \in disturbed \/ \E i \in DOMAIN index : index[i] = FAILED) /\ return(t)
        \/ /\ t \in disturbed
           /\ set(t, "par", [i \in DOMAIN index |-> Stray])
           /\ proceed(t)
  /\ UNCHANGED <<gCmdParam, config, given, disturbed>>

(* msgsnd *)
Send(t) ==
  /\ at(t, "send")
  /\ return(t)
  /\ UNCHANGED <<gCmdParam, config, given, disturbed>>

-----------------------------------------------------------------------------
(* randomKey draws until the place drawn is not empty, and then is the     *)
(* command "ioevt <client> <key> p".  One place beyond gKeyLib can be      *)
(* drawn; what lies there may be empty or some text.                       *)

DrawKey(t) ==
  /\ at(t, "draw")
  /\ \E i \in Place \cap getRandValue[<<MIN_KEY_NUM, MAX_KEY_NUM>>] :
       /\ i \in 0 .. MAX_KEY_NUM - 1 => i \in DOMAIN gKeyLib
       /\ set(t, "value", i)
  /\ proceed(t)
  /\ UNCHANGED <<gCmdParam, config, given, disturbed>>

keyName(i) == IF i \in DOMAIN gKeyLib THEN gKeyLib[i].name ELSE Stray

Compose(t) ==
  /\ at(t, "compose")
  /\ parse(t, [cmd |-> "ioevt", n |-> 3, num |-> gCmdParam.num,
               par |-> <<keyName(loc[t].value)>>, max |-> 0, act |-> "p"])
  /\ disturbed' = disturbed \cup othersAtWork(t)
  /\ UNCHANGED <<loc, config, given>>

(* randomTime and delay *)
TakeMin(t) ==
  /\ at(t, "min")
  /\ set(t, "min", gCmdParam.num)
  /\ proceed(t)
  /\ UNCHANGED <<gCmdParam, config, given, disturbed>>

TakeMax(t) ==
  /\ at(t, "max")
  /\ \/ loc[t].min >= gCmdParam.max /\ return(t)
     \/ /\ loc[t].min < gCmdParam.max
        /\ \E v \in getRandValue[<<loc[t].min, gCmdParam.max>>] :
             loc' = [loc EXCEPT ![t].max = gCmdParam.max, ![t].value = v]
        /\ proceed(t)
  /\ UNCHANGED <<gCmdParam, config, given, disturbed>>

Sleep(t) ==
  /\ at(t, "sleep")
  /\ return(t)
  /\ UNCHANGED <<gCmdParam, config, given, disturbed>>

(* autoConfig executes the lines of a file, if it can be opened, before    *)
(* its thread goes on.                                                     *)
executable(lines) ==
  FlattenSeq([k \in DOMAIN lines |-> IF lines[k].cmd = NoCommand THEN <<>> ELSE <<lines[k]>>])

OpenConfig(t) ==
  /\ at(t, "open")
  /\ LET lines == IF gCmdParam.num \in DOMAIN File THEN File[gCmdParam.num] ELSE <<>>
     IN config' = [config EXCEPT ![t] = executable(lines) \o @]
  /\ return(t)
  /\ UNCHANGED <<gCmdParam, given, disturbed>>

-----------------------------------------------------------------------------
Step(t) ==
  \/ Dispatch(t) \/ CheckArgs(t) \/ CheckRange(t) \/ TakeCode(t) \/ TakeClient(t)
  \/ TakePar(t) \/ TakeAction(t) \/ TakeKeys(t) \/ TakeKeyCodes(t) \/ Send(t)
  \/ DrawKey(t) \/ Compose(t) \/ TakeMin(t) \/ TakeMax(t) \/ Sleep(t)
  \/ OpenConfig(t)

Next == \E t \in Thread : Issue(t) \/ Step(t)

Spec == Init /\ [][Next]_vars
-----------------------------------------------------------------------------
(* Properties.  What a line asks for is said here in terms of the line     *)
(* alone, without the stages of a handler.                                 *)

(* Every variable keeps its type: whatever number a line carries, the      *)
(* message carries one that a c8_t can hold.                               *)
TypeOK ==
  /\ gCmdParam \in CommandLine
  /\ \A t \in Thread :
       /\ \A s \in Range(todo[t]) : s \in {"dispatch"} \cup UNION {Range(func[c]) : c \in DOMAIN func}
       /\ loc[t].client \in -128 .. 127 /\ loc[t].cmd \in DOMAIN func \cup {Stray}
       /\ loc[t].value \in Int /\ config[t] \in Seq(CommandLine)
  /\ disturbed \subseteq Thread /\ given \in [Thread -> Nat]

undisturbed(t, s) == at(t, s) /\ t \notin disturbed

(* The command a word means, the codes a list of keys means. *)
meaning(word) == IF getCmdCode(word) = {} THEN word ELSE CHOOSE c \in getCmdCode(word) : TRUE

known(text) == \E k \in DOMAIN gKeyLib : text \in {gKeyLib[k].name, gKeyLib[k].code}

codeOf(text) ==
  (CHOOSE k \in {gKeyLib[i] : i \in DOMAIN gKeyLib} : text \in {k.name, k.code}).code

fits(list) == SumFunction([i \in DOMAIN list |-> Len(list[i]) + 1]) <= KEY_TEXT + 1

(* The messages a line asks for: randomKey is content with any key.        *)
asked(line) ==
  LET cmd == meaning(line.cmd)
      msg(code, par, act) == [code |-> code, client |-> line.num, par |-> par, act |-> act]
  IN CASE cmd = "ioevt" ->
            {msg(cmd, [i \in DOMAIN line.par |-> codeOf(line.par[i])], line.act)}
       [] cmd = "randomKey" -> {msg("ioevt", <<k>>, "p") : k \in KeyCode}
       [] cmd = "syslog" /\ line.n = 3 -> {msg(cmd, Append(line.par, line.act), Stray)}
       [] OTHER -> {msg(cmd, line.par, Stray)}

message(t) == [code |-> loc[t].code, client |-> loc[t].client, par |-> loc[t].par,
               act |-> loc[t].act]

(* A thread nobody has disturbed sends what its line asks for, be the      *)
(* command typed by name or nickname, the keys by name or by code, the     *)
(* line typed or composed by randomKey; only lists of keys that do not fit *)
(* are left to NeverAnotherKey (ioevt, call, syslogConf, hideFeatureProc). *)
SentAsTyped ==
  \A t \in Thread :
    undisturbed(t, "send") /\ (loc[t].cmd = "ioevt" => fits(loc[t].line.par))
      => message(t) \in asked(loc[t].line)

(* And what is valid is sent: a thread nobody has disturbed gives up       *)
(* before msgsnd only for a line with a wrong number of words, a client,   *)
(* key or action that does not exist, more keys than an event takes, or a  *)
(* list of keys longer than the KEY_TEXT characters keyCodes keeps of it   *)
(* (ioevt, call, syslogConf, hideFeatureProc).                             *)
valid(line) ==
  LET cmd == meaning(line.cmd)
  IN /\ line.num \in MIN_CLIENT .. MAX_CLIENT - 1
     /\ \/ /\ cmd = "ioevt" /\ line.n = 3 /\ line.act \in {"p", "l"}
           /\ Len(line.par) <= MAX_IOEVT /\ fits(line.par)
           /\ \A i \in DOMAIN line.par : known(line.par[i])
        \/ cmd = "call" /\ line.n = 2
        \/ cmd \in {"syslog", "hideFeature"} /\ line.n \in {2, 3}

ValidIsSent ==
  [][ \A t \in Thread :
        todo[t] # <<>> /\ todo'[t] = <<>> /\ ~at(t, "send") /\ t \notin disturbed
          => ~valid(loc[t].line) ]_vars

(* A list of key names that does not fit loses keys at its end or is       *)
(* refused, it never presses a key it does not name: no name begins with   *)
(* another one.  Codes do ("251" with "2").                                *)
NeverAnotherKey ==
  \A t \in Thread :
    undisturbed(t, "send") /\ loc[t].cmd = "ioevt" /\ Range(loc[t].line.par) \subseteq KeyName
      /\ loc[t].line.n = 3
      => IsPrefix(loc[t].par, [i \in DOMAIN loc[t].line.par |-> codeOf(loc[t].line.par[i])])

(* getTokens writes up to MAX_TOKEN pointers into the MAX_IOEVT places of  *)
(* ioevt_param and only then is their number looked at: the cut alone      *)
(* keeps it inside, whichever line is there by then.                       *)
KeysFit ==
  \A t \in Thread : at(t, "keys") => Len(keyTokens(gCmdParam.par)) <= MAX_IOEVT

(* The number in a message may belong to another thread's line, but call   *)
(* only ever sends to a client and ioevt at most one beyond the last one.  *)
ClientBound ==
  \A t \in Thread : at(t, "send") =>
    /\ loc[t].cmd = "call"  => loc[t].client \in MIN_CLIENT .. MAX_CLIENT - 1
    /\ loc[t].cmd = "ioevt" => loc[t].client \in MIN_CLIENT .. MAX_CLIENT

(* getRandValue spreads by max and not by max - min and rounds up to a     *)
(* float: a delay may exceed max, though never min + max, and the place    *)
(* randomKey looks at may lie beyond gKeyLib, though no more than one.     *)
RandomStaysInReach ==
  \A t \in Thread :
    /\ at(t, "compose") => loc[t].value \in MIN_KEY_NUM .. MAX_KEY_NUM
    /\ at(t, "sleep") /\ loc[t].cmd = "randomTime" =>
         loc[t].value \in {FAILED} \cup loc[t].min .. loc[t].min + loc[t].max
=============================================================================
