----------------------------- MODULE ScriptEngine -----------------------------
(***************************************************************************)
(* One script thread: cpScriptContentToArray copies the useful lines of a  *)
(* script file into gScriptParam, scriptCmdProcess executes them and       *)
(* repeats the lines between start and end as often as "loop n" says       *)
(* (at_cmdProc.c).  What a script means is given by a program, a sequence  *)
(* of blocks as ReadMe.txt describes them; Render writes it down as a file *)
(* and the engine works on the file alone.                                 *)
(***************************************************************************)
EXTENDS Integers, SequencesExt

CONSTANTS
  Program,      (* programs the engine is given                            *)
  Garbage,      (* what the uninitialised loopStart may hold               *)
  MAX_SC_LINE   (* lines gScriptParam has room for                         *)

(* A block executes the commands of its body once, or times times when     *)
(* loop says so; noise says whether comments are sprinkled over its lines, *)
(* marks whether a loop has its start and its end line.                    *)
Block == [loop : BOOLEAN, times : Int, noise : BOOLEAN, marks : SUBSET {"start", "end"},
          body : Seq(Int)]

ASSUME ScriptAssumption ==
  Program \subseteq Seq(Block) /\ Garbage \subseteq Int /\ MAX_SC_LINE \in Nat \ {0}

-----------------------------------------------------------------------------
Repeat(s, n) == FlattenSeq([k \in 1 .. n |-> s])

BlockMeaning(b) == IF b.loop THEN Repeat(b.body, b.times) ELSE b.body

(* A loop whose count is not positive ends the script (at_cmdProc.c:1088). *)
Reached(program) ==
  {i \in DOMAIN program :
     \A j \in 1 .. i : program[j].loop => program[j].times > 0}

Meaning(program) ==
  FlattenSeq([i \in DOMAIN program |->
                IF i \in Reached(program) THEN BlockMeaning(program[i]) ELSE <<>>])

(* Rounds of loops that do something, which is what look reports: as many  *)
(* as a list with the loop of every round is long.                         *)
BlockRounds(program, i) ==
  IF i \in Reached(program) /\ program[i].loop /\ program[i].body # <<>>
  THEN [r \in 1 .. program[i].times |-> i] ELSE <<>>

Rounds(program) ==
  Len(FlattenSeq([i \in DOMAIN program |-> BlockRounds(program, i)]))

-----------------------------------------------------------------------------
(* Lines of a file.  A "skip" line is a comment, an empty line or one      *)
(* without ';'.                                                            *)

Line(op, arg) == [op |-> op, arg |-> arg]
NoLine == Line("", 0)
Commands(body) == [k \in DOMAIN body |-> Line("cmd", body[k])]

Noise(b) == IF b.noise THEN <<Line("skip", 0)>> ELSE <<>>

Mark(b, op) == IF op \in b.marks THEN <<Line(op, 0)>> ELSE <<>>

BlockLines(b) ==
  IF b.loop
  THEN Noise(b) \o <<Line("loop", b.times)>> \o Noise(b) \o Mark(b, "start")
       \o Commands(b.body) \o Noise(b) \o Mark(b, "end")
  ELSE Noise(b) \o Commands(b.body)

Render(program) == FlattenSeq([i \in DOMAIN program |-> BlockLines(program[i])])

-----------------------------------------------------------------------------
VARIABLES
  program,     (* what the file says                                       *)
  scriptCmd,   (* gScriptParam[scriptNum]->scriptCmd, its used part        *)
  index, loopTime, loopStart, loopEnd,
  count,       (* gScriptCount[scriptNum]                                  *)
  executed,    (* commands given to cmd_proc so far                        *)
  pc

locals == <<index, loopTime, loopStart, loopEnd>>
vars   == <<program, scriptCmd, locals, count, executed, pc>>

Init ==
  /\ program \in Program
  /\ scriptCmd = <<>>
  /\ index = 0 /\ loopTime = 0 /\ loopStart \in Garbage /\ loopEnd \in Garbage
  /\ count = 1   (* left by an earlier script of the same number *)
  /\ executed = <<>>
  /\ pc = "open"

(* The array is zeroed behind the lines of the script. *)
lineAt(i) == IF i \in 0 .. Len(scriptCmd) - 1 THEN scriptCmd[i + 1] ELSE NoLine

outOfBounds(i) == i \notin 0 .. MAX_SC_LINE - 1

crash == pc' = "crashed" /\ UNCHANGED <<program, scriptCmd, locals, count, executed>>

(* cmd_proc: loop, start and end are not commands it knows. *)
cmd_proc(line) ==
  executed' = IF line.op = "cmd" THEN Append(executed, line.arg) ELSE executed

-----------------------------------------------------------------------------
OpenFails ==
  /\ pc = "open"
  /\ count' = 0
  /\ pc' = "done"
  /\ UNCHANGED <<program, scriptCmd, locals, executed>>

(* Mutant: comments are copied, too. *)
copiedAll == Render(program)

useful(file) ==
  FlattenSeq([k \in DOMAIN file |-> IF file[k].op = "skip" THEN <<>> ELSE <<file[k]>>])

copied == useful(Render(program))

(* Mutant: the count of the script before is not reset. *)
OpenKeepsCount ==
  /\ pc = "open"
  /\ Len(copied) <= MAX_SC_LINE
  /\ scriptCmd' = copied
  /\ pc' = IF copied = <<>> THEN "done" ELSE "line"
  /\ UNCHANGED <<program, locals, count, executed>>

(* An array without lines makes cpScriptContentToArray return FAILED. *)
Open ==
  /\ pc = "open"
  /\ Len(copied) <= MAX_SC_LINE
  /\ scriptCmd' = copied
  /\ count' = 0
  /\ pc' = IF copied = <<>> THEN "done" ELSE "line"
  /\ UNCHANGED <<program, locals, executed>>

OpenOverruns == pc = "open" /\ Len(copied) > MAX_SC_LINE /\ crash

EndOfScript ==
  /\ pc = "line"
  /\ index >= Len(scriptCmd)
  /\ pc' = "done"
  /\ UNCHANGED <<program, scriptCmd, locals, count, executed>>

RunLine ==
  /\ pc = "line" /\ index < Len(scriptCmd)
  /\ lineAt(index).op # "loop"
  /\ cmd_proc(lineAt(index))
  /\ index' = index + 1
  /\ UNCHANGED <<program, scriptCmd, loopTime, loopStart, loopEnd, count, pc>>

(* Mutant: the scan begins one line too late. *)
EnterLoopSkips ==
  /\ pc = "line" /\ index < Len(scriptCmd)
  /\ lineAt(index).op = "loop"
  /\ loopTime' = lineAt(index).arg
  /\ \/ loopTime' > 0 /\ index' = index + 2 /\ pc' = "scan"
     \/ loopTime' <= 0 /\ index' = index /\ pc' = "done"
  /\ UNCHANGED <<program, scriptCmd, loopStart, loopEnd, count, executed>>

EnterLoop ==
  /\ pc = "line" /\ index < Len(scriptCmd)
  /\ lineAt(index).op = "loop"
  /\ loopTime' = lineAt(index).arg
  /\ \/ loopTime' > 0 /\ index' = index + 1 /\ pc' = "scan"
     \/ loopTime' <= 0 /\ index' = index /\ pc' = "done"
  /\ UNCHANGED <<program, scriptCmd, loopStart, loopEnd, count, executed>>

(* Mutant: the loop ends on its end line, one line too late. *)
ScanEndsLate ==
  /\ pc = "scan" /\ ~outOfBounds(index)
  /\ loopStart' = IF lineAt(index).op = "start" THEN index + 1 ELSE loopStart
  /\ \/ /\ lineAt(index).op = "end"
        /\ loopEnd' = index
        /\ pc' = "round"
        /\ UNCHANGED index
     \/ /\ lineAt(index).op # "end"
        /\ index' = index + 1
        /\ UNCHANGED <<loopEnd, pc>>
  /\ UNCHANGED <<program, scriptCmd, loopTime, count, executed>>

(* Mutant: the scan does not advance. *)
ScanStays ==
  /\ pc = "scan" /\ ~outOfBounds(index)
  /\ loopStart' = IF lineAt(index).op = "start" THEN index + 1 ELSE loopStart
  /\ \/ /\ lineAt(index).op = "end"
        /\ loopEnd' = index - 1
        /\ pc' = "round"
     \/ lineAt(index).op # "end" /\ UNCHANGED <<loopEnd, pc>>
  /\ UNCHANGED <<program, scriptCmd, index, loopTime, count, executed>>

(* Look for the end of the loop, from the line behind "loop n" on. *)
Scan ==
  /\ pc = "scan" /\ ~outOfBounds(index)
  /\ loopStart' = IF lineAt(index).op = "start" THEN index + 1 ELSE loopStart
  /\ \/ /\ lineAt(index).op = "end"
        /\ loopEnd' = index - 1
        /\ pc' = "round"
        /\ UNCHANGED index
     \/ /\ lineAt(index).op # "end"
        /\ index' = index + 1
        /\ UNCHANGED <<loopEnd, pc>>
  /\ UNCHANGED <<program, scriptCmd, loopTime, count, executed>>

ScanOverruns == pc = "scan" /\ outOfBounds(index) /\ crash

Round ==
  /\ pc = "round"
  /\ \/ /\ loopTime > 0 /\ loopStart <= loopEnd
        /\ index' = loopStart
        /\ pc' = "body"
     \/ /\ loopTime = 0 \/ loopStart > loopEnd
        /\ index' = loopEnd + 2
        /\ pc' = "line"
  /\ UNCHANGED <<program, scriptCmd, loopTime, loopStart, loopEnd, count, executed>>

Body ==
  /\ pc = "body" /\ ~outOfBounds(index)
  /\ cmd_proc(lineAt(index))
  /\ \/ /\ index < loopEnd
        /\ index' = index + 1
        /\ UNCHANGED <<loopTime, count, pc>>
     \/ /\ index = loopEnd
        /\ count' = count + 1
        /\ loopTime' = loopTime - 1
        /\ pc' = "round"
        /\ UNCHANGED index
  /\ UNCHANGED <<program, scriptCmd, loopStart, loopEnd>>

BodyOverruns == pc = "body" /\ outOfBounds(index) /\ crash

(* stop n script: SIGQUIT ends the thread wherever it is. *)
Stopped ==
  /\ pc \notin {"done", "crashed", "stopped"}
  /\ pc' = "stopped"
  /\ UNCHANGED <<program, scriptCmd, locals, count, executed>>

(* What ReadMe.txt:24-26 asks of a script: a loop says where it starts and *)
(* where it ends.  It must also fit into the array.                        *)
WellFormed ==
  /\ \A i \in DOMAIN program : program[i].loop => program[i].marks = {"start", "end"}
  /\ Len(copied) <= MAX_SC_LINE

Engine ==
  \/ OpenFails \/ Open \/ OpenOverruns
  \/ EndOfScript \/ RunLine \/ EnterLoop
  \/ Scan \/ ScanOverruns \/ Round \/ Body \/ BodyOverruns

Next == Engine \/ Stopped

Spec == Init /\ [][Next]_vars /\ WF_vars(Engine)
-----------------------------------------------------------------------------
(* Properties *)

(* Every variable keeps its type, and no line is copied behind the end of  *)
(* the array, whatever the script looks like.                              *)
TypeOK ==
  /\ scriptCmd \in Seq([op : {"cmd", "loop", "start", "end"}, arg : Int])
  /\ Len(scriptCmd) <= MAX_SC_LINE /\ executed \in Seq(Int)
  /\ {index, loopTime, loopStart, loopEnd} \subseteq Int /\ count \in Nat
  /\ pc \in {"open", "line", "scan", "round", "body", "done", "stopped", "crashed"}

(* A well-formed script never makes the engine leave the array: neither    *)
(* the search for the end of a loop nor its execution.                     *)
StaysInside ==
  WellFormed => /\ pc # "crashed"
                /\ pc \in {"scan", "body"} => index \in 0 .. Len(scriptCmd) - 1

(* The thread only ever does what its script says, in that order, also     *)
(* when it is stopped half way.                                            *)
FollowsScript == WellFormed => IsPrefix(executed, Meaning(program))

(* A script that is neither stopped nor refused has done all of it, and    *)
(* look and quit report the number of loop rounds.                         *)
CompletesScript ==
  WellFormed /\ pc = "done" /\ scriptCmd # <<>> =>
    executed = Meaning(program) /\ count = Rounds(program)

(* A script comes to an end, if it is well-formed by reaching its last     *)
(* line or a loop without rounds.                                          *)
ScriptEnds == <>(pc \in {"done", "stopped"} \/ (pc = "crashed" /\ ~WellFormed))
=============================================================================
