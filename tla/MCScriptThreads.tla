--------------------------- MODULE MCScriptThreads ---------------------------
(* Values for the constants of ScriptThreads in the TLC runs. *)
EXTENDS ScriptThreads, TLC

Other(n) == [cmd |-> "other", argc |-> 0, word |-> "number", num |-> n, par |-> NoFile]

Run(n, file) == [cmd |-> "runScript", argc |-> 2, word |-> "number", num |-> n, par |-> file]

Stop(n) == [cmd |-> "stop", argc |-> 2, word |-> "number", num |-> n, par |-> PARAM_SC]

Mode(cmd, word) == [cmd |-> cmd, argc |-> 1, word |-> word, num |-> 0, par |-> NoFile]

(* All slots, the first number beyond them and one that is refused. *)
Numbers == 0 .. MAX_SCRIPT_THREAD + 1

(* What a script parses has a number that is refused. *)
OtherLine == {Other(MAX_SCRIPT_THREAD + 1)}

(* One operator, all lines and numbers. *)
EveryLine ==
  {Other(n) : n \in Numbers} \cup {Stop(n) : n \in Numbers}
  \cup {Run(n, f) : n \in Numbers, f \in File \cup {NoFile}}
  \cup {Mode(cmd, word) : cmd \in {"start", "stop"}, word \in {"all", "test", "rec"}}

(* Scripts on every slot are started and stopped, one or all of them. *)
RunStopLine ==
  {Run(n, f) : n \in Slot, f \in File}
  \cup {Stop(0), Mode("stop", "all"), Mode("start", "test"), Mode("start", "rec")}

Symmetric == Permutations(ThreadId)
==============================================================================
