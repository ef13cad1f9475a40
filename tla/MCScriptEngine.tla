---------------------------- MODULE MCScriptEngine ----------------------------
(* Programs for the TLC runs of ScriptEngine: up to MaxBlock blocks of up  *)
(* to MaxBody commands, loop counts from 0 to MaxTimes.                    *)
EXTENDS ScriptEngine

CONSTANTS MaxBlock, MaxBody, MaxTimes, Marks

Blocks ==
  [loop : BOOLEAN, times : 0 .. MaxTimes, noise : BOOLEAN, marks : Marks,
   body : BoundedSeq({1, 2}, MaxBody)]

(* loopStart and loopEnd may hold a plausible line, or one outside. *)
Indexes == {-1, 7}

MarksDropped == {{"start", "end"}, {"start"}, {"end"}}

(* A block that is not a loop has no count; noise everywhere or nowhere. *)
Programs ==
  {p \in BoundedSeq(Blocks, MaxBlock) :
     \A i \in DOMAIN p : /\ ~p[i].loop => p[i].times = 0 /\ p[i].marks = {"start", "end"}
                       /\ p[i].noise = p[1].noise}
=============================================================================
