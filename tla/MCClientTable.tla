---------------------------- MODULE MCClientTable ----------------------------
(* Values for the constants of ClientTable in the TLC runs. *)
EXTENDS ClientTable

Commands(cmds, nums, ips) ==
  [cmd : cmds \cap {"add", "changeIp"}, num : nums, ip : ips]
  \cup [cmd : cmds \cap {"del"}, num : nums, ip : {BadIp}]
  \cup [cmd : cmds \ {"add", "changeIp", "del"}, num : {MIN_CLIENT}, ip : {BadIp}]

(* All numbers in the table and the first one beyond it. *)
Numbers == MIN_CLIENT .. MAX_CLIENT

(* One operator, no scripts: every command, valid and invalid addresses. *)
OperatorLine ==
  [t \in {Main} \cup Script |->
     IF t = Main THEN Commands(Command, Numbers, Ip \cup {BadIp}) ELSE {}]

(* The operator adds and deletes while phones report suspended tasks. *)
AddDelLine ==
  [t \in {Main} \cup Script |->
     IF t = Main THEN Commands({"add", "del", "start"}, Client, Ip) ELSE {}]

(* The operator and a script configure clients at the same time. *)
ScriptLine ==
  [t \in {Main} \cup Script |->
     IF t = Main
     THEN Commands({"add", "start"}, {MIN_CLIENT}, Ip)
     ELSE Commands({"del", "changeIp", "show"}, {MIN_CLIENT}, Ip)]
=============================================================================
