------------------------------ MODULE Register ------------------------------
(***************************************************************************)
(* What conditional writes promise (the comment at gaia-api.ts:230): a     *)
(* register for each path that holds the etag of the file's version.  A    *)
(* call names the versions it may replace; it takes effect at one moment,  *)
(* at which the register holds one of them, or it has no effect.           *)
(***************************************************************************)
CONSTANTS Paths, Etags, NoFile, Clients, NoCall

VARIABLES
  reg,    \* the etag of each file, or NoFile
  call    \* what each client has asked for

registers == <<reg, call>>

Versions == Etags \cup {NoFile}
Calls == [path : Paths, delete : BOOLEAN, over : SUBSET Versions]

Init ==
  /\ reg = [p \in Paths |-> NoFile]
  /\ call = [c \in Clients |-> NoCall]

Ask(c) ==
  /\ call[c] = NoCall
  /\ \E k \in Calls : call' = [call EXCEPT ![c] = k]
  /\ UNCHANGED reg

\* The call takes effect.
Replace(c) ==
  /\ call[c] # NoCall /\ reg[call[c].path] \in call[c].over
  /\ \E v \in IF call[c].delete THEN {NoFile} ELSE Etags :
       reg' = [reg EXCEPT ![call[c].path] = v]
  /\ call' = [call EXCEPT ![c] = NoCall]

\* It was refused, or failed.
Refuse(c) ==
  /\ call[c] # NoCall
  /\ call' = [call EXCEPT ![c] = NoCall]
  /\ UNCHANGED reg

\* The server dies: all calls fail.
RefuseAll ==
  /\ call' = [c \in Clients |-> NoCall]
  /\ UNCHANGED reg

Next == RefuseAll \/ \E c \in Clients : Ask(c) \/ Replace(c) \/ Refuse(c)

Spec == Init /\ [][Next]_registers
=============================================================================
