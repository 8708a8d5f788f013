----------------------------- MODULE ActionPort -----------------------------
(***************************************************************************)
(* What ActionRouter promises its users (the docstring of action_router's  *)
(* class) : one switch in front of SONIC's action port.  A source is       *)
(* selected, the gate is open or shut, and every select or halt starts a   *)
(* new epoch.  The port has room for one message : it takes a message only *)
(* from the selected source and only with the gate open, and whatever      *)
(* comes out was taken so.  Queues, drains and threads are not part of the *)
(* promise.                                                                *)
(***************************************************************************)
EXTENDS Naturals

CONSTANT Sources

VARIABLES
  source,  \* the selected source
  gate,    \* TRUE while messages of the selected source may enter
  epoch,   \* number of selects and halts so far
  slot     \* the message being handed to SONIC, as its source and its epoch

portVars == <<source, gate, epoch, slot>>

Empty == [from |-> "nobody", epoch |-> 0]

PortInit ==
  /\ source = "psi" /\ gate = FALSE /\ epoch = 0
  /\ slot = Empty

Select(s) == source' = s /\ gate' = FALSE /\ epoch' = epoch + 1 /\ UNCHANGED slot
Halt      == gate' = FALSE /\ epoch' = epoch + 1 /\ UNCHANGED <<source, slot>>
Resume    == gate' = TRUE /\ UNCHANGED <<source, epoch, slot>>
Shut      == gate' = FALSE /\ UNCHANGED <<source, epoch, slot>>

Take ==
  /\ gate /\ slot = Empty
  /\ slot' = [from |-> source, epoch |-> epoch]
  /\ UNCHANGED <<source, gate, epoch>>

Emit == slot # Empty /\ slot' = Empty /\ UNCHANGED <<source, gate, epoch>>

PortNext == (\E s \in Sources : Select(s)) \/ Halt \/ Resume \/ Shut \/ Take \/ Emit

PortSpec == PortInit /\ [][PortNext]_portVars
=============================================================================
