-------------------------- MODULE TransferProgress --------------------------
(***************************************************************************)
(* What a reader of the bridge transactions may rely on for each of them,  *)
(* whatever order the events are indexed in: its status names a transition *)
(* that has fired on a chain, and it only moves forward. One step may be   *)
(* of several transfers.                                                   *)
(***************************************************************************)
EXTENDS Integers

CONSTANT Transfers

VARIABLES
  reached,   \* the transitions that have fired, each with its transfer
  status     \* the status shown, NONE while there is no row

progressVars == <<reached, status>>

Level == [NONE |-> 0, INITIATED |-> 1, HANDLED |-> 2, PROVEN |-> 3, FINALIZED |-> 4]

ProgressInit ==
  /\ reached = {}
  /\ status = [t \in Transfers |-> "NONE"]

Reach ==
  /\ UNCHANGED status
  /\ reached \subseteq reached'

Show ==
  /\ UNCHANGED reached
  /\ DOMAIN status' = Transfers
  /\ \A t \in Transfers : status'[t] # status[t] =>
       /\ <<t, status'[t]>> \in reached
       /\ Level[status'[t]] > Level[status[t]]

ProgressNext == Reach \/ Show

ProgressSpec == ProgressInit /\ [][ProgressNext]_progressVars

=============================================================================
