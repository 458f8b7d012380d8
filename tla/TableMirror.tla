---------------------------- MODULE TableMirror ----------------------------
(***************************************************************************)
(* What a table that follows a contract promises: it shows, one after the  *)
(* other and in their order, the states the contract went through, so that *)
(* a reader sees a state that was true, never one that was not, and sees   *)
(* the present once nothing is pending.                                    *)
(***************************************************************************)
EXTENDS Sequences, SequencesExt

VARIABLES
  truth,     \* the state of the contract
  pending,   \* the states it went through that are not shown yet
  shown      \* what the table says

mirrorVars == <<truth, pending, shown>>

MirrorInit ==
  /\ shown = truth
  /\ pending = <<>>

\* A transaction may go through several states; the last of them is the truth.
Change ==
  /\ pending' # pending
  /\ IsPrefix(pending, pending')
  /\ truth' = Last(pending')
  /\ UNCHANGED shown

Follow ==
  /\ pending # <<>>
  /\ shown' = Head(pending)
  /\ pending' = Tail(pending)
  /\ UNCHANGED truth

MirrorSpec == MirrorInit /\ [][Change \/ Follow]_mirrorVars

=============================================================================
