------------------------------ MODULE Zipper ------------------------------
(* What a line editor promises: a text with a cursor in it, as the part    *)
(* before the cursor and the part after it.                                *)
EXTENDS Naturals, Sequences, SequencesExt

CONSTANT Char

VARIABLES before, after

Type(c) == before' = Append(before, c) /\ after' = after
Backspace == before # <<>> /\ before' = Front(before) /\ after' = after
Delete == after # <<>> /\ after' = Tail(after) /\ before' = before

Left ==
  /\ before # <<>>
  /\ before' = Front(before) /\ after' = <<Last(before)>> \o after

Right ==
  /\ after # <<>>
  /\ before' = Append(before, Head(after)) /\ after' = Tail(after)

Home == before' = <<>> /\ after' = before \o after
End == before' = before \o after /\ after' = <<>>

(* A text is put in, with the cursor at its end.                           *)
Fill == before' \in Seq(Char) /\ after' = <<>>

EditNext ==
  \/ \E c \in Char : Type(c)
  \/ Backspace \/ Delete \/ Left \/ Right \/ Home \/ End \/ Fill

EditSpec == before \in Seq(Char) /\ after = <<>> /\ [][EditNext]_<<before, after>>
=============================================================================
