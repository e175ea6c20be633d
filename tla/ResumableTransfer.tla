-------------------------- MODULE ResumableTransfer --------------------------
(***************************************************************************)
(* What a resumable job promises, without batches, retries or checkpoints: *)
(* items of one text are carried over in order, and a mark says how many   *)
(* of them need not be looked at again.  The mark may only move past items *)
(* that are there, or that are known to be lost: refused by the provider   *)
(* or removed by somebody else.                                            *)
(***************************************************************************)
EXTENDS Naturals, Sequences

CONSTANTS Text, Items

VARIABLES
    text,   \* the text the mark belongs to
    mark,   \* how many items of the text are done with
    have,   \* the items carried over
    lost    \* the items given up or taken away

vars == <<text, mark, have, lost>>

FirstItems(t, n) == {Items[t][i] : i \in 1..n}

Init ==
    /\ text \in Text
    /\ mark = 0
    /\ have = {}
    /\ lost = {}

\* Items arrive before the mark knows of them.
Arrive == /\ have \subseteq have'
          /\ UNCHANGED <<text, mark, lost>>

Remove == /\ have' \subseteq have
          /\ lost' = lost \cup (have \ have')
          /\ UNCHANGED <<text, mark>>

\* A new text may only be taken up from its beginning.
Advance == /\ mark' \in Nat
           /\ text' = text \/ mark = 0
           /\ lost \subseteq lost'
           /\ FirstItems(text', mark') \subseteq have \cup lost'
           /\ UNCHANGED have

Forget == /\ mark' = 0
          /\ text' \in Text
          /\ lost \subseteq lost'
          /\ UNCHANGED have

Next == Arrive \/ Remove \/ Advance \/ Forget

Spec == Init /\ [][Next]_vars
=============================================================================
