----------------------------- MODULE FifoChannel -----------------------------
(***************************************************************************)
(* What the phone's message queue promises the rest of the phone program:  *)
(* messages are handed to the Bluetooth link exactly once each, in the     *)
(* order in which they were accepted, and each hand-over is answered at    *)
(* most once (delivered or lost).  One event of the program may hand over  *)
(* one message besides accepting or answering another.                     *)
(***************************************************************************)
EXTENDS Naturals, Sequences, SequencesExt

CONSTANT Message

VARIABLES
    accepted,   \* the messages accepted so far, in order
    handed,     \* how many of them, from the front, went to the link
    answered    \* the messages whose hand-over was answered

channelVars == <<accepted, handed, answered>>

HandedOver == {accepted[i] : i \in 1..handed}

Init ==
    /\ accepted = <<>>
    /\ handed = 0
    /\ answered = {}

\* At most the next message in line goes to the link.
MayAdvance ==
    /\ handed' \in {handed, handed + 1}
    /\ handed' <= Len(accepted')

Accept(m) ==
    /\ ~Contains(accepted, m)
    /\ accepted' = Append(accepted, m)
    /\ MayAdvance
    /\ UNCHANGED answered

Answer(m) ==
    /\ m \in HandedOver \ answered
    /\ answered' = answered \union {m}
    /\ MayAdvance
    /\ UNCHANGED accepted

Advance ==
    /\ MayAdvance
    /\ UNCHANGED <<accepted, answered>>

Next ==
    \/ \E m \in Message : Accept(m) \/ Answer(m)
    \/ Advance

Spec == Init /\ [][Next]_channelVars
=============================================================================
