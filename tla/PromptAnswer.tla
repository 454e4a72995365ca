---------------------------- MODULE PromptAnswer ----------------------------
(***************************************************************************)
(* What the phone may rely on of the answer to a prompt: an abstract       *)
(* specification of the frames of one websocket, as session.js reads them. *)
(* Text and thoughts come first, then at most one warning, then one "d"    *)
(* that closes the dialog, then one "t" that names the thread, then the    *)
(* websocket is closed as it should be; a failure is told, instead of the  *)
(* rest, while nothing but text and thoughts has been sent.  At any time   *)
(* the connection may be cut.                                              *)
(***************************************************************************)
CONSTANT Session

VARIABLE seen     \* per session, how far the answer has come on the phone

Stages == {"none", "text", "warned", "done", "named", "normal", "refused",
           "failed", "cut"}

\* The stages the answer may go to next.
Successors(stage) ==
    CASE stage = "none"   -> {"text"}
      [] stage = "text"   -> {"warned", "done", "refused", "failed", "cut"}
      [] stage = "warned" -> {"done", "cut"}
      [] stage = "done"   -> {"named", "cut"}
      [] stage = "named"  -> {"normal", "cut"}
      [] OTHER            -> {}

Init == seen = [s \in Session |-> "none"]

Next ==
    \E s \in Session : \E stage \in Successors(seen[s]) :
        seen' = [seen EXCEPT ![s] = stage]

Spec == Init /\ [][Next]_seen
=============================================================================
