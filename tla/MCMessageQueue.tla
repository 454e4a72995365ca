--------------------------- MODULE MCMessageQueue ---------------------------
(* A small instance of MessageQueue: message k weighs MCWeights[k].  The   *)
(* weights lie below, at and above the byte limit of the configuration, so *)
(* that one message can exhaust it, two can, and small ones never do.      *)
EXTENDS MessageQueue, FiniteSetsExt, SequencesExt

MCWeights == <<1, 4, 5, 1, 5>>

MCMessage == DOMAIN MCWeights
MCSize == [m \in MCMessage |-> MCWeights[m]]
MCTotal == [S \in SUBSET MCMessage |->
              MapThenSumSet(LAMBDA m : MCWeights[m], S)]
MCMaxSize == Max(ToSet(MCWeights))
=============================================================================
