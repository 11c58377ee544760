------------------------------ MODULE MCUsage ------------------------------
(* Instances of Usage for TLC: one provider of each style.  A one-request   *)
(* provider behaves like MiniMax without a token.                          *)
EXTENDS Usage

MCAll == [minimax |-> "cascade", xiaomi |-> "join",
          gemini |-> "cli", xai |-> "local"]

\* The fetchers of the instance.
MCStyle == [p \in Providers |-> MCAll[p]]
=============================================================================
