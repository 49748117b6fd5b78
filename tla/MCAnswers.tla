----------------------------- MODULE MCAnswers ------------------------------
(* Small instances of Answers for TLC.                                     *)
EXTENDS Answers

\* Two cells asking one question: with and without a default, a fence, a seed,
\* a responder, and steps that end under them; and an approval, one branch's or
\* shared by two.
Question(channel, default, fenced, cancels) ==
    [kind |-> "question", askers |-> {"a", "b"}, channel |-> channel,
     default |-> default, fenced |-> fenced, cancels |-> cancels]
Approval(askers) ==
    [kind |-> "approval", askers |-> askers, channel |-> "none",
     default |-> FALSE, fenced |-> FALSE, cancels |-> TRUE]

AllScenes ==
    {Question("agent", TRUE, TRUE, TRUE), Question("agent", FALSE, FALSE, TRUE),
     Question("seed", FALSE, TRUE, TRUE), Question("none", FALSE, FALSE, TRUE),
     Approval({"a"}), Approval({"a", "b"})}
=============================================================================
