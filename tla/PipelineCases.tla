---------------------------- MODULE PipelineCases ----------------------------
(* Instances of ChannelPipeline for TLC. *)
EXTENDS ChannelPipeline

OwnName == [p \in Person |-> p]

Nothing == [declared |-> {}, replaces |-> FALSE, implied |-> {}, removed |-> {}]
Silence == [p \in {} |-> Nothing]
Free(p, h) == [q \in {p} |-> [Nothing EXCEPT !.declared = {h}]]

Talk(says) == [invokes |-> FALSE, command |-> "none", says |-> says]
Call(command, says) == [invokes |-> TRUE, command |-> command, says |-> says]

\* Chat, a question with data, and every command that changes the session or
\* answers in haste.
EffectTexts ==
  {Talk(Free(1, 1)), Call("none", Free(1, 1))}
  \cup {Call(c, Silence) : c \in {"confirm", "cancel", "remove", "reset", "summary",
                                 "set_required", "habitual"}}

\* Calls: for a proposal, with a receipt, without an effect, without a receipt.
CallTexts ==
  {Call("none", Free(1, 1))}
  \cup {Call(c, Silence) : c \in {"confirm", "help", "clear_requirements"}}

\* Commands that are executed before the pending messages are read.
HastyTexts == {Talk(Free(1, 1)), Call("set_required", Silence), Call("habitual", Silence)}

\* A question with data, and the commands without a receipt.
TwiceTexts ==
  {Call("none", Free(1, 1))} \cup {Call(c, Silence) : c \in Requirements}
=============================================================================
