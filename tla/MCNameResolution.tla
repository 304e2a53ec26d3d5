--------------------------- MODULE MCNameResolution ---------------------------
(* NameResolution on small instances for TLC.                                  *)
EXTENDS NameResolution

\* Units that no two sums of calls, native ones included, share.
Units == <<1000, 2000, 4000>>

\* What a program logs beside its name: chatter, and the name of a part of
\* its work.
PlainMessages == {[kind |-> "other"], [kind |-> "name", name |-> "close"]}

\* The token program can be called for two things.
SomeActs == {<<"amm", "swap">>, <<"token", "swap">>, <<"token", "close">>, <<"system", "close">>}
SwapOnly == {<<"amm", "swap">>}
AllErrors == {"amm", "token"} \X {1}
=============================================================================
