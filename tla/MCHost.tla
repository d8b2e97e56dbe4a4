------------------------------- MODULE MCHost -------------------------------
(***************************************************************************)
(* Two plugins: this one, with its two prefixes and its frame callback, and *)
(* one with a timer.                                                       *)
(***************************************************************************)
EXTENDS Host

Id(kind, name) == [kind |-> kind, name |-> name]

TwoPlugins == <<"sb", "other">>

OwnIds == [sb |-> {Id("chat", "/sc"), Id("chat", "/sb"), Id("tick", "sb.paste")},
           other |-> {Id("chat", "/other"), Id("timer", "other")}]

\* The other plugin answers to /sb too.
SharedIds == [OwnIds EXCEPT !.other = {Id("chat", "/sb"), Id("timer", "other")}]
============================================================================
