------------------------------ MODULE MCTlcRun ------------------------------
(***************************************************************************)
(* Four runs of TLC: a success with its statistics, a safety violation of  *)
(* two states, a lasso, a stuttering end; each may have a line that is too *)
(* long in place of an assignment.                                         *)
(***************************************************************************)
EXTENDS TlcRun

Framed(kind, sev, texts) == <<StartLine(kind, sev)>> \o texts \o <<EndLine(kind)>>

Assign == TextLine("assign", 0)

StatePrint(n, text) == Framed("state", "state", <<TextLine("head", n), text>>)

Success == [code |-> 0,
            lines |-> Framed("progress", "none", <<TextLine("number", 3)>>)
                      \o Framed("stats", "none", <<TextLine("number", 5)>>)
                      \o Framed("depth", "none", <<TextLine("number", 4)>>)]

Safety(text) == [code |-> 12,
                 lines |-> Framed("invariant", "error", <<TextLine("why", 0)>>)
                           \o StatePrint(1, Assign) \o StatePrint(2, text)]

Lasso(text) == [code |-> 13,
                lines |-> StatePrint(1, Assign) \o StatePrint(2, text)
                          \o Framed("loop", "state", <<TextLine("back", 2)>>)]

Stuttering == [code |-> 13,
               lines |-> Framed("config", "warning", <<>>) \o StatePrint(1, Assign)
                         \o Framed("loop", "state", <<TextLine("stutter", 2)>>)]

MCScripts == {Success, Safety(Assign), Lasso(Assign), Stuttering,
              Safety(LongLine), Lasso(LongLine)}
=============================================================================
