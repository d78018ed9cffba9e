------------------------------ MODULE MCMessages ------------------------------
(* Instance of Messages.                                                   *)
EXTENDS Messages

Written(role, content) ==
  [role |-> role, content |-> content, calls |-> << >>, id |-> "", name |-> ""]

Calling(content, calls) ==
  [role |-> "assistant", content |-> content, calls |-> calls, id |-> "",
   name |-> ""]

Result(id, name) ==
  [role |-> "tool", content |-> << "text" >>, calls |-> << >>, id |-> id,
   name |-> name]

Call(id, name) == [id |-> id, name |-> name]

(* Two ids, two functions, one of them called twice; parts of every kind.  *)
MCMessages ==
  { Written("system", << "text" >>), Written("developer", << "text" >>),
    Written("user", << "text", "image" >>), Written("user", << "remote" >>),
    Written("user", << "audio" >>), Written("assistant", << "text" >>),
    Calling(<< >>, << Call("c1", "f") >>),
    Calling(<< "text" >>, << Call("c1", "f"), Call("c2", "g") >>),
    Calling(<< >>, << Call("c2", "f") >>),
    Calling(<< >>, << Call("", "g") >>),
    Result("c1", ""), Result("c2", "g"), Result("", "f") }

(* The fields a caller sends, those of its model, and both at once.        *)
Plain == [Unset EXCEPT !.temperature = TRUE]
MCKnobs ==
  { Plain, [Plain EXCEPT !.effort = "high"],
    [Plain EXCEPT !.effort = "medium", !.maxTokens = 8192, !.noCache = TRUE],
    [Plain EXCEPT !.budget = 1024, !.effort = "high", !.maxOutput = 20000],
    [Plain EXCEPT !.budget = 0, !.effort = "low", !.maxTokens = 5000,
                  !.maxCompletion = 100],
    [Plain EXCEPT !.effort = "none", !.zeroThinking = TRUE],
    [Plain EXCEPT !.budget = -1, !.maxCompletion = 9000] }
=============================================================================
