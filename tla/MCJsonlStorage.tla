--------------------------- MODULE MCJsonlStorage ---------------------------
(* Model checking of JsonlStorage.                                         *)
EXTENDS JsonlStorage, SessionFork

(* Callers append two messages, open and close an operation, and move the  *)
(* lane back to the root.                                                  *)
SomeCommands ==
  [op : {"appendEntry"}, id : Ids, lane : {Main}, ref : {Null}, type : {"message"}]
  \cup
  [op : {"appendRecord"}, id : Ids, lane : {Main}, ref : {Null},
   type : {"operation_started"}]
  \cup
  [op : {"moveLane"}, id : {Null}, lane : {Main}, ref : {Null}, type : {"set"}]

=============================================================================
