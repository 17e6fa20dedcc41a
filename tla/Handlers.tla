------------------------------ MODULE Handlers ------------------------------
(***************************************************************************)
(* What the components of the service share: the handlers in flight.  A    *)
(* handler is a list of awaited statements; what it still has to do, and   *)
(* what it took from the statements behind it, is calls[c], a record whose *)
(* route and step are always there.  A dying process and a throwing        *)
(* statement leave what was committed and end the handler.                 *)
(***************************************************************************)
CONSTANTS
  Calls,            \* handler invocations in flight
  None              \* null

VARIABLE calls

Idle == [route |-> "none", step |-> "idle"]

IsIdle(c) == calls[c] = Idle
At(c, route, step) == calls[c].route = route /\ calls[c].step = step

Moves(c, call) == calls' = [calls EXCEPT ![c] = call]
Starts(c, call) == IsIdle(c) /\ Moves(c, call)
Steps(c, step) == Moves(c, [calls[c] EXCEPT !.step = step])
Ends(c) == Moves(c, Idle)
=============================================================================
