----------------------------- MODULE ErrorHandler -----------------------------
(***************************************************************************)
(* The error classes and the global handlers of                            *)
(* src/services/logger/errorHandler.ts.                                    *)
(*                                                                         *)
(* Of an error only what decides the end of the process is kept: status,   *)
(* code and message are whatever its constructor was given.                *)
(***************************************************************************)

VARIABLES
  handlersOn,  \* registerGlobalErrorHandlers was called
  processUp    \* process.exit has not been called

processVars == <<handlersOn, processUp>>

\* An AppError has the flag it was constructed with, which the subclasses leave at
\* TRUE; other errors and values that are no Error have none.
Errors == {e \in [app : BOOLEAN, isOperational : BOOLEAN] : e.isOperational => e.app}

IsOperationalError(e) == e.app /\ e.isOperational

\* toAppError of errorHelpers.ts: what is no AppError becomes an operational one,
\* whatever status the caller gives it.
ToAppError(e) == IF e.app THEN e ELSE [app |-> TRUE, isOperational |-> TRUE]

ProcessInit == handlersOn = FALSE /\ processUp = TRUE

RegisterGlobalErrorHandlers ==
  processUp /\ handlersOn' = TRUE /\ UNCHANGED processUp

\* An exception or rejection that nobody catches; without handlers Node exits.
Uncaught(e) ==
  /\ processUp
  /\ processUp' = (handlersOn /\ IsOperationalError(e))
  /\ UNCHANGED handlersOn
=============================================================================
