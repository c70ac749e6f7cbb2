------------------------ MODULE MCWhatsappConnection ------------------------
(* A small instance of WhatsappConnection for TLC. *)
EXTENDS WhatsappConnection, TLC

CONSTANTS h1, h2

HandlerSymmetry == Permutations(Handlers)

\* loose is history: no step and no property of the run looks at it.
LiveView == <<row, dbLock, memLock, remote, news, handler, restarts, farewell>>
=============================================================================
