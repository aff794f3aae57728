-------------------------------- MODULE Gate --------------------------------
(***************************************************************************)
(* What a guard promises about one request, without its pipeline: one      *)
(* decision, which hands out the rule of the original spelling or nothing. *)
(* The arguments are whatever the caller passes.  When a request is        *)
(* permitted is a parameter; Guard gives it the relation of Permission and *)
(* implements this, for every table, configuration and request.            *)
(***************************************************************************)
CONSTANTS
  Permits(_, _, _),   \* a table, under a configuration, permits a request
  Resolve(_, _)       \* the rule of a request in a table

VARIABLES table, config, request, outcome

vars == <<table, config, request, outcome>>

Undecided     == [decided |-> FALSE]
Denied        == [decided |-> TRUE, allowed |-> FALSE]
Allowed(rule) == [decided |-> TRUE, allowed |-> TRUE, rule |-> rule]

-----------------------------------------------------------------------------
Init == outcome = Undecided

Answer ==
  /\ outcome = Undecided
  /\ outcome' = Allowed(Resolve(table, request))
  /\ Permits(table, config, request)
  /\ UNCHANGED <<table, config, request>>

Refuse ==
  /\ outcome = Undecided
  /\ outcome' = Denied
  /\ ~Permits(table, config, request)
  /\ UNCHANGED <<table, config, request>>

Decide == Answer \/ Refuse

Safety == Init /\ [][Decide]_vars
=============================================================================
