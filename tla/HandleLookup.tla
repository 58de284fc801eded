------------------------------ MODULE HandleLookup ------------------------------
(***************************************************************************)
(* The form that finds a fee address (components/HandleLookup.tsx): a      *)
(* platform, a handle, the address derived for both, and the tick that     *)
(* says it is the right one, after which the address can be copied.        *)
(* Typing or choosing another platform overtakes a derivation under way.   *)
(* A definition no other one uses, placed before one with the same         *)
(* parameters, is a mutant of it.                                          *)
(***************************************************************************)
EXTENDS Naturals

CONSTANTS
  LookupPlatforms,
  Inputs,              \* what can be typed
  LookupHandle,        \* parseHandle: <<platform, input>> -> a handle, or "" for none
  MaxRequests

ASSUME LookupAssumption == MaxRequests \in Nat /\ "" \in Inputs

VARIABLES
  form,                \* [platform, input, result, error, pending, confirmed]
  requests,            \* request.current
  lookups              \* lookups under way: [id, platform, handle]

lookupVars == <<form, requests, lookups>>

\* No result yet
NoResult == [platform |-> "", handle |-> ""]
Cleared(platform, input) ==
  [platform |-> platform, input |-> input, result |-> NoResult,
   error |-> FALSE, pending |-> FALSE, confirmed |-> FALSE]

LookupInit ==
  /\ \E p \in LookupPlatforms : form = Cleared(p, "")
  /\ requests = 0 /\ lookups = {}

\* Also forgets the request under way
SelectPlatform(p) ==
  /\ requests < MaxRequests
  /\ requests' = requests + 1
  /\ form' = Cleared(p, "")
  /\ UNCHANGED lookups

TypingKeepsRequest(text) ==
  /\ requests < MaxRequests
  /\ form' = Cleared(form.platform, text)
  /\ UNCHANGED <<requests, lookups>>

Typing(text) ==
  /\ requests < MaxRequests
  /\ requests' = requests + 1
  /\ form' = Cleared(form.platform, text)
  /\ UNCHANGED lookups

\* lookup; the button is disabled while one is pending.
Lookup ==
  /\ ~ form.pending /\ requests < MaxRequests
  /\ requests' = requests + 1
  /\ LET handle == LookupHandle[<<form.platform, form.input>>]
     IN  IF handle = ""
         THEN /\ form' = [Cleared(form.platform, form.input) EXCEPT !.error = TRUE]
              /\ UNCHANGED lookups
         ELSE /\ form' = [Cleared(form.platform, form.input) EXCEPT !.pending = TRUE]
              /\ lookups' = lookups \union
                   {[id |-> requests + 1, platform |-> form.platform, handle |-> handle]}

\* deriveP2ID answers or fails
LookupAnswer(run, found) ==
  /\ run \in lookups
  /\ lookups' = lookups \ {run}
  /\ IF requests # run.id THEN UNCHANGED form
     ELSE form' = IF found
                  THEN [form EXCEPT !.pending = FALSE,
                                    !.result = [platform |-> run.platform, handle |-> run.handle]]
                  ELSE [form EXCEPT !.pending = FALSE, !.error = TRUE]
  /\ UNCHANGED requests

\* The tick below a result
Confirm(yes) ==
  /\ form.result # NoResult
  /\ form' = [form EXCEPT !.confirmed = yes]
  /\ UNCHANGED <<requests, lookups>>

LookupNext ==
  \/ \E p \in LookupPlatforms : SelectPlatform(p)
  \/ \E text \in Inputs : Typing(text)
  \/ Lookup
  \/ \E run \in lookups, found \in BOOLEAN : LookupAnswer(run, found)
  \/ \E yes \in BOOLEAN : Confirm(yes)

LookupSpec == LookupInit /\ [][LookupNext]_lookupVars
===============================================================================
