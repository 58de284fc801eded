---------------------------- MODULE RecipientSearch ----------------------------
(***************************************************************************)
(* The search box of the explorer (components/RecipientSearch.tsx): every  *)
(* keystroke starts the derivation of one address per platform, answers    *)
(* come back in any order, and the keyboard walks the list meanwhile.      *)
(*                                                                         *)
(* Lists are indexed from 1 and active is 0 where the code has -1.  A      *)
(* definition no other one uses, placed before one with the same           *)
(* parameters, is a mutant of it.                                          *)
(***************************************************************************)
EXTENDS Naturals, Sequences, SequencesExt

CONSTANTS
  PLATFORM_KEYS,       \* a sequence
  Texts,               \* what can be in the box, "" among them
  HandleOf,            \* parseHandle: <<platform, text>> -> a handle, or "" for none
  MaxSearches

ASSUME SearchAssumption ==
  /\ "" \in Texts /\ MaxSearches \in Nat /\ PLATFORM_KEYS \in Seq(STRING)
  /\ \A p \in Range(PLATFORM_KEYS) : HandleOf[<<p, "">>] = ""

VARIABLES
  query, matches, open, active,
  searches,            \* request.current
  deriving             \* searches under way: [id, candidates]

searchVars == <<query, matches, open, active, searches, deriving>>

\* The list with an entry for a platform, if the text is a handle there
WithMatch(list, platform, text) ==
  LET handle == HandleOf[<<platform, text>>]
  IN  IF handle = "" THEN list
      ELSE Append(list, [platform |-> platform, handle |-> handle, address |-> <<>>, status |-> "loading"])

\* One entry per platform on which the text is a handle, in the order of the platforms
HandleMatches(text) ==
  LET found[n \in 0..Len(PLATFORM_KEYS)] ==
        IF n = 0 THEN <<>> ELSE WithMatch(found[n - 1], PLATFORM_KEYS[n], text)
  IN  found[Len(PLATFORM_KEYS)]

\* p2idAddress, or no address when no factory is configured
Derived(match, factory) ==
  [match EXCEPT !.address = IF factory THEN <<match.platform, match.handle>> ELSE <<>>, !.status = "ready"]

visible == open /\ query # ""

SearchInit ==
  /\ query = "" /\ matches = <<>> /\ open = FALSE /\ active = 0
  /\ searches = 0 /\ deriving = {}

-----------------------------------------------------------------------------
Search(text) ==
  /\ searches < MaxSearches
  /\ searches' = searches + 1
  /\ query' = text
  /\ active' = 0
  /\ open' = (text # "")
  /\ matches' = HandleMatches(text)
  /\ deriving' = deriving \union {[id |-> searches + 1, candidates |-> HandleMatches(text)]}

ResolvedLate(run, resolved) ==
  /\ run \in deriving
  /\ deriving' = deriving \ {run}
  /\ matches' = resolved
  /\ UNCHANGED <<query, open, active, searches>>

\* Every derivation of one search has ended; only the latest search sets the list.
Resolved(run, resolved) ==
  /\ run \in deriving
  /\ deriving' = deriving \ {run}
  /\ matches' = IF searches = run.id THEN resolved ELSE matches
  /\ UNCHANGED <<query, open, active, searches>>

Outcomes(run, factory) ==
  {[n \in DOMAIN run.candidates |->
      IF n \in failing THEN [run.candidates[n] EXCEPT !.status = "error"]
      ELSE Derived(run.candidates[n], factory)] : failing \in SUBSET DOMAIN run.candidates}

Focus ==
  /\ open' = (query # "")
  /\ UNCHANGED <<query, matches, active, searches, deriving>>

\* Leaving the field, Escape
Dismiss ==
  /\ open' = FALSE /\ active' = 0
  /\ UNCHANGED <<query, matches, searches, deriving>>

Arrow(down) ==
  /\ matches # <<>>
  /\ open' = TRUE
  /\ active' = IF down THEN (active % Len(matches)) + 1
               ELSE IF active <= 1 THEN Len(matches) ELSE active - 1
  /\ UNCHANGED <<query, matches, searches, deriving>>

\* Enter: the active match is opened, as by a click.
SubmitForm ==
  /\ open' = (~ (visible /\ active \in DOMAIN matches) /\ query # "")
  /\ active' = IF visible /\ active \in DOMAIN matches THEN 0 ELSE active
  /\ UNCHANGED <<query, matches, searches, deriving>>

Click == visible /\ matches # <<>> /\ Dismiss

SearchNext ==
  \/ \E text \in Texts : Search(text)
  \/ \E run \in deriving, factory \in BOOLEAN :
       \E resolved \in Outcomes(run, factory) : Resolved(run, resolved)
  \/ Focus \/ Dismiss \/ SubmitForm \/ Click
  \/ \E down \in BOOLEAN : Arrow(down)

SearchSpec == SearchInit /\ [][SearchNext]_searchVars
===============================================================================
