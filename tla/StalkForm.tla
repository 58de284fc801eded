------------------------------- MODULE StalkForm -------------------------------
(***************************************************************************)
(* "Ping me when this handle gets paid": the form                          *)
(* (components/StalkForm.tsx, which no page shows yet), the explorer's     *)
(* route that passes a request on (app/api/stalk/route.ts) and the API     *)
(* that registers it.  Either connection may break before or after the     *)
(* other side has acted; a visitor tries again, while the earlier request  *)
(* may still be under way.                                                 *)
(*                                                                         *)
(* The handle is that of the page and valid; what is followed is the       *)
(* contact.  A definition no other one uses, placed before one with the    *)
(* same parameters, is a mutant of it.                                     *)
(***************************************************************************)
EXTENDS Naturals

CONSTANTS
  ContactTexts,        \* what can be typed
  ContactIn,           \* contactSchema: a text -> a contact, or "" for none
  MaxStalks

ASSUME StalkAssumption ==
  /\ MaxStalks \in Nat /\ "" \in ContactTexts
  /\ \A text \in ContactTexts : ContactIn[text] \in ContactTexts /\ ContactIn[ContactIn[text]] = ContactIn[text]

VARIABLES
  stalkForm,           \* [contact, kind, asked]: the text, the state, the contact sent last
  sends,               \* requests sent; the latest is the one the form waits for
  stalkRequests,       \* requests under way: [id, contact, at, ok]
  stalks,              \* contacts that the API has registered
  apiSet               \* P2ID_API_URL is set

stalkVars == <<stalkForm, sends, stalkRequests, stalks, apiSet>>

StalkInit ==
  /\ stalkForm = [contact |-> "", kind |-> "idle", asked |-> ""]
  /\ sends = 0 /\ stalkRequests = {} /\ stalks = {}
  /\ apiSet \in BOOLEAN

-----------------------------------------------------------------------------
(* The form, which is gone once it is answered *)

TypeContact(text) ==
  /\ stalkForm.kind # "ok"
  /\ stalkForm' = [stalkForm EXCEPT !.contact = text]
  /\ UNCHANGED <<sends, stalkRequests, stalks, apiSet>>

\* The button is disabled while a request is sent.
SubmitContact ==
  LET contact == ContactIn[stalkForm.contact]
  IN  /\ stalkForm.kind \notin {"sending", "ok"} /\ sends < MaxStalks
      /\ IF contact = ""
         THEN stalkForm' = [stalkForm EXCEPT !.kind = "error"] /\ UNCHANGED <<sends, stalkRequests>>
         ELSE /\ stalkForm' = [stalkForm EXCEPT !.kind = "sending", !.asked = contact]
              /\ sends' = sends + 1
              /\ stalkRequests' = stalkRequests \union
                   {[id |-> sends + 1, contact |-> contact, at |-> "route", ok |-> FALSE]}
      /\ UNCHANGED <<stalks, apiSet>>

\* fetch rejects: the request may be anywhere, and goes on.
BreakOff ==
  /\ stalkForm.kind = "sending"
  /\ stalkForm' = [stalkForm EXCEPT !.kind = "error"]
  /\ UNCHANGED <<sends, stalkRequests, stalks, apiSet>>

AnswerStalk(r) ==
  /\ r \in stalkRequests /\ r.at = "form"
  /\ stalkRequests' = stalkRequests \ {r}
  /\ stalkForm' = IF stalkForm.kind = "sending" /\ r.id = sends
                  THEN [stalkForm EXCEPT !.kind = IF r.ok THEN "ok" ELSE "error"]
                  ELSE stalkForm
  /\ UNCHANGED <<sends, stalks, apiSet>>

-----------------------------------------------------------------------------
(* POST /api/stalk *)

Moved(r, at, ok) == stalkRequests' = (stalkRequests \ {r}) \union {[r EXCEPT !.at = at, !.ok = ok]}

stalkRequestSchema(r) == ContactIn[r.contact] # ""

\* A request that does not parse, or no API: an error status. Else it is passed on.
PassOn(r) ==
  /\ r \in stalkRequests /\ r.at = "route"
  /\ IF ~ stalkRequestSchema(r) \/ ~ apiSet THEN Moved(r, "form", FALSE) ELSE Moved(r, "api", FALSE)
  /\ UNCHANGED <<stalkForm, sends, stalks, apiSet>>

\* The API decides, and its status reaches the route.
Register(r, eligible) ==
  /\ r \in stalkRequests /\ r.at = "api"
  /\ stalks' = IF eligible THEN stalks \union {ContactIn[r.contact]} ELSE stalks
  /\ Moved(r, "answer", eligible)
  /\ UNCHANGED <<stalkForm, sends, apiSet>>

ReportWhateverStatus(r) ==
  /\ r \in stalkRequests /\ r.at = "answer"
  /\ Moved(r, "form", TRUE)
  /\ UNCHANGED <<stalkForm, sends, stalks, apiSet>>

\* The route answers as the API did.
Report(r) ==
  /\ r \in stalkRequests /\ r.at = "answer"
  /\ Moved(r, "form", r.ok)
  /\ UNCHANGED <<stalkForm, sends, stalks, apiSet>>

\* The API is not reached, or its answer is lost: 502.
Unreachable(r) ==
  /\ r \in stalkRequests /\ r.at \in {"api", "answer"}
  /\ Moved(r, "form", FALSE)
  /\ UNCHANGED <<stalkForm, sends, stalks, apiSet>>

StalkNext ==
  \/ \E text \in ContactTexts : TypeContact(text)
  \/ SubmitContact \/ BreakOff
  \/ \E r \in stalkRequests :
       \/ PassOn(r) \/ Report(r) \/ Unreachable(r) \/ AnswerStalk(r)
       \/ \E eligible \in BOOLEAN : Register(r, eligible)

StalkSpec == StalkInit /\ [][StalkNext]_stalkVars
===============================================================================
