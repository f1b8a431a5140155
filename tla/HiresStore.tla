----------------------------- MODULE HiresStore -----------------------------
(***************************************************************************)
(* What recruitment keeps of its candidates and of the offers made to them *)
(* (schema "recruitment"), what hr keeps of its employees and of the hires *)
(* it has taken over (schema "hr"), the message between the two, and the   *)
(* local state of the requests and handlers on either side.                *)
(*                                                                         *)
(* Of a candidate's stages only "hired" matters here; "active" is any      *)
(* other. An offer is its version, its status and whether its link has     *)
(* lapsed; salary and start date go with the offer.                        *)
(***************************************************************************)
EXTENDS Naturals, Sequences, FiniteSets, FiniteSetsExt, EventBus

CONSTANTS
  Candidates,    \* ids of candidates
  Offers,        \* ids of offer versions
  Staff,         \* people at work in recruitment, and candidates at their portal
  Crons,         \* recruitment processes consuming the daily tick
  Workers,       \* hr processes consuming "hr-events"
  Clerks,        \* people at work in hr
  Emails,        \* addresses
  Email,         \* Email[c]: the address candidate c gave
  NoCandidate, NoOffer, NoEmail,
  Starts,        \* what there may be of offers at the start
  Menu,          \* bound: the kinds of request people make
  MaxOps,        \* bound: requests in either service
  MaxNews,       \* bound: hires sent
  MaxFaults      \* bound: crashes, failing calls and late acks

ASSUME HiresAssumption ==
  /\ Email \in [Candidates -> Emails]
  /\ IsFiniteSet(Offers)
  /\ NoCandidate \notin Candidates /\ NoOffer \notin Offers /\ NoEmail \notin Emails
  /\ Staff \cap Crons = {} /\ Workers \cap Clerks = {} /\ Candidates \cap Offers = {}
  /\ MaxOps \in Nat /\ MaxNews \in Nat /\ MaxFaults \in Nat

VARIABLES
  \* recruitment
  cand,        \* recruitment.candidates: status, and whether hired_event_at is set
  offer,       \* recruitment.candidate_offers
  req,         \* req[a]: the request, or daily run, a has in flight
  \* hr
  emp,         \* hr.employees, in the order of their insert
  claims,      \* hr.recruitment_hires: the candidates taken over
  proc,        \* proc[x]: the handler or request x runs
  told,        \* the candidates hr was told to link by hand
  \* bounds
  ops, faults,
  \* history, read by properties only
  incidents    \* incidents[x]: what went wrong around a candidate or an offer

recruiting == <<cand, offer, req>>
hr         == <<emp, claims, proc, told>>
vars == <<cand, offer, req, emp, claims, proc, told, stream, ops, faults, incidents>>

CandidateRows == [status : {"active", "hired", "gone"}, sent : BOOLEAN]

\* "NONE" before the insert, "GONE" when deleted with the candidate.
OfferStates == {"NONE", "sent", "negotiating", "accepted", "declined", "expired", "GONE"}
OfferRows == [cand : Candidates \cup {NoCandidate}, version : Nat, status : OfferStates,
              lapsed : BOOLEAN]

IsOfferOpen(status) == status \in {"sent", "negotiating"}
IsOfferFinal(status) == status \in {"accepted", "declined"}

\* At the start every offer was made to a candidate, and each has one open at most.
ASSUME StartsAssumption ==
  \A s \in Starts :
    /\ s \in [Offers -> OfferRows]
    /\ \A o \in Offers : s[o].status # "NONE" => s[o].cand \in Candidates
    /\ \A o, p \in Offers :
         s[o].cand = s[p].cand /\ IsOfferOpen(s[o].status) /\ IsOfferOpen(s[p].status) => o = p

Answers == {"negotiating", "accepted", "declined"}

Exists(c) == cand[c].status # "gone"
OffersOf(c) == {o \in Offers : offer[o].cand = c /\ offer[o].status \notin {"NONE", "GONE"}}
OpenOf(c) == {o \in OffersOf(c) : IsOfferOpen(offer[o].status)}
AcceptedOf(c) == {o \in OffersOf(c) : offer[o].status = "accepted"}

\* white.recruitment.candidate.hired, with the offer whose terms it carries.
Messages == [cand : Candidates, terms : Offers \cup {NoOffer}]

\* word: the stage or the answer asked for; rows: the offers a new one replaces;
\* version: what the new one will have; todo: the pending hires the daily run still
\* has to send.
NoReq == [op |-> "none", step |-> "idle", cand |-> NoCandidate, offer |-> NoOffer, word |-> "none",
          terms |-> NoOffer, rows |-> {}, version |-> 0, todo |-> {}]

Free(a) == req[a].step = "idle"
At(a, step) == req[a].step = step

Idle == [pc |-> "idle", msg |-> 0, no |-> 0, email |-> NoEmail]
ProcAt(x, pc) == proc[x].pc = pc

\* Employees not (softly) deleted, who own their number and address.
Present == {n \in DOMAIN emp : emp[n].present}
NumberTaken(no) == \E n \in Present : emp[n].no = no
EmailTaken(e) == \E n \in Present : emp[n].email = e

\* NextAutoNip: the smallest number that no employee has or had.
NextAutoNip == Min((1..(Len(emp) + 1)) \ {emp[n].no : n \in DOMAIN emp})

Begin(op) == op \in Menu /\ ops < MaxOps /\ ops' = ops + 1
Fault == faults < MaxFaults /\ faults' = faults + 1
Noted(x, what) == [incidents EXCEPT ![x] = @ \cup what]
HrIdle == UNCHANGED hr
RecruitingIdle == UNCHANGED recruiting
=============================================================================
