----------------------------- MODULE Recruitment -----------------------------
(***************************************************************************)
(* Recruitment (internal/recruitment/app): stages, offers and answers, and *)
(* the news of a hire, which is sent after the transaction that made it    *)
(* (candidates.go, offers.go, portal.go, app.go), by the daily run         *)
(* (automation.go) when that failed.                                       *)
(*                                                                         *)
(* A request reads first, without a lock, and then writes in a transaction *)
(* of its own. An update waits for the rows another transaction updated.   *)
(***************************************************************************)
EXTENDS HiresStore

\* Updated by a transaction that has still to commit.
Locked(o) == \E a \in Staff : req[a].step = "insert" /\ o \in req[a].rows

Holds(a, r) == req' = [req EXCEPT ![a] = r]
Goes(a, step) == req' = [req EXCEPT ![a].step = step]

\* Mutant: the daily run goes on with nothing left.
AlwaysNext(a) == Holds(a, [NoReq EXCEPT !.op = "run", !.step = "next", !.todo = req[a].todo])

\* A request is over; the daily run goes on with what it still has to send.
Over(a) ==
  Holds(a, IF req[a].todo = {} THEN NoReq
            ELSE [NoReq EXCEPT !.op = "run", !.step = "next", !.todo = req[a].todo])

-----------------------------------------------------------------------------
\* MoveStage: nothing to do when the stage is the same.
MoveStage(a, c, to) ==
  /\ Free(a) /\ Begin("move")
  /\ Exists(c) /\ ~(cand[c].status = "hired" /\ to = "hired")
  /\ Holds(a, [NoReq EXCEPT !.op = "move", !.step = "stage", !.cand = c, !.word = to])
  /\ HrIdle /\ UNCHANGED <<cand, offer, stream, faults, incidents>>

\* SetCandidateStatus, by id. The activity of a deleted candidate is refused.
SetStage(a) ==
  LET c == req[a].cand
  IN  /\ At(a, "stage")
      /\ IF ~Exists(c) THEN Over(a) /\ UNCHANGED <<cand, incidents>>
         ELSE /\ cand' = [cand EXCEPT ![c].status = req[a].word]
              /\ incidents' = IF cand[c].status = "hired" /\ req[a].word # "hired"
                              THEN Noted(c, {"left"}) ELSE incidents
              /\ IF req[a].word = "hired" THEN Goes(a, "look") ELSE Over(a)
      /\ HrIdle /\ UNCHANGED <<offer, stream, ops, faults>>

\* A candidate is deleted with their offers.
DeleteCandidate(c) ==
  /\ Begin("delete") /\ Exists(c)
  /\ \A o \in OffersOf(c) : ~Locked(o)
  /\ cand' = [cand EXCEPT ![c].status = "gone"]
  /\ offer' = [o \in Offers |-> IF o \in OffersOf(c) THEN [offer[o] EXCEPT !.status = "GONE"]
                                                     ELSE offer[o]]
  /\ HrIdle /\ UNCHANGED <<req, stream, faults, incidents>>

-----------------------------------------------------------------------------
(***************************************************************************)
(* Offers.                                                                 *)
(***************************************************************************)
\* Mutant: an offer under negotiation is not replaced.
OnlySent(c) == {o \in OffersOf(c) : offer[o].status = "sent"}

Replaced(c) == OpenOf(c)

Unused == {o \in Offers : offer[o].status = "NONE"}

\* Create: a transaction that looks for the open offers of the candidate ...
CreateOffer(a, c) ==
  /\ Free(a) /\ Begin("offer")
  /\ Exists(c)
  /\ Cardinality(Unused) > Cardinality({b \in Staff : req[b].op = "offer"})   \* bound
  /\ Holds(a, [NoReq EXCEPT !.op = "offer", !.step = "replace", !.cand = c, !.rows = Replaced(c)])
  /\ incidents' = IF \E b \in Staff : req[b].op = "offer" /\ req[b].cand = c
                  THEN Noted(c, {"twice"}) ELSE incidents
  /\ HrIdle /\ UNCHANGED <<cand, offer, stream, faults>>

NextOfferVersion(c) == Max({0} \cup {offer[o].version : o \in OffersOf(c)}) + 1

\* ... expires those that are open still, once nobody else is updating them, takes
\* the next version ...
ReplaceOpen(a) ==
  LET r == req[a]
  IN  /\ At(a, "replace") /\ \A o \in r.rows : ~Locked(o)
      /\ Holds(a, [r EXCEPT !.step = "insert", !.rows = @ \cap OpenOf(r.cand),
                            !.version = NextOfferVersion(r.cand)])
      /\ HrIdle /\ UNCHANGED <<cand, offer, stream, ops, faults, incidents>>

\* ... and inserts it. Others see all of it when it commits; none of it when the
\* candidate is gone or somebody else took the version.
InsertOffer(a) ==
  LET r == req[a]
      o == CHOOSE x \in Unused : TRUE
      refused == ~Exists(r.cand) \/ \E x \in OffersOf(r.cand) : offer[x].version = r.version
      new == [cand |-> r.cand, version |-> r.version, status |-> "sent", lapsed |-> FALSE]
  IN  /\ At(a, "insert") /\ Unused # {}
      /\ offer' = IF refused THEN offer
                  ELSE [x \in Offers |-> IF x = o THEN new
                                         ELSE IF x \in r.rows
                                         THEN [offer[x] EXCEPT !.status = "expired"]
                                         ELSE offer[x]]
      /\ Over(a)
      /\ HrIdle /\ UNCHANGED <<cand, stream, ops, faults, incidents>>

\* The link of an offer runs out while it is open.
Lapse(o) ==
  /\ Begin("lapse")
  /\ IsOfferOpen(offer[o].status) /\ ~offer[o].lapsed
  /\ offer' = [offer EXCEPT ![o].lapsed = TRUE]
  /\ HrIdle /\ UNCHANGED <<cand, req, stream, faults, incidents>>

\* The portal: a lapsed link of an open offer is about to be closed ...
VisitOffer(a, o) ==
  /\ Free(a) /\ Begin("visit")
  /\ IsOfferOpen(offer[o].status) /\ offer[o].lapsed
  /\ Holds(a, [NoReq EXCEPT !.op = "visit", !.step = "expire", !.offer = o])
  /\ HrIdle /\ UNCHANGED <<cand, offer, stream, faults, incidents>>

\* ... by id, whatever it says by now (openLink, SetOfferStatus).
SetExpired(a) ==
  LET o == req[a].offer
  IN  /\ At(a, "expire") /\ ~Locked(o)
      /\ offer' = IF offer[o].status = "GONE" THEN offer
                  ELSE [offer EXCEPT ![o].status = "expired"]
      /\ incidents' = IF IsOfferFinal(offer[o].status) THEN Noted(o, {"overwritten"})
                                                       ELSE incidents
      /\ Over(a)
      /\ HrIdle /\ UNCHANGED <<cand, stream, ops, faults>>

\* RespondOffer: at the portal, while the link is good and the offer is open.
RespondOffer(a, o, answer) ==
  /\ Free(a) /\ Begin("respond")
  /\ IsOfferOpen(offer[o].status) /\ ~offer[o].lapsed
  /\ Holds(a, [NoReq EXCEPT !.op = "respond", !.step = "answer", !.cand = offer[o].cand,
                             !.offer = o, !.word = answer])
  /\ HrIdle /\ UNCHANGED <<cand, offer, stream, faults, incidents>>

\* RecordResponse: an answer taken by phone, to any offer without a final one.
RecordResponse(a, o, answer) ==
  /\ Free(a) /\ Begin("record")
  /\ offer[o].status \notin {"NONE", "GONE"} /\ ~IsOfferFinal(offer[o].status)
  /\ Holds(a, [NoReq EXCEPT !.op = "record", !.step = "answer", !.cand = offer[o].cand,
                             !.offer = o, !.word = answer])
  /\ HrIdle /\ UNCHANGED <<cand, offer, stream, faults, incidents>>

\* Mutant: what was read at first decides.
AsRead(op, o) == offer[o].status # "GONE"

\* The conditions of the two updates.
StillAnswerable(op, o) ==
  CASE op = "respond" -> IsOfferOpen(offer[o].status)
    [] op = "record"  -> offer[o].status # "GONE" /\ ~IsOfferFinal(offer[o].status)

\* The news of c is written already: sent, or about to be.
Written(c) ==
  \/ \E k \in DOMAIN stream : stream[k].msg.cand = c
  \/ \E a \in Staff \cup Crons : req[a].step = "publish" /\ req[a].cand = c

\* hireOnAccept, inside the transaction of the answer.
HireOnAccept(c) == [cand EXCEPT ![c].status = "hired"]

Answer(a) ==
  LET r == req[a]
      accepted == StillAnswerable(r.op, r.offer) /\ r.word = "accepted"
  IN  /\ At(a, "answer") /\ ~Locked(r.offer)
      /\ offer' = IF StillAnswerable(r.op, r.offer) THEN [offer EXCEPT ![r.offer].status = r.word]
                                                    ELSE offer
      /\ cand' = IF accepted THEN HireOnAccept(r.cand) ELSE cand
      /\ IF accepted THEN Goes(a, "look") ELSE Over(a)
      /\ incidents' = IF accepted /\ Written(r.cand) THEN Noted(r.cand, {"late"})
                      ELSE IF offer[r.offer].status = "expired" /\ IsOfferOpen(offer'[r.offer].status)
                      THEN Noted(r.cand, {"reopened"}) ELSE incidents
      /\ HrIdle /\ UNCHANGED <<stream, ops, faults>>

-----------------------------------------------------------------------------
(***************************************************************************)
(* The news of a hire (publishHired), after a request and in the daily run.*)
(***************************************************************************)
\* afterStatusChange reads the candidate, who need not be hired any more.
LookAtCandidate(a) ==
  LET row == cand[req[a].cand]
  IN  /\ At(a, "look")
      /\ IF row.status = "gone" \/ row.sent THEN Over(a) ELSE Goes(a, "compose")
      /\ HrIdle /\ UNCHANGED <<cand, offer, stream, ops, faults, incidents>>

\* Mutant: the first accepted offer.
FirstAccepted(c) ==
  IF AcceptedOf(c) = {} THEN NoOffer
  ELSE CHOOSE o \in AcceptedOf(c) : \A x \in AcceptedOf(c) : offer[x].version >= offer[o].version

LatestAcceptedOffer(c) ==
  IF AcceptedOf(c) = {} THEN NoOffer
  ELSE CHOOSE o \in AcceptedOf(c) : \A x \in AcceptedOf(c) : offer[x].version <= offer[o].version

\* Mutant: the mark comes before the news.
MarksFirst(a) ==
  /\ At(a, "compose")
  /\ req' = [req EXCEPT ![a].step = "publish", ![a].terms = LatestAcceptedOffer(req[a].cand)]
  /\ cand' = [cand EXCEPT ![req[a].cand].sent = TRUE]
  /\ HrIdle /\ UNCHANGED <<offer, stream, ops, faults, incidents>>

ComposeNews(a) ==
  /\ At(a, "compose")
  /\ req' = [req EXCEPT ![a].step = "publish", ![a].terms = LatestAcceptedOffer(req[a].cand)]
  /\ HrIdle /\ UNCHANGED <<cand, offer, stream, ops, faults, incidents>>

PublishNews(a) ==
  /\ At(a, "publish") /\ Len(stream) < MaxNews
  /\ Emit([cand |-> req[a].cand, terms |-> req[a].terms])
  /\ Goes(a, "mark")
  /\ HrIdle /\ UNCHANGED <<cand, offer, ops, faults, incidents>>

\* MarkHiredEvent; no row of a deleted candidate is there.
MarkSent(a) ==
  /\ At(a, "mark")
  /\ cand' = [cand EXCEPT ![req[a].cand].sent = Exists(req[a].cand) \/ @]
  /\ Over(a)
  /\ HrIdle /\ UNCHANGED <<offer, stream, ops, faults, incidents>>

\* Mutant: whoever was ever about to be hired.
EveryUnsent == {c \in Candidates : ~cand[c].sent /\ Exists(c)}

PendingHiredEvents == {c \in Candidates : cand[c].status = "hired" /\ ~cand[c].sent}

LapsedOffers == {o \in Offers : IsOfferOpen(offer[o].status) /\ offer[o].lapsed}

\* TickDaily, when there is anything to do: lapsed offers expire, and retryHired
\* sends what is still unsent, as listed.
TickDaily(k) ==
  /\ Free(k) /\ PendingHiredEvents \cup LapsedOffers # {}
  /\ \A o \in LapsedOffers : ~Locked(o)
  /\ offer' = [o \in Offers |-> IF o \in LapsedOffers
                                THEN [offer[o] EXCEPT !.status = "expired"] ELSE offer[o]]
  /\ Holds(k, IF PendingHiredEvents = {} THEN NoReq
               ELSE [NoReq EXCEPT !.op = "run", !.step = "next", !.todo = PendingHiredEvents])
  /\ HrIdle /\ UNCHANGED <<cand, stream, ops, faults, incidents>>

NextPending(k) ==
  /\ At(k, "next")
  /\ \E c \in req[k].todo :
       Holds(k, [req[k] EXCEPT !.step = "publish", !.cand = c, !.todo = @ \ {c},
                               !.terms = LatestAcceptedOffer(c)])
  /\ HrIdle /\ UNCHANGED <<cand, offer, stream, ops, faults, incidents>>

\* A lookup, the publish or the mark fails, which is logged; or the process dies.
RecruitmentFails(a) ==
  /\ ~Free(a) /\ Fault
  /\ \/ At(a, "compose") /\ Over(a)
     \/ At(a, "publish") /\ Over(a)
     \/ At(a, "mark") /\ Over(a)
     \/ Holds(a, NoReq)
  /\ HrIdle /\ UNCHANGED <<cand, offer, stream, ops, incidents>>

RecruitmentRequest ==
  \/ \E c \in Candidates : DeleteCandidate(c)
  \/ \E o \in Offers : Lapse(o)
  \/ \E a \in Staff :
       \/ \E c \in Candidates : CreateOffer(a, c) \/ \E to \in {"active", "hired"} : MoveStage(a, c, to)
       \/ \E o \in Offers : VisitOffer(a, o)
            \/ \E w \in Answers : RespondOffer(a, o, w) \/ RecordResponse(a, o, w)

RecruitmentStep(a) ==
  \/ SetStage(a) \/ ReplaceOpen(a) \/ InsertOffer(a) \/ SetExpired(a) \/ Answer(a)
  \/ LookAtCandidate(a) \/ ComposeNews(a) \/ PublishNews(a) \/ MarkSent(a)
  \/ NextPending(a)
=============================================================================
