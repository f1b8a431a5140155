-------------------------------- MODULE Hires --------------------------------
(***************************************************************************)
(* Recruitment and hr together: requests of people and candidates, the     *)
(* daily run, the news of a hire and what hr makes of it, interleaved over *)
(* the same candidates.                                                    *)
(***************************************************************************)
EXTENDS Recruitment, HrHires

Init ==
  /\ cand = [c \in Candidates |-> [status |-> "active", sent |-> FALSE]]
  /\ offer \in Starts
  /\ req = [a \in Staff \cup Crons |-> NoReq]
  /\ emp = <<>>
  /\ claims = {}
  /\ proc = [x \in Workers \cup Clerks |-> Idle]
  /\ told = {}
  /\ BusInit
  /\ ops = 0
  /\ faults = 0
  /\ incidents = [x \in Candidates \cup Offers |-> {}]

Next ==
  \/ RecruitmentRequest \/ HrRequest
  \/ \E a \in Staff \cup Crons : RecruitmentStep(a) \/ RecruitmentFails(a)
  \/ \E k \in Crons : TickDaily(k)
  \/ \E w \in Workers : AckLate(w) \/ \E k \in DOMAIN stream : Receive(w, k)
  \/ \E x \in Workers \cup Clerks : HrStep(x) \/ HandlerFails(x)

Spec == Init /\ [][Next]_vars

\* Requests and handlers run to their end, messages are delivered, and the
\* daily tick comes.
Fairness ==
  /\ \A a \in Staff \cup Crons : WF_vars(RecruitmentStep(a))
  /\ \A k \in Crons : WF_vars(TickDaily(k))
  /\ \A w \in Workers : WF_vars(\E k \in DOMAIN stream : Receive(w, k))
  /\ \A x \in Workers \cup Clerks : WF_vars(HrStep(x))

FairSpec == Spec /\ Fairness

-----------------------------------------------------------------------------
Requests == [op : {"none", "move", "offer", "visit", "respond", "record", "run"},
             step : {"idle", "stage", "replace", "insert", "expire", "answer", "look", "compose",
                     "publish", "mark", "next"},
             cand : Candidates \cup {NoCandidate}, offer : Offers \cup {NoOffer},
             word : Answers \cup {"none", "active", "hired"}, terms : Offers \cup {NoOffer},
             rows : SUBSET Offers, version : Nat, todo : SUBSET Candidates]

Employees == [from : Candidates \cup {NoCandidate}, terms : Offers \cup {NoOffer}, no : Nat,
              email : Emails \cup {NoEmail}, present : BOOLEAN]

Processes == [pc : {"idle", "hire", "ack", "insert"}, msg : Nat, no : Nat,
              email : Emails \cup {NoEmail}]

\* The type of the state. The daily run has a next hire to send when it goes on
\* to it, and what hr handles is a message of the stream.
TypeOK ==
  /\ cand \in [Candidates -> CandidateRows]
  /\ offer \in [Offers -> OfferRows]
  /\ req \in [Staff \cup Crons -> Requests]
  /\ \A a \in Staff \cup Crons : At(a, "next") => req[a].todo # {}
  /\ emp \in Seq(Employees)
  /\ claims \subseteq Candidates /\ told \subseteq Candidates
  /\ proc \in [Workers \cup Clerks -> Processes]
  /\ \A w \in Workers : ~ProcAt(w, "idle") => proc[w].msg \in DOMAIN stream
  /\ stream \in Seq([msg : Messages, state : LetterStates, tries : Nat])
  /\ ops \in 0..MaxOps /\ faults \in 0..MaxFaults
  /\ incidents \in [Candidates \cup Offers ->
                     SUBSET {"left", "twice", "overwritten", "late", "reopened"}]

-----------------------------------------------------------------------------
\* 00002_recruitment_hires.sql: "a redelivered white.recruitment.candidate.hired
\* never creates a duplicate". However often the news is sent or delivered, and
\* whatever becomes of the employee, a candidate is made an employee once, and
\* whoever is claimed has been.
EmployedOnce ==
  \A c \in Candidates :
    LET made == {n \in DOMAIN emp : emp[n].from = c}
    IN  Cardinality(made) <= 1 /\ (c \in claims <=> made # {})

\* The news speaks of a candidate who is hired, unless they were moved on or
\* deleted since (publishHired does not look at the status again), and a hire
\* marked as sent was sent.
NewsIsTrue ==
  /\ \A k \in DOMAIN stream :
       LET c == stream[k].msg.cand
       IN  cand[c].status = "hired" \/ ~Exists(c) \/ "left" \in incidents[c]
  /\ \A c \in Candidates : cand[c].sent => \E k \in DOMAIN stream : stream[k].msg.cand = c

\* An employee starts on the terms of the latest offer the candidate accepted,
\* unless it was accepted when the news was written already - the news is not sent
\* again - or the portal closed an offer over its answer.
TermsAreAgreed ==
  \A n \in DOMAIN emp :
    LET c == emp[n].from
    IN  c \in Candidates =>
          \/ ~Exists(c) \/ "late" \in incidents[c]
          \/ \E o \in Offers : offer[o].cand = c /\ "overwritten" \in incidents[o]
          \/ AcceptedOf(c) = {} /\ emp[n].terms = NoOffer
          \/ /\ emp[n].terms \in AcceptedOf(c)
             /\ \A o \in AcceptedOf(c) : offer[o].version <= offer[emp[n].terms].version

\* offers.sql: "A new revision replaces any offer still open." A candidate has one
\* offer to answer, unless two revisions were written at the same time, neither of
\* which sees the other, or an answer by phone put an expired offer back under
\* negotiation.
OneOpenOffer ==
  \A c \in Candidates :
    Cardinality(OpenOf(c)) <= 1 \/ incidents[c] \cap {"twice", "reopened"} # {}

\* IsOfferFinal: "a response the candidate cannot take back". An accepted or
\* declined offer stays so, whoever answers at the same time, until it is deleted
\* with the candidate - or, if its link has lapsed, until a visit of the portal
\* that read it before the answer closes it. No answer replaces another one, and
\* an offer answered while its link is good is never closed.
FinalStays ==
  [][\A o \in Offers :
       IsOfferFinal(offer[o].status) =>
         \/ offer'[o].status \in {offer[o].status, "GONE"}
         \/ offer'[o].status = "expired" /\ offer[o].lapsed]_vars

\* Who stays hired becomes an employee, or hr is told to link them by hand, or hr
\* had the news MaxDeliver times and could not: a hire whose news was lost on the
\* way out is sent again by the daily run.
HiredIsTakenOver ==
  \A c \in Candidates :
    <>[](cand[c].status = "hired") =>
      <>(\/ c \in claims \cup told
         \/ \E k \in DOMAIN stream : stream[k].msg.cand = c /\ stream[k].state = "dropped")
=============================================================================
