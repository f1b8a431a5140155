---------------------------- MODULE HiresProofs ----------------------------
(***************************************************************************)
(* Proofs about Hires, for every value of its constants.                   *)
(***************************************************************************)
EXTENDS Hires, FiniteSetTheorems, WellFoundedInduction, TLAPS

Actors == Staff \cup Crons
Parties == Workers \cup Clerks

-----------------------------------------------------------------------------
(***************************************************************************)
(* Least and greatest numbers, which Min and Max choose.                   *)
(***************************************************************************)
\* The induction principle in a form without an operator.
LEMMA LeastNatural ==
  ASSUME NEW T \in SUBSET Nat, T # {}
  PROVE  \E n \in T : \A m \in T : n <= m
<1>1. \E n \in T : \A m \in T : ~(m < n)
  <2> DEFINE R == OpToRel(<, Nat)
  <2>1. IsWellFoundedOn(R, Nat)
    BY NatLessThanWellFounded
  <2>2. \A m, n \in Nat : m < n => <<m, n>> \in R
    BY DEF OpToRel
  <2> HIDE DEF R
  <2>3. PICK n \in T : \A m \in T : <<m, n>> \notin R
    BY <2>1, WFMin
  <2> QED BY <2>2, <2>3
<1> QED BY <1>1

\* A set of least cardinality without a greatest element would have one after all.
LEMMA GreatestExists ==
  \A S \in SUBSET Nat : IsFiniteSet(S) /\ S # {} => \E m \in S : \A n \in S : n <= m
<1> DEFINE Has(S) == \E m \in S : \A n \in S : n <= m
           T == {k \in Nat : \E S \in SUBSET Nat :
                   IsFiniteSet(S) /\ S # {} /\ Cardinality(S) = k /\ ~Has(S)}
<1>1. T = {}
  <2> SUFFICES ASSUME T # {} PROVE FALSE
    OBVIOUS
  <2>1. PICK k \in T : \A j \in T : k <= j
    BY LeastNatural
  <2>2. PICK S \in SUBSET Nat : IsFiniteSet(S) /\ S # {} /\ Cardinality(S) = k /\ ~Has(S)
    BY <2>1
  <2>3. PICK x \in S : TRUE
    BY <2>2
  <2>4. /\ IsFiniteSet(S \ {x}) /\ Cardinality(S \ {x}) = k - 1
        /\ k - 1 \in Nat
    <3>1. IsFiniteSet(S \ {x}) /\ Cardinality(S \ {x}) = Cardinality(S) - 1
      BY <2>2, FS_RemoveElement
    <3>2. Cardinality(S \ {x}) \in Nat
      BY <3>1, FS_CardinalityType
    <3> QED BY <2>2, <3>1, <3>2
  <2>5. S \ {x} = {} \/ Has(S \ {x})
    <3>1. k - 1 \notin T
      BY <2>1, <2>4
    <3> QED BY <2>4, <3>1
  <2>6. Has(S)
    <3>1. CASE S \ {x} = {}
      BY <3>1
    <3>2. CASE Has(S \ {x})
      <4>1. PICK m \in S \ {x} : \A n \in S \ {x} : n <= m
        BY <3>2
      <4>2. CASE x <= m
        BY <4>1, <4>2
      <4>3. CASE ~(x <= m)
        BY <4>1, <4>3
      <4> QED BY <4>2, <4>3
    <3> QED BY <2>5, <3>1, <3>2
  <2> QED BY <2>2, <2>6
<1> SUFFICES ASSUME NEW S \in SUBSET Nat, IsFiniteSet(S), S # {} PROVE Has(S)
  OBVIOUS
<1> QED BY <1>1, FS_CardinalityType

LEMMA MaxType ==
  ASSUME NEW S \in SUBSET Nat, IsFiniteSet(S), S # {}
  PROVE  Max(S) \in S /\ \A n \in S : n <= Max(S)
BY GreatestExists DEF Max

LEMMA MinType ==
  ASSUME NEW S \in SUBSET Nat, S # {}
  PROVE  Min(S) \in S
BY LeastNatural DEF Min

\* An image of a finite set is finite and no larger.
LEMMA ImageFinite ==
  ASSUME NEW S, IsFiniteSet(S), NEW f, DOMAIN f = S
  PROVE  /\ IsFiniteSet({f[x] : x \in S})
         /\ Cardinality({f[x] : x \in S}) <= Cardinality(S)
<1> DEFINE T == {f[x] : x \in S}
<1>1. PICK g \in Surjection(S, T) : TRUE
  <2>1. [x \in S |-> f[x]] \in Surjection(S, T)
    BY DEF Surjection
  <2> QED BY <2>1
<1> HIDE DEF T
<1>2. IsFiniteSet(T) /\ Cardinality(T) <= Cardinality(S)
  BY FS_Surjection
<1> QED BY <1>2 DEF T

LEMMA VersionType ==
  ASSUME NEW c, offer \in [Offers -> OfferRows]
  PROVE  NextOfferVersion(c) \in Nat
<1> DEFINE versions == [o \in OffersOf(c) |-> offer[o].version]
           V == {versions[o] : o \in OffersOf(c)}
           W == {0} \cup {offer[o].version : o \in OffersOf(c)}
<1>1. IsFiniteSet(OffersOf(c))
  BY HiresAssumption, FS_Subset DEF OffersOf
<1>2. IsFiniteSet(V)
  BY <1>1, ImageFinite
<1>3. V \cup {0} = W
  OBVIOUS
<1>4. W \in SUBSET Nat
  BY DEF OffersOf, OfferRows
<1>5. IsFiniteSet(W)
  BY <1>2, <1>3, FS_AddElement
<1> HIDE DEF W, V
<1>6. Max(W) \in Nat
  BY <1>3, <1>4, <1>5, MaxType
<1> QED BY <1>6 DEF NextOfferVersion, W

\* Fewer numbers are in use than there are to choose from.
LEMMA NumberType ==
  ASSUME emp \in Seq(Employees)
  PROVE  NextAutoNip \in Nat
<1> DEFINE numbers == [n \in DOMAIN emp |-> emp[n].no]
           U == {numbers[n] : n \in DOMAIN emp}
           all == 1..(Len(emp) + 1)
<1>1. /\ Len(emp) \in Nat /\ DOMAIN emp = 1..Len(emp)
  OBVIOUS
<1>2. IsFiniteSet(DOMAIN emp) /\ Cardinality(DOMAIN emp) = Len(emp)
  BY <1>1, FS_Interval
<1>3. IsFiniteSet(U) /\ Cardinality(U) <= Len(emp)
  BY <1>2, ImageFinite
<1>4. IsFiniteSet(all) /\ Cardinality(all) = Len(emp) + 1
  BY <1>1, FS_Interval
<1>5. all \ U # {}
  <2> SUFFICES ASSUME all \subseteq U PROVE FALSE
    OBVIOUS
  <2> HIDE DEF all, U
  <2>1. Cardinality(all) <= Cardinality(U)
    BY <1>3, FS_Subset
  <2> QED BY <1>1, <1>3, <1>4, <2>1, FS_CardinalityType
<1>6. U = {emp[n].no : n \in DOMAIN emp}
  OBVIOUS
<1>7. Min(all \ U) \in Nat
  <2>1. all \ U \in SUBSET Nat
    OBVIOUS
  <2> HIDE DEF all, U
  <2> QED BY <1>5, <2>1, MinType
<1> QED BY <1>6, <1>7 DEF NextAutoNip

-----------------------------------------------------------------------------
(***************************************************************************)
(* Types. A request carries what it was let in with: whom it is about, the *)
(* offer it answers or closes, and the word it writes.                     *)
(***************************************************************************)
Good(off, r) ==
  /\ r \in Requests
  /\ r.step = "next" => r.todo # {}
  /\ r.step \in {"stage", "replace", "insert", "answer", "look", "compose", "publish", "mark"} =>
       r.cand \in Candidates
  /\ r.step = "stage" => r.word \in {"active", "hired"}
  /\ r.step \in {"expire", "answer"} => r.offer \in Offers /\ off[r.offer].status # "NONE"
  /\ r.step = "answer" => /\ r.word \in Answers /\ r.op \in {"respond", "record"}
                          /\ off[r.offer].cand = r.cand
  /\ r.op = "offer" <=> r.step \in {"replace", "insert"}
  /\ \A x \in r.rows : off[x].status # "NONE"

\* Messages are for workers, the insert of an employee made by hand for clerks.
Roles(p) ==
  /\ \A w \in Workers : p[w].pc \in {"idle", "hire", "ack"}
  /\ \A h \in Clerks : p[h].pc \in {"idle", "insert"}

TypeInv ==
  /\ TypeOK
  /\ Roles(proc)
  /\ \A o \in Offers : offer[o].status # "NONE" => offer[o].cand \in Candidates
  /\ \A a \in Actors : Good(offer, req[a])

\* An offer made stays with its candidate.
OffersKept ==
  /\ offer' \in [Offers -> OfferRows]
  /\ \A o \in Offers :
       /\ offer[o].status # "NONE" => offer'[o].status # "NONE" /\ offer'[o].cand = offer[o].cand
       /\ offer'[o].status # "NONE" => offer'[o].cand \in Candidates

ReqTyped ==
  /\ req' \in [Staff \cup Crons -> Requests]
  /\ \A a \in Staff \cup Crons : At(a, "next")' => req'[a].todo # {}
  /\ \A a \in Actors : Good(offer', req'[a])

LEMMA GoodStays ==
  ASSUME OffersKept, NEW r, Good(offer, r) PROVE Good(offer', r)
<1>1. r.rows \subseteq Offers
  BY DEF Good, Requests
<1>2. \A x \in r.rows : offer'[x].status # "NONE"
  BY <1>1 DEF OffersKept, Good
<1> QED BY <1>2 DEF OffersKept, Good

LEMMA HoldsTyped ==
  ASSUME TypeInv, OffersKept, NEW a \in Actors, NEW r, Good(offer', r), Holds(a, r)
  PROVE  ReqTyped
<1>1. \A b \in Actors : req'[b] = IF b = a THEN r ELSE req[b]
  BY DEF TypeInv, TypeOK, Holds, Actors
<1>2. \A b \in Actors : Good(offer', req'[b])
  BY <1>1, GoodStays DEF TypeInv
<1>3. DOMAIN req' = Actors
  BY DEF TypeInv, TypeOK, Holds, Actors
<1>4. req' = [b \in Actors |-> req'[b]]
  BY <1>3 DEF TypeInv, TypeOK, Holds, Actors
<1> QED BY <1>2, <1>4 DEF ReqTyped, Good, At, Actors

LEMMA NoReqGood == \A off : Good(off, NoReq)
BY DEF Good, NoReq, Requests, Answers

LEMMA SamesTyped ==
  ASSUME TypeInv, OffersKept, UNCHANGED req PROVE ReqTyped
BY GoodStays DEF TypeInv, TypeOK, ReqTyped, Actors, Good, At

LEMMA OverTyped ==
  ASSUME TypeInv, OffersKept, NEW a \in Actors, Over(a) PROVE ReqTyped
<1> DEFINE r == IF req[a].todo = {} THEN NoReq
                ELSE [NoReq EXCEPT !.op = "run", !.step = "next", !.todo = req[a].todo]
<1>1. Good(offer', r)
  <2>1. req[a].todo \in SUBSET Candidates
    BY DEF TypeInv, TypeOK, Actors, Requests
  <2> QED BY <2>1 DEF Good, NoReq, Requests, Answers
<1>2. Holds(a, r)
  BY DEF Over
<1> HIDE DEF r
<1> QED BY <1>1, <1>2, HoldsTyped

\* A step that leads on without anything new.
LEMMA GoesTyped ==
  ASSUME TypeInv, OffersKept, NEW a \in Actors, NEW step,
         Good(offer', [req[a] EXCEPT !.step = step]), Goes(a, step)
  PROVE  ReqTyped
<1>1. Holds(a, [req[a] EXCEPT !.step = step])
  BY DEF Goes, Holds, TypeInv, TypeOK, Actors
<1> DEFINE r == [req[a] EXCEPT !.step = step]
<1>2. Good(offer', r) /\ Holds(a, r)
  BY <1>1
<1> HIDE DEF r
<1> QED BY <1>2, HoldsTyped

LEMMA UnchangedKept ==
  ASSUME TypeInv, UNCHANGED offer PROVE OffersKept
BY DEF TypeInv, TypeOK, OffersKept

LEMMA NotedType ==
  ASSUME TypeInv, NEW x \in Candidates \cup Offers,
         NEW what \in SUBSET {"left", "twice", "overwritten", "late", "reopened"}
  PROVE  Noted(x, what) \in [Candidates \cup Offers ->
                               SUBSET {"left", "twice", "overwritten", "late", "reopened"}]
BY DEF TypeInv, TypeOK, Noted

LEMMA BeginType ==
  ASSUME TypeInv, NEW op, Begin(op) PROVE ops' \in 0..MaxOps
BY HiresAssumption DEF TypeInv, TypeOK, Begin

\* What a step of recruitment has to leave in order.
LEMMA RecruitmentTyped ==
  ASSUME TypeInv, OffersKept, ReqTyped, HrIdle,
         cand' \in [Candidates -> CandidateRows],
         stream' = stream, ops' \in 0..MaxOps, faults' \in 0..MaxFaults,
         incidents' \in [Candidates \cup Offers ->
                           SUBSET {"left", "twice", "overwritten", "late", "reopened"}]
  PROVE  TypeInv'
BY DEF TypeInv, TypeOK, OffersKept, ReqTyped, HrIdle, hr, ProcAt, Roles

LEMMA TypeInit == Init => TypeInv
<1> SUFFICES ASSUME Init PROVE TypeInv
  OBVIOUS
<1>1. TypeOK
  BY HiresAssumption, StartsAssumption
     DEF Init, TypeOK, CandidateRows, Requests, NoReq, At, Processes, Idle, ProcAt, BusInit
<1>2. \A a \in Actors : Good(offer, req[a])
  BY NoReqGood DEF Init, Actors
<1> QED BY <1>1, <1>2, StartsAssumption DEF Init, TypeInv, Roles, Idle

LEMMA TypeRequests ==
  ASSUME TypeInv, NEW a \in Staff
  PROVE  /\ \A c \in Candidates, to \in {"active", "hired"} : MoveStage(a, c, to) => TypeInv'
         /\ \A c \in Candidates : CreateOffer(a, c) => TypeInv'
         /\ \A o \in Offers : VisitOffer(a, o) => TypeInv'
         /\ \A o \in Offers, w \in Answers :
              RespondOffer(a, o, w) \/ RecordResponse(a, o, w) => TypeInv'
<1>a. a \in Actors
  BY DEF Actors
<1>1. ASSUME NEW c \in Candidates, NEW to \in {"active", "hired"}, MoveStage(a, c, to) PROVE TypeInv'
  <2> DEFINE r == [NoReq EXCEPT !.op = "move", !.step = "stage", !.cand = c, !.word = to]
  <2>1. OffersKept
    BY <1>1, UnchangedKept DEF MoveStage
  <2>2. Good(offer', r) /\ Holds(a, r)
    BY <1>1 DEF MoveStage, Good, NoReq, Requests, Answers
  <2> HIDE DEF r
  <2>3. ReqTyped
    BY <1>a, <2>1, <2>2, HoldsTyped
  <2> QED BY <1>1, <2>1, <2>3, BeginType, RecruitmentTyped DEF MoveStage, TypeInv, TypeOK
<1>2. ASSUME NEW c \in Candidates, CreateOffer(a, c) PROVE TypeInv'
  <2> DEFINE r == [NoReq EXCEPT !.op = "offer", !.step = "replace", !.cand = c, !.rows = Replaced(c)]
  <2>1. OffersKept
    BY <1>2, UnchangedKept DEF CreateOffer
  <2>2. Good(offer', r) /\ Holds(a, r)
    BY <1>2 DEF CreateOffer, Good, NoReq, Requests, Answers, Replaced, OpenOf, OffersOf
  <2> HIDE DEF r
  <2>3. ReqTyped
    BY <1>a, <2>1, <2>2, HoldsTyped
  <2>4. incidents' \in [Candidates \cup Offers ->
                           SUBSET {"left", "twice", "overwritten", "late", "reopened"}]
    BY <1>2, NotedType DEF CreateOffer, TypeInv, TypeOK
  <2> QED BY <1>2, <2>1, <2>3, <2>4, BeginType, RecruitmentTyped DEF CreateOffer, TypeInv, TypeOK
<1>3. ASSUME NEW o \in Offers, VisitOffer(a, o) PROVE TypeInv'
  <2> DEFINE r == [NoReq EXCEPT !.op = "visit", !.step = "expire", !.offer = o]
  <2>1. OffersKept
    BY <1>3, UnchangedKept DEF VisitOffer
  <2>2. Good(offer', r) /\ Holds(a, r)
    BY <1>3 DEF VisitOffer, Good, NoReq, Requests, Answers, IsOfferOpen
  <2> HIDE DEF r
  <2>3. ReqTyped
    BY <1>a, <2>1, <2>2, HoldsTyped
  <2> QED BY <1>3, <2>1, <2>3, BeginType, RecruitmentTyped DEF VisitOffer, TypeInv, TypeOK
<1>4. ASSUME NEW o \in Offers, NEW w \in Answers,
             RespondOffer(a, o, w) \/ RecordResponse(a, o, w)
      PROVE  TypeInv'
  <2> DEFINE r(op) == [NoReq EXCEPT !.op = op, !.step = "answer", !.cand = offer[o].cand,
                                    !.offer = o, !.word = w]
  <2>1. OffersKept
    BY <1>4, UnchangedKept DEF RespondOffer, RecordResponse
  <2>2. offer[o].status # "NONE" /\ offer[o].cand \in Candidates /\ offer' = offer
    BY <1>4 DEF RespondOffer, RecordResponse, IsOfferOpen, TypeInv
  <2>3. Good(offer', r("respond")) /\ Good(offer', r("record"))
    BY <2>2 DEF Good, NoReq, Requests, Answers
  <2>4. Holds(a, r("respond")) \/ Holds(a, r("record"))
    BY <1>4 DEF RespondOffer, RecordResponse
  <2> HIDE DEF r
  <2>5. ReqTyped
    BY <1>a, <2>1, <2>3, <2>4, HoldsTyped
  <2> QED BY <1>4, <2>1, <2>5, BeginType, RecruitmentTyped
          DEF RespondOffer, RecordResponse, TypeInv, TypeOK
<1> QED BY <1>1, <1>2, <1>3, <1>4

LEMMA TypeDelete ==
  ASSUME TypeInv, NEW c \in Candidates, DeleteCandidate(c) PROVE TypeInv'
<1>1. OffersKept
  <2>1. ASSUME NEW o \in Offers PROVE [offer[o] EXCEPT !.status = "GONE"] \in OfferRows
    BY DEF TypeInv, TypeOK, OfferRows, OfferStates
  <2> QED BY <2>1 DEF DeleteCandidate, OffersKept, TypeInv, TypeOK, OffersOf, OfferRows
<1>2. ReqTyped
  BY <1>1, SamesTyped DEF DeleteCandidate
<1>3. cand' \in [Candidates -> CandidateRows]
  BY DEF DeleteCandidate, TypeInv, TypeOK, CandidateRows
<1> QED BY <1>1, <1>2, <1>3, BeginType, RecruitmentTyped DEF DeleteCandidate, TypeInv, TypeOK

LEMMA TypeLapse ==
  ASSUME TypeInv, NEW o \in Offers, Lapse(o) PROVE TypeInv'
<1>1. OffersKept
  BY DEF Lapse, OffersKept, TypeInv, TypeOK, OfferRows
<1>2. ReqTyped
  BY <1>1, SamesTyped DEF Lapse
<1> QED BY <1>1, <1>2, BeginType, RecruitmentTyped DEF Lapse, TypeInv, TypeOK

LEMMA TypeSetStage ==
  ASSUME TypeInv, NEW a \in Actors, SetStage(a) PROVE TypeInv'
<1>1. OffersKept
  BY UnchangedKept DEF SetStage
<1>2. /\ req[a].cand \in Candidates /\ req[a].word \in {"active", "hired"}
      /\ Good(offer', [req[a] EXCEPT !.step = "look"])
  <2>1. Good(offer', req[a]) /\ req[a].step = "stage"
    BY DEF SetStage, At, TypeInv
  <2> QED BY <2>1 DEF Good, Requests
<1>3. ReqTyped
  BY <1>1, <1>2, OverTyped, GoesTyped DEF SetStage
<1>4. cand' \in [Candidates -> CandidateRows]
  BY <1>2 DEF SetStage, TypeInv, TypeOK, CandidateRows
<1>5. incidents' \in [Candidates \cup Offers ->
                         SUBSET {"left", "twice", "overwritten", "late", "reopened"}]
  BY <1>2, NotedType DEF SetStage, TypeInv, TypeOK
<1> QED BY <1>1, <1>3, <1>4, <1>5, RecruitmentTyped DEF SetStage, TypeInv, TypeOK

LEMMA TypeReplaceOpen ==
  ASSUME TypeInv, NEW a \in Actors, ReplaceOpen(a) PROVE TypeInv'
<1> DEFINE r == [req[a] EXCEPT !.step = "insert", !.rows = @ \cap OpenOf(req[a].cand),
                               !.version = NextOfferVersion(req[a].cand)]
<1>1. OffersKept
  BY UnchangedKept DEF ReplaceOpen
<1>2. Good(offer', r)
  <2>1. NextOfferVersion(req[a].cand) \in Nat
    BY VersionType DEF TypeInv, TypeOK
  <2>2. Good(offer', req[a]) /\ req[a].step = "replace"
    BY DEF ReplaceOpen, At, TypeInv
  <2> QED BY <2>1, <2>2 DEF Good, Requests
<1>3. Holds(a, r)
  BY DEF ReplaceOpen
<1> HIDE DEF r
<1>4. ReqTyped
  BY <1>1, <1>2, <1>3, HoldsTyped
<1> QED BY <1>1, <1>4, RecruitmentTyped DEF ReplaceOpen, TypeInv, TypeOK

LEMMA TypeInsertOffer ==
  ASSUME TypeInv, NEW a \in Actors, InsertOffer(a) PROVE TypeInv'
<1> DEFINE r == req[a]
           o == CHOOSE x \in Unused : TRUE
           new == [cand |-> r.cand, version |-> r.version, status |-> "sent", lapsed |-> FALSE]
<1>1. Good(offer, r) /\ r.step = "insert"
  BY DEF InsertOffer, At, TypeInv
<1>2. new \in OfferRows /\ r.cand \in Candidates
  BY <1>1 DEF Good, Requests, OfferRows, OfferStates
<1>3. \A x \in Offers : [offer[x] EXCEPT !.status = "expired"] \in OfferRows
  BY DEF TypeInv, TypeOK, OfferRows, OfferStates
<1>4. o \in Unused
  BY DEF InsertOffer
<1>5. \A x \in Offers : \/ offer'[x] = offer[x]
                        \/ x = o /\ offer'[x] = new
                        \/ offer'[x] = [offer[x] EXCEPT !.status = "expired"] /\ x \in r.rows
  BY DEF InsertOffer
<1>6. \A x \in Offers : offer'[x] \in OfferRows
  BY <1>2, <1>3, <1>5 DEF TypeInv, TypeOK
<1>7. offer' \in [Offers -> OfferRows]
  BY <1>6 DEF InsertOffer, TypeInv, TypeOK
<1>8. OffersKept
  <2> SUFFICES ASSUME NEW x \in Offers
               PROVE /\ offer[x].status # "NONE" =>
                          offer'[x].status # "NONE" /\ offer'[x].cand = offer[x].cand
                     /\ offer'[x].status # "NONE" => offer'[x].cand \in Candidates
    BY <1>7 DEF OffersKept
  <2>1. CASE offer'[x] = offer[x]
    BY <2>1 DEF TypeInv
  <2>2. CASE x = o /\ offer'[x] = new
    BY <1>2, <1>4, <2>2 DEF Unused
  <2>3. CASE offer'[x] = [offer[x] EXCEPT !.status = "expired"] /\ x \in r.rows
    <3>1. offer[x].status # "NONE"
      BY <1>1, <2>3 DEF Good
    <3> QED BY <2>3, <3>1 DEF TypeInv, TypeOK, OfferRows
  <2> QED BY <1>5, <2>1, <2>2, <2>3
<1>9. ReqTyped
  BY <1>8, OverTyped DEF InsertOffer
<1> QED BY <1>8, <1>9, RecruitmentTyped DEF InsertOffer, TypeInv, TypeOK

LEMMA RowWith ==
  ASSUME TypeInv, NEW o \in Offers, NEW status \in OfferStates
  PROVE  LET row == [offer[o] EXCEPT !.status = status]
         IN  row \in OfferRows /\ row.cand = offer[o].cand /\ row.status = status
<1>1. offer[o] \in OfferRows
  BY DEF TypeInv, TypeOK
<1> QED BY <1>1 DEF OfferRows

LEMMA TypeSetExpired ==
  ASSUME TypeInv, NEW a \in Actors, SetExpired(a) PROVE TypeInv'
<1> DEFINE o == req[a].offer
<1>1. o \in Offers /\ offer[o].status # "NONE"
  BY DEF SetExpired, At, TypeInv, Good
<1>2. [offer[o] EXCEPT !.status = "expired"] \in OfferRows
  BY <1>1, RowWith DEF OfferStates
<1>3. OffersKept
  BY <1>1, <1>2 DEF SetExpired, OffersKept, TypeInv, TypeOK, OfferRows
<1>4. ReqTyped
  BY <1>3, OverTyped DEF SetExpired
<1>5. incidents' \in [Candidates \cup Offers ->
                         SUBSET {"left", "twice", "overwritten", "late", "reopened"}]
  BY <1>1, NotedType DEF SetExpired, TypeInv, TypeOK
<1> QED BY <1>3, <1>4, <1>5, RecruitmentTyped DEF SetExpired, TypeInv, TypeOK

LEMMA TypeAnswer ==
  ASSUME TypeInv, NEW a \in Actors, Answer(a) PROVE TypeInv'
<1> DEFINE o == req[a].offer
           c == req[a].cand
<1>1. /\ o \in Offers /\ offer[o].status # "NONE" /\ c \in Candidates
      /\ req[a].word \in Answers
  BY DEF Answer, At, TypeInv, Good
<1>2. [offer[o] EXCEPT !.status = req[a].word] \in OfferRows
  <2>1. req[a].word \in OfferStates
    BY <1>1 DEF Answers, OfferStates
  <2> QED BY <1>1, <2>1, RowWith
<1>3. OffersKept
  BY <1>1, <1>2 DEF Answer, OffersKept, TypeInv, TypeOK, OfferRows, Answers
<1>4. Good(offer', [req[a] EXCEPT !.step = "look"])
  <2>1. Good(offer', req[a]) /\ req[a].step = "answer"
    BY <1>3, GoodStays DEF Answer, At, TypeInv
  <2> QED BY <2>1 DEF Good, Requests
<1>5. ReqTyped
  BY <1>3, <1>4, OverTyped, GoesTyped DEF Answer
<1>6. cand' \in [Candidates -> CandidateRows]
  BY <1>1 DEF Answer, HireOnAccept, TypeInv, TypeOK, CandidateRows
<1>7. incidents' \in [Candidates \cup Offers ->
                         SUBSET {"left", "twice", "overwritten", "late", "reopened"}]
  BY <1>1, NotedType DEF Answer, TypeInv, TypeOK
<1> QED BY <1>3, <1>5, <1>6, <1>7, RecruitmentTyped DEF Answer, TypeInv, TypeOK

LEMMA TypeLook ==
  ASSUME TypeInv, NEW a \in Actors, LookAtCandidate(a) PROVE TypeInv'
<1>1. OffersKept
  BY UnchangedKept DEF LookAtCandidate
<1>2. Good(offer', [req[a] EXCEPT !.step = "compose"])
  <2>1. Good(offer', req[a]) /\ req[a].step = "look"
    BY DEF LookAtCandidate, At, TypeInv
  <2> QED BY <2>1 DEF Good, Requests
<1>3. ReqTyped
  BY <1>1, <1>2, OverTyped, GoesTyped DEF LookAtCandidate
<1> QED BY <1>1, <1>3, RecruitmentTyped DEF LookAtCandidate, TypeInv, TypeOK

\* The greatest version of a finite number of offers is somebody's.
LEMMA LatestOf ==
  ASSUME offer \in [Offers -> OfferRows], NEW c
  PROVE  \/ AcceptedOf(c) = {} /\ LatestAcceptedOffer(c) = NoOffer
         \/ /\ LatestAcceptedOffer(c) \in AcceptedOf(c)
            /\ \A x \in AcceptedOf(c) : offer[x].version <= offer[LatestAcceptedOffer(c)].version
<1> SUFFICES ASSUME AcceptedOf(c) # {}
             PROVE  \E o \in AcceptedOf(c) : \A x \in AcceptedOf(c) : offer[x].version <= offer[o].version
  BY DEF LatestAcceptedOffer
<1> DEFINE versions == [o \in AcceptedOf(c) |-> offer[o].version]
           V == {versions[o] : o \in AcceptedOf(c)}
<1>1. IsFiniteSet(AcceptedOf(c))
  BY HiresAssumption, FS_Subset DEF AcceptedOf, OffersOf
<1>2. IsFiniteSet(V)
  BY <1>1, ImageFinite
<1>3. V \in SUBSET Nat /\ V # {}
  <2>1. \A o \in AcceptedOf(c) : offer[o] \in OfferRows
    BY DEF AcceptedOf, OffersOf
  <2>2. \A o \in AcceptedOf(c) : versions[o] \in Nat
    BY <2>1 DEF OfferRows
  <2> HIDE DEF versions
  <2> QED BY <2>2
<1>4. PICK m \in V : \A n \in V : n <= m
  <2> HIDE DEF V
  <2> QED BY <1>2, <1>3, GreatestExists
<1> QED BY <1>4

LEMMA TermsType ==
  ASSUME TypeInv, NEW c PROVE LatestAcceptedOffer(c) \in Offers \cup {NoOffer}
BY LatestOf DEF TypeInv, TypeOK, AcceptedOf, OffersOf

LEMMA PublishGood ==
  ASSUME NEW off, NEW q, Good(off, q), q.step \in {"compose", "next"},
         NEW c \in Candidates, NEW t \in Offers \cup {NoOffer}, NEW todo \in SUBSET Candidates
  PROVE  Good(off, [q EXCEPT !.step = "publish", !.cand = c, !.todo = todo, !.terms = t])
<1> DEFINE r == [q EXCEPT !.step = "publish", !.cand = c, !.todo = todo, !.terms = t]
<1>1. r \in Requests
  BY DEF Good, Requests
<1>2. /\ r.step = "publish" /\ r.cand = c /\ r.op = q.op /\ r.rows = q.rows
  BY DEF Good, Requests
<1> HIDE DEF r
<1>3. Good(off, r)
  BY <1>1, <1>2 DEF Good
<1> QED BY <1>3 DEF r

LEMMA TypeCompose ==
  ASSUME TypeInv, NEW a \in Actors, ComposeNews(a) PROVE TypeInv'
<1> DEFINE r == [req[a] EXCEPT !.step = "publish", !.terms = LatestAcceptedOffer(req[a].cand)]
<1>1. OffersKept
  BY UnchangedKept DEF ComposeNews
<1>2. Good(offer', r)
  <2> DEFINE t == LatestAcceptedOffer(req[a].cand)
  <2>1. /\ Good(offer', req[a]) /\ req[a].step = "compose" /\ req[a].cand \in Candidates
        /\ req[a].todo \in SUBSET Candidates
        /\ r = [req[a] EXCEPT !.step = "publish", !.cand = req[a].cand, !.todo = req[a].todo,
                              !.terms = t]
    BY DEF ComposeNews, At, TypeInv, Good, Requests
  <2>2. t \in Offers \cup {NoOffer}
    BY TermsType
  <2> HIDE DEF t, r
  <2> QED BY <2>1, <2>2, PublishGood
<1>3. Holds(a, r)
  BY DEF ComposeNews, Holds, TypeInv, TypeOK, Actors
<1> HIDE DEF r
<1>4. ReqTyped
  BY <1>1, <1>2, <1>3, HoldsTyped
<1> QED BY <1>1, <1>4, RecruitmentTyped DEF ComposeNews, TypeInv, TypeOK

LEMMA TypeMark ==
  ASSUME TypeInv, NEW a \in Actors, MarkSent(a) PROVE TypeInv'
<1>1. OffersKept
  BY UnchangedKept DEF MarkSent
<1>2. ReqTyped
  BY <1>1, OverTyped DEF MarkSent
<1>3. cand' \in [Candidates -> CandidateRows]
  <2>1. Good(offer, req[a]) /\ req[a].step = "mark"
    BY DEF MarkSent, At, TypeInv
  <2>2. req[a].cand \in Candidates
    BY <2>1 DEF Good
  <2> DEFINE sent == Exists(req[a].cand) \/ cand[req[a].cand].sent
  <2>3. cand \in [Candidates -> CandidateRows]
    BY DEF TypeInv, TypeOK
  <2>4. sent \in BOOLEAN
    BY <2>2, <2>3 DEF CandidateRows, Exists
  <2>5. cand' = [cand EXCEPT ![req[a].cand].sent = sent]
    BY DEF MarkSent
  <2> HIDE DEF sent
  <2> QED BY <2>2, <2>3, <2>4, <2>5 DEF CandidateRows
<1> QED BY <1>1, <1>2, <1>3, RecruitmentTyped DEF MarkSent, TypeInv, TypeOK

LEMMA TypePublish ==
  ASSUME TypeInv, NEW a \in Actors, PublishNews(a) PROVE TypeInv'
<1>1. OffersKept
  BY UnchangedKept DEF PublishNews
<1>2. /\ Good(offer', [req[a] EXCEPT !.step = "mark"])
      /\ [cand |-> req[a].cand, terms |-> req[a].terms] \in Messages
  <2>1. Good(offer', req[a]) /\ req[a].step = "publish"
    BY DEF PublishNews, At, TypeInv
  <2> QED BY <2>1 DEF Good, Requests, Messages
<1>3. ReqTyped
  BY <1>1, <1>2, GoesTyped DEF PublishNews
<1>4. stream' \in Seq([msg : Messages, state : LetterStates, tries : Nat])
  <2> DEFINE L == [msg : Messages, state : LetterStates, tries : Nat]
             new == [msg |-> [cand |-> req[a].cand, terms |-> req[a].terms],
                     state |-> "waiting", tries |-> 0]
  <2>1. new \in L /\ stream \in Seq(L)
    BY <1>2 DEF LetterStates, TypeInv, TypeOK
  <2>2. stream' = Append(stream, new)
    BY DEF PublishNews, Emit
  <2> HIDE DEF L, new
  <2>3. stream' \in Seq(L)
    BY <2>1, <2>2
  <2> QED BY <2>3 DEF L
<1>5. DOMAIN stream \subseteq DOMAIN stream'
  <2>1. Len(stream') = Len(stream) + 1 /\ Len(stream) \in Nat
    BY DEF PublishNews, Emit, TypeInv, TypeOK
  <2>2. DOMAIN stream = 1..Len(stream) /\ DOMAIN stream' = 1..Len(stream')
    BY <1>4 DEF TypeInv, TypeOK
  <2> QED BY <2>1, <2>2
<1> QED BY <1>1, <1>3, <1>4, <1>5
        DEF PublishNews, TypeInv, TypeOK, OffersKept, ReqTyped, HrIdle, hr, ProcAt

LEMMA TypeTick ==
  ASSUME TypeInv, NEW k \in Actors, TickDaily(k) PROVE TypeInv'
<1> DEFINE r == IF PendingHiredEvents = {} THEN NoReq
                ELSE [NoReq EXCEPT !.op = "run", !.step = "next", !.todo = PendingHiredEvents]
<1>1. OffersKept
  <2>1. \A o \in Offers : [offer[o] EXCEPT !.status = "expired"] \in OfferRows
    BY DEF TypeInv, TypeOK, OfferRows, OfferStates
  <2> QED BY <2>1 DEF TickDaily, OffersKept, TypeInv, TypeOK, OfferRows, LapsedOffers, IsOfferOpen
<1>2. Good(offer', r)
  BY DEF Good, NoReq, Requests, PendingHiredEvents, Answers
<1>3. Holds(k, r)
  BY DEF TickDaily
<1> HIDE DEF r
<1>4. ReqTyped
  BY <1>1, <1>2, <1>3, HoldsTyped
<1> QED BY <1>1, <1>4, RecruitmentTyped DEF TickDaily, TypeInv, TypeOK

LEMMA TypeNextPending ==
  ASSUME TypeInv, NEW k \in Actors, NextPending(k) PROVE TypeInv'
<1>1. OffersKept
  BY UnchangedKept DEF NextPending
<1>2. PICK c \in req[k].todo :
        Holds(k, [req[k] EXCEPT !.step = "publish", !.cand = c, !.todo = @ \ {c},
                                !.terms = LatestAcceptedOffer(c)])
  BY DEF NextPending
<1> DEFINE r == [req[k] EXCEPT !.step = "publish", !.cand = c, !.todo = @ \ {c},
                               !.terms = LatestAcceptedOffer(c)]
<1>3. Good(offer', r)
  <2> DEFINE t == LatestAcceptedOffer(c)
             todo == req[k].todo \ {c}
  <2>1. /\ Good(offer', req[k]) /\ req[k].step = "next" /\ c \in Candidates
        /\ todo \in SUBSET Candidates
    BY DEF NextPending, At, TypeInv, Good, Requests
  <2>2. r = [req[k] EXCEPT !.step = "publish", !.cand = c, !.todo = todo, !.terms = t]
    BY <2>1 DEF Good, Requests
  <2>3. t \in Offers \cup {NoOffer}
    BY TermsType
  <2> HIDE DEF t, r, todo
  <2> QED BY <2>1, <2>2, <2>3, PublishGood
<1>4. Holds(k, r)
  BY <1>2
<1> HIDE DEF r
<1>5. ReqTyped
  BY <1>1, <1>3, <1>4, HoldsTyped
<1> QED BY <1>1, <1>5, RecruitmentTyped DEF NextPending, TypeInv, TypeOK

LEMMA TypeFails ==
  ASSUME TypeInv, NEW a \in Actors, RecruitmentFails(a) PROVE TypeInv'
<1>1. OffersKept
  BY UnchangedKept DEF RecruitmentFails
<1>2. ReqTyped
  BY <1>1, OverTyped, HoldsTyped, NoReqGood DEF RecruitmentFails
<1>3. faults' \in 0..MaxFaults
  BY HiresAssumption DEF RecruitmentFails, Fault, TypeInv, TypeOK
<1> QED BY <1>1, <1>2, <1>3, RecruitmentTyped DEF RecruitmentFails, TypeInv, TypeOK

-----------------------------------------------------------------------------
ProcsTyped ==
  /\ proc' \in [Workers \cup Clerks -> Processes]
  /\ \A w \in Workers : proc'[w].pc # "idle" => proc'[w].msg \in DOMAIN stream'
  /\ Roles(proc')

\* What a step of hr has to leave in order.
LEMMA HrTyped ==
  ASSUME TypeInv, RecruitingIdle, UNCHANGED incidents,
         emp' \in Seq(Employees), claims' \subseteq Candidates, told' \subseteq Candidates,
         ProcsTyped,
         stream' \in Seq([msg : Messages, state : LetterStates, tries : Nat]),
         ops' \in 0..MaxOps, faults' \in 0..MaxFaults
  PROVE  TypeInv'
BY DEF TypeInv, TypeOK, RecruitingIdle, recruiting, ProcAt, At, ProcsTyped

Letters == [msg : Messages, state : LetterStates, tries : Nat]

LEMMA StreamTyped == TypeInv => stream \in Seq(Letters) /\ DOMAIN stream = 1..Len(stream)
BY DEF TypeInv, TypeOK, Letters

\* The messages stay, and stay messages.
LEMMA DeliverTyped ==
  ASSUME TypeInv, NEW k \in DOMAIN stream, Deliver(k) \/ Ack(k) \/ Return(k)
  PROVE  /\ stream' \in Seq([msg : Messages, state : LetterStates, tries : Nat])
         /\ DOMAIN stream' = DOMAIN stream
         /\ \A j \in DOMAIN stream : stream'[j].msg = stream[j].msg
<1>1. stream \in Seq(Letters) /\ DOMAIN stream = 1..Len(stream) /\ stream[k] \in Letters
  BY StreamTyped
<1>2. PICK new \in Letters : stream' = [stream EXCEPT ![k] = new] /\ new.msg = stream[k].msg
  <2>1. CASE Deliver(k)
    <3>1. [stream[k] EXCEPT !.state = "out", !.tries = @ + 1] \in Letters
      <4> DEFINE n == stream[k].tries + 1
      <4>1. n \in Nat
        BY <1>1 DEF Letters
      <4> HIDE DEF n
      <4>2. [stream[k] EXCEPT !.state = "out", !.tries = n] \in Letters
        BY <1>1, <4>1 DEF Letters, LetterStates
      <4> QED BY <4>2 DEF n
    <3>2. stream' = [stream EXCEPT ![k] = [stream[k] EXCEPT !.state = "out", !.tries = @ + 1]]
      BY <2>1, <1>1 DEF Deliver
    <3> QED BY <1>1, <3>1, <3>2 DEF Letters
  <2>2. CASE Ack(k)
    <3>1. [stream[k] EXCEPT !.state = "acked"] \in Letters
      BY <1>1 DEF Letters, LetterStates
    <3> QED BY <2>2, <1>1, <3>1 DEF Ack, Letters
  <2>3. CASE Return(k)
    <3> DEFINE to == IF stream[k].state # "out" THEN stream[k].state
                     ELSE IF stream[k].tries < MaxDeliver THEN "waiting" ELSE "dropped"
    <3>1. to \in LetterStates
      BY <1>1 DEF Letters, LetterStates
    <3>2. stream' = [stream EXCEPT ![k].state = to]
      BY <2>3 DEF Return
    <3> HIDE DEF to
    <3>3. [stream[k] EXCEPT !.state = to] \in Letters
      BY <1>1, <3>1 DEF Letters
    <3> QED BY <1>1, <3>2, <3>3 DEF Letters
  <2> QED BY <2>1, <2>2, <2>3
<1>3. stream' \in Seq(Letters) /\ DOMAIN stream' = DOMAIN stream
  BY <1>1, <1>2
<1> QED BY <1>1, <1>2, <1>3 DEF Letters

LEMMA IdleProcess == Idle \in Processes
BY DEF Idle, Processes

LEMMA ProcTyped ==
  ASSUME TypeInv, DOMAIN stream' = DOMAIN stream, NEW x \in Parties, NEW p \in Processes,
         proc' = [proc EXCEPT ![x] = p],
         x \in Workers /\ p.pc # "idle" => p.msg \in DOMAIN stream,
         x \in Workers => p.pc \in {"idle", "hire", "ack"},
         x \in Clerks => p.pc \in {"idle", "insert"}
  PROVE  ProcsTyped
BY DEF TypeInv, TypeOK, Parties, ProcAt, ProcsTyped, Roles

LEMMA ProcsStay ==
  ASSUME TypeInv, DOMAIN stream' = DOMAIN stream, UNCHANGED proc PROVE ProcsTyped
BY DEF TypeInv, TypeOK, ProcAt, ProcsTyped, Roles

LEMMA TypeReceive ==
  ASSUME TypeInv, NEW w \in Workers, NEW k \in DOMAIN stream, Receive(w, k) PROVE TypeInv'
<1> DEFINE p == [Idle EXCEPT !.pc = "hire", !.msg = k, !.no = NextAutoNip]
<1>1. p \in Processes /\ p.msg = k /\ p.pc = "hire"
  <2>1. NextAutoNip \in Nat
    BY NumberType DEF TypeInv, TypeOK
  <2>2. k \in Nat
    BY StreamTyped
  <2> QED BY <2>1, <2>2 DEF Idle, Processes
<1>2. proc' = [proc EXCEPT ![w] = p] /\ w \in Parties /\ w \notin Clerks
  BY HiresAssumption DEF Receive, Parties
<1> HIDE DEF p
<1> QED BY <1>1, <1>2, DeliverTyped, ProcTyped, HrTyped DEF Receive, TypeInv, TypeOK

LEMMA RestsTyped ==
  ASSUME TypeInv, NEW x \in Parties, Rests(x), DOMAIN stream' = DOMAIN stream
  PROVE  ProcsTyped
BY IdleProcess, ProcTyped DEF Rests, Idle

LEMMA WorkerHolds ==
  ASSUME TypeInv, NEW w \in Workers, ~ProcAt(w, "idle")
  PROVE  /\ proc[w].msg \in DOMAIN stream /\ proc[w] \in Processes
         /\ Message(w) \in Messages
<1>1. proc[w].msg \in DOMAIN stream /\ proc[w] \in Processes
  BY DEF TypeInv, TypeOK
<1>2. stream[proc[w].msg] \in Letters
  BY <1>1, StreamTyped
<1> QED BY <1>1, <1>2 DEF Message, Letters

LEMMA AppendType ==
  ASSUME TypeInv, NEW e \in Employees
  PROVE  /\ Append(emp, e) \in Seq(Employees)
         /\ Len(emp) \in Nat /\ DOMAIN emp = 1..Len(emp)
         /\ Append(emp, e)[Len(emp) + 1] = e
         /\ DOMAIN Append(emp, e) = DOMAIN emp \cup {Len(emp) + 1}
         /\ \A n \in DOMAIN emp : Append(emp, e)[n] = emp[n]
<1>1. emp \in Seq(Employees)
  BY DEF TypeInv, TypeOK
<1>2. Len(Append(emp, e)) = Len(emp) + 1
  BY <1>1
<1>3. DOMAIN Append(emp, e) = 1..(Len(emp) + 1)
  BY <1>1, <1>2
<1> QED BY <1>1, <1>2, <1>3

LEMMA TypeHire ==
  ASSUME TypeInv, NEW w \in Workers, OnCandidateHired(w) PROVE TypeInv'
<1> DEFINE c == Message(w).cand
           new == NewEmployee(c, Message(w).terms, proc[w].no, Email[c])
           p == [proc[w] EXCEPT !.pc = "ack"]
<1>1. /\ proc[w].msg \in DOMAIN stream /\ proc[w] \in Processes
      /\ Message(w) \in Messages /\ w \in Parties /\ w \notin Clerks
  BY WorkerHolds, HiresAssumption DEF OnCandidateHired, ProcAt, Parties
<1>2. c \in Candidates /\ new \in Employees
  BY <1>1, HiresAssumption DEF Messages, NewEmployee, Employees, Processes
<1>3. p \in Processes /\ p.msg = proc[w].msg /\ p.pc = "ack"
  BY <1>1 DEF Processes
<1>4. emp' \in Seq(Employees)
  <2>1. emp' = emp \/ emp' = Append(emp, new)
    BY DEF OnCandidateHired
  <2> HIDE DEF new
  <2> QED BY <1>2, <2>1, AppendType DEF TypeInv, TypeOK
<1>5. claims' \subseteq Candidates /\ told' \subseteq Candidates
  BY <1>2 DEF OnCandidateHired, TypeInv, TypeOK
<1>6. \/ proc' = [proc EXCEPT ![w] = p] /\ stream' = stream
      \/ Rests(w) /\ Return(proc[w].msg)
  BY <1>1 DEF OnCandidateHired, TypeInv, TypeOK
<1> HIDE DEF p
<1>7. /\ stream' \in Seq([msg : Messages, state : LetterStates, tries : Nat])
      /\ DOMAIN stream' = DOMAIN stream
  BY <1>1, <1>6, DeliverTyped DEF TypeInv, TypeOK
<1>8. ProcsTyped
  BY <1>1, <1>3, <1>6, <1>7, RestsTyped, ProcTyped
<1>9. RecruitingIdle /\ UNCHANGED <<ops, faults, incidents>>
  BY DEF OnCandidateHired
<1> QED BY <1>4, <1>5, <1>7, <1>8, <1>9, HrTyped DEF TypeInv, TypeOK

LEMMA TypeAcknowledge ==
  ASSUME TypeInv, NEW w \in Workers, Acknowledge(w) PROVE TypeInv'
<1>1. proc[w].msg \in DOMAIN stream /\ w \in Parties
  BY WorkerHolds DEF Acknowledge, ProcAt, Parties
<1> QED BY <1>1, DeliverTyped, RestsTyped, HrTyped DEF Acknowledge, TypeInv, TypeOK

LEMMA FaultType == TypeInv /\ Fault => faults' \in 0..MaxFaults
BY HiresAssumption DEF TypeInv, TypeOK, Fault

LEMMA TypeHandlerFails ==
  ASSUME TypeInv, NEW x \in Parties, HandlerFails(x) PROVE TypeInv'
<1>1. /\ stream' \in Seq([msg : Messages, state : LetterStates, tries : Nat])
      /\ DOMAIN stream' = DOMAIN stream
  BY WorkerHolds, DeliverTyped DEF HandlerFails, TypeInv, TypeOK
<1> QED BY <1>1, RestsTyped, HrTyped, FaultType DEF HandlerFails, TypeInv, TypeOK

LEMMA TypeAckLate ==
  ASSUME TypeInv, NEW w \in Workers, AckLate(w) PROVE TypeInv'
<1>1. /\ stream' \in Seq([msg : Messages, state : LetterStates, tries : Nat])
      /\ DOMAIN stream' = DOMAIN stream
  BY WorkerHolds, DeliverTyped DEF AckLate
<1> QED BY <1>1, ProcsStay, HrTyped, FaultType DEF AckLate, TypeInv, TypeOK

LEMMA TypeCreate ==
  ASSUME TypeInv, NEW h \in Clerks, NEW e \in Emails, CreateEmployee(h, e) PROVE TypeInv'
<1> DEFINE p == [Idle EXCEPT !.pc = "insert", !.no = NextAutoNip, !.email = e]
<1>1. p \in Processes /\ p.pc = "insert"
  <2>1. NextAutoNip \in Nat
    BY NumberType DEF TypeInv, TypeOK
  <2> QED BY <2>1 DEF Idle, Processes
<1>2. proc' = [proc EXCEPT ![h] = p] /\ h \in Parties /\ h \notin Workers
  BY HiresAssumption DEF CreateEmployee, Parties
<1> HIDE DEF p
<1> QED BY <1>1, <1>2, ProcTyped, HrTyped, BeginType DEF CreateEmployee, TypeInv, TypeOK

LEMMA TypeInsertEmployee ==
  ASSUME TypeInv, NEW h \in Clerks, InsertEmployee(h) PROVE TypeInv'
<1> DEFINE new == NewEmployee(NoCandidate, NoOffer, proc[h].no, proc[h].email)
<1>1. h \in Parties /\ proc[h] \in Processes
  BY DEF Parties, TypeInv, TypeOK
<1>2. new \in Employees
  BY <1>1 DEF NewEmployee, Employees, Processes
<1>3. emp' \in Seq(Employees)
  <2>1. emp' = emp \/ emp' = Append(emp, new)
    BY DEF InsertEmployee
  <2> HIDE DEF new
  <2> QED BY <1>2, <2>1, AppendType DEF TypeInv, TypeOK
<1> QED BY <1>1, <1>3, RestsTyped, HrTyped DEF InsertEmployee, TypeInv, TypeOK

LEMMA TypeDismiss ==
  ASSUME TypeInv, NEW n \in DOMAIN emp, DeleteEmployee(n) PROVE TypeInv'
<1>1. emp' \in Seq(Employees)
  <2>1. emp \in Seq(Employees) /\ emp[n] \in Employees
    BY DEF TypeInv, TypeOK
  <2>2. [emp[n] EXCEPT !.present = FALSE] \in Employees
    BY <2>1 DEF Employees
  <2> QED BY <2>1, <2>2 DEF DeleteEmployee
<1> QED BY <1>1, ProcsStay, HrTyped, BeginType DEF DeleteEmployee, TypeInv, TypeOK

LEMMA TypeNext == TypeInv /\ [Next]_vars => TypeInv'
<1> SUFFICES ASSUME TypeInv, [Next]_vars PROVE TypeInv'
  OBVIOUS
<1>1. CASE RecruitmentRequest
  BY <1>1, TypeDelete, TypeLapse, TypeRequests DEF RecruitmentRequest
<1>2. CASE HrRequest
  BY <1>2, TypeDismiss, TypeCreate DEF HrRequest
<1>3. ASSUME NEW a \in Actors, RecruitmentStep(a) \/ RecruitmentFails(a) PROVE TypeInv'
  BY <1>3, TypeSetStage, TypeReplaceOpen, TypeInsertOffer, TypeSetExpired, TypeAnswer, TypeLook,
     TypeCompose, TypePublish, TypeMark, TypeNextPending, TypeFails DEF RecruitmentStep
<1>4. ASSUME NEW k \in Crons, TickDaily(k) PROVE TypeInv'
  BY <1>4, TypeTick DEF Actors
<1>5. ASSUME NEW w \in Workers, AckLate(w) \/ \E k \in DOMAIN stream : Receive(w, k) PROVE TypeInv'
  BY <1>5, TypeAckLate, TypeReceive
<1>6. ASSUME NEW x \in Parties, HrStep(x) \/ HandlerFails(x) PROVE TypeInv'
  <2>1. CASE HandlerFails(x)
    BY <2>1, TypeHandlerFails
  <2>2. CASE OnCandidateHired(x) \/ Acknowledge(x)
    <3>1. x \in Workers
      BY <2>2 DEF OnCandidateHired, Acknowledge, ProcAt, TypeInv, Roles, Parties
    <3> QED BY <2>2, <3>1, TypeHire, TypeAcknowledge
  <2>3. CASE InsertEmployee(x)
    <3>1. x \in Clerks
      BY <2>3 DEF InsertEmployee, ProcAt, TypeInv, Roles, Parties
    <3> QED BY <2>3, <3>1, TypeInsertEmployee
  <2> QED BY <1>6, <2>1, <2>2, <2>3 DEF HrStep
<1>7. CASE UNCHANGED vars
  BY <1>7 DEF vars, TypeInv, TypeOK, At, ProcAt
<1> QED BY <1>1, <1>2, <1>3, <1>4, <1>5, <1>6, <1>7 DEF Next, Actors, Parties

LEMMA TypeHolds == Spec => []TypeInv
BY TypeInit, TypeNext, PTL DEF Spec

\* The types of Hires. In particular the daily run never goes on with nothing left,
\* and what a handler works on is a message of the stream.
THEOREM Typing == Spec => []TypeOK
<1>1. TypeInv => TypeOK
  BY DEF TypeInv
<1> QED BY <1>1, TypeHolds, PTL

-----------------------------------------------------------------------------
(***************************************************************************)
(* Which steps change what.                                                *)
(***************************************************************************)
RecruitmentMoves ==
  \/ RecruitmentRequest
  \/ \E a \in Actors : RecruitmentStep(a) \/ RecruitmentFails(a)
  \/ \E k \in Crons : TickDaily(k)

HrMoves ==
  \/ HrRequest
  \/ \E w \in Workers : AckLate(w) \/ \E k \in DOMAIN stream : Receive(w, k)
  \/ \E x \in Parties : HrStep(x) \/ HandlerFails(x)

LEMMA Movers == [Next]_vars => RecruitmentMoves \/ HrMoves \/ UNCHANGED vars
BY DEF Next, RecruitmentMoves, HrMoves, Actors, Parties

LEMMA HrLeaves == HrMoves => RecruitingIdle /\ UNCHANGED incidents
BY DEF HrMoves, HrRequest, HrStep, AckLate, Receive, HandlerFails, OnCandidateHired, Acknowledge,
       InsertEmployee, DeleteEmployee, CreateEmployee

LEMMA RequestLeaves == RecruitmentRequest => HrIdle /\ UNCHANGED stream
BY DEF RecruitmentRequest, DeleteCandidate, Lapse, CreateOffer, MoveStage, VisitOffer,
       RespondOffer, RecordResponse

LEMMA StepLeaves == \A a : RecruitmentStep(a) \/ RecruitmentFails(a) => HrIdle
BY DEF RecruitmentStep, RecruitmentFails, SetStage, ReplaceOpen, InsertOffer, SetExpired,
       Answer, LookAtCandidate, ComposeNews, PublishNews, MarkSent, NextPending

LEMMA RecruitmentLeaves == RecruitmentMoves => HrIdle
BY RequestLeaves, StepLeaves DEF RecruitmentMoves, TickDaily

\* What happened is not forgotten.
LEMMA IncidentsGrow ==
  ASSUME TypeInv, [Next]_vars, NEW x \in Candidates \cup Offers
  PROVE  incidents[x] \subseteq incidents'[x]
<1>1. \A y, what : incidents[x] \subseteq Noted(y, what)[x]
  BY DEF Noted, TypeInv, TypeOK
<1>2. CASE RecruitmentRequest
  BY <1>1, <1>2 DEF RecruitmentRequest, DeleteCandidate, Lapse, CreateOffer, MoveStage, VisitOffer,
                    RespondOffer, RecordResponse
<1>3. ASSUME NEW a \in Actors, RecruitmentStep(a) PROVE incidents[x] \subseteq incidents'[x]
  BY <1>1, <1>3 DEF RecruitmentStep, SetStage, ReplaceOpen, InsertOffer, SetExpired, Answer,
                    LookAtCandidate, ComposeNews, PublishNews, MarkSent, NextPending
<1>4. ASSUME NEW a \in Actors, RecruitmentFails(a) PROVE incidents[x] \subseteq incidents'[x]
  BY <1>4 DEF RecruitmentFails
<1>5. CASE \E k \in Crons : TickDaily(k)
  BY <1>5 DEF TickDaily
<1> QED BY <1>2, <1>3, <1>4, <1>5, Movers, HrLeaves DEF RecruitmentMoves, vars

LEMMA EmployeesBy ==
  ASSUME TypeInv, [Next]_vars
  PROVE  \/ UNCHANGED <<emp, claims>>
         \/ \E w \in Workers : OnCandidateHired(w)
         \/ \E h \in Clerks : InsertEmployee(h)
         \/ \E n \in DOMAIN emp : DeleteEmployee(n)
<1>1. CASE HrMoves
  <2>1. ASSUME NEW x \in Parties, HrStep(x)
        PROVE  \/ UNCHANGED <<emp, claims>>
               \/ \E w \in Workers : OnCandidateHired(w)
               \/ \E h \in Clerks : InsertEmployee(h)
    <3>1. OnCandidateHired(x) => x \in Workers
      BY DEF OnCandidateHired, ProcAt, TypeInv, Roles, Parties
    <3>2. InsertEmployee(x) => x \in Clerks
      BY DEF InsertEmployee, ProcAt, TypeInv, Roles, Parties
    <3> QED BY <2>1, <3>1, <3>2 DEF HrStep, Acknowledge
  <2> QED BY <1>1, <2>1 DEF HrMoves, HrRequest, CreateEmployee, AckLate, Receive, HandlerFails
<1> QED BY <1>1, Movers, RecruitmentLeaves DEF HrIdle, hr, vars

-----------------------------------------------------------------------------
(***************************************************************************)
(* The claim on a candidate and the employee are made together, and nobody *)
(* is made an employee of a candidate claimed already.                     *)
(***************************************************************************)
OnceInv ==
  /\ \A m, n \in DOMAIN emp :
       emp[m].from \in Candidates /\ emp[m].from = emp[n].from => m = n
  /\ \A c \in Candidates : c \in claims <=> \E n \in DOMAIN emp : emp[n].from = c

LEMMA OnceNext == TypeInv /\ OnceInv /\ [Next]_vars => OnceInv'
<1> SUFFICES ASSUME TypeInv, OnceInv, [Next]_vars PROVE OnceInv'
  OBVIOUS
<1>1. CASE UNCHANGED <<emp, claims>>
  BY <1>1 DEF OnceInv
<1>2. ASSUME NEW e \in Employees, emp' = Append(emp, e),
             \/ e.from \notin Candidates /\ claims' = claims
             \/ e.from \notin claims /\ claims' = claims \cup {e.from}
      PROVE  OnceInv'
  <2> DEFINE new == Len(emp) + 1
  <2>1. /\ DOMAIN emp' = DOMAIN emp \cup {new} /\ emp'[new] = e
        /\ \A n \in DOMAIN emp : emp'[n] = emp[n]
    BY <1>2, AppendType
  <2> HIDE DEF new
  <2> QED BY <1>2, <2>1 DEF OnceInv
<1>3. ASSUME NEW w \in Workers, OnCandidateHired(w) PROVE OnceInv'
  <2> DEFINE e == NewEmployee(Message(w).cand, Message(w).terms, proc[w].no, Email[Message(w).cand])
  <2>1. Message(w) \in Messages /\ proc[w] \in Processes
    BY <1>3, WorkerHolds DEF OnCandidateHired, ProcAt
  <2>2. e \in Employees /\ e.from = Message(w).cand
    BY <2>1, HiresAssumption DEF Messages, NewEmployee, Employees, Processes
  <2>3. \/ UNCHANGED <<emp, claims>>
        \/ /\ Message(w).cand \notin claims /\ emp' = Append(emp, e)
           /\ claims' = claims \cup {Message(w).cand}
    BY <1>3 DEF OnCandidateHired, Seen
  <2> HIDE DEF e
  <2> QED BY <1>1, <1>2, <2>2, <2>3
<1>4. ASSUME NEW h \in Clerks, InsertEmployee(h) PROVE OnceInv'
  <2> DEFINE e == NewEmployee(NoCandidate, NoOffer, proc[h].no, proc[h].email)
  <2>1. e \in Employees /\ e.from = NoCandidate
    BY DEF NewEmployee, Employees, Processes, TypeInv, TypeOK
  <2>2. (emp' = emp \/ emp' = Append(emp, e)) /\ claims' = claims
    BY <1>4 DEF InsertEmployee
  <2> HIDE DEF e
  <2> QED BY <1>1, <1>2, <2>1, <2>2, HiresAssumption
<1>5. ASSUME NEW n \in DOMAIN emp, DeleteEmployee(n) PROVE OnceInv'
  <2>1. DOMAIN emp' = DOMAIN emp /\ \A m \in DOMAIN emp : emp'[m].from = emp[m].from
    <3>1. emp[n] \in Employees
      BY DEF TypeInv, TypeOK
    <3> QED BY <1>5, <3>1 DEF DeleteEmployee, Employees, TypeInv, TypeOK
  <2>2. claims' = claims
    BY <1>5 DEF DeleteEmployee
  <2> QED BY <2>1, <2>2 DEF OnceInv
<1> QED BY <1>1, <1>3, <1>4, <1>5, EmployeesBy

LEMMA AtMostOne ==
  ASSUME NEW S, \A x, y \in S : x = y PROVE Cardinality(S) <= 1
<1>1. CASE S = {}
  BY <1>1, FS_EmptySet
<1>2. ASSUME NEW x \in S PROVE Cardinality(S) <= 1
  <2>1. S = {x}
    OBVIOUS
  <2> QED BY <2>1, FS_Singleton
<1> QED BY <1>1, <1>2

\* However often the news of a hire is sent, delivered or handled, and however many
\* candidates and handlers there are, a candidate is made an employee once at most.
THEOREM OnceHolds == Spec => []EmployedOnce
<1>1. Init => OnceInv
  BY DEF Init, OnceInv
<1>2. OnceInv => EmployedOnce
  <2> SUFFICES ASSUME OnceInv, NEW c \in Candidates
               PROVE LET made == {n \in DOMAIN emp : emp[n].from = c}
                     IN  Cardinality(made) <= 1 /\ (c \in claims <=> made # {})
    BY DEF EmployedOnce
  <2> DEFINE made == {n \in DOMAIN emp : emp[n].from = c}
  <2>1. \A m, n \in made : m = n
    BY DEF OnceInv
  <2>2. c \in claims <=> made # {}
    BY DEF OnceInv
  <2> HIDE DEF made
  <2>3. Cardinality(made) <= 1
    BY <2>1, AtMostOne
  <2> QED BY <2>2, <2>3 DEF made
<1> QED BY <1>1, <1>2, OnceNext, TypeHolds, PTL DEF Spec

-----------------------------------------------------------------------------
(***************************************************************************)
(* A new offer: the rows its transaction updated are open and its own till *)
(* it commits.                                                             *)
(***************************************************************************)
HeldInv ==
  /\ \A k \in Crons : req[k].op # "offer"
  /\ \A a \in Staff : At(a, "insert") => \A x \in req[a].rows : IsOfferOpen(offer[x].status)
  /\ \A a, b \in Staff : At(a, "insert") /\ At(b, "insert") /\ a # b =>
       req[a].rows \cap req[b].rows = {}

\* Only a step of its own puts an actor before another's rows.
OffersGoOn == \A a \in Actors : req'[a].op = "offer" => req'[a] = req[a]

LEMMA OthersWait ==
  ASSUME TypeInv, NEW a \in Actors, NEW r, Holds(a, r)
  PROVE  req'[a] = r /\ \A b \in Actors : b # a => req'[b] = req[b]
BY DEF TypeInv, TypeOK, Holds, Actors

LEMMA OverMoves ==
  ASSUME TypeInv, NEW a \in Actors, Over(a)
  PROVE  /\ req'[a].op # "offer"
         /\ req'[a].todo = req[a].todo /\ req'[a].step \in {"idle", "next"}
         /\ \A b \in Actors : b # a => req'[b] = req[b]
<1> DEFINE r == IF req[a].todo = {} THEN NoReq
                ELSE [NoReq EXCEPT !.op = "run", !.step = "next", !.todo = req[a].todo]
<1>1. r.op # "offer" /\ r.todo = req[a].todo /\ r.step \in {"idle", "next"}
  BY DEF NoReq
<1>2. Holds(a, r)
  BY DEF Over
<1> HIDE DEF r
<1> QED BY <1>1, <1>2, OthersWait

LEMMA GoesMoves ==
  ASSUME TypeInv, NEW a \in Actors, NEW step, Goes(a, step)
  PROVE  /\ req'[a] = [req[a] EXCEPT !.step = step]
         /\ req'[a].op = req[a].op /\ req'[a].step = step /\ req'[a].cand = req[a].cand
         /\ req'[a].todo = req[a].todo /\ req'[a].terms = req[a].terms
         /\ \A b \in Actors : b # a => req'[b] = req[b]
<1>1. req[a] \in Requests
  BY DEF TypeInv, TypeOK, Actors
<1>2. Holds(a, [req[a] EXCEPT !.step = step])
  BY DEF Goes, Holds, TypeInv, TypeOK, Actors
<1> QED BY <1>1, <1>2, OthersWait DEF Requests

LEMMA GoesOn ==
  ASSUME TypeInv, NEW a \in Actors, Goes(a, "look") PROVE ~Over(a)
<1>1. req'[a].step = "look"
  BY GoesMoves
<1>2. Over(a) => req'[a].step \in {"idle", "next"}
  BY OverMoves
<1> QED BY <1>1, <1>2

LEMMA ComposeMoves ==
  ASSUME TypeInv, NEW a \in Actors, ComposeNews(a)
  PROVE  /\ req'[a].op = req[a].op /\ req'[a].step = "publish" /\ req'[a].cand = req[a].cand
         /\ req'[a].todo = req[a].todo /\ req'[a].terms = LatestAcceptedOffer(req[a].cand)
         /\ \A b \in Actors : b # a => req'[b] = req[b]
<1> DEFINE t == LatestAcceptedOffer(req[a].cand)
           r == [req[a] EXCEPT !.step = "publish", !.terms = t]
<1>1. req[a] \in Requests
  BY DEF TypeInv, TypeOK, Actors
<1> HIDE DEF t
<1>2. /\ r.op = req[a].op /\ r.step = "publish" /\ r.cand = req[a].cand
      /\ r.todo = req[a].todo /\ r.terms = t
  BY <1>1 DEF Requests
<1>3. Holds(a, r)
  BY DEF ComposeNews, Holds, TypeInv, TypeOK, Actors, t
<1> HIDE DEF r
<1> QED BY <1>2, <1>3, OthersWait DEF t

LEMMA PendingMoves ==
  ASSUME TypeInv, NEW a \in Actors, NextPending(a)
  PROVE  /\ req'[a].op = req[a].op /\ req'[a].step = "publish" /\ req'[a].cand \in req[a].todo
         /\ req'[a].todo \subseteq req[a].todo
         /\ req'[a].terms = LatestAcceptedOffer(req'[a].cand)
         /\ \A b \in Actors : b # a => req'[b] = req[b]
<1>1. PICK c \in req[a].todo :
        Holds(a, [req[a] EXCEPT !.step = "publish", !.cand = c, !.todo = @ \ {c},
                                !.terms = LatestAcceptedOffer(c)])
  BY DEF NextPending
<1> DEFINE t == LatestAcceptedOffer(c)
           todo == req[a].todo \ {c}
           r == [req[a] EXCEPT !.step = "publish", !.cand = c, !.todo = todo, !.terms = t]
<1>2. req[a] \in Requests
  BY DEF TypeInv, TypeOK, Actors
<1>3. Holds(a, r)
  BY <1>1, <1>2 DEF Requests
<1> HIDE DEF t, todo
<1>4. r.op = req[a].op /\ r.step = "publish" /\ r.cand = c /\ r.todo = todo /\ r.terms = t
  BY <1>2 DEF Requests
<1> HIDE DEF r
<1>5. req'[a] = r /\ \A b \in Actors : b # a => req'[b] = req[b]
  BY <1>3, OthersWait
<1> QED BY <1>4, <1>5 DEF t, todo

\* How the requests of people, and the daily run, begin.
Begun(a, op, step) ==
  /\ req'[a].op = op /\ req'[a].step = step
  /\ \A b \in Actors : b # a => req'[b] = req[b]

LEMMA RequestsBegin ==
  ASSUME TypeInv, NEW a \in Staff
  PROVE  /\ \A c, to : MoveStage(a, c, to) => Begun(a, "move", "stage") /\ req'[a].todo = {}
         /\ \A c : CreateOffer(a, c) => /\ Begun(a, "offer", "replace") /\ req'[a].todo = {}
                                        /\ req'[a].cand = c /\ req'[a].rows = Replaced(c)
         /\ \A o : VisitOffer(a, o) => Begun(a, "visit", "expire") /\ req'[a].todo = {}
         /\ \A o, w : RespondOffer(a, o, w) => Begun(a, "respond", "answer") /\ req'[a].todo = {}
         /\ \A o, w : RecordResponse(a, o, w) => Begun(a, "record", "answer") /\ req'[a].todo = {}
<1>a. a \in Actors
  BY DEF Actors
<1>1. ASSUME NEW c, NEW to, MoveStage(a, c, to)
      PROVE  Begun(a, "move", "stage") /\ req'[a].todo = {}
  <2> DEFINE r == [NoReq EXCEPT !.op = "move", !.step = "stage", !.cand = c, !.word = to]
  <2>1. r.op = "move" /\ r.step = "stage" /\ r.todo = {} /\ Holds(a, r)
    BY <1>1 DEF MoveStage, NoReq
  <2> HIDE DEF r
  <2> QED BY <1>a, <2>1, OthersWait DEF Begun
<1>2. ASSUME NEW c, CreateOffer(a, c)
      PROVE  /\ Begun(a, "offer", "replace") /\ req'[a].todo = {}
             /\ req'[a].cand = c /\ req'[a].rows = Replaced(c)
  <2> DEFINE r == [NoReq EXCEPT !.op = "offer", !.step = "replace", !.cand = c, !.rows = Replaced(c)]
  <2>1. /\ r.op = "offer" /\ r.step = "replace" /\ r.todo = {} /\ r.cand = c
        /\ r.rows = Replaced(c) /\ Holds(a, r)
    BY <1>2 DEF CreateOffer, NoReq
  <2> HIDE DEF r
  <2> QED BY <1>a, <2>1, OthersWait DEF Begun
<1>3. ASSUME NEW o, VisitOffer(a, o) PROVE Begun(a, "visit", "expire") /\ req'[a].todo = {}
  <2> DEFINE r == [NoReq EXCEPT !.op = "visit", !.step = "expire", !.offer = o]
  <2>1. r.op = "visit" /\ r.step = "expire" /\ r.todo = {} /\ Holds(a, r)
    BY <1>3 DEF VisitOffer, NoReq
  <2> HIDE DEF r
  <2> QED BY <1>a, <2>1, OthersWait DEF Begun
<1>4. ASSUME NEW o, NEW w, NEW op, Holds(a, [NoReq EXCEPT !.op = op, !.step = "answer",
                                             !.cand = offer[o].cand, !.offer = o, !.word = w])
      PROVE  Begun(a, op, "answer") /\ req'[a].todo = {}
  <2> DEFINE r == [NoReq EXCEPT !.op = op, !.step = "answer", !.cand = offer[o].cand,
                                !.offer = o, !.word = w]
  <2>1. r.op = op /\ r.step = "answer" /\ r.todo = {} /\ Holds(a, r)
    BY <1>4 DEF NoReq
  <2> HIDE DEF r
  <2> QED BY <1>a, <2>1, OthersWait DEF Begun
<1> QED BY <1>1, <1>2, <1>3, <1>4 DEF RespondOffer, RecordResponse

LEMMA TickMoves ==
  ASSUME TypeInv, NEW k \in Crons, TickDaily(k)
  PROVE  /\ req'[k].op # "offer" /\ req'[k].step \in {"idle", "next"}
         /\ req'[k].todo = PendingHiredEvents
         /\ \A b \in Actors : b # k => req'[b] = req[b]
<1> DEFINE r == IF PendingHiredEvents = {} THEN NoReq
                ELSE [NoReq EXCEPT !.op = "run", !.step = "next", !.todo = PendingHiredEvents]
<1>1. r.op # "offer" /\ r.todo = PendingHiredEvents /\ r.step \in {"idle", "next"}
  BY DEF NoReq
<1>2. Holds(k, r) /\ k \in Actors
  BY DEF TickDaily, Actors
<1> HIDE DEF r
<1> QED BY <1>1, <1>2, OthersWait

LEMMA FailsMoves ==
  ASSUME TypeInv, NEW a \in Actors, RecruitmentFails(a)
  PROVE  /\ req'[a].op # "offer" /\ req'[a].step \in {"idle", "next"}
         /\ req'[a].todo \subseteq req[a].todo
         /\ \A b \in Actors : b # a => req'[b] = req[b]
<1>1. CASE Over(a)
  BY <1>1, OverMoves
<1>2. CASE Holds(a, NoReq)
  BY <1>2, OthersWait DEF NoReq
<1> QED BY <1>1, <1>2 DEF RecruitmentFails

LEMMA RevisionsBy ==
  ASSUME TypeInv, [Next]_vars
  PROVE  \/ OffersGoOn
         \/ \E a \in Staff, c \in Candidates : CreateOffer(a, c)
         \/ \E a \in Actors : ReplaceOpen(a)
<1>1. CASE UNCHANGED req
  BY <1>1 DEF OffersGoOn
<1>2. ASSUME NEW a \in Actors, req'[a].op # "offer", \A b \in Actors : b # a => req'[b] = req[b]
      PROVE  OffersGoOn
  BY <1>2 DEF OffersGoOn
<1>3. CASE RecruitmentRequest
  <2>1. ASSUME NEW a \in Staff, NEW op, NEW step, Begun(a, op, step), op # "offer" PROVE OffersGoOn
    BY <1>2, <2>1 DEF Begun, Actors
  <2> QED BY <1>1, <1>3, <2>1, RequestsBegin DEF RecruitmentRequest, DeleteCandidate, Lapse
<1>4. ASSUME NEW a \in Actors, RecruitmentStep(a), ~ReplaceOpen(a) PROVE OffersGoOn
  <2>1. Good(offer, req[a])
    BY DEF TypeInv
  <2>2. req[a].step \in {"stage", "answer", "look", "compose", "publish", "next"}
          => req[a].op # "offer"
    BY <2>1 DEF Good
  <2>3. ASSUME NEW step, Goes(a, step), req[a].op # "offer" PROVE OffersGoOn
    BY <1>2, <2>3, GoesMoves
  <2>4. CASE Over(a)
    BY <1>2, <2>4, OverMoves
  <2>5. CASE ComposeNews(a)
    <3>1. /\ req'[a].op = req[a].op /\ \A b \in Actors : b # a => req'[b] = req[b]
      BY <2>5, ComposeMoves
    <3> QED BY <1>2, <2>2, <2>5, <3>1 DEF ComposeNews, At
  <2>6. CASE NextPending(a)
    <3>1. /\ req'[a].op = req[a].op /\ \A b \in Actors : b # a => req'[b] = req[b]
      BY <2>6, PendingMoves
    <3> QED BY <1>2, <2>2, <2>6, <3>1 DEF NextPending, At
  <2> QED BY <1>4, <2>2, <2>3, <2>4, <2>5, <2>6
          DEF RecruitmentStep, SetStage, InsertOffer, SetExpired, Answer, LookAtCandidate,
              PublishNews, MarkSent, At
<1>5. ASSUME NEW a \in Actors, RecruitmentFails(a) PROVE OffersGoOn
  BY <1>2, <1>5, FailsMoves
<1>6. ASSUME NEW k \in Crons, TickDaily(k) PROVE OffersGoOn
  BY <1>2, <1>6, TickMoves DEF Actors
<1> QED BY <1>1, <1>3, <1>4, <1>5, <1>6, Movers, HrLeaves
        DEF RecruitmentMoves, RecruitingIdle, recruiting, vars, RecruitmentRequest

\* What becomes of one offer in one step.
OfferMoves(o) ==
  \/ offer'[o].status = offer[o].status
  \/ /\ offer[o].status = "NONE" /\ offer'[o].status = "sent"
     /\ \E a \in Staff : InsertOffer(a) /\ offer'[o].cand = req[a].cand /\ Exists(req[a].cand)
  \/ \E c \in Candidates : DeleteCandidate(c) /\ offer[o].cand = c /\ offer'[o].status = "GONE"
  \/ /\ IsOfferOpen(offer[o].status) /\ offer'[o].status = "expired"
     /\ \/ \E a \in Staff : InsertOffer(a) /\ o \in req[a].rows
        \/ \E k \in Crons : TickDaily(k) /\ ~Locked(o)
  \/ \E a \in Actors : SetExpired(a) /\ req[a].offer = o /\ ~Locked(o)
  \/ \E a \in Actors : /\ Answer(a) /\ req[a].offer = o /\ ~Locked(o)
                       /\ StillAnswerable(req[a].op, o) /\ offer'[o].status = req[a].word

LEMMA OffersBy ==
  ASSUME [Next]_vars
  PROVE  \/ UNCHANGED offer
         \/ \E c \in Candidates : DeleteCandidate(c)
         \/ \E o \in Offers : Lapse(o)
         \/ \E a \in Actors : InsertOffer(a) \/ SetExpired(a) \/ Answer(a)
         \/ \E k \in Crons : TickDaily(k)
<1>1. CASE RecruitmentRequest
  BY <1>1 DEF RecruitmentRequest, CreateOffer, MoveStage, VisitOffer, RespondOffer, RecordResponse
<1>2. ASSUME NEW a \in Actors, RecruitmentStep(a) \/ RecruitmentFails(a)
      PROVE  UNCHANGED offer \/ InsertOffer(a) \/ SetExpired(a) \/ Answer(a)
  BY <1>2 DEF RecruitmentStep, RecruitmentFails, SetStage, ReplaceOpen, LookAtCandidate,
              ComposeNews, PublishNews, MarkSent, NextPending
<1> QED BY <1>1, <1>2, Movers, HrLeaves DEF RecruitmentMoves, RecruitingIdle, recruiting, vars

LEMMA InsertsAreStaff ==
  ASSUME TypeInv, HeldInv, NEW a \in Actors, At(a, "insert") PROVE a \in Staff
BY DEF TypeInv, Good, HeldInv, At, Actors

LEMMA OffersMove ==
  ASSUME TypeInv, HeldInv, [Next]_vars, NEW o \in Offers
  PROVE  /\ OfferMoves(o)
         /\ offer[o].status # "NONE" =>
              /\ offer'[o].version = offer[o].version /\ offer'[o].cand = offer[o].cand
              /\ offer[o].lapsed => offer'[o].lapsed
<1> DEFINE Kept == /\ offer'[o].version = offer[o].version /\ offer'[o].cand = offer[o].cand
                   /\ offer[o].lapsed => offer'[o].lapsed
<1>0. offer \in [Offers -> OfferRows] /\ offer[o] \in OfferRows
  BY DEF TypeInv, TypeOK
<1>a. ASSUME NEW status, offer'[o] = [offer[o] EXCEPT !.status = status]
      PROVE  Kept /\ offer'[o].status = status
  BY <1>0, <1>a DEF OfferRows
<1>1. CASE offer'[o] = offer[o]
  BY <1>1 DEF OfferMoves
<1>2. ASSUME NEW c \in Candidates, DeleteCandidate(c) PROVE OfferMoves(o) /\ Kept
  <2>1. CASE o \in OffersOf(c)
    <3>1. offer'[o] = [offer[o] EXCEPT !.status = "GONE"] /\ offer[o].cand = c
      BY <1>2, <2>1 DEF DeleteCandidate, OffersOf
    <3> QED BY <1>2, <1>a, <3>1 DEF OfferMoves
  <2> QED BY <1>1, <1>2, <2>1 DEF DeleteCandidate
<1>3. ASSUME NEW p \in Offers, Lapse(p) PROVE OfferMoves(o) /\ Kept
  <2>1. offer'[o] = offer[o] \/ offer'[o] = [offer[o] EXCEPT !.lapsed = TRUE]
    BY <1>0, <1>3 DEF Lapse
  <2> QED BY <1>0, <1>1, <2>1 DEF OfferMoves, OfferRows
<1>4. ASSUME NEW a \in Actors, InsertOffer(a)
      PROVE  OfferMoves(o) /\ (offer[o].status # "NONE" => Kept)
  <2>1. a \in Staff /\ \A x \in req[a].rows : IsOfferOpen(offer[x].status)
    BY <1>4, InsertsAreStaff DEF InsertOffer, HeldInv
  <2>2. (CHOOSE x \in Unused : TRUE) \in Unused
    BY <1>4 DEF InsertOffer
  <2>3. \/ offer'[o] = offer[o]
        \/ /\ offer[o].status = "NONE" /\ offer'[o].status = "sent"
           /\ offer'[o].cand = req[a].cand /\ Exists(req[a].cand)
        \/ offer'[o] = [offer[o] EXCEPT !.status = "expired"] /\ o \in req[a].rows
    BY <1>4, <2>2 DEF InsertOffer, Unused
  <2>4. CASE /\ offer[o].status = "NONE" /\ offer'[o].status = "sent"
             /\ offer'[o].cand = req[a].cand /\ Exists(req[a].cand)
    BY <1>4, <2>1, <2>4 DEF OfferMoves
  <2>5. CASE offer'[o] = [offer[o] EXCEPT !.status = "expired"] /\ o \in req[a].rows
    <3>1. Kept /\ offer'[o].status = "expired" /\ IsOfferOpen(offer[o].status)
      BY <1>a, <2>1, <2>5
    <3> QED BY <1>4, <2>1, <2>5, <3>1 DEF OfferMoves
  <2> QED BY <1>1, <2>3, <2>4, <2>5
<1>5. ASSUME NEW a \in Actors, SetExpired(a) PROVE OfferMoves(o) /\ Kept
  <2>1. CASE req[a].offer = o
    <3>1. OfferMoves(o)
      BY <1>5, <2>1 DEF OfferMoves, SetExpired
    <3>2. offer'[o] = offer[o] \/ offer'[o] = [offer[o] EXCEPT !.status = "expired"]
      BY <1>0, <1>5, <2>1 DEF SetExpired
    <3> QED BY <1>1, <1>a, <3>1, <3>2
  <2>2. CASE req[a].offer # o
    BY <1>0, <1>1, <1>5, <2>2 DEF SetExpired
  <2> QED BY <2>1, <2>2
<1>6. ASSUME NEW a \in Actors, Answer(a) PROVE OfferMoves(o) /\ Kept
  <2>1. CASE req[a].offer = o /\ StillAnswerable(req[a].op, o)
    <3>1. offer'[o] = [offer[o] EXCEPT !.status = req[a].word] /\ ~Locked(o)
      BY <1>0, <1>6, <2>1 DEF Answer
    <3> QED BY <1>6, <1>a, <2>1, <3>1 DEF OfferMoves
  <2>2. CASE ~(req[a].offer = o /\ StillAnswerable(req[a].op, o))
    <3>1. offer'[o] = offer[o]
      BY <1>0, <1>6, <2>2 DEF Answer
    <3> QED BY <1>1, <3>1
  <2> QED BY <2>1, <2>2
<1>7. ASSUME NEW k \in Crons, TickDaily(k) PROVE OfferMoves(o) /\ Kept
  <2>1. CASE o \in LapsedOffers
    <3>1. /\ offer'[o] = [offer[o] EXCEPT !.status = "expired"] /\ ~Locked(o)
          /\ IsOfferOpen(offer[o].status)
      BY <1>7, <2>1 DEF TickDaily, LapsedOffers
    <3> QED BY <1>7, <1>a, <3>1 DEF OfferMoves
  <2> QED BY <1>1, <1>7, <2>1 DEF TickDaily
<1> QED BY <1>1, <1>2, <1>3, <1>4, <1>5, <1>6, <1>7, OffersBy

LEMMA ReplaceMoves ==
  ASSUME TypeInv, NEW a \in Actors, ReplaceOpen(a)
  PROVE  /\ req[a].op = "offer" /\ req'[a].op = "offer"
         /\ req'[a].step = "insert" /\ req'[a].cand = req[a].cand /\ req'[a].todo = req[a].todo
         /\ req'[a].rows = req[a].rows \cap OpenOf(req[a].cand)
         /\ \A b \in Actors : b # a => req'[b] = req[b]
<1> DEFINE rows == req[a].rows \cap OpenOf(req[a].cand)
           v == NextOfferVersion(req[a].cand)
           r == [req[a] EXCEPT !.step = "insert", !.rows = rows, !.version = v]
<1>1. req[a] \in Requests /\ req[a].op = "offer"
  BY DEF TypeInv, TypeOK, Actors, Good, ReplaceOpen, At
<1>2. Holds(a, r)
  BY <1>1 DEF ReplaceOpen, Requests
<1> HIDE DEF rows, v
<1>3. /\ r.op = "offer" /\ r.step = "insert" /\ r.cand = req[a].cand /\ r.rows = rows
      /\ r.todo = req[a].todo
  BY <1>1 DEF Requests
<1> HIDE DEF r
<1> QED BY <1>1, <1>2, <1>3, OthersWait DEF rows

LEMMA InsertMoves ==
  ASSUME TypeInv, NEW a \in Actors, InsertOffer(a)
  PROVE  /\ req'[a].op # "offer"
         /\ \/ UNCHANGED offer
            \/ \E n \in Unused : \A x \in Offers :
                 offer'[x] = IF x = n THEN [cand |-> req[a].cand, version |-> req[a].version,
                                            status |-> "sent", lapsed |-> FALSE]
                             ELSE IF x \in req[a].rows THEN [offer[x] EXCEPT !.status = "expired"]
                             ELSE offer[x]
<1>1. (CHOOSE x \in Unused : TRUE) \in Unused
  BY DEF InsertOffer
<1> QED BY <1>1, OverMoves DEF InsertOffer

LEMMA HeldNext == TypeInv /\ TypeInv' /\ HeldInv /\ [Next]_vars => HeldInv'
<1> SUFFICES ASSUME TypeInv, TypeInv', HeldInv, [Next]_vars PROVE HeldInv'
  OBVIOUS
<1>a. \A a \in Actors : req'[a].step = "insert" => req'[a].op = "offer"
  BY DEF TypeInv, Good
<1>b. Staff \subseteq Actors /\ Crons \subseteq Actors /\ Staff \cap Crons = {}
  BY HiresAssumption DEF Actors
<1>1. CASE OffersGoOn
  <2>1. ASSUME NEW a \in Staff, req'[a].step = "insert", NEW x \in req'[a].rows
        PROVE  IsOfferOpen(offer'[x].status)
    <3>1. req'[a] = req[a] /\ At(a, "insert")
      BY <1>1, <1>a, <1>b, <2>1 DEF OffersGoOn, At
    <3>2. x \in Offers /\ IsOfferOpen(offer[x].status) /\ Locked(x)
      BY <2>1, <3>1 DEF HeldInv, Locked, At, TypeInv, TypeOK, Requests
    <3>4. OfferMoves(x)
      BY <3>2, OffersMove
    <3>5. ASSUME NEW c \in Candidates, DeleteCandidate(c), offer[x].cand = c PROVE FALSE
      BY <3>2, <3>5 DEF DeleteCandidate, OffersOf, IsOfferOpen
    <3>6. ASSUME NEW b \in Staff, InsertOffer(b), x \in req[b].rows PROVE FALSE
      <4>1. b = a
        BY <2>1, <3>1, <3>6 DEF HeldInv, InsertOffer, At
      <4> QED BY <1>a, <1>b, <2>1, <3>6, <4>1, InsertMoves
    <3> QED BY <3>2, <3>4, <3>5, <3>6 DEF OfferMoves, IsOfferOpen
  <2> QED BY <1>1, <1>a, <1>b, <2>1 DEF HeldInv, OffersGoOn, At
<1>2. ASSUME NEW a \in Staff, NEW c \in Candidates, CreateOffer(a, c) PROVE HeldInv'
  <2>1. Begun(a, "offer", "replace") /\ UNCHANGED offer
    BY <1>2, RequestsBegin DEF CreateOffer
  <2> QED BY <1>b, <2>1 DEF HeldInv, Begun, At
<1>3. ASSUME NEW a \in Actors, ReplaceOpen(a) PROVE HeldInv'
  <2>1. /\ req[a].op = "offer" /\ req'[a].rows = req[a].rows \cap OpenOf(req[a].cand)
        /\ req'[a].step = "insert"
        /\ \A b \in Actors : b # a => req'[b] = req[b]
    BY <1>3, ReplaceMoves
  <2>2. a \in Staff
    BY <2>1 DEF HeldInv, Actors
  <2>3. \A x \in req'[a].rows : ~Locked(x) /\ IsOfferOpen(offer[x].status)
    BY <1>3, <2>1 DEF ReplaceOpen, OpenOf
  <2>4. UNCHANGED offer
    BY <1>3 DEF ReplaceOpen
  <2> QED BY <1>b, <2>1, <2>2, <2>3, <2>4 DEF HeldInv, At, Locked
<1> QED BY <1>1, <1>2, <1>3, RevisionsBy

LEMMA HeldHolds == Spec => []HeldInv
<1>1. Init => HeldInv
  BY DEF Init, HeldInv, NoReq, At
<1> QED BY <1>1, HeldNext, TypeHolds, PTL DEF Spec

\* A visit of the portal is about to close the offer it has read: a step of
\* another kind does not lead there.
LEMMA VisitsBy ==
  ASSUME TypeInv, [Next]_vars, NEW a \in Actors, req'[a].step = "expire"
  PROVE  req'[a] = req[a] \/ \E o \in Offers : a \in Staff /\ VisitOffer(a, o)
<1>1. ASSUME NEW b \in Actors, req'[b].step # "expire", \A x \in Actors : x # b => req'[x] = req[x]
      PROVE  req'[a] = req[a]
  BY <1>1
<1>2. CASE RecruitmentRequest
  <2>1. ASSUME NEW b \in Staff, NEW op, NEW step, Begun(b, op, step), step # "expire"
        PROVE  req'[a] = req[a]
    BY <1>1, <2>1 DEF Begun, Actors
  <2>2. ASSUME NEW b \in Staff, NEW o \in Offers, VisitOffer(b, o)
        PROVE  req'[a] = req[a] \/ (a \in Staff /\ VisitOffer(a, o))
    <3>1. CASE a = b
      BY <2>2, <3>1
    <3>2. CASE a # b
      BY <2>2, <3>2 DEF VisitOffer, Holds, Actors
    <3> QED BY <3>1, <3>2
  <2> QED BY <1>2, <2>1, <2>2, RequestsBegin DEF RecruitmentRequest, DeleteCandidate, Lapse
<1>3. ASSUME NEW b \in Actors, RecruitmentStep(b) PROVE req'[a] = req[a]
  <2>1. ASSUME NEW step, Goes(b, step), step # "expire" PROVE req'[a] = req[a]
    BY <1>1, <2>1, GoesMoves
  <2>2. CASE Over(b)
    BY <1>1, <2>2, OverMoves
  <2>3. CASE ComposeNews(b)
    BY <1>1, <2>3, ComposeMoves
  <2>4. CASE NextPending(b)
    BY <1>1, <2>4, PendingMoves
  <2>5. CASE ReplaceOpen(b)
    BY <1>1, <2>5, ReplaceMoves
  <2> QED BY <1>3, <2>1, <2>2, <2>3, <2>4, <2>5
          DEF RecruitmentStep, SetStage, InsertOffer, SetExpired, Answer, LookAtCandidate,
              PublishNews, MarkSent
<1>4. ASSUME NEW b \in Actors, RecruitmentFails(b) PROVE req'[a] = req[a]
  BY <1>1, <1>4, FailsMoves
<1>5. ASSUME NEW k \in Crons, TickDaily(k) PROVE req'[a] = req[a]
  BY <1>1, <1>5, TickMoves DEF Actors
<1> QED BY <1>2, <1>3, <1>4, <1>5, Movers, HrLeaves
        DEF RecruitmentMoves, RecruitingIdle, recruiting, vars

\* The portal closes offers whose link has lapsed: links never become good again.
LapsedInv == \A a \in Actors : At(a, "expire") => offer[req[a].offer].lapsed

LEMMA LapsedNext == TypeInv /\ TypeInv' /\ HeldInv /\ LapsedInv /\ [Next]_vars => LapsedInv'
<1> SUFFICES ASSUME TypeInv, TypeInv', HeldInv, LapsedInv, [Next]_vars,
                    NEW a \in Actors, req'[a].step = "expire"
             PROVE  offer'[req'[a].offer].lapsed
  BY DEF LapsedInv, At
<1>1. CASE req'[a] = req[a]
  <2>1. req[a].offer \in Offers /\ offer[req[a].offer].status # "NONE"
    BY <1>1 DEF TypeInv, Good
  <2>2. offer[req[a].offer].lapsed
    BY <1>1 DEF LapsedInv, At
  <2> QED BY <1>1, <2>1, <2>2, OffersMove
<1>2. ASSUME NEW o \in Offers, VisitOffer(a, o) PROVE offer'[req'[a].offer].lapsed
  <2> DEFINE r == [NoReq EXCEPT !.op = "visit", !.step = "expire", !.offer = o]
  <2>1. r.offer = o /\ Holds(a, r) /\ offer[o].lapsed /\ UNCHANGED offer
    BY <1>2 DEF VisitOffer, NoReq
  <2> HIDE DEF r
  <2> QED BY <2>1, OthersWait
<1> QED BY <1>1, <1>2, VisitsBy

LEMMA LapsedHolds == Spec => []LapsedInv
<1>1. Init => LapsedInv
  <2> SUFFICES ASSUME Init, NEW a \in Actors PROVE ~At(a, "expire")
    BY DEF LapsedInv
  <2>1. req[a] = NoReq
    BY DEF Init, Actors
  <2>2. NoReq.step = "idle"
    BY DEF NoReq
  <2> QED BY <2>1, <2>2 DEF At
<1> QED BY <1>1, LapsedNext, TypeHolds, HeldHolds, PTL DEF Spec

\* Whoever answers, replaces or deletes at the same time, an answer that is final
\* stays: the update of an answer asks for an offer without one, a revision only
\* touches open offers, and the portal only closes an offer whose link has lapsed.
THEOREM FinalHolds == Spec => FinalStays
<1> DEFINE Stays == \A o \in Offers :
      IsOfferFinal(offer[o].status) =>
        \/ offer'[o].status \in {offer[o].status, "GONE"}
        \/ offer'[o].status = "expired" /\ offer[o].lapsed
<1>1. ASSUME TypeInv, HeldInv, LapsedInv, Next \/ UNCHANGED vars PROVE Stays
  <2> SUFFICES ASSUME NEW o \in Offers, IsOfferFinal(offer[o].status)
               PROVE  \/ offer'[o].status \in {offer[o].status, "GONE"}
                      \/ offer'[o].status = "expired" /\ offer[o].lapsed
    OBVIOUS
  <2>1. OfferMoves(o)
    BY <1>1, OffersMove
  <2>2. ASSUME NEW a \in Actors, SetExpired(a), req[a].offer = o
        PROVE  offer'[o].status = "expired" /\ offer[o].lapsed
    <3>1. offer[o].lapsed
      BY <1>1, <2>2 DEF LapsedInv, SetExpired
    <3> QED BY <1>1, <2>2, <3>1 DEF SetExpired, IsOfferFinal, TypeInv, TypeOK, OfferRows
  <2>3. ASSUME NEW a \in Actors, Answer(a), StillAnswerable(req[a].op, o) PROVE FALSE
    <3>1. req[a].op \in {"respond", "record"}
      BY <1>1, <2>3 DEF Answer, At, TypeInv, Good
    <3> QED BY <2>3, <3>1 DEF StillAnswerable, IsOfferOpen, IsOfferFinal
  <2> QED BY <2>1, <2>2, <2>3 DEF OfferMoves, IsOfferFinal, IsOfferOpen
<1>2. TypeInv /\ HeldInv /\ LapsedInv /\ [Next]_vars => [Stays]_vars
  BY <1>1
<1> QED BY <1>2, TypeHolds, HeldHolds, LapsedHolds, PTL DEF Spec, FinalStays

-----------------------------------------------------------------------------
(***************************************************************************)
(* One offer to answer. A revision under way has seen every open offer of  *)
(* its candidate.                                                          *)
(***************************************************************************)
Clean(c) == incidents[c] \cap {"twice", "reopened"} = {}

Revises(a, c) == req[a].op = "offer" /\ req[a].cand = c

SingleInv ==
  \A c \in Candidates : Clean(c) =>
    /\ \A o, p \in OpenOf(c) : o = p
    /\ \A a, b \in Staff : Revises(a, c) /\ Revises(b, c) => a = b
    /\ \A a \in Staff : Revises(a, c) => OpenOf(c) \subseteq req[a].rows

\* Unless a revision inserts one, no offer is opened.
LEMMA OpensBy ==
  ASSUME TypeInv, HeldInv, [Next]_vars, NEW c \in Candidates, Clean(c)', NEW o \in OpenOf(c)'
  PROVE  \/ o \in OpenOf(c)
         \/ \E a \in Staff : InsertOffer(a) /\ Revises(a, c)
<1>1. o \in Offers /\ offer'[o].cand = c /\ IsOfferOpen(offer'[o].status)
  BY DEF OpenOf, OffersOf
<1>2. OfferMoves(o) /\ (offer[o].status # "NONE" => offer[o].cand = c)
  BY <1>1, OffersMove
<1>3. CASE offer'[o].status = offer[o].status
  BY <1>1, <1>2, <1>3 DEF OpenOf, OffersOf, IsOfferOpen
<1>4. ASSUME NEW a \in Staff, InsertOffer(a), offer'[o].cand = req[a].cand
      PROVE  Revises(a, c)
  BY <1>1, <1>4 DEF InsertOffer, At, TypeInv, Good, Actors, Revises
<1>5. ASSUME NEW a \in Actors, SetExpired(a), req[a].offer = o PROVE FALSE
  BY <1>1, <1>5 DEF SetExpired, IsOfferOpen, TypeInv, TypeOK, OfferRows
<1>6. ASSUME NEW a \in Actors, Answer(a), req[a].offer = o, StillAnswerable(req[a].op, o),
             offer'[o].status = req[a].word
      PROVE  o \in OpenOf(c)
  <2>1. /\ req[a].op \in {"respond", "record"} /\ offer[o].status # "NONE"
        /\ req[a].cand = offer[o].cand /\ req[a].word # "accepted"
    BY <1>1, <1>6 DEF Answer, At, TypeInv, Good, IsOfferOpen
  <2>2. offer[o].status # "expired"
    <3> SUFFICES ASSUME offer[o].status = "expired" PROVE FALSE
      OBVIOUS
    <3>1. incidents' = Noted(c, {"reopened"})
      BY <1>1, <1>2, <1>6, <2>1 DEF Answer
    <3> QED BY <3>1 DEF Noted, Clean, TypeInv, TypeOK
  <2>3. offer[o].status \in OfferStates
    BY <1>1 DEF TypeInv, TypeOK, OfferRows
  <2> QED BY <1>1, <1>2, <1>6, <2>1, <2>2, <2>3
          DEF StillAnswerable, IsOfferOpen, IsOfferFinal, OfferStates, OpenOf, OffersOf
<1> QED BY <1>1, <1>2, <1>3, <1>4, <1>5, <1>6 DEF OfferMoves, IsOfferOpen

LEMMA SingleNext == TypeInv /\ HeldInv /\ SingleInv /\ [Next]_vars => SingleInv'
<1> SUFFICES ASSUME TypeInv, HeldInv, SingleInv, [Next]_vars, NEW c \in Candidates, Clean(c)'
             PROVE  /\ (\A o, p \in OpenOf(c) : o = p)'
                    /\ (\A a, b \in Staff : Revises(a, c) /\ Revises(b, c) => a = b)'
                    /\ (\A a \in Staff : Revises(a, c) => OpenOf(c) \subseteq req[a].rows)'
  BY DEF SingleInv
<1>a. Clean(c)
  BY IncidentsGrow DEF Clean
<1>b. Staff \subseteq Actors
  BY DEF Actors
<1>1. (\A o, p \in OpenOf(c) : o = p)'
  <2>1. CASE \E a \in Staff : InsertOffer(a) /\ Revises(a, c)
    <3>1. PICK a \in Staff : InsertOffer(a) /\ Revises(a, c)
      BY <2>1
    <3>2. OpenOf(c) \subseteq req[a].rows
      BY <1>a, <3>1 DEF SingleInv
    <3>3. CASE UNCHANGED offer
      BY <1>a, <3>3 DEF SingleInv, OpenOf, OffersOf
    <3>4. ASSUME NEW n \in Unused,
                 \A x \in Offers :
                   offer'[x] = IF x = n THEN [cand |-> req[a].cand, version |-> req[a].version,
                                              status |-> "sent", lapsed |-> FALSE]
                               ELSE IF x \in req[a].rows THEN [offer[x] EXCEPT !.status = "expired"]
                               ELSE offer[x]
          PROVE  (\A o, p \in OpenOf(c) : o = p)'
      <4>1. ASSUME NEW o \in OpenOf(c)', o # n PROVE FALSE
        <5>1. o \in Offers /\ IsOfferOpen(offer'[o].status) /\ offer'[o].cand = c
          BY <4>1 DEF OpenOf, OffersOf
        <5>2. CASE o \in req[a].rows
          <6>1. offer'[o].status = "expired"
            BY <3>4, <4>1, <5>1, <5>2 DEF TypeInv, TypeOK, OfferRows
          <6> QED BY <5>1, <6>1 DEF IsOfferOpen
        <5>3. CASE o \notin req[a].rows
          <6>1. offer'[o] = offer[o]
            BY <3>4, <4>1, <5>1, <5>3
          <6>2. o \in OpenOf(c)
            BY <5>1, <6>1 DEF OpenOf, OffersOf, IsOfferOpen
          <6> QED BY <3>2, <5>3, <6>2
        <5> QED BY <5>2, <5>3
      <4> QED BY <4>1
    <3> QED BY <1>b, <3>1, <3>3, <3>4, InsertMoves
  <2>2. CASE ~\E a \in Staff : InsertOffer(a) /\ Revises(a, c)
    <3>1. \A o \in OpenOf(c)' : o \in OpenOf(c)
      BY <2>2, OpensBy
    <3> QED BY <1>a, <3>1 DEF SingleInv
  <2> QED BY <2>1, <2>2
<1>2. CASE OffersGoOn
  <2>1. \A a \in Staff : Revises(a, c)' => Revises(a, c) /\ req'[a] = req[a]
    BY <1>2, <1>b DEF OffersGoOn, Revises
  <2>2. ASSUME NEW a \in Staff, Revises(a, c)', NEW o \in OpenOf(c)' PROVE o \in req'[a].rows
    <3>1. ASSUME NEW b \in Staff, InsertOffer(b), Revises(b, c) PROVE FALSE
      <4>1. b = a
        BY <1>a, <2>1, <2>2, <3>1 DEF SingleInv
      <4> QED BY <1>b, <2>2, <3>1, <4>1, InsertMoves DEF Revises
    <3>2. o \in OpenOf(c)
      BY <2>2, <3>1, OpensBy
    <3> QED BY <1>a, <2>1, <2>2, <3>2 DEF SingleInv
  <2> QED BY <1>1, <1>a, <2>1, <2>2 DEF SingleInv
<1>3. ASSUME NEW a \in Staff, NEW d \in Candidates, CreateOffer(a, d)
      PROVE  /\ (\A x, y \in Staff : Revises(x, c) /\ Revises(y, c) => x = y)'
             /\ (\A x \in Staff : Revises(x, c) => OpenOf(c) \subseteq req[x].rows)'
  <2>1. /\ \A b \in Staff : b # a => req'[b] = req[b]
        /\ req'[a].cand = d /\ req'[a].rows = OpenOf(d)
    BY <1>3, <1>b, RequestsBegin DEF Begun, Replaced
  <2>2. OpenOf(c)' = OpenOf(c)
    BY <1>3 DEF CreateOffer, OpenOf, OffersOf
  <2>3. d = c => \A b \in Staff : ~Revises(b, c)
    <3> SUFFICES ASSUME d = c, NEW b \in Staff, Revises(b, c) PROVE FALSE
      OBVIOUS
    <3>1. incidents' = Noted(c, {"twice"})
      BY <1>3 DEF CreateOffer, Revises
    <3> QED BY <3>1 DEF Noted, Clean, TypeInv, TypeOK
  <2> QED BY <1>a, <2>1, <2>2, <2>3 DEF SingleInv, Revises
<1>4. ASSUME NEW a \in Actors, ReplaceOpen(a)
      PROVE  /\ (\A x, y \in Staff : Revises(x, c) /\ Revises(y, c) => x = y)'
             /\ (\A x \in Staff : Revises(x, c) => OpenOf(c) \subseteq req[x].rows)'
  <2>1. /\ req[a].op = "offer" /\ req'[a].op = "offer" /\ req'[a].cand = req[a].cand
        /\ req'[a].rows = req[a].rows \cap OpenOf(req[a].cand)
        /\ \A b \in Actors : b # a => req'[b] = req[b]
    BY <1>4, ReplaceMoves
  <2>2. OpenOf(c)' = OpenOf(c)
    BY <1>4 DEF ReplaceOpen, OpenOf, OffersOf
  <2> QED BY <1>a, <1>b, <2>1, <2>2 DEF SingleInv, Revises
<1> QED BY <1>1, <1>2, <1>3, <1>4, RevisionsBy

\* A candidate has one offer to answer at most, whatever number of revisions, answers
\* and deletions go on at once - unless two revisions overlapped or an answer by phone
\* opened an expired offer again.
THEOREM OneOpenHolds == Spec => []OneOpenOffer
<1>1. Init => SingleInv
  <2> SUFFICES ASSUME Init, NEW c \in Candidates
               PROVE  /\ \A o, p \in OpenOf(c) : o = p
                      /\ \A a \in Staff : ~Revises(a, c)
    BY DEF SingleInv
  <2>1. \A o, p \in OpenOf(c) : o = p
    BY StartsAssumption DEF Init, OpenOf, OffersOf
  <2>2. \A a \in Staff : ~Revises(a, c)
    BY DEF Init, NoReq, Revises
  <2> QED BY <2>1, <2>2
<1>2. SingleInv => OneOpenOffer
  BY AtMostOne DEF SingleInv, OneOpenOffer, Clean
<1> QED BY <1>1, <1>2, SingleNext, HeldHolds, TypeHolds, PTL DEF Spec

-----------------------------------------------------------------------------
(***************************************************************************)
(* The news of a hire is of somebody who was hired, from the moment it is  *)
(* on its way; the mark is behind the message.                             *)
(***************************************************************************)
WasHired(c) == cand[c].status = "hired" \/ ~Exists(c) \/ "left" \in incidents[c]

WereHired == {c \in Candidates : WasHired(c)}

Announced == {stream[k].msg.cand : k \in DOMAIN stream}

Telling == {"look", "compose", "publish", "mark"}

NewsInv ==
  /\ Announced \subseteq WereHired
  /\ \A c \in Candidates : cand[c].sent => c \in Announced
  /\ \A a \in Actors :
       /\ req[a].step \in Telling => req[a].cand \in WereHired
       /\ req[a].step = "mark" => req[a].cand \in Announced
       /\ req[a].todo \subseteq WereHired

\* Messages stay as they are; the only new ones are published.
LEMMA LettersBy ==
  ASSUME TypeInv, [Next]_vars
  PROVE  /\ \A k \in DOMAIN stream : k \in DOMAIN stream' /\ stream'[k].msg = stream[k].msg
         /\ \A k \in DOMAIN stream' \ DOMAIN stream :
              \E a \in Actors : /\ PublishNews(a)
                                /\ stream'[k].msg = [cand |-> req[a].cand, terms |-> req[a].terms]
<1>1. CASE UNCHANGED stream
  BY <1>1
<1>2. ASSUME NEW k \in DOMAIN stream, Deliver(k) \/ Ack(k) \/ Return(k)
      PROVE  /\ \A j \in DOMAIN stream : j \in DOMAIN stream' /\ stream'[j].msg = stream[j].msg
             /\ DOMAIN stream' \ DOMAIN stream = {}
  BY <1>2, DeliverTyped
<1>3. ASSUME NEW a \in Actors, PublishNews(a)
      PROVE  /\ \A k \in DOMAIN stream : k \in DOMAIN stream' /\ stream'[k].msg = stream[k].msg
             /\ \A k \in DOMAIN stream' \ DOMAIN stream :
                  stream'[k].msg = [cand |-> req[a].cand, terms |-> req[a].terms]
  <2> DEFINE msg == [cand |-> req[a].cand, terms |-> req[a].terms]
             new == [msg |-> msg, state |-> "waiting", tries |-> 0]
  <2>1. stream' = Append(stream, new) /\ new.msg = msg
    BY <1>3 DEF PublishNews, Emit
  <2>2. stream \in Seq(Letters)
    BY StreamTyped
  <2> HIDE DEF new, msg
  <2>3. /\ DOMAIN stream' = DOMAIN stream \cup {Len(stream) + 1}
        /\ stream'[Len(stream) + 1] = new /\ \A k \in DOMAIN stream : stream'[k] = stream[k]
    <3>1. Len(stream) \in Nat /\ DOMAIN stream = 1..Len(stream)
      BY <2>2
    <3>2. DOMAIN stream' = 1..(Len(stream) + 1)
      BY <2>1, <2>2
    <3> QED BY <2>1, <2>2, <3>1, <3>2
  <2> QED BY <2>1, <2>3 DEF msg
<1>4. ASSUME NEW x \in Parties, HrStep(x) \/ HandlerFails(x)
      PROVE  UNCHANGED stream \/ \E k \in DOMAIN stream : Deliver(k) \/ Ack(k) \/ Return(k)
  <2>1. ASSUME x \in Workers, ~ProcAt(x, "idle") PROVE proc[x].msg \in DOMAIN stream
    BY <2>1, WorkerHolds
  <2>2. OnCandidateHired(x) \/ Acknowledge(x) => x \in Workers /\ ~ProcAt(x, "idle")
    BY DEF OnCandidateHired, Acknowledge, ProcAt, TypeInv, Roles, Parties
  <2> QED BY <1>4, <2>1, <2>2 DEF HrStep, OnCandidateHired, Acknowledge, InsertEmployee, HandlerFails
<1>5. ASSUME NEW w \in Workers, AckLate(w)
      PROVE  \E k \in DOMAIN stream : Deliver(k) \/ Ack(k) \/ Return(k)
  BY <1>5, WorkerHolds DEF AckLate
<1>6. CASE HrMoves
  BY <1>1, <1>2, <1>4, <1>5, <1>6 DEF HrMoves, HrRequest, DeleteEmployee, CreateEmployee, Receive
<1>7. ASSUME NEW a \in Actors, RecruitmentStep(a) \/ RecruitmentFails(a)
      PROVE  UNCHANGED stream \/ PublishNews(a)
  BY <1>7 DEF RecruitmentStep, RecruitmentFails, SetStage, ReplaceOpen, InsertOffer, SetExpired,
              Answer, LookAtCandidate, ComposeNews, MarkSent, NextPending
<1> QED BY <1>1, <1>3, <1>6, <1>7, Movers, RequestLeaves DEF RecruitmentMoves, TickDaily, vars

LEMMA AnnouncedGrows ==
  ASSUME TypeInv, [Next]_vars
  PROVE  /\ Announced \subseteq Announced'
         /\ \A c \in Announced' \ Announced : \E a \in Actors : PublishNews(a) /\ req[a].cand = c
         /\ \A a \in Actors : PublishNews(a) => req[a].cand \in Announced'
<1>1. Announced \subseteq Announced'
  BY LettersBy DEF Announced
<1>2. ASSUME NEW c \in Announced', c \notin Announced
      PROVE  \E a \in Actors : PublishNews(a) /\ req[a].cand = c
  <2>1. PICK k \in DOMAIN stream' : stream'[k].msg.cand = c
    BY <1>2 DEF Announced
  <2>2. k \notin DOMAIN stream
    BY <1>2, <2>1, LettersBy DEF Announced
  <2>3. PICK a \in Actors : PublishNews(a) /\ stream'[k].msg = [cand |-> req[a].cand,
                                                                terms |-> req[a].terms]
    BY <2>1, <2>2, LettersBy
  <2> QED BY <2>1, <2>3
<1>3. ASSUME NEW a \in Actors, PublishNews(a) PROVE req[a].cand \in Announced'
  <2> DEFINE new == [msg |-> [cand |-> req[a].cand, terms |-> req[a].terms],
                     state |-> "waiting", tries |-> 0]
  <2>1. stream' = Append(stream, new) /\ new.msg.cand = req[a].cand
    BY <1>3 DEF PublishNews, Emit
  <2>2. stream \in Seq(Letters)
    BY StreamTyped
  <2> HIDE DEF new
  <2>3. Len(stream) + 1 \in DOMAIN stream' /\ stream'[Len(stream) + 1] = new
    BY <2>1, <2>2
  <2> QED BY <2>1, <2>3 DEF Announced
<1> QED BY <1>1, <1>2, <1>3

\* What becomes of a candidate in one step.
LEMMA CandidatesMove ==
  ASSUME TypeInv, [Next]_vars, NEW c \in Candidates
  PROVE  /\ \/ cand'[c].status = cand[c].status
            \/ DeleteCandidate(c) /\ cand'[c].status = "gone"
            \/ \E a \in Actors : Answer(a) /\ req[a].cand = c /\ cand'[c].status = "hired"
                                 /\ StillAnswerable(req[a].op, req[a].offer)
            \/ Exists(c) /\ cand'[c].status = "hired"
            \/ /\ Exists(c) /\ cand'[c].status # "gone"
               /\ cand[c].status = "hired" => "left" \in incidents'[c]
         /\ cand'[c].sent => cand[c].sent \/ \E a \in Actors : MarkSent(a) /\ req[a].cand = c
<1>0. cand \in [Candidates -> CandidateRows] /\ cand[c] \in CandidateRows
  BY DEF TypeInv, TypeOK
<1>1. CASE UNCHANGED cand
  BY <1>1
<1>2. ASSUME NEW d \in Candidates, DeleteCandidate(d)
      PROVE  /\ cand'[c].sent = cand[c].sent
             /\ cand'[c].status = cand[c].status \/ (d = c /\ cand'[c].status = "gone")
  BY <1>0, <1>2 DEF DeleteCandidate, CandidateRows
<1>3. ASSUME NEW a \in Actors, SetStage(a)
      PROVE  /\ cand'[c].sent = cand[c].sent
             /\ \/ cand'[c].status = cand[c].status
                \/ Exists(c) /\ cand'[c].status = "hired"
                \/ /\ Exists(c) /\ cand'[c].status # "gone"
                   /\ cand[c].status = "hired" => "left" \in incidents'[c]
  <2>1. req[a].cand \in Candidates /\ req[a].word \in {"active", "hired"}
    BY <1>3 DEF SetStage, At, TypeInv, Good
  <2>2. CASE UNCHANGED cand
    BY <2>2
  <2>3. CASE req[a].cand # c
    BY <1>0, <1>3, <2>3 DEF SetStage, CandidateRows
  <2>4. CASE req[a].cand = c /\ Exists(c)
    <3>1. cand'[c].status = req[a].word /\ cand'[c].sent = cand[c].sent
      BY <1>0, <1>3, <2>4 DEF SetStage, CandidateRows
    <3>2. cand[c].status = "hired" /\ req[a].word # "hired" => incidents' = Noted(c, {"left"})
      BY <1>3, <2>4 DEF SetStage
    <3>3. "left" \in Noted(c, {"left"})[c]
      BY DEF Noted, TypeInv, TypeOK
    <3> QED BY <2>1, <2>4, <3>1, <3>2, <3>3
  <2> QED BY <1>3, <2>2, <2>3, <2>4 DEF SetStage
<1>4. ASSUME NEW a \in Actors, Answer(a)
      PROVE  /\ cand'[c].sent = cand[c].sent
             /\ \/ cand'[c].status = cand[c].status
                \/ /\ req[a].cand = c /\ cand'[c].status = "hired"
                   /\ StillAnswerable(req[a].op, req[a].offer)
  BY <1>0, <1>4 DEF Answer, HireOnAccept, CandidateRows
<1>5. ASSUME NEW a \in Actors, MarkSent(a)
      PROVE  cand'[c].status = cand[c].status /\ (cand'[c].sent => cand[c].sent \/ req[a].cand = c)
  BY <1>0, <1>5 DEF MarkSent, CandidateRows
<1>6. CASE RecruitmentRequest
  BY <1>1, <1>2, <1>6 DEF RecruitmentRequest, Lapse, CreateOffer, MoveStage, VisitOffer,
                          RespondOffer, RecordResponse
<1>7. ASSUME NEW a \in Actors, RecruitmentStep(a) \/ RecruitmentFails(a)
      PROVE  UNCHANGED cand \/ SetStage(a) \/ Answer(a) \/ MarkSent(a)
  BY <1>7 DEF RecruitmentStep, RecruitmentFails, ReplaceOpen, InsertOffer, SetExpired,
              LookAtCandidate, ComposeNews, PublishNews, NextPending
<1>8. CASE RecruitmentMoves
  BY <1>1, <1>3, <1>4, <1>5, <1>6, <1>7, <1>8 DEF RecruitmentMoves, TickDaily
<1> QED BY <1>1, <1>8, Movers, HrLeaves DEF RecruitingIdle, recruiting, vars

LEMMA HiredStays ==
  ASSUME TypeInv, [Next]_vars PROVE WereHired \subseteq WereHired'
BY CandidatesMove, IncidentsGrow DEF WereHired, WasHired, Exists

\* What becomes of a request in one step.
LEMMA RequestsMove ==
  ASSUME TypeInv, [Next]_vars, NEW a \in Actors
  PROVE  /\ req'[a].todo \subseteq req[a].todo \cup PendingHiredEvents
         /\ \/ req'[a] = req[a]
            \/ req'[a].step \notin Telling
            \/ /\ SetStage(a) /\ req'[a].step = "look" /\ req'[a].cand = req[a].cand
               /\ cand'[req[a].cand].status = "hired"
            \/ /\ Answer(a) /\ req'[a].step = "look" /\ req'[a].cand = req[a].cand
               /\ cand'[req[a].cand].status = "hired"
            \/ At(a, "look") /\ req'[a].step = "compose" /\ req'[a].cand = req[a].cand
            \/ ComposeNews(a) /\ req'[a].step = "publish" /\ req'[a].cand = req[a].cand
               /\ req'[a].terms = LatestAcceptedOffer(req[a].cand)
            \/ PublishNews(a) /\ req'[a].step = "mark" /\ req'[a].cand = req[a].cand
            \/ /\ NextPending(a) /\ req'[a].step = "publish" /\ req'[a].cand \in req[a].todo
               /\ req'[a].terms = LatestAcceptedOffer(req'[a].cand)
<1>1. CASE req'[a] = req[a]
  BY <1>1
<1>2. ASSUME NEW b \in Staff, NEW op, NEW step, Begun(b, op, step), step \notin Telling,
             req'[b].todo = {}
      PROVE  \/ req'[a] = req[a]
             \/ req'[a].step \notin Telling /\ req'[a].todo = {}
  BY <1>2 DEF Begun
<1>3. CASE RecruitmentRequest
  BY <1>1, <1>2, <1>3, RequestsBegin DEF RecruitmentRequest, DeleteCandidate, Lapse, Telling
<1>4. ASSUME NEW b \in Actors, RecruitmentStep(b), b # a PROVE req'[a] = req[a]
  BY <1>4, OverMoves, GoesMoves, ComposeMoves, PendingMoves, ReplaceMoves
     DEF RecruitmentStep, SetStage, InsertOffer, SetExpired, Answer, LookAtCandidate,
         PublishNews, MarkSent
<1>5. ASSUME Over(a) PROVE req'[a].step \notin Telling /\ req'[a].todo = req[a].todo
  BY <1>5, OverMoves DEF Telling
<1>6. CASE SetStage(a)
  <2>1. CASE Goes(a, "look")
    <3>1. cand'[req[a].cand].status = "hired"
      <4>1. ~Over(a)
        BY <2>1, GoesOn
      <4>2. req[a].cand \in Candidates
        BY <1>6 DEF SetStage, At, TypeInv, Good
      <4> QED BY <1>6, <4>1, <4>2 DEF SetStage, TypeInv, TypeOK, CandidateRows
    <3> QED BY <1>6, <2>1, <3>1, GoesMoves
  <2> QED BY <1>5, <1>6, <2>1 DEF SetStage
<1>7. CASE Answer(a)
  <2>1. CASE Goes(a, "look")
    <3>1. cand'[req[a].cand].status = "hired"
      <4>1. ~Over(a)
        BY <2>1, GoesOn
      <4>2. req[a].cand \in Candidates
        BY <1>7 DEF Answer, At, TypeInv, Good
      <4> QED BY <1>7, <4>1, <4>2 DEF Answer, HireOnAccept, TypeInv, TypeOK, CandidateRows
    <3> QED BY <1>7, <2>1, <3>1, GoesMoves
  <2> QED BY <1>5, <1>7, <2>1 DEF Answer
<1>8. CASE LookAtCandidate(a)
  BY <1>5, <1>8, GoesMoves DEF LookAtCandidate
<1>9. CASE ComposeNews(a)
  BY <1>9, ComposeMoves
<1>10. CASE PublishNews(a)
  BY <1>10, GoesMoves DEF PublishNews
<1>11. CASE NextPending(a)
  BY <1>11, PendingMoves
<1>12. CASE ReplaceOpen(a)
  BY <1>12, ReplaceMoves DEF Telling
<1>13. CASE InsertOffer(a) \/ SetExpired(a) \/ MarkSent(a)
  BY <1>5, <1>13 DEF InsertOffer, SetExpired, MarkSent
<1>14. ASSUME NEW b \in Actors, RecruitmentFails(b)
       PROVE  \/ req'[a] = req[a]
              \/ req'[a].step \notin Telling /\ req'[a].todo \subseteq req[a].todo
  BY <1>14, FailsMoves DEF Telling
<1>15. ASSUME NEW k \in Crons, TickDaily(k)
       PROVE  \/ req'[a] = req[a]
              \/ req'[a].step \notin Telling /\ req'[a].todo = PendingHiredEvents
  BY <1>15, TickMoves DEF Telling
<1>16. ASSUME NEW b \in Actors, RecruitmentStep(b), ~(req'[a] = req[a])
       PROVE  \/ SetStage(a) \/ Answer(a) \/ LookAtCandidate(a) \/ ComposeNews(a) \/ PublishNews(a)
              \/ NextPending(a) \/ ReplaceOpen(a) \/ InsertOffer(a) \/ SetExpired(a) \/ MarkSent(a)
  <2>1. RecruitmentStep(a)
    BY <1>4, <1>16
  <2> QED BY <2>1 DEF RecruitmentStep
<1>17. CASE \E b \in Actors : RecruitmentStep(b)
  BY <1>1, <1>6, <1>7, <1>8, <1>9, <1>10, <1>11, <1>12, <1>13, <1>16, <1>17
<1> QED BY <1>1, <1>3, <1>14, <1>15, <1>17, Movers, HrLeaves
        DEF RecruitmentMoves, RecruitingIdle, recruiting, vars

LEMMA NewsNext == TypeInv /\ TypeInv' /\ NewsInv /\ [Next]_vars => NewsInv'
<1> SUFFICES ASSUME TypeInv, TypeInv', NewsInv, [Next]_vars PROVE NewsInv'
  OBVIOUS
<1>1. Announced' \subseteq WereHired'
  <2>1. \A a \in Actors : PublishNews(a) => req[a].cand \in WereHired
    BY DEF NewsInv, PublishNews, At, Telling
  <2> QED BY <2>1, AnnouncedGrows, HiredStays DEF NewsInv
<1>2. ASSUME NEW c \in Candidates, cand'[c].sent PROVE c \in Announced'
  <2>1. ASSUME NEW a \in Actors, MarkSent(a), req[a].cand = c PROVE c \in Announced
    BY <2>1 DEF NewsInv, MarkSent, At
  <2> QED BY <1>2, <2>1, CandidatesMove, AnnouncedGrows DEF NewsInv
<1>3. ASSUME NEW a \in Actors
      PROVE  /\ req'[a].step \in Telling => req'[a].cand \in WereHired'
             /\ req'[a].step = "mark" => req'[a].cand \in Announced'
             /\ req'[a].todo \subseteq WereHired'
  <2>1. req'[a].todo \subseteq WereHired'
    <3>1. PendingHiredEvents \subseteq WereHired
      BY DEF PendingHiredEvents, WereHired, WasHired
    <3> QED BY <3>1, HiredStays, RequestsMove DEF NewsInv
  <2>2. ASSUME req'[a].step \in Telling PROVE req'[a].cand \in WereHired'
    <3>1. CASE req'[a].cand = req[a].cand /\ req[a].step \in Telling
      BY <3>1, HiredStays DEF NewsInv
    <3>2. CASE req'[a].cand = req[a].cand /\ cand'[req[a].cand].status = "hired"
      <4>1. req'[a].cand \in Candidates
        BY <2>2 DEF TypeInv, Good, Telling
      <4> QED BY <3>2, <4>1 DEF WereHired, WasHired
    <3>3. CASE req'[a].cand \in req[a].todo
      BY <3>3, HiredStays DEF NewsInv
    <3> QED BY <2>2, <3>1, <3>2, <3>3, RequestsMove DEF ComposeNews, PublishNews, At, Telling
  <2>3. ASSUME req'[a].step = "mark" PROVE req'[a].cand \in Announced'
    <3>1. CASE req'[a] = req[a]
      BY <2>3, <3>1, AnnouncedGrows DEF NewsInv
    <3>2. CASE PublishNews(a) /\ req'[a].cand = req[a].cand
      BY <3>2, AnnouncedGrows
    <3> QED BY <2>3, <3>1, <3>2, RequestsMove DEF Telling
  <2> QED BY <2>1, <2>2, <2>3
<1> QED BY <1>1, <1>2, <1>3 DEF NewsInv

\* The news hr gets, late, twice or out of order as it may be, is of candidates who
\* were hired, and nobody counts as reported to hr who was not.
THEOREM NewsHolds == Spec => []NewsIsTrue
<1>1. Init => NewsInv
  BY DEF Init, BusInit, NewsInv, NoReq, Telling, Announced, Actors
<1>2. NewsInv => NewsIsTrue
  BY DEF NewsInv, NewsIsTrue, WereHired, WasHired, Announced
<1> QED BY <1>1, <1>2, NewsNext, TypeHolds, PTL DEF Spec

-----------------------------------------------------------------------------
(***************************************************************************)
(* The terms: agreed when the news is written, on its way and with hr.     *)
(* Once the news is written nothing else is accepted unnoticed.            *)
(***************************************************************************)
Agreed(c, t) ==
  \/ ~Exists(c) \/ "late" \in incidents[c]
  \/ \E o \in Offers : offer[o].cand = c /\ "overwritten" \in incidents[o]
  \/ AcceptedOf(c) = {} /\ t = NoOffer
  \/ /\ t \in AcceptedOf(c)
     /\ \A o \in AcceptedOf(c) : offer[o].version <= offer[t].version

AgreedNews == {m \in Messages : Agreed(m.cand, m.terms)}

News(c, t) == [cand |-> c, terms |-> t]

Existing == {c \in Candidates : Exists(c)}

\* The offers of a candidate go with the candidate.
LiveInv ==
  \A o \in Offers :
    /\ offer[o].status \notin {"NONE", "GONE"} => offer[o].cand \in Existing
    /\ "overwritten" \in incidents[o] => offer[o].status # "NONE"

AgreedInv ==
  /\ \A a \in Actors : At(a, "publish") => News(req[a].cand, req[a].terms) \in AgreedNews
  /\ \A k \in DOMAIN stream : stream[k].msg \in AgreedNews
  /\ \A n \in DOMAIN emp : emp[n].from \in Candidates =>
       News(emp[n].from, emp[n].terms) \in AgreedNews /\ emp[n].from \in Announced

LEMMA ClosesOnly ==
  ASSUME TypeInv, NEW a \in Actors, SetExpired(a), NEW o \in Offers, req[a].offer = o
  PROVE  /\ offer[o].status # "NONE"
         /\ offer'[o].status = IF offer[o].status = "GONE" THEN "GONE" ELSE "expired"
BY DEF SetExpired, At, TypeInv, TypeOK, Good, OfferRows

LEMMA AnswersLive ==
  ASSUME TypeInv, NEW a \in Actors, Answer(a), StillAnswerable(req[a].op, req[a].offer)
  PROVE  /\ req[a].offer \in Offers /\ offer[req[a].offer].cand = req[a].cand
         /\ offer[req[a].offer].status \notin {"NONE", "GONE", "accepted", "declined"}
         /\ req[a].word \in Answers
BY DEF Answer, At, TypeInv, Good, StillAnswerable, IsOfferOpen, IsOfferFinal

LEMMA OverwrittenBy ==
  ASSUME TypeInv, [Next]_vars, NEW o \in Offers, "overwritten" \in incidents'[o]
  PROVE  "overwritten" \in incidents[o] \/ \E a \in Actors : SetExpired(a) /\ req[a].offer = o
<1>0. ASSUME NEW x, NEW what, "overwritten" \notin what, incidents' = Noted(x, what)
      PROVE  "overwritten" \in incidents[o]
  BY <1>0 DEF Noted, TypeInv, TypeOK
<1>a. ASSUME NEW x, UNCHANGED incidents \/ incidents' = Noted(x, {"left"})
             \/ incidents' = Noted(x, {"twice"}) \/ incidents' = Noted(x, {"late"})
             \/ incidents' = Noted(x, {"reopened"})
      PROVE  "overwritten" \in incidents[o]
  BY <1>0, <1>a
<1>1. CASE RecruitmentRequest
  <2>1. ASSUME NEW a, NEW c, CreateOffer(a, c) PROVE "overwritten" \in incidents[o]
    BY <1>a, <2>1 DEF CreateOffer
  <2> QED BY <1>1, <2>1 DEF RecruitmentRequest, DeleteCandidate, Lapse, MoveStage, VisitOffer,
                            RespondOffer, RecordResponse
<1>2. ASSUME NEW a \in Actors, RecruitmentStep(a), ~SetExpired(a)
      PROVE  "overwritten" \in incidents[o]
  <2>1. CASE SetStage(a)
    BY <1>a, <2>1 DEF SetStage
  <2>2. CASE Answer(a)
    BY <1>a, <2>2 DEF Answer
  <2> QED BY <1>2, <2>1, <2>2
          DEF RecruitmentStep, ReplaceOpen, InsertOffer, LookAtCandidate, ComposeNews,
              PublishNews, MarkSent, NextPending
<1>3. ASSUME NEW a \in Actors, SetExpired(a)
      PROVE  "overwritten" \in incidents[o] \/ req[a].offer = o
  <2>1. CASE IsOfferFinal(offer[req[a].offer].status)
    BY <1>3, <2>1 DEF SetExpired, Noted, TypeInv, TypeOK
  <2> QED BY <1>3, <2>1 DEF SetExpired
<1> QED BY <1>1, <1>2, <1>3, Movers, HrLeaves DEF RecruitmentMoves, RecruitmentFails, TickDaily, vars

LEMMA MadeStays ==
  ASSUME TypeInv, HeldInv, [Next]_vars, NEW o \in Offers, offer[o].status # "NONE"
  PROVE  offer'[o].status # "NONE"
BY OffersMove, ClosesOnly, AnswersLive DEF OfferMoves, Answers

LEMMA ExistsStays ==
  ASSUME TypeInv, [Next]_vars, NEW c \in Candidates
  PROVE  /\ c \in Existing /\ ~DeleteCandidate(c) => c \in Existing'
         /\ c \in Existing' => \/ c \in Existing
                               \/ \E a \in Actors : Answer(a) /\ req[a].cand = c
                                                    /\ StillAnswerable(req[a].op, req[a].offer)
BY CandidatesMove DEF Existing, Exists

LEMMA LiveNext == TypeInv /\ TypeInv' /\ HeldInv /\ LiveInv /\ [Next]_vars => LiveInv'
<1> SUFFICES ASSUME TypeInv, TypeInv', HeldInv, LiveInv, [Next]_vars, NEW o \in Offers
             PROVE  /\ offer'[o].status \notin {"NONE", "GONE"} => offer'[o].cand \in Existing'
                    /\ "overwritten" \in incidents'[o] => offer'[o].status # "NONE"
  BY DEF LiveInv
<1>1. "overwritten" \in incidents'[o] => offer'[o].status # "NONE"
  BY OverwrittenBy, ClosesOnly, MadeStays DEF LiveInv
<1>2. ASSUME offer'[o].status \notin {"NONE", "GONE"} PROVE offer'[o].cand \in Existing'
  <2>1. offer'[o].cand \in Candidates
    BY <1>2 DEF TypeInv
  <2>2. ~DeleteCandidate(offer'[o].cand) \/ offer[o].status = "NONE"
    <3> SUFFICES ASSUME DeleteCandidate(offer'[o].cand), offer[o].status # "NONE" PROVE FALSE
      OBVIOUS
    <3>1. offer'[o].cand = offer[o].cand
      BY OffersMove
    <3>2. offer'[o].status = "GONE"
      <4>1. offer[o].status = "GONE" \/ o \in OffersOf(offer[o].cand)
        BY DEF OffersOf
      <4>2. DeleteCandidate(offer[o].cand)
        BY <3>1
      <4> QED BY <4>1, <4>2 DEF DeleteCandidate, TypeInv, TypeOK, OfferRows
    <3> QED BY <1>2, <3>2
  <2>3. CASE offer[o].status = "NONE"
    <3>1. PICK a \in Staff : InsertOffer(a) /\ offer'[o].cand = req[a].cand /\ Exists(req[a].cand)
      BY <1>2, <2>3, OffersMove, ClosesOnly, AnswersLive DEF OfferMoves, IsOfferOpen
    <3> QED BY <2>1, <3>1 DEF InsertOffer, Existing, Exists
  <2>4. CASE offer[o].status = "GONE"
    BY <1>2, <2>4, OffersMove, ClosesOnly, AnswersLive DEF OfferMoves, IsOfferOpen
  <2>5. CASE offer[o].status \notin {"NONE", "GONE"}
    BY <2>1, <2>2, <2>5, OffersMove, ExistsStays DEF LiveInv
  <2> QED BY <2>3, <2>4, <2>5
<1> QED BY <1>1, <1>2

\* What was agreed, and written, stays so, or is known not to be.
LEMMA AgreedStays ==
  ASSUME TypeInv, HeldInv, LiveInv, [Next]_vars, NEW m \in AgreedNews, Written(m.cand)
  PROVE  m \in AgreedNews'
<1> DEFINE c == m.cand
           t == m.terms
<1>0. c \in Candidates /\ Agreed(c, t) /\ Written(c) /\ m \in Messages
  BY DEF AgreedNews, Messages
<1> SUFFICES Agreed(c, t)'
  BY <1>0 DEF AgreedNews, Agreed
<1> HIDE DEF c, t
<1>1. CASE ~Exists(c)
  <2>1. c \notin Existing'
    <3> SUFFICES ASSUME c \in Existing' PROVE FALSE
      OBVIOUS
    <3>1. PICK a \in Actors : /\ Answer(a) /\ req[a].cand = c
                              /\ StillAnswerable(req[a].op, req[a].offer)
      BY <1>0, <1>1, ExistsStays DEF Existing
    <3> QED BY <1>1, <3>1, AnswersLive DEF LiveInv, Existing
  <2> QED BY <1>0, <2>1 DEF Agreed, Existing
<1>2. CASE "late" \in incidents[c]
  BY <1>0, <1>2, IncidentsGrow DEF Agreed
<1>3. ASSUME NEW o \in Offers, offer[o].cand = c, "overwritten" \in incidents[o] PROVE Agreed(c, t)'
  BY <1>3, IncidentsGrow, OffersMove DEF Agreed, LiveInv
<1>4. CASE \/ AcceptedOf(c) = {} /\ t = NoOffer
           \/ /\ t \in AcceptedOf(c)
              /\ \A o \in AcceptedOf(c) : offer[o].version <= offer[t].version
  <2> SUFFICES ASSUME c \in Existing', "late" \notin incidents'[c],
                      \A o \in Offers : offer'[o].cand = c => "overwritten" \notin incidents'[o]
               PROVE  Agreed(c, t)'
    BY <1>0 DEF Agreed, Existing
  <2>1. ASSUME NEW o \in AcceptedOf(c)' PROVE o \in AcceptedOf(c)
    <3>1. o \in Offers /\ offer'[o].cand = c /\ offer'[o].status = "accepted"
      BY <2>1 DEF AcceptedOf, OffersOf
    <3>2. CASE offer'[o].status = offer[o].status
      BY <3>1, <3>2, OffersMove DEF AcceptedOf, OffersOf
    <3>3. ASSUME NEW a \in Actors, Answer(a), req[a].offer = o, StillAnswerable(req[a].op, o),
                 offer'[o].status = req[a].word
          PROVE  FALSE
      <4>1. req[a].cand = c
        BY <3>1, <3>3, AnswersLive, OffersMove
      <4>2. incidents' = Noted(c, {"late"})
        BY <1>0, <3>1, <3>3, <4>1 DEF Answer
      <4> QED BY <1>0, <4>2 DEF Noted, TypeInv, TypeOK
    <3> QED BY <3>1, <3>2, <3>3, OffersMove, ClosesOnly DEF OfferMoves
  <2>2. ASSUME NEW o \in AcceptedOf(c) PROVE o \in AcceptedOf(c)'
    <3>1. o \in Offers /\ offer[o].cand = c /\ offer[o].status = "accepted" /\ offer'[o].cand = c
      BY <2>2, OffersMove DEF AcceptedOf, OffersOf
    <3>2. ASSUME NEW a \in Actors, SetExpired(a), req[a].offer = o PROVE FALSE
      <4>1. incidents' = Noted(o, {"overwritten"})
        BY <3>1, <3>2 DEF SetExpired, IsOfferFinal
      <4> QED BY <3>1, <4>1 DEF Noted, TypeInv, TypeOK
    <3>3. ASSUME DeleteCandidate(c) PROVE FALSE
      BY <1>0, <3>3 DEF DeleteCandidate, Existing, Exists, TypeInv, TypeOK, CandidateRows
    <3>4. ASSUME NEW a \in Actors, Answer(a), req[a].offer = o, StillAnswerable(req[a].op, o)
          PROVE  FALSE
      BY <3>1, <3>4, AnswersLive
    <3>5. offer'[o].status = "accepted"
      BY <3>1, <3>2, <3>3, <3>4, OffersMove DEF OfferMoves, IsOfferOpen
    <3> QED BY <3>1, <3>5 DEF AcceptedOf, OffersOf
  <2>3. AcceptedOf(c)' = AcceptedOf(c)
    BY <2>1, <2>2
  <2>4. \A o \in AcceptedOf(c) : offer'[o].version = offer[o].version
    BY OffersMove DEF AcceptedOf, OffersOf
  <2> QED BY <1>4, <2>3, <2>4 DEF Agreed
<1> QED BY <1>0, <1>1, <1>2, <1>3, <1>4 DEF Agreed

LEMMA NewsType ==
  ASSUME NEW c \in Candidates, NEW t \in Offers \cup {NoOffer}
  PROVE  News(c, t) \in Messages /\ News(c, t).cand = c /\ News(c, t).terms = t
BY DEF News, Messages

\* What is written now is agreed now.
LEMMA LatestIsAgreed ==
  ASSUME TypeInv, NEW c \in Candidates PROVE News(c, LatestAcceptedOffer(c)) \in AgreedNews
<1> DEFINE t == LatestAcceptedOffer(c)
<1>1. t \in Offers \cup {NoOffer}
  BY TermsType
<1>2. Agreed(c, t)
  BY LatestOf DEF Agreed, TypeInv, TypeOK
<1> HIDE DEF t
<1>3. News(c, t) \in AgreedNews
  BY <1>1, <1>2, NewsType DEF AgreedNews
<1> QED BY <1>3 DEF t

LEMMA AgreedSame == UNCHANGED <<cand, offer, incidents>> => AgreedNews' = AgreedNews
BY DEF AgreedNews, Agreed, Exists, AcceptedOf, OffersOf

LEMMA AgreedNext ==
  TypeInv /\ TypeInv' /\ HeldInv /\ LiveInv /\ AgreedInv /\ [Next]_vars => AgreedInv'
<1> SUFFICES ASSUME TypeInv, TypeInv', HeldInv, LiveInv, AgreedInv, [Next]_vars PROVE AgreedInv'
  OBVIOUS
<1>a. ASSUME NEW m \in AgreedNews, m.cand \in Announced PROVE m \in AgreedNews'
  BY <1>a, AgreedStays DEF Written, Announced
<1>1. ASSUME NEW a \in Actors, req'[a].step = "publish"
      PROVE  News(req'[a].cand, req'[a].terms) \in AgreedNews'
  <2>1. CASE req'[a] = req[a]
    <3> DEFINE m == News(req[a].cand, req[a].terms)
    <3>1. m \in AgreedNews /\ At(a, "publish")
      BY <1>1, <2>1 DEF AgreedInv, At
    <3>2. m.cand = req[a].cand /\ Written(m.cand)
      BY <3>1 DEF News, Written, At, Actors
    <3> HIDE DEF m
    <3>3. m \in AgreedNews'
      BY <3>1, <3>2, AgreedStays
    <3> QED BY <2>1, <3>3 DEF m
  <2>2. CASE ComposeNews(a) /\ req'[a].cand = req[a].cand /\ req'[a].terms = LatestAcceptedOffer(req[a].cand)
    <3>1. req[a].cand \in Candidates
      BY <2>2 DEF ComposeNews, At, TypeInv, Good
    <3>2. AgreedNews' = AgreedNews
      BY <2>2, AgreedSame DEF ComposeNews
    <3> QED BY <2>2, <3>1, <3>2, LatestIsAgreed
  <2>3. CASE NextPending(a) /\ req'[a].cand \in req[a].todo /\ req'[a].terms = LatestAcceptedOffer(req'[a].cand)
    <3>1. req'[a].cand \in Candidates
      BY <2>3 DEF TypeInv, TypeOK, Requests, Actors
    <3>2. AgreedNews' = AgreedNews
      BY <2>3, AgreedSame DEF NextPending
    <3> QED BY <2>3, <3>1, <3>2, LatestIsAgreed
  <2> QED BY <1>1, <2>1, <2>2, <2>3, RequestsMove DEF Telling
<1>2. ASSUME NEW k \in DOMAIN stream' PROVE stream'[k].msg \in AgreedNews'
  <2>1. CASE k \in DOMAIN stream
    <3>1. stream[k].msg \in AgreedNews /\ stream[k].msg.cand \in Announced
      BY <2>1 DEF AgreedInv, Announced
    <3> QED BY <1>a, <2>1, <3>1, LettersBy
  <2>2. CASE k \notin DOMAIN stream
    <3>1. PICK a \in Actors : PublishNews(a) /\ stream'[k].msg = [cand |-> req[a].cand,
                                                                  terms |-> req[a].terms]
      BY <2>2, LettersBy
    <3>2. AgreedNews' = AgreedNews
      BY <3>1, AgreedSame DEF PublishNews
    <3> QED BY <3>1, <3>2 DEF PublishNews, AgreedInv, News
  <2> QED BY <2>1, <2>2
<1>3. ASSUME NEW n \in DOMAIN emp', emp'[n].from \in Candidates
      PROVE  News(emp'[n].from, emp'[n].terms) \in AgreedNews' /\ emp'[n].from \in Announced'
  <2>1. ASSUME n \in DOMAIN emp, emp'[n].from = emp[n].from, emp'[n].terms = emp[n].terms
        PROVE  News(emp'[n].from, emp'[n].terms) \in AgreedNews' /\ emp'[n].from \in Announced'
    <3> DEFINE m == News(emp[n].from, emp[n].terms)
    <3>1. m \in AgreedNews /\ m.cand = emp[n].from /\ emp[n].from \in Announced
      BY <1>3, <2>1 DEF AgreedInv, News
    <3> HIDE DEF m
    <3>2. m \in AgreedNews' /\ emp[n].from \in Announced'
      BY <1>a, <3>1, AnnouncedGrows
    <3> QED BY <2>1, <3>2 DEF m
  <2>2. ASSUME NEW e \in Employees, emp' = Append(emp, e), n \notin DOMAIN emp PROVE emp'[n] = e
    BY <1>3, <2>2, AppendType
  <2>3. ASSUME NEW e \in Employees, emp' = Append(emp, e), n \in DOMAIN emp PROVE emp'[n] = emp[n]
    BY <2>3, AppendType
  <2>4. ASSUME NEW w \in Workers, OnCandidateHired(w)
        PROVE  News(emp'[n].from, emp'[n].terms) \in AgreedNews' /\ emp'[n].from \in Announced'
    <3> DEFINE e == NewEmployee(Message(w).cand, Message(w).terms, proc[w].no, Email[Message(w).cand])
    <3>1. /\ proc[w].msg \in DOMAIN stream /\ proc[w] \in Processes
          /\ Message(w) \in Messages
      BY <2>4, WorkerHolds DEF OnCandidateHired, ProcAt
    <3>2. e \in Employees /\ News(e.from, e.terms) = Message(w) /\ e.from = Message(w).cand
      BY <3>1, HiresAssumption DEF Messages, NewEmployee, Employees, Processes, News
    <3>3. emp' = emp \/ emp' = Append(emp, e)
      BY <2>4 DEF OnCandidateHired
    <3>4. Message(w) \in AgreedNews /\ Message(w).cand \in Announced
      BY <3>1 DEF Message, AgreedInv, Announced
    <3>5. Message(w) \in AgreedNews' /\ Message(w).cand \in Announced'
      BY <1>a, <3>4, AnnouncedGrows
    <3> HIDE DEF e
    <3> QED BY <1>3, <2>1, <2>2, <2>3, <3>2, <3>3, <3>5
  <2>5. ASSUME NEW h \in Clerks, InsertEmployee(h)
        PROVE  News(emp'[n].from, emp'[n].terms) \in AgreedNews' /\ emp'[n].from \in Announced'
    <3> DEFINE e == NewEmployee(NoCandidate, NoOffer, proc[h].no, proc[h].email)
    <3>1. e \in Employees /\ e.from \notin Candidates
      BY HiresAssumption DEF NewEmployee, Employees, Processes, TypeInv, TypeOK
    <3>2. emp' = emp \/ emp' = Append(emp, e)
      BY <2>5 DEF InsertEmployee
    <3> HIDE DEF e
    <3> QED BY <1>3, <2>1, <2>2, <2>3, <3>1, <3>2
  <2>6. ASSUME NEW i \in DOMAIN emp, DeleteEmployee(i)
        PROVE  /\ n \in DOMAIN emp /\ emp'[n].from = emp[n].from /\ emp'[n].terms = emp[n].terms
    <3>1. emp[i] \in Employees
      BY DEF TypeInv, TypeOK
    <3> QED BY <1>3, <2>6, <3>1 DEF DeleteEmployee, Employees, TypeInv, TypeOK
  <2> QED BY <1>3, <2>1, <2>4, <2>5, <2>6, EmployeesBy
<1> QED BY <1>1, <1>2, <1>3 DEF AgreedInv, At

\* Whatever is accepted, closed, deleted or delivered at the same time, an employee
\* starts on the terms of the latest offer accepted, or the history says why not.
THEOREM TermsHold == Spec => []TermsAreAgreed
<1>1. Init => LiveInv /\ AgreedInv
  BY StartsAssumption
     DEF Init, BusInit, LiveInv, AgreedInv, Existing, Exists, NoReq, At, Actors
<1>2. AgreedInv => TermsAreAgreed
  <2> SUFFICES ASSUME AgreedInv, NEW n \in DOMAIN emp, emp[n].from \in Candidates
               PROVE  Agreed(emp[n].from, emp[n].terms)
    BY DEF TermsAreAgreed, Agreed
  <2>1. News(emp[n].from, emp[n].terms) \in AgreedNews
    BY DEF AgreedInv
  <2> QED BY <2>1 DEF AgreedNews, News
<1> QED BY <1>1, <1>2, LiveNext, AgreedNext, HeldHolds, TypeHolds, PTL DEF Spec
=============================================================================
