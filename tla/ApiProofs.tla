------------------------------ MODULE ApiProofs ------------------------------
(* Safety of the API's parts for every value of their constants: what is kept *)
(* of cases, accounts and pages.                                              *)
EXTENDS Api, TLAPS, FiniteSetTheorems, WellFoundedInduction

-----------------------------------------------------------------------------
(* A case and its histories.                                               *)

Chosen == Choices \union {0}
Entries == [previous : Chosen, new : Chosen, overtaken : BOOLEAN]
Open == [exists : {TRUE}, value : [Fields -> Chosen], suggested : Chosen]
Creation == [op : {"create"}, case : DeskCases]
Change == [op : {"set"}, case : DeskCases, field : Fields, new : Chosen, previous : Chosen, overtaken : BOOLEAN]

\* A history leads to a value, with the excuses of HistoryTellsCase.
Led(h, i) == IF i = 0 THEN 0 ELSE h[i].new
Sound(h, i) == i = 0 \/ h[i].overtaken = FALSE
Tells(h, v) ==
    /\ \A i \in DOMAIN h : Sound(h, i) /\ Sound(h, i - 1) => h[i].previous = Led(h, i - 1)
    /\ Sound(h, Len(h)) => v = Led(h, Len(h))

\* What a request has loaded is the value of today, unless it is overtaken.
DeskInv ==
    /\ desk \in [DeskCases -> {D!Absent} \union Open]
    /\ history \in [DeskCases -> [Fields -> Seq(Entries)]]
    /\ doing \in [Clients -> {D!Idle} \union Creation \union Change]
    /\ \A c \in DeskCases, f \in Fields :
          IF D!Exists(c) THEN Tells(history[c][f], desk[c].value[f]) ELSE history[c][f] = <<>>
    /\ \A r \in Clients : doing[r] \in Change =>
          /\ D!Exists(doing[r].case)
          /\ doing[r].overtaken = FALSE => doing[r].previous = desk[doing[r].case].value[doing[r].field]

LEMMA NoEntryTells == Tells(<<>>, 0)
BY DEF Tells, Led, Sound

LEMMA EntryTells ==
  ASSUME NEW h \in Seq(Entries), NEW e \in Entries, NEW v, NEW w, Tells(h, v),
         e.overtaken = FALSE => e.previous = v /\ w = e.new
  PROVE  Tells(Append(h, e), w)
<1> DEFINE k == Append(h, e)  l == Len(h)
<1>1. l \in Nat /\ Len(k) = l + 1 /\ DOMAIN k = 1 .. (l + 1) /\ k[l + 1] = e /\ \A i \in 1 .. l : k[i] = h[i]
  OBVIOUS
<1>2. DOMAIN h = 1 .. l
  OBVIOUS
<1> HIDE DEF k, l
<1>3. ASSUME NEW i \in 1 .. l, Sound(k, i), Sound(k, i - 1) PROVE k[i].previous = Led(k, i - 1)
  <2>1. i - 1 = 0 \/ i - 1 \in 1 .. l
    BY <1>1
  <2> QED
    BY <1>1, <1>2, <1>3, <2>1 DEF Tells, Sound, Led
<1>4. Sound(k, l + 1) => k[l + 1].overtaken = FALSE
  BY <1>1 DEF Sound
<1>5. Sound(k, l) => Sound(h, l)
  BY <1>1 DEF Sound
<1>6. Led(k, l) = Led(h, l)
  BY <1>1 DEF Led
<1>7. Sound(h, l) => v = Led(h, l)
  BY DEF Tells, l
<1>8. Sound(k, l + 1) /\ Sound(k, l) => k[l + 1].previous = Led(k, l)
  BY <1>1, <1>4, <1>5, <1>6, <1>7
<1>9. Sound(k, l + 1) => w = Led(k, l + 1)
  BY <1>1, <1>4 DEF Led
<1>10. \A i \in 1 .. (l + 1) : Sound(k, i) /\ Sound(k, i - 1) => k[i].previous = Led(k, i - 1)
  <2> SUFFICES ASSUME NEW i \in 1 .. (l + 1), Sound(k, i), Sound(k, i - 1) PROVE k[i].previous = Led(k, i - 1)
    OBVIOUS
  <2>1. CASE i = l + 1
    <3>1. i - 1 = l
      BY <1>1, <2>1
    <3> QED
      BY <1>8, <2>1, <3>1
  <2>2. CASE i # l + 1
    BY <1>1, <1>3, <2>2
  <2> QED
    BY <2>1, <2>2
<1>11. Tells(k, w)
  BY <1>1, <1>9, <1>10 DEF Tells
<1> QED
  BY <1>11 DEF k

LEMMA OvertakenChange ==
  ASSUME NEW w \in Change
  PROVE  /\ [w EXCEPT !.overtaken = TRUE] \in Change /\ [w EXCEPT !.overtaken = TRUE].overtaken = TRUE
         /\ [w EXCEPT !.overtaken = TRUE].case = w.case /\ [w EXCEPT !.overtaken = TRUE].field = w.field
BY DEF Change

LEMMA DeskInvInit == D!Init => DeskInv
BY DEF D!Init, DeskInv, D!Absent, D!Idle, D!Exists, Change

LEMMA DeskInvNext == DeskInv /\ D!Next => DeskInv'
<1> SUFFICES ASSUME DeskInv, D!Next PROVE DeskInv'
  OBVIOUS
<1>1. ASSUME NEW r \in Clients, NEW c \in DeskCases, D!CreateRead(r, c) PROVE DeskInv'
  BY <1>1 DEF DeskInv, D!CreateRead, D!Exists, Creation, Change, D!Idle
<1>2. ASSUME NEW r \in Clients, D!CreateCommit(r) PROVE DeskInv'
  <2> DEFINE c == doing[r].case
  <2>1. c \in DeskCases /\ doing[r] \notin Change
    BY <1>2 DEF DeskInv, D!CreateCommit, Creation, Change, D!Idle
  <2>2. CASE D!Exists(c)
    BY <1>2, <2>1, <2>2 DEF DeskInv, D!CreateCommit, D!Exists, Change, D!Idle
  <2>3. CASE ~D!Exists(c)
    <3>1. D!New \in Open /\ D!New.exists /\ \A f \in Fields : D!New.value[f] = 0
      BY DEF D!New, Open, Chosen
    <3>2. desk' = [desk EXCEPT ![c] = D!New]
      BY <1>2, <2>3 DEF D!CreateCommit
    <3> QED
      BY <1>2, <2>1, <2>3, <3>1, <3>2, NoEntryTells DEF DeskInv, D!CreateCommit, D!Exists, Change, D!Idle
  <2> QED
    BY <2>2, <2>3
<1>3. ASSUME NEW r \in Clients, NEW c \in DeskCases, NEW f \in Fields, NEW v \in Choices, D!Load(r, c, f, v) PROVE DeskInv'
  <2> DEFINE w == [op |-> "set", case |-> c, field |-> f, new |-> v, previous |-> desk[c].value[f], overtaken |-> FALSE]
  <2>1. D!Exists(c) /\ desk[c] \in Open
    BY <1>3 DEF DeskInv, D!Load, D!Exists, D!Absent
  <2>2. w \in Change
    BY <2>1 DEF Change, Open, Chosen
  <2>3. doing' = [doing EXCEPT ![r] = w] /\ UNCHANGED <<desk, history, notes>>
    BY <1>3 DEF D!Load
  <2>4. w.case = c /\ w.field = f /\ w.previous = desk[c].value[f]
    OBVIOUS
  <2> HIDE DEF w
  <2> QED
    BY <2>1, <2>2, <2>3, <2>4 DEF DeskInv, D!Exists
<1>4. ASSUME NEW r \in Clients, D!Save(r) PROVE DeskInv'
  <2> DEFINE w == doing[r]  c == w.case  f == w.field  e == D!Entry(w)  h == history[c][f]
  <2>1. w \in Change /\ c \in DeskCases /\ f \in Fields
    BY <1>4 DEF DeskInv, D!Save, Creation, Change, D!Idle
  <2>2. D!Exists(c) /\ desk[c] \in Open /\ (w.overtaken = FALSE => w.previous = desk[c].value[f]) /\ Tells(h, desk[c].value[f])
    BY <2>1 DEF DeskInv, D!Exists, D!Absent
  <2>3. e \in Entries /\ e.previous = w.previous /\ e.new = w.new /\ e.overtaken = w.overtaken /\ w.new \in Chosen
    BY <2>1 DEF D!Entry, Entries, Change
  <2>4. h \in Seq(Entries)
    BY <2>1 DEF DeskInv
  <2>5. history' = [history EXCEPT ![c][f] = Append(h, e)] /\ desk' = D!Written(w)
    BY <1>4 DEF D!Save
  <2>6. \A q \in Clients :
           \/ doing'[q] = doing[q] /\ ~(doing[q] \in Change /\ doing[q].case = c /\ doing[q].field = f)
           \/ doing'[q] = D!Idle
           \/ doing[q] \in Change /\ doing'[q] \in Change /\ doing'[q].overtaken = TRUE /\ doing'[q].case = doing[q].case
    <3>1. \A q \in Clients :
             \/ doing'[q] = doing[q] /\ ~(doing[q] \in Change /\ doing[q].case = c /\ doing[q].field = f)
             \/ doing'[q] = D!Idle
             \/ doing[q] \in Change /\ doing'[q] = [doing[q] EXCEPT !.overtaken = TRUE]
      BY <1>4 DEF D!Save, D!Overtake, DeskInv, Change, Creation, D!Idle
    <3>2. ASSUME NEW q \in Clients, doing[q] \in Change, doing'[q] = [doing[q] EXCEPT !.overtaken = TRUE]
          PROVE  doing'[q] \in Change /\ doing'[q].overtaken = TRUE /\ doing'[q].case = doing[q].case
      BY <3>2, OvertakenChange, Zenon
    <3> QED
      BY <3>1, <3>2
  <2>7. doing' \in [Clients -> {D!Idle} \union Creation \union Change]
    <3>1. \A q \in Clients : doing'[q] \in {D!Idle} \union Creation \union Change
      BY <2>6 DEF DeskInv
    <3> QED
      BY <1>4, <3>1 DEF D!Save, D!Overtake
  <2>8. /\ desk' \in [DeskCases -> {D!Absent} \union Open]
        /\ \A d \in DeskCases : desk'[d].exists = desk[d].exists
        /\ \A d \in DeskCases, g \in Fields : D!Exists(d) /\ (d # c \/ g # f) => desk'[d].value[g] = desk[d].value[g]
        /\ w.overtaken = FALSE => desk'[c].value[f] = w.new
    <3>1. CASE w.new = w.previous
      <4>1. desk' = desk
        BY <2>5, <3>1 DEF D!Written
      <4> QED
        BY <2>2, <3>1, <4>1 DEF DeskInv
    <3>2. CASE w.new # w.previous
      <4> DEFINE new == [desk[c] EXCEPT !.value[f] = w.new]
      <4>1. desk' = [desk EXCEPT ![c] = new]
        BY <2>5, <3>2 DEF D!Written
      <4>2. new \in Open /\ new.exists = desk[c].exists /\ new.value = [desk[c].value EXCEPT ![f] = w.new]
        BY <2>2, <2>3 DEF Open
      <4> HIDE DEF new
      <4>3. new.value[f] = w.new /\ \A g \in Fields : g # f => new.value[g] = desk[c].value[g]
        BY <2>1, <2>2, <4>2 DEF Open
      <4> QED
        BY <2>1, <2>2, <4>1, <4>2, <4>3 DEF DeskInv
    <3> QED
      BY <3>1, <3>2
  <2> HIDE DEF e, h, f, c, w
  <2>9. Tells(Append(h, e), desk'[c].value[f])
    <3>1. e.overtaken = FALSE => e.previous = desk[c].value[f] /\ desk'[c].value[f] = e.new
      BY <2>2, <2>3, <2>8
    <3> DEFINE v == desk[c].value[f]  v2 == desk'[c].value[f]
    <3> HIDE DEF v, v2
    <3>2. Tells(h, v) /\ e \in Entries /\ (e.overtaken = FALSE => e.previous = v /\ v2 = e.new)
      BY <2>2, <2>3, <3>1 DEF v, v2
    <3>3. Tells(Append(h, e), v2)
      BY <2>4, <3>2, EntryTells, Zenon
    <3> QED
      BY <3>3 DEF v2
  <2>10. \A d \in DeskCases, g \in Fields : history'[d][g] = IF d = c /\ g = f THEN Append(h, e) ELSE history[d][g]
    BY <2>1, <2>5 DEF DeskInv
  <2>11. history' \in [DeskCases -> [Fields -> Seq(Entries)]]
    BY <2>1, <2>3, <2>4, <2>5 DEF DeskInv
  <2>12. ASSUME NEW d \in DeskCases, NEW g \in Fields
         PROVE  IF D!Exists(d)' THEN Tells(history'[d][g], desk'[d].value[g]) ELSE history'[d][g] = <<>>
    <3>1. D!Exists(d)' = D!Exists(d)
      BY <2>8 DEF D!Exists
    <3>2. CASE d = c /\ g = f
      BY <2>2, <2>9, <2>10, <3>1, <3>2
    <3>3. CASE ~(d = c /\ g = f)
      BY <2>8, <2>10, <3>1, <3>3 DEF DeskInv
    <3> QED
      BY <3>2, <3>3
  <2>13. ASSUME NEW q \in Clients, doing'[q] \in Change
         PROVE  /\ desk'[doing'[q].case].exists
                /\ doing'[q].overtaken = FALSE => doing'[q].previous = desk'[doing'[q].case].value[doing'[q].field]
    <3>1. CASE doing'[q] = doing[q] /\ ~(doing[q] \in Change /\ doing[q].case = c /\ doing[q].field = f)
      <4>1. doing[q] \in Change /\ doing[q].case \in DeskCases /\ doing[q].field \in Fields
        BY <2>13, <3>1 DEF Change
      <4>2. D!Exists(doing[q].case) /\ (doing[q].overtaken = FALSE => doing[q].previous = desk[doing[q].case].value[doing[q].field])
        BY <4>1 DEF DeskInv
      <4> QED
        BY <2>8, <3>1, <4>1, <4>2 DEF D!Exists
    <3>2. CASE doing'[q] = D!Idle
      BY <2>13, <3>2 DEF D!Idle, Change
    <3>3. CASE doing[q] \in Change /\ doing'[q].overtaken = TRUE /\ doing'[q].case = doing[q].case
      <4>1. doing[q].case \in DeskCases /\ D!Exists(doing[q].case)
        BY <3>3 DEF DeskInv, Change
      <4> QED
        BY <2>8, <3>3, <4>1 DEF D!Exists
    <3> QED
      BY <2>6, <3>1, <3>2, <3>3
  <2> QED
    BY <2>7, <2>8, <2>11, <2>12, <2>13 DEF DeskInv, D!Exists
<1>5. ASSUME NEW c \in DeskCases, NEW v \in Choices, D!SaveSuggestion(c, v) PROVE DeskInv'
  <2>1. desk[c] \in Open
    BY <1>5 DEF DeskInv, D!SaveSuggestion, D!Exists, D!Absent
  <2>2. [desk[c] EXCEPT !.suggested = v] \in Open
    BY <2>1 DEF Open, Chosen
  <2>3. desk' = [desk EXCEPT ![c] = [desk[c] EXCEPT !.suggested = v]] /\ UNCHANGED <<history, notes, doing>>
    BY <1>5 DEF D!SaveSuggestion
  <2>4. [desk[c] EXCEPT !.suggested = v].exists = desk[c].exists /\ [desk[c] EXCEPT !.suggested = v].value = desk[c].value
    BY <2>1 DEF Open
  <2> QED
    BY <2>1, <2>2, <2>3, <2>4 DEF DeskInv, D!Exists
<1>6. ASSUME NEW c \in DeskCases, D!Note(c) PROVE DeskInv'
  BY <1>6 DEF DeskInv, D!Note, D!Exists
<1> QED
  BY <1>1, <1>2, <1>3, <1>4, <1>5, <1>6 DEF D!Next

\* For any number of cases and requests: the histories account for the disposition and the
\* stage, entries that another request overtook excepted (disposition.py:45,
\* radar_cases.py:229).
THEOREM ApiHistoryTells == ApiSpec => []HistoryTellsCase
<1> DEFINE Inv == part = "desk" => DeskInv
<1>1. ApiInit => Inv
  BY DeskInvInit DEF ApiInit, AtStart
<1>2. Inv /\ [ApiNext]_api => Inv'
  <2> SUFFICES ASSUME Inv, [ApiNext]_api PROVE Inv'
    OBVIOUS
  <2>1. CASE part = "desk" /\ D!Next /\ part' = part
    BY <2>1, DeskInvNext
  <2>2. CASE part # "desk" /\ part' = part
    BY <2>2
  <2>3. CASE UNCHANGED api
    BY <2>3 DEF api, cases, DeskInv, D!Exists
  <2> QED
    BY <2>1, <2>2, <2>3 DEF ApiNext
<1>3. Inv => HistoryTellsCase
  <2> SUFFICES ASSUME DeskInv PROVE D!HistoryTellsCase
    BY DEF HistoryTellsCase
  <2> SUFFICES ASSUME NEW c \in DeskCases, D!Exists(c), NEW f \in Fields PROVE
        LET h == history[c][f]
            At(i) == IF i = 0 THEN 0 ELSE h[i].new
            Sure(i) == i = 0 \/ ~h[i].overtaken
        IN  /\ \A i \in DOMAIN h : Sure(i) /\ Sure(i - 1) => h[i].previous = At(i - 1)
            /\ Sure(Len(h)) => desk[c].value[f] = At(Len(h))
    BY DEF D!HistoryTellsCase
  <2>1. Tells(history[c][f], desk[c].value[f])
    BY DEF DeskInv
  <2> QED
    BY <2>1 DEF Tells, Led, Sound
<1> QED
  BY <1>1, <1>2, <1>3, PTL DEF ApiSpec

-----------------------------------------------------------------------------
(* Briefs and their evidence.                                              *)

\* What the proofs ask of the constants.
CaseConstants ==
    /\ IsFiniteSet(ResearchUrls)
    /\ Original \in CaseTexts
    /\ MaxSnapshots \in Nat

LEMMA ClassesCount == E!Cardinality(ResearchUrls) = Cardinality(ResearchUrls)
  BY DEF E!Cardinality, Cardinality

LEMMA CaseConstantsHold == CaseConstants
  BY ApiAssumption DEF CaseConstants

-----------------------------------------------------------------------------
(* Rows are only added.                                                    *)

Extends(s, t) == DOMAIN s \subseteq DOMAIN t /\ \A i \in DOMAIN s : t[i] = s[i]

RowsStay ==
    /\ Extends(snapshots, snapshots')
    /\ Extends(gates, gates')
    /\ Extends(funding, funding')
    /\ DOMAIN caseClaims \subseteq DOMAIN caseClaims'

LEMMA AppendExtends ==
  ASSUME NEW S, NEW s \in Seq(S), NEW e
  PROVE  Extends(s, Append(s, e))
  BY DEF Extends

LEMMA ConcatExtends ==
  ASSUME NEW S, NEW s \in Seq(S), NEW t \in Seq(S)
  PROVE  Extends(s, s \o t)
  BY DEF Extends

\* A finite table has a last row that satisfies a condition, if any does.
LEMMA LastOf ==
  ASSUME NEW L \in Nat, NEW S \in SUBSET (1 .. L), S # {}
  PROVE  \E m \in S : \A n \in S : n <= m
  <1> DEFINE T == {L - n : n \in S}
  <1>1. T \subseteq Nat /\ T # {}
    <2>1. \A n \in S : L - n \in Nat
      OBVIOUS
    <2>2. PICK n \in S : TRUE
      OBVIOUS
    <2>3. L - n \in T
      BY <2>2
    <2> QED
      BY <2>1, <2>3
  <1>2. PICK x \in T : \A y \in T : ~ (<<y, x>> \in OpToRel(<, Nat))
    BY <1>1, NatLessThanWellFounded, WFMin
  <1>3. PICK m \in S : x = L - m
    OBVIOUS
  <1>4. ASSUME NEW n \in S PROVE n <= m
    <2>1. L - n \in T /\ L - n \in Nat /\ x \in Nat
      BY <1>1
    <2>2. ~ (L - n < x)
      BY <1>2, <2>1 DEF OpToRel
    <2> QED
      BY <1>3, <2>1, <2>2
  <1> QED
    BY <1>4

LEMMA CaseInitTypeOK ==
  ASSUME CaseConstants, E!Init
  PROVE  E!TypeOK
  BY DEF CaseConstants, E!Init, E!TypeOK, E!ResearchState, E!Content, E!NoContent

-----------------------------------------------------------------------------
(* Type correctness, one lemma for each action that adds rows.             *)

LEMMA BindTypeOK ==
  ASSUME CaseConstants, E!TypeOK, E!BindEvidence
  PROVE  E!TypeOK' /\ RowsStay
  <1> DEFINE k == E!Cardinality(ResearchUrls)
  <1>1. k \in Nat
    BY FS_CardinalityType, ClassesCount DEF CaseConstants
  <1>2. PICK order \in [1 .. k -> ResearchUrls] : snapshots' = snapshots \o [i \in 1 .. k |-> E!Capture(order[i], Original)]
    BY DEF E!BindEvidence
  <1> DEFINE more == [i \in 1 .. k |-> E!Capture(order[i], Original)]
  <1>3. more \in Seq([url : E!Urls, text : CaseTexts]) /\ Len(more) = k
    <2> DEFINE R == [url : E!Urls, text : CaseTexts]
    <2>1. \A i \in 1 .. k : E!Capture(order[i], Original) \in R
      BY DEF E!Capture, E!Urls, CaseConstants
    <2>2. more \in [1 .. k -> R]
      BY <2>1
    <2> HIDE DEF R, more
    <2>3. more \in Seq(R) /\ Len(more) = k
      BY <1>1, <2>2
    <2> QED
      BY <2>3 DEF R
  <1> HIDE DEF more
  <1>4. snapshots' = snapshots \o more
    BY <1>2 DEF more
  <1>5. /\ snapshots' \in Seq([url : E!Urls, text : CaseTexts])
        /\ Len(snapshots') = Len(snapshots) + k
        /\ Extends(snapshots, snapshots')
    BY <1>3, <1>4, ConcatExtends DEF E!TypeOK
  <1>6. Len(snapshots) + k <= MaxSnapshots
    BY DEF E!BindEvidence
  <1>7. DOMAIN snapshots' = 1 .. (Len(snapshots) + k) /\ DOMAIN snapshots = 1 .. Len(snapshots)
    BY <1>5 DEF E!TypeOK
  <1>8. artifacts' \in SUBSET (DOMAIN snapshots') /\ bound' \in SUBSET artifacts'
    BY <1>1, <1>7 DEF E!BindEvidence, E!TypeOK
  <1>9. DOMAIN caseClaims \in SUBSET artifacts'
    BY DEF E!BindEvidence, E!TypeOK
  <1> QED
    BY <1>5, <1>6, <1>8, <1>9 DEF E!BindEvidence, E!TypeOK, RowsStay, Extends

\* AddClaims keeps what there was and adds the claims of S.
LEMMA AddClaimsType ==
  ASSUME NEW S, NEW q \in E!ClaimStatus, E!AddClaims(S, q), \A n \in DOMAIN caseClaims : caseClaims[n] \in E!ClaimStatus
  PROVE  DOMAIN caseClaims' = DOMAIN caseClaims \cup S /\ \A n \in DOMAIN caseClaims' : caseClaims'[n] \in E!ClaimStatus
  BY DEF E!AddClaims

LEMMA PersistTypeOK ==
  ASSUME CaseConstants, E!TypeOK, E!PersistClaims
  PROVE  E!TypeOK' /\ RowsStay
  <1>1. DOMAIN caseClaims' = DOMAIN caseClaims \cup bound /\ \A n \in DOMAIN caseClaims' : caseClaims'[n] \in E!ClaimStatus
    BY AddClaimsType DEF E!PersistClaims, E!TypeOK, E!ClaimStatus
  <1>2. bound \subseteq E!Ids
    BY DEF E!TypeOK, E!Ids, CaseConstants
  <1>3. edges' \in SUBSET ({E!Snapshot(n) : n \in E!Ids} \X {E!Case} \cup {<<E!Artifact(n), E!ClaimOf(n)>> : n \in E!Ids})
    BY <1>2 DEF E!PersistClaims, E!TypeOK
  <1> QED
    BY <1>1, <1>3 DEF E!PersistClaims, E!TypeOK, RowsStay, Extends, E!ResearchState

LEMMA GateTypeOK ==
  ASSUME E!TypeOK, NEW r \in E!GateResult, E!CreateGate(r)
  PROVE  E!TypeOK' /\ RowsStay
  <1>1. gates' \in Seq(E!GateResult) /\ Extends(gates, gates')
    BY AppendExtends DEF E!CreateGate, E!TypeOK
  <1> QED
    BY <1>1 DEF E!CreateGate, E!TypeOK, RowsStay, Extends

LEMMA FundingTypeOK ==
  ASSUME CaseConstants, E!TypeOK, NEW s \in E!FundingState, NEW q \in {"SUPPORTED", "UNKNOWN"}, E!CreateFunding(s, q)
  PROVE  E!TypeOK' /\ RowsStay
  <1> DEFINE n == Len(snapshots) + 1
  <1>1. n \in E!Ids /\ n \in Nat
    BY DEF E!CreateFunding, E!TypeOK, E!Ids, CaseConstants
  <1>2. E!Capture(FundingUrl, Original) \in [url : E!Urls, text : CaseTexts]
    BY DEF E!Capture, E!Urls, CaseConstants
  <1>3. /\ snapshots' \in Seq([url : E!Urls, text : CaseTexts])
        /\ Len(snapshots') = n
        /\ Extends(snapshots, snapshots')
    BY <1>2, AppendExtends DEF E!CreateFunding, E!TypeOK
  <1>4. DOMAIN snapshots' = 1 .. n /\ DOMAIN snapshots = 1 .. Len(snapshots) /\ n <= MaxSnapshots
    BY <1>1, <1>3 DEF E!TypeOK, E!Ids
  <1>5. DOMAIN caseClaims' = DOMAIN caseClaims \cup {n} /\ \A i \in DOMAIN caseClaims' : caseClaims'[i] \in E!ClaimStatus
    BY AddClaimsType DEF E!CreateFunding, E!TypeOK, E!ClaimStatus
  <1>6. edges' \in SUBSET ({E!Snapshot(i) : i \in E!Ids} \X {E!Case} \cup {<<E!Artifact(i), E!ClaimOf(i)>> : i \in E!Ids})
    BY <1>1 DEF E!CreateFunding, E!TypeOK
  <1>7. funding' \in Seq(E!FundingState) /\ Extends(funding, funding')
    BY AppendExtends DEF E!CreateFunding, E!TypeOK
  <1>8. artifacts' = artifacts \cup {n}
    BY DEF E!CreateFunding
  <1>9. artifacts' \in SUBSET (DOMAIN snapshots') /\ DOMAIN caseClaims' \in SUBSET artifacts' /\ bound \in SUBSET artifacts'
    BY <1>1, <1>4, <1>5, <1>8 DEF E!TypeOK
  <1> QED
    BY <1>3, <1>4, <1>5, <1>6, <1>7, <1>9 DEF E!CreateFunding, E!TypeOK, RowsStay, Extends

LEMMA WatchTypeOK ==
  ASSUME CaseConstants, E!TypeOK, NEW u \in E!Urls, NEW p \in CaseTexts, NEW t \in CaseTexts, E!WatchRun(u, p, t)
  PROVE  E!TypeOK' /\ RowsStay
  <1> DEFINE ss == E!WithPrior(u, p)
  <1>1. E!Capture(u, p) \in [url : E!Urls, text : CaseTexts] /\ E!Capture(u, t) \in [url : E!Urls, text : CaseTexts]
    BY DEF E!Capture
  <1>2. /\ ss \in Seq([url : E!Urls, text : CaseTexts])
        /\ Len(ss) = Len(snapshots) + (IF E!Of(u) = {} THEN 1 ELSE 0)
        /\ Extends(snapshots, ss)
    <2> DEFINE R == [url : E!Urls, text : CaseTexts]
    <2>1. snapshots \in Seq(R) /\ E!Capture(u, p) \in R
      BY <1>1 DEF E!TypeOK
    <2> HIDE DEF R
    <2>2. /\ Append(snapshots, E!Capture(u, p)) \in Seq(R)
          /\ Len(Append(snapshots, E!Capture(u, p))) = Len(snapshots) + 1
          /\ Extends(snapshots, Append(snapshots, E!Capture(u, p)))
      BY <2>1, AppendExtends
    <2>3. CASE E!Of(u) = {}
      BY <2>2, <2>3 DEF E!WithPrior, R
    <2>4. CASE E!Of(u) # {}
      <3>1. ss = snapshots /\ Extends(snapshots, snapshots)
        BY <2>4 DEF E!WithPrior, Extends
      <3> QED
        BY <2>1, <2>4, <3>1 DEF R
    <2> QED
      BY <2>3, <2>4
  <1>3. snapshots' = Append(ss, E!Capture(u, t)) /\ Len(ss) + 1 <= MaxSnapshots
    BY <1>2 DEF E!WatchRun, E!TypeOK, CaseConstants
  <1> HIDE DEF ss
  <1>4. /\ snapshots' \in Seq([url : E!Urls, text : CaseTexts])
        /\ Len(snapshots') <= MaxSnapshots
        /\ Extends(ss, snapshots')
    BY <1>1, <1>2, <1>3, AppendExtends DEF CaseConstants
  <1>5. Extends(snapshots, snapshots')
    BY <1>2, <1>4 DEF Extends
  <1>6. /\ DOMAIN caseClaims' = DOMAIN caseClaims
        /\ \A n \in DOMAIN caseClaims' : caseClaims'[n] \in E!ClaimStatus
        /\ research' \in E!ResearchState
    BY DEF E!WatchRun, E!Invalidate, E!TypeOK, E!ClaimStatus, E!ResearchState
  <1>7. artifacts' \in SUBSET (DOMAIN snapshots')
    BY <1>5 DEF E!WatchRun, E!TypeOK, Extends
  <1> QED
    BY <1>4, <1>5, <1>6, <1>7 DEF E!WatchRun, E!TypeOK, RowsStay, Extends

-----------------------------------------------------------------------------
(* Freezing, which touches no row.                                         *)

LEMMA CheckTypeOK ==
  ASSUME E!TypeOK, NEW c \in Callers, E!FreezeCheck(c)
  PROVE  E!TypeOK' /\ RowsStay
  BY DEF E!FreezeCheck, E!rows, E!TypeOK, RowsStay, Extends

LEMMA CollectTypeOK ==
  ASSUME CaseConstants, E!TypeOK, NEW c \in Callers, E!FreezeCollect(c)
  PROVE  E!TypeOK' /\ RowsStay
  <1> DEFINE seen == [claims |-> DOMAIN caseClaims, gates |-> gates, funding |-> funding]
  <1>1. DOMAIN caseClaims \in SUBSET E!Ids
    BY DEF E!TypeOK, E!Ids, CaseConstants
  <1>2. seen \in E!Content
    BY <1>1 DEF E!Content, E!TypeOK
  <1> HIDE DEF seen
  <1>3. freezing' = [freezing EXCEPT ![c] = [at |-> "collected", content |-> seen]]
    BY DEF E!FreezeCollect, seen
  <1>4. freezing' \in [Callers -> [at : {"idle", "checked", "collected"}, content : E!Content]]
    BY <1>2, <1>3 DEF E!TypeOK
  <1> QED
    BY <1>4 DEF E!FreezeCollect, E!rows, E!TypeOK, RowsStay, Extends

\* What FreezeRecord adds.
Frozen(c) == [content |-> freezing[c].content, snapshots |-> E!LatestCited, gates |-> gates, funding |-> funding]

LEMMA RecordTypeOK ==
  ASSUME CaseConstants, E!TypeOK, NEW c \in Callers, E!FreezeRecord(c)
  PROVE  E!TypeOK' /\ RowsStay /\ briefs' = Append(briefs, Frozen(c)) /\ Frozen(c) \in E!Brief
  <1>1. briefs' = Append(briefs, Frozen(c))
    BY DEF E!FreezeRecord, Frozen
  <1>2. E!LatestCited \in SUBSET E!Ids
    BY DEF E!LatestCited, E!TypeOK, E!Ids, CaseConstants
  <1>3. Frozen(c) \in E!Brief
    BY <1>2 DEF Frozen, E!Brief, E!TypeOK
  <1>4. briefs' \in Seq(E!Brief)
    BY <1>1, <1>3 DEF E!TypeOK
  <1>5. E!NoContent \in E!Content
    BY DEF E!NoContent, E!Content
  <1>6. freezing' \in [Callers -> [at : {"idle", "checked", "collected"}, content : E!Content]]
    BY <1>5 DEF E!FreezeRecord, E!TypeOK
  <1> QED
    BY <1>1, <1>3, <1>4, <1>6 DEF E!FreezeRecord, E!rows, E!TypeOK, RowsStay, Extends

LEMMA CaseNextTypeOK ==
  ASSUME CaseConstants, E!TypeOK, [E!Next]_(E!vars)
  PROVE  E!TypeOK' /\ RowsStay
  <1>1. CASE UNCHANGED E!vars
    BY <1>1 DEF E!vars, E!rows, E!TypeOK, RowsStay, Extends
  <1>2. CASE E!BindEvidence
    BY <1>2, BindTypeOK
  <1>3. CASE E!PersistClaims
    BY <1>3, PersistTypeOK
  <1>4. CASE \E r \in E!GateResult : E!CreateGate(r)
    BY <1>4, GateTypeOK
  <1>5. CASE \E s \in E!FundingState, q \in {"SUPPORTED", "UNKNOWN"} : E!CreateFunding(s, q)
    BY <1>5, FundingTypeOK
  <1>6. CASE \E u \in E!Urls, p, t \in CaseTexts : E!WatchRun(u, p, t)
    BY <1>6, WatchTypeOK
  <1>7. CASE \E c \in Callers : E!FreezeCheck(c) \/ E!FreezeCollect(c) \/ E!FreezeRecord(c)
    BY <1>7, CheckTypeOK, CollectTypeOK, RecordTypeOK
  <1> QED
    BY <1>1, <1>2, <1>3, <1>4, <1>5, <1>6, <1>7 DEF E!Next

\* Every variable of a case keeps its type, for any classes, texts and callers: claims
\* cite artifacts, artifacts are of captures there are, and edges lead from a capture to
\* the case or from an artifact to its claim.
THEOREM CaseTypeCorrect == ApiSpec => [](part = "case" => E!TypeOK)
<1> DEFINE Inv == part = "case" => E!TypeOK
<1>1. ApiInit => Inv
  BY CaseConstantsHold, CaseInitTypeOK DEF ApiInit, AtStart
<1>2. Inv /\ [ApiNext]_api => Inv'
  <2> SUFFICES ASSUME Inv, [ApiNext]_api PROVE Inv'
    OBVIOUS
  <2>1. CASE part = "case" /\ E!Next /\ part' = part
    BY <2>1, CaseConstantsHold, CaseNextTypeOK
  <2>2. CASE part # "case" /\ part' = part
    BY <2>2
  <2>3. CASE UNCHANGED api
    <3>1. UNCHANGED E!vars /\ part' = part
      BY <2>3 DEF api, case, E!vars, E!rows
    <3> QED
      BY <3>1, CaseConstantsHold, CaseNextTypeOK
  <2> QED
    BY <2>1, <2>2, <2>3 DEF ApiNext
<1> QED
  BY <1>1, <1>2, PTL DEF ApiSpec


-----------------------------------------------------------------------------
(* What briefs track.                                                      *)

\* What a caller has collected is still there.
StillThere(content, cs, gs, fs) ==
    /\ content.claims \subseteq DOMAIN cs
    /\ Extends(content.gates, gs)
    /\ Extends(content.funding, fs)

\* The content of a brief is behind its dependencies, and these are rows.
Tracks(b, ss, gs, fs) ==
    /\ b.content.claims \subseteq DOMAIN ss
    /\ b.snapshots \subseteq DOMAIN ss
    /\ \A n \in b.content.claims : \E m \in b.snapshots : ss[m].url = ss[n].url /\ n <= m
    /\ Extends(b.content.gates, b.gates) /\ Extends(b.gates, gs)
    /\ Extends(b.content.funding, b.funding) /\ Extends(b.funding, fs)

EvidenceInv ==
    /\ E!TypeOK
    /\ \A c \in Callers : freezing[c].at = "collected" => StillThere(freezing[c].content, caseClaims, gates, funding)
    /\ \A i \in DOMAIN briefs : Tracks(briefs[i], snapshots, gates, funding)

LEMMA ExtendsTransitive ==
  ASSUME NEW r, NEW s, NEW t, Extends(r, s), Extends(s, t)
  PROVE  Extends(r, t)
  BY DEF Extends

LEMMA HoldsStays ==
  ASSUME RowsStay, NEW x, StillThere(x, caseClaims, gates, funding)
  PROVE  StillThere(x, caseClaims', gates', funding')
  BY ExtendsTransitive DEF RowsStay, StillThere

LEMMA TracksStays ==
  ASSUME RowsStay, NEW b, Tracks(b, snapshots, gates, funding)
  PROVE  Tracks(b, snapshots', gates', funding')
  <1>1. Extends(b.gates, gates') /\ Extends(b.funding, funding')
    BY ExtendsTransitive DEF RowsStay, Tracks
  <1>2. DOMAIN snapshots \subseteq DOMAIN snapshots' /\ \A n \in DOMAIN snapshots : snapshots'[n] = snapshots[n]
    BY DEF RowsStay, Extends
  <1> QED
    BY <1>1, <1>2 DEF Tracks

\* Of the captures of a claim's page that are cited, the last is no older.
LEMMA LatestIsNoOlder ==
  ASSUME CaseConstants, E!TypeOK, NEW n \in DOMAIN caseClaims
  PROVE  \E m \in E!LatestCited : snapshots[m].url = snapshots[n].url /\ n <= m
  <1> DEFINE S == {m \in DOMAIN caseClaims : snapshots[m].url = snapshots[n].url}
  <1>1. DOMAIN caseClaims \subseteq 1 .. Len(snapshots) /\ Len(snapshots) \in Nat
    BY DEF E!TypeOK
  <1>2. S \in SUBSET (1 .. Len(snapshots)) /\ n \in S
    BY <1>1
  <1> HIDE DEF S
  <1>3. PICK m \in S : \A i \in S : i <= m
    BY <1>1, <1>2, LastOf
  <1>4. m \in E!LatestCited /\ snapshots[m].url = snapshots[n].url
    BY <1>3 DEF E!LatestCited, S
  <1> QED
    BY <1>2, <1>3, <1>4

LEMMA FrozenTracks ==
  ASSUME CaseConstants, E!TypeOK, NEW c \in Callers, StillThere(freezing[c].content, caseClaims, gates, funding)
  PROVE  Tracks(Frozen(c), snapshots, gates, funding)
  <1> DEFINE b == Frozen(c)
  <1>1. b.content = freezing[c].content /\ b.snapshots = E!LatestCited /\ b.gates = gates /\ b.funding = funding
    BY DEF Frozen
  <1> HIDE DEF b
  <1>2. DOMAIN caseClaims \subseteq DOMAIN snapshots
    BY DEF E!TypeOK
  <1>3. b.content.claims \subseteq DOMAIN caseClaims /\ b.snapshots \subseteq DOMAIN caseClaims
    BY <1>1 DEF StillThere, E!LatestCited
  <1>4. \A n \in b.content.claims : \E m \in b.snapshots : snapshots[m].url = snapshots[n].url /\ n <= m
    BY <1>1, <1>3, LatestIsNoOlder
  <1>5. /\ Extends(b.content.gates, b.gates) /\ Extends(b.content.funding, b.funding)
        /\ Extends(b.gates, gates) /\ Extends(b.funding, funding)
    BY <1>1 DEF StillThere, Extends
  <1>6. Tracks(b, snapshots, gates, funding)
    BY <1>2, <1>3, <1>4, <1>5 DEF Tracks
  <1> QED
    BY <1>6 DEF b

LEMMA InitEvidenceInv ==
  ASSUME CaseConstants, E!Init
  PROVE  EvidenceInv
  BY CaseInitTypeOK DEF E!Init, EvidenceInv

\* Only a caller that collects has collected anew.
LEMMA CallersHold ==
  ASSUME EvidenceInv, RowsStay, [E!Next]_(E!vars), NEW c \in Callers, freezing'[c].at = "collected"
  PROVE  StillThere(freezing'[c].content, caseClaims', gates', funding')
  <1>1. CASE freezing'[c] = freezing[c]
    <2>1. StillThere(freezing[c].content, caseClaims', gates', funding')
      BY <1>1, HoldsStays DEF EvidenceInv
    <2> QED
      BY <1>1, <2>1
  <1>2. CASE freezing'[c] # freezing[c]
    <2>1. PICK d \in Callers : E!FreezeCheck(d) \/ E!FreezeCollect(d) \/ E!FreezeRecord(d)
      BY <1>2 DEF E!Next, E!vars, E!BindEvidence, E!PersistClaims, E!CreateGate, E!CreateFunding, E!WatchRun
    <2>2. freezing \in [Callers -> [at : {"idle", "checked", "collected"}, content : E!Content]]
      BY DEF EvidenceInv, E!TypeOK
    <2>3. CASE E!FreezeCollect(d)
      <3>1. d = c /\ freezing'[c].content = [claims |-> DOMAIN caseClaims, gates |-> gates, funding |-> funding]
        BY <1>2, <2>2, <2>3 DEF E!FreezeCollect
      <3>2. caseClaims' = caseClaims /\ gates' = gates /\ funding' = funding
        BY <2>3 DEF E!FreezeCollect, E!rows
      <3> QED
        BY <3>1, <3>2 DEF StillThere, Extends
    <2>4. CASE E!FreezeCheck(d)
      BY <1>2, <2>2, <2>4 DEF E!FreezeCheck
    <2>5. CASE E!FreezeRecord(d)
      BY <1>2, <2>2, <2>5 DEF E!FreezeRecord
    <2> QED
      BY <2>1, <2>3, <2>4, <2>5
  <1> QED
    BY <1>1, <1>2

LEMMA BriefsTrack ==
  ASSUME CaseConstants, EvidenceInv, RowsStay, [E!Next]_(E!vars), NEW i \in DOMAIN briefs'
  PROVE  Tracks(briefs'[i], snapshots', gates', funding')
  <1>1. CASE briefs' = briefs
    BY <1>1, TracksStays DEF EvidenceInv
  <1>2. CASE briefs' # briefs
    <2>1. PICK c \in Callers : E!FreezeRecord(c)
      BY <1>2 DEF E!Next, E!vars, E!BindEvidence, E!PersistClaims, E!CreateGate, E!CreateFunding, E!WatchRun, E!FreezeCheck, E!FreezeCollect
    <2>2. briefs' = Append(briefs, Frozen(c)) /\ briefs \in Seq(E!Brief)
      BY <2>1, RecordTypeOK DEF EvidenceInv, E!TypeOK
    <2>3. Tracks(Frozen(c), snapshots, gates, funding)
      BY <2>1, FrozenTracks DEF EvidenceInv, E!FreezeRecord
    <2>4. Tracks(briefs'[i], snapshots, gates, funding)
      BY <2>2, <2>3 DEF EvidenceInv
    <2> QED
      BY <2>4, TracksStays
  <1> QED
    BY <1>1, <1>2

LEMMA NextEvidenceInv ==
  ASSUME CaseConstants, EvidenceInv, [E!Next]_(E!vars)
  PROVE  EvidenceInv'
  <1>1. E!TypeOK' /\ RowsStay
    BY CaseNextTypeOK DEF EvidenceInv
  <1>2. \A c \in Callers : freezing'[c].at = "collected" => StillThere(freezing'[c].content, caseClaims', gates', funding')
    BY <1>1, CallersHold
  <1>3. \A i \in DOMAIN briefs' : Tracks(briefs'[i], snapshots', gates', funding')
    BY <1>1, BriefsTrack
  <1> QED
    BY <1>1, <1>2, <1>3 DEF EvidenceInv

LEMMA InvTracks == EvidenceInv => E!ContentIsTracked
  BY DEF EvidenceInv, Tracks, Extends, E!ContentIsTracked

\* Briefs are only added.
LEMMA BriefsStay ==
  ASSUME CaseConstants, E!TypeOK, [E!Next]_(E!vars), NEW i \in DOMAIN briefs
  PROVE  briefs'[i] = briefs[i]
  <1>1. CASE briefs' = briefs
    BY <1>1
  <1>2. CASE briefs' # briefs
    <2>1. PICK c \in Callers : E!FreezeRecord(c)
      BY <1>2 DEF E!Next, E!vars, E!BindEvidence, E!PersistClaims, E!CreateGate, E!CreateFunding, E!WatchRun, E!FreezeCheck, E!FreezeCollect
    <2>2. briefs' = Append(briefs, Frozen(c)) /\ briefs \in Seq(E!Brief)
      BY <2>1, RecordTypeOK DEF E!TypeOK
    <2> QED
      BY <2>2
  <1> QED
    BY <1>1, <1>2

\* A capture that is not the newest of its page never is again.
LEMMA NewerStays ==
  ASSUME RowsStay, NEW n \in DOMAIN snapshots, E!HasNewer(n)
  PROVE  E!HasNewer(n)'
  BY DEF RowsStay, Extends, E!HasNewer

LEMMA SupersededStays ==
  ASSUME CaseConstants, EvidenceInv, [E!Next]_(E!vars), NEW i \in DOMAIN briefs, E!Superseded(briefs[i])
  PROVE  E!Superseded(briefs[i])'
  <1>1. RowsStay /\ briefs'[i] = briefs[i]
    BY CaseNextTypeOK, BriefsStay DEF EvidenceInv
  <1>2. Tracks(briefs[i], snapshots, gates, funding)
    BY DEF EvidenceInv
  <1>3. PICK n \in briefs[i].snapshots : E!HasNewer(n)
    BY <1>2 DEF E!Superseded, Tracks, Extends
  <1>4. n \in DOMAIN snapshots
    BY <1>2, <1>3 DEF Tracks
  <1>5. E!HasNewer(n)'
    BY <1>1, <1>3, <1>4, NewerStays
  <1>6. n \in briefs'[i].snapshots
    BY <1>1, <1>3
  <1> QED
    BY <1>5, <1>6 DEF E!Superseded

\* For any classes, texts and callers, and any interleaving of freeze_brief with other
\* requests: whatever a brief says, it depends on (ORACLE-032; briefs.py, case_truth.py).
THEOREM ApiContentTracked == ApiSpec => []ContentIsTracked
<1> DEFINE Inv == part = "case" => EvidenceInv
<1>1. ApiInit => Inv
  BY CaseConstantsHold, InitEvidenceInv DEF ApiInit, AtStart
<1>2. Inv /\ [ApiNext]_api => Inv'
  <2> SUFFICES ASSUME Inv, [ApiNext]_api PROVE Inv'
    OBVIOUS
  <2>1. CASE part = "case" /\ E!Next /\ part' = part
    BY <2>1, CaseConstantsHold, NextEvidenceInv
  <2>2. CASE part # "case" /\ part' = part
    BY <2>2
  <2>3. CASE UNCHANGED api
    <3>1. UNCHANGED E!vars /\ part' = part
      BY <2>3 DEF api, case, E!vars, E!rows
    <3> QED
      BY <3>1, CaseConstantsHold, NextEvidenceInv
  <2> QED
    BY <2>1, <2>2, <2>3 DEF ApiNext
<1>3. Inv => ContentIsTracked
  BY InvTracks DEF ContentIsTracked
<1> QED
  BY <1>1, <1>2, <1>3, PTL DEF ApiSpec

\* A superseded brief never becomes current again, whatever is captured, watched,
\* researched or frozen: is_superseded compares with rows that are only added
\* (case_truth.py).
THEOREM ApiSupersededStays == ApiSpec => SupersededForGood
<1>1. ApiInit => EvidenceInv
  BY CaseConstantsHold, InitEvidenceInv DEF ApiInit, AtStart
<1>2. [ApiNext]_api => [E!Next]_(E!vars)
  <2> SUFFICES ASSUME [ApiNext]_api PROVE E!Next \/ UNCHANGED E!vars
    OBVIOUS
  <2>1. CASE UNCHANGED case
    BY <2>1 DEF case, E!vars, E!rows
  <2> QED
    BY <2>1 DEF ApiNext, api
<1>3. EvidenceInv /\ [E!Next]_(E!vars) => EvidenceInv'
  BY CaseConstantsHold, NextEvidenceInv
<1>4. EvidenceInv /\ [E!Next]_(E!vars) => [\A i \in DOMAIN briefs : E!Superseded(briefs[i]) => E!Superseded(briefs[i])']_(E!vars)
  BY CaseConstantsHold, SupersededStays
<1> QED
  BY <1>1, <1>2, <1>3, <1>4, PTL DEF ApiSpec, SupersededForGood, E!SupersededForGood

-----------------------------------------------------------------------------
(* Accounts: tokens, invites and profiles.                                 *)

Known == Users \union {Admin}
Registering == [op : {"register"}, user : Users, arg : Codes \union {Nobody}]
Redeeming == [op : {"token"}, user : Known, arg : 1 .. MaxTokens]
Building == [op : {"build"}, user : Known, arg : SUBSET Nat]
Tokens == [kind : {"reset", "verify"}, of : Known \union {Nobody}, used : BOOLEAN]
Profiles == [of : Known \union {Nobody}, active : BOOLEAN]
Invites == [by : {Admin, Nobody}, used : Users \union {Nobody}]

AccountsType ==
    /\ users \subseteq Known /\ via \in [Users -> Codes \union {Nobody}]
    /\ invites \in [Codes -> Invites]
    /\ tokens \in Seq(Tokens) /\ Len(tokens) <= MaxTokens
    /\ profiles \in Seq(Profiles)
    /\ request \in [Clients -> {A!Free} \union Registering \union Redeeming \union Building]
    /\ spent \in [1 .. MaxTokens -> Nat]
    /\ raced \in BOOLEAN

\* Requests in progress differ in what they are about, unless two have read the same.
Apart ==
    raced = FALSE => \A c, d \in Clients : c # d /\ request[c].op = request[d].op /\ request[c] # A!Free =>
        request[c].arg # request[d].arg /\ request[c].user # request[d].user

\* A token that is being redeemed is unused, and an unused one has not worked.
TokensOnce ==
    raced = FALSE =>
        /\ \A c \in Clients : request[c] \in Redeeming => request[c].arg \in DOMAIN tokens /\ tokens[request[c].arg].used = FALSE
        /\ \A t \in 1 .. MaxTokens : spent[t] <= 1 /\ (spent[t] = 0 \/ (t \in DOMAIN tokens /\ tokens[t].used = TRUE))

\* An invite a registration holds is unused, and a used one is that of whom it brought in.
InvitesOnce ==
    raced = FALSE =>
        /\ \A c \in Clients : request[c] \in Registering /\ request[c].arg # Nobody => invites[request[c].arg].used = Nobody
        /\ \A u \in Users : via[u] # Nobody => invites[via[u]].used = u

\* Whoever builds a profile knows every other of its account, and one at most is active.
ProfilesOnce ==
    raced = FALSE =>
        /\ \A c \in Clients : request[c] \in Building => A!Own(request[c].user) \subseteq request[c].arg
        /\ \A p, q \in DOMAIN profiles :
              profiles[p].active = TRUE /\ profiles[q].active = TRUE /\ profiles[p].of = profiles[q].of => p = q

AccountsInv == AccountsType /\ Apart /\ TokensOnce /\ InvitesOnce /\ ProfilesOnce

LEMMA RowsMapped ==
  ASSUME NEW S, NEW s \in Seq(S), NEW t, DOMAIN t = DOMAIN s, t = [i \in DOMAIN s |-> t[i]], \A i \in DOMAIN s : t[i] \in S
  PROVE  t \in Seq(S) /\ Len(t) = Len(s)
<1>1. t \in [1 .. Len(s) -> S] /\ Len(s) \in Nat
  OBVIOUS
<1> QED
  BY <1>1

LEMMA ChangedRows ==
  /\ \A x \in Tokens : [x EXCEPT !.used = TRUE] \in Tokens /\ [x EXCEPT !.of = Nobody] \in Tokens
  /\ \A x \in Profiles, b \in BOOLEAN : [x EXCEPT !.active = b] \in Profiles
  /\ \A x \in Invites, u \in Users \union {Nobody} : [x EXCEPT !.used = u] \in Invites
BY DEF Tokens, Profiles, Invites

LEMMA AccountsInvInit == A!Init => AccountsInv
<1> SUFFICES ASSUME A!Init PROVE AccountsInv
  OBVIOUS
<1>1. AccountsType
  <2>1. invites \in [Codes -> Invites] /\ via \in [Users -> Codes \union {Nobody}] /\ users \subseteq Known
    BY DEF A!Init, Invites, Known
  <2>2. tokens \in Seq(Tokens) /\ Len(tokens) <= MaxTokens /\ profiles \in Seq(Profiles)
    BY ApiAssumption DEF A!Init
  <2> QED
    BY <2>1, <2>2 DEF A!Init, AccountsType
<1>2. \A c \in Clients : request[c] = A!Free /\ A!Free \notin Registering \union Redeeming \union Building
  BY DEF A!Init, A!Free, Registering, Redeeming, Building
<1> QED
  BY <1>1, <1>2, ApiAssumption DEF A!Init, AccountsInv, Apart, TokensOnce, InvitesOnce, ProfilesOnce

LEMMA IssueType ==
  ASSUME AccountsType, NEW kind \in {"reset", "verify"}, NEW u \in Known, A!Issue(kind, u)
  PROVE  /\ tokens' \in Seq(Tokens) /\ Len(tokens') <= MaxTokens
         /\ Len(tokens') = Len(tokens) + 1 /\ \A t \in DOMAIN tokens : tokens'[t] = tokens[t]
<1> DEFINE t == [kind |-> kind, of |-> u, used |-> FALSE]
<1>1. t \in Tokens
  BY DEF Tokens
<1> HIDE DEF t
<1>2. tokens' = Append(tokens, t) /\ Len(tokens) < MaxTokens
  BY DEF A!Issue, t
<1> QED
  BY <1>1, <1>2, ApiAssumption DEF AccountsType

LEMMA ReadType ==
  ASSUME AccountsType, NEW c \in Clients, NEW op, NEW u, NEW a, A!Read(c, op, u, a),
         [op |-> op, user |-> u, arg |-> a] \in Registering \union Redeeming \union Building
  PROVE  request' \in [Clients -> {A!Free} \union Registering \union Redeeming \union Building] /\ raced' \in BOOLEAN
<1>1. request' \in [Clients -> {A!Free} \union Registering \union Redeeming \union Building]
  BY DEF AccountsType, A!Read
<1>2. raced' \in BOOLEAN
  BY DEF A!Read
<1> QED
  BY <1>1, <1>2

LEMMA AccountsTypeNext == AccountsType /\ A!Next => AccountsType'
<1> SUFFICES ASSUME AccountsType, A!Next PROVE AccountsType'
  OBVIOUS
<1> USE DEF A!account, A!belongings, A!history
<1>1. ASSUME NEW c \in Clients, NEW u \in Users, NEW code \in Codes \union {Nobody}, A!RegisterRead(c, u, code) PROVE AccountsType'
  <2>1. [op |-> "register", user |-> u, arg |-> code] \in Registering
    BY DEF Registering
  <2> QED
    BY <1>1, <2>1, ReadType DEF AccountsType, A!RegisterRead
<1>2. ASSUME NEW c \in Clients, A!RegisterCommit(c) PROVE AccountsType'
  <2> DEFINE u == request[c].user  code == request[c].arg
  <2>1. u \in Users /\ u \in Known /\ code \in Codes \union {Nobody}
    BY <1>2 DEF AccountsType, A!RegisterCommit, A!Reads, Registering, Redeeming, Building, A!Free, Known
  <2>2. request' \in [Clients -> {A!Free} \union Registering \union Redeeming \union Building] /\ raced' = raced
    BY <1>2 DEF AccountsType, A!RegisterCommit, A!Answer
  <2>3. UNCHANGED <<profiles, spent>>
    BY <1>2 DEF A!RegisterCommit
  <2>4. CASE u \in users
    BY <1>2, <2>2, <2>3, <2>4 DEF AccountsType, A!RegisterCommit
  <2>5. CASE u \notin users
    <3>1. users' \subseteq Known /\ via' \in [Users -> Codes \union {Nobody}]
      BY <1>2, <2>1, <2>5 DEF AccountsType, A!RegisterCommit
    <3>2. invites' \in [Codes -> Invites]
      BY <1>2, <2>1, <2>5 DEF AccountsType, A!RegisterCommit, Invites
    <3>3. tokens' \in Seq(Tokens) /\ Len(tokens') <= MaxTokens
      <4>1. A!Issue("verify", u) \/ UNCHANGED tokens
        BY <1>2, <2>5 DEF A!RegisterCommit
      <4> QED
        BY <2>1, <4>1, IssueType DEF AccountsType
    <3> QED
      BY <2>2, <2>3, <3>1, <3>2, <3>3 DEF AccountsType
  <2> QED
    BY <2>4, <2>5
<1>3. ASSUME NEW u \in Users, A!Access(u) PROVE AccountsType'
  BY <1>3 DEF AccountsType, A!Access, Known
<1>4. ASSUME NEW u \in Users, NEW kind \in {"reset", "verify"}, A!Forgot(u, kind) PROVE AccountsType'
  BY <1>4, IssueType DEF AccountsType, A!Forgot, Known
<1>5. ASSUME NEW c \in Clients, NEW t \in DOMAIN tokens, A!TokenRead(c, t) PROVE AccountsType'
  <2>1. [op |-> "token", user |-> tokens[t].of, arg |-> t] \in Redeeming
    BY <1>5, ApiAssumption DEF Redeeming, A!TokenRead, AccountsType
  <2> QED
    BY <1>5, <2>1, ReadType DEF AccountsType, A!TokenRead
<1>6. ASSUME NEW c \in Clients, A!TokenCommit(c) PROVE AccountsType'
  <2> DEFINE t == request[c].arg
  <2>1. t \in 1 .. MaxTokens
    BY <1>6 DEF AccountsType, A!TokenCommit, A!Reads, Registering, Redeeming, Building, A!Free
  <2>2. request' \in [Clients -> {A!Free} \union Registering \union Redeeming \union Building] /\ raced' = raced
    BY <1>6 DEF AccountsType, A!TokenCommit, A!Answer
  <2>3. UNCHANGED <<users, via, invites, profiles>>
    BY <1>6 DEF A!TokenCommit
  <2>4. tokens' = tokens \/ tokens' = A!MarkUsed(t)
    BY <1>6 DEF A!TokenCommit
  <2>5. A!MarkUsed(t) \in Seq(Tokens) /\ Len(A!MarkUsed(t)) = Len(tokens)
    <3>1. \A i \in DOMAIN tokens : A!MarkUsed(t)[i] \in Tokens
      <4> SUFFICES ASSUME NEW i \in DOMAIN tokens PROVE A!MarkUsed(t)[i] \in Tokens
        OBVIOUS
      <4>1. tokens[i] \in Tokens
        BY DEF AccountsType
      <4>2. A!MarkUsed(t)[i] = tokens[i] \/ A!MarkUsed(t)[i] = [tokens[i] EXCEPT !.used = TRUE]
        BY DEF A!MarkUsed
      <4> QED
        BY <4>1, <4>2, ChangedRows, Zenon
    <3>2. A!MarkUsed(t) = [i \in DOMAIN tokens |-> A!MarkUsed(t)[i]] /\ DOMAIN A!MarkUsed(t) = DOMAIN tokens
      BY DEF A!MarkUsed
    <3> QED
      BY <3>1, <3>2, RowsMapped DEF AccountsType
  <2>6. spent' \in [1 .. MaxTokens -> Nat]
    BY <1>6, <2>1 DEF A!TokenCommit, AccountsType
  <2> QED
    BY <2>2, <2>3, <2>4, <2>5, <2>6 DEF AccountsType
<1>7. ASSUME NEW code \in Codes, A!CreateInvite(code) PROVE AccountsType'
  BY <1>7 DEF AccountsType, A!CreateInvite, Invites
<1>8. ASSUME NEW c \in Clients, NEW u \in Owners, A!BuildRead(c, u) PROVE AccountsType'
  <2>1. [op |-> "build", user |-> u, arg |-> A!Own(u)] \in Building
    BY <1>8 DEF Building, A!BuildRead, AccountsType, A!Own
  <2> QED
    BY <1>8, <2>1, ReadType DEF AccountsType, A!BuildRead
<1>9. ASSUME NEW c \in Clients, A!BuildCommit(c) PROVE AccountsType'
  <2> DEFINE u == request[c].user
             new == [of |-> u, active |-> TRUE]
             kept == [p \in DOMAIN profiles |-> [profiles[p] EXCEPT !.active = @ /\ p \notin request[c].arg]]
  <2>1. u \in Known
    BY <1>9 DEF AccountsType, A!BuildCommit, A!Reads, Registering, Redeeming, Building, A!Free
  <2>2. request' \in [Clients -> {A!Free} \union Registering \union Redeeming \union Building] /\ raced' = raced
    BY <1>9 DEF AccountsType, A!BuildCommit, A!Answer
  <2>3. UNCHANGED <<users, via, invites, tokens, spent>>
    BY <1>9 DEF A!BuildCommit
  <2>4. \A p \in DOMAIN profiles : kept[p] \in Profiles
    <3>1. \A x \in Profiles, b \in BOOLEAN : [x EXCEPT !.active = b] \in Profiles
      BY ChangedRows
    <3>2. \A p \in DOMAIN profiles : profiles[p] \in Profiles /\ (profiles[p].active /\ p \notin request[c].arg) \in BOOLEAN
      BY DEF AccountsType
    <3> QED
      BY <3>1, <3>2
  <2>5. kept \in Seq(Profiles)
    BY <2>4, RowsMapped DEF AccountsType
  <2>6. new \in Profiles
    BY <2>1 DEF Profiles
  <2>7. profiles' = profiles \/ profiles' = Append(kept, new)
    BY <1>9 DEF A!BuildCommit
  <2> HIDE DEF kept, new
  <2>8. profiles' \in Seq(Profiles)
    <3>1. Append(kept, new) \in Seq(Profiles)
      BY <2>5, <2>6
    <3>2. profiles \in Seq(Profiles)
      BY DEF AccountsType
    <3> QED
      BY <2>7, <3>1, <3>2
  <2> QED
    BY <2>2, <2>3, <2>8 DEF AccountsType
<1>10. ASSUME NEW u \in Users \union {Admin}, A!Erase(u) PROVE AccountsType'
  <2>1. CASE UNCHANGED <<users, verified, via, invites, tokens, profiles>>
    BY <1>10, <2>1 DEF A!Erase, AccountsType
  <2>2. CASE A!Rows(u) \subseteq A!Deletes
    <3>1. users' \subseteq Known /\ via' \in [Users -> Codes \union {Nobody}]
      BY <1>10, <2>2 DEF A!Erase, AccountsType
    <3>2. invites' \in [Codes -> Invites]
      <4>1. invites' = [c \in Codes |-> IF invites[c].used = u THEN [invites[c] EXCEPT !.used = Nobody] ELSE invites[c]]
        BY <1>10, <2>2 DEF A!Erase
      <4> QED
        BY <4>1, ChangedRows DEF AccountsType
    <3>3. tokens' \in Seq(Tokens) /\ Len(tokens') = Len(tokens)
      <4>1. tokens' = [t \in DOMAIN tokens |-> IF tokens[t].of = u THEN [tokens[t] EXCEPT !.of = Nobody] ELSE tokens[t]]
        BY <1>10, <2>2 DEF A!Erase
      <4>2. \A t \in DOMAIN tokens : tokens'[t] \in Tokens
        <5> SUFFICES ASSUME NEW t \in DOMAIN tokens PROVE tokens'[t] \in Tokens
          OBVIOUS
        <5>1. tokens[t] \in Tokens
          BY DEF AccountsType
        <5>2. tokens'[t] = tokens[t] \/ tokens'[t] = [tokens[t] EXCEPT !.of = Nobody]
          BY <4>1
        <5> QED
          BY <5>1, <5>2, ChangedRows, Zenon
      <4>3. tokens' = [t \in DOMAIN tokens |-> tokens'[t]] /\ DOMAIN tokens' = DOMAIN tokens
        BY <4>1
      <4> QED
        BY <4>2, <4>3, RowsMapped DEF AccountsType
    <3>4. profiles' \in Seq(Profiles)
      <4>1. profiles' = [p \in DOMAIN profiles |-> IF p \in A!Own(u) THEN [of |-> Nobody, active |-> FALSE] ELSE profiles[p]]
        BY <1>10, <2>2 DEF A!Erase
      <4>2. \A p \in DOMAIN profiles : profiles'[p] \in Profiles
        <5>1. [of |-> Nobody, active |-> FALSE] \in Profiles
          BY DEF Profiles
        <5>2. \A p \in DOMAIN profiles : profiles[p] \in Profiles
          BY DEF AccountsType
        <5> QED
          BY <4>1, <5>1, <5>2
      <4>3. profiles' = [p \in DOMAIN profiles |-> profiles'[p]] /\ DOMAIN profiles' = DOMAIN profiles
        BY <4>1
      <4> QED
        BY <4>2, <4>3, RowsMapped DEF AccountsType
    <3> QED
      BY <1>10, <3>1, <3>2, <3>3, <3>4 DEF A!Erase, AccountsType
  <2> QED
    BY <1>10, <2>1, <2>2 DEF A!Erase
<1>11. CASE UNCHANGED <<users, verified, via, invites, tokens, profiles, request, spent, raced>>
  BY <1>11 DEF AccountsType
<1> QED
  BY <1>1, <1>2, <1>3, <1>4, <1>5, <1>6, <1>7, <1>8, <1>9, <1>10, <1>11 DEF A!Next, A!Save, A!Unsave, A!Carry, A!Bookmark

\* A request in progress is new, differs from the others, or is as it was.
LEMMA ReadApart ==
  ASSUME AccountsType, Apart, NEW c \in Clients, NEW op, NEW u, NEW a, A!Read(c, op, u, a)
  PROVE  Apart' /\ (raced' = FALSE => raced = FALSE)
<1>1. raced' = FALSE => raced = FALSE /\ \A d \in Clients \ {c} : request[d].op = op => request[d].arg # a /\ request[d].user # u
  BY DEF A!Read, AccountsType
<1>2. request' = [request EXCEPT ![c] = [op |-> op, user |-> u, arg |-> a]]
  BY DEF A!Read
<1> DEFINE r == [op |-> op, user |-> u, arg |-> a]
<1>3. r.op = op /\ r.user = u /\ r.arg = a
  OBVIOUS
<1> HIDE DEF r
<1>4. request'[c] = r /\ \A d \in Clients \ {c} : request'[d] = request[d]
  BY <1>2 DEF AccountsType, r
<1> QED
  BY <1>1, <1>3, <1>4 DEF Apart

LEMMA ApartNext == AccountsType /\ Apart /\ A!Next => Apart' /\ (raced' = FALSE => raced = FALSE)
<1> SUFFICES ASSUME AccountsType, Apart, A!Next PROVE Apart' /\ (raced' = FALSE => raced = FALSE)
  OBVIOUS
<1>1. CASE \E c \in Clients, u \in Users, code \in Codes \union {Nobody} : A!RegisterRead(c, u, code)
  <2>1. PICK c \in Clients, u \in Users, code \in Codes \union {Nobody} : A!Read(c, "register", u, code)
    BY <1>1 DEF A!RegisterRead
  <2> QED
    BY <2>1, ReadApart
<1>2. CASE \E c \in Clients, t \in DOMAIN tokens : A!TokenRead(c, t)
  <2>1. PICK c \in Clients, t \in DOMAIN tokens : A!Read(c, "token", tokens[t].of, t)
    BY <1>2 DEF A!TokenRead
  <2> QED
    BY <2>1, ReadApart
<1>3. CASE \E c \in Clients, u \in Owners : A!BuildRead(c, u)
  <2>1. PICK c \in Clients, u \in Owners : A!Read(c, "build", u, A!Own(u))
    BY <1>3 DEF A!BuildRead
  <2> QED
    BY <2>1, ReadApart
<1>4. CASE \E c \in Clients : A!RegisterCommit(c) \/ A!TokenCommit(c) \/ A!BuildCommit(c)
  <2>1. PICK c \in Clients : request' = [request EXCEPT ![c] = A!Free] /\ raced' = raced
    BY <1>4 DEF A!RegisterCommit, A!TokenCommit, A!BuildCommit, A!Answer
  <2>2. request'[c] = A!Free /\ \A d \in Clients \ {c} : request'[d] = request[d]
    BY <2>1 DEF AccountsType
  <2>3. \A d \in Clients : request[d] # A!Free => request[d].op # A!Free.op
    BY DEF AccountsType, A!Free, Registering, Redeeming, Building
  <2> QED
    BY <2>1, <2>2, <2>3 DEF Apart
<1>5. CASE UNCHANGED <<request, raced>>
  BY <1>5 DEF Apart
<1> QED
  BY <1>1, <1>2, <1>3, <1>4, <1>5 DEF A!Next, A!Access, A!Save, A!Unsave, A!Erase, A!Forgot, A!CreateInvite, A!Bookmark, A!Carry

\* Requests of a kind in progress, when another one begins or ends.
LEMMA KindsDiffer ==
  /\ A!Free \notin Registering \union Redeeming \union Building
  /\ \A r \in Registering : r.op = "register" /\ r \notin Redeeming \union Building
  /\ \A r \in Redeeming : r.op = "token" /\ r \notin Registering \union Building
  /\ \A r \in Building : r.op = "build" /\ r \notin Registering \union Redeeming
BY DEF A!Free, Registering, Redeeming, Building

LEMMA AnswerKind ==
  ASSUME AccountsType, NEW c \in Clients, A!Answer(c)
  PROVE  request'[c] = A!Free /\ raced' = raced /\ \A d \in Clients \ {c} : request'[d] = request[d]
BY DEF A!Answer, AccountsType

LEMMA ReadKind ==
  ASSUME AccountsType, NEW c \in Clients, NEW op, NEW u, NEW a, A!Read(c, op, u, a)
  PROVE  request'[c] = [op |-> op, user |-> u, arg |-> a] /\ \A d \in Clients \ {c} : request'[d] = request[d]
BY DEF A!Read, AccountsType

LEMMA TokensOnceNext == AccountsType /\ Apart /\ TokensOnce /\ A!Next => TokensOnce'
<1> SUFFICES ASSUME AccountsType, Apart, TokensOnce, A!Next, raced' = FALSE PROVE TokensOnce'
  BY DEF TokensOnce
<1>0. raced = FALSE
  BY ApartNext
<1> USE <1>0 DEF A!account, A!belongings, A!history
<1>1. ASSUME NEW c \in Clients, NEW t \in DOMAIN tokens, A!TokenRead(c, t) PROVE TokensOnce'
  <2>1. tokens[t].used = FALSE /\ UNCHANGED <<tokens, spent>>
    BY <1>1 DEF A!TokenRead, AccountsType, Tokens
  <2>2. request'[c] = [op |-> "token", user |-> tokens[t].of, arg |-> t] /\ \A d \in Clients \ {c} : request'[d] = request[d]
    BY <1>1, ReadKind DEF A!TokenRead
  <2> QED
    BY <2>1, <2>2 DEF TokensOnce
<1>2. ASSUME NEW c \in Clients, A!TokenCommit(c) PROVE TokensOnce'
  <2> DEFINE t == request[c].arg
  <2>1. request[c] \in Redeeming /\ t \in 1 .. MaxTokens /\ t \in DOMAIN tokens
    <3>1. request[c] \in Redeeming
      BY <1>2, KindsDiffer DEF A!TokenCommit, A!Reads, AccountsType, A!Free
    <3> QED
      BY <3>1 DEF TokensOnce, Redeeming
  <2>2. tokens[t].used = FALSE /\ spent[t] = 0
    BY <2>1 DEF TokensOnce
  <2>3. request'[c] = A!Free /\ \A d \in Clients \ {c} : request'[d] = request[d]
    BY <1>2, AnswerKind DEF A!TokenCommit
  <2>4. \A d \in Clients \ {c} : request[d] \in Redeeming => request[d].arg # t
    BY <2>1, KindsDiffer DEF Apart
  <2>5. CASE UNCHANGED <<tokens, spent>>
    BY <2>3, <2>5, KindsDiffer DEF TokensOnce
  <2>6. CASE tokens' = A!MarkUsed(t) /\ spent' = [spent EXCEPT ![t] = @ + 1]
    <3>1. DOMAIN tokens' = DOMAIN tokens /\ tokens'[t].used = TRUE /\ \A i \in DOMAIN tokens \ {t} : tokens'[i] = tokens[i]
      <4>1. tokens[t] \in Tokens
        BY <2>1 DEF AccountsType
      <4> QED
        BY <2>1, <2>6, <4>1 DEF A!MarkUsed, Tokens
    <3>2. spent'[t] = 1 /\ \A i \in 1 .. MaxTokens : i # t => spent'[i] = spent[i]
      BY <2>1, <2>2, <2>6 DEF AccountsType
    <3>3. \A d \in Clients : request'[d] \in Redeeming => request'[d] = request[d] /\ request[d].arg # t
      BY <2>3, <2>4, KindsDiffer
    <3> QED
      BY <2>1, <3>1, <3>2, <3>3 DEF TokensOnce
  <2> QED
    BY <1>2, <2>5, <2>6 DEF A!TokenCommit
<1>3. ASSUME NEW u \in Users \union {Admin}, A!Erase(u) PROVE TokensOnce'
  <2>1. UNCHANGED <<request, spent>>
    BY <1>3 DEF A!Erase
  <2>2. DOMAIN tokens' = DOMAIN tokens /\ \A t \in DOMAIN tokens : tokens'[t].used = tokens[t].used
    <3>1. \A t \in DOMAIN tokens : tokens[t] \in Tokens
      BY DEF AccountsType
    <3>2. CASE tokens' = [t \in DOMAIN tokens |-> IF tokens[t].of = u THEN [tokens[t] EXCEPT !.of = Nobody] ELSE tokens[t]]
      BY <3>1, <3>2 DEF Tokens
    <3> QED
      BY <1>3, <3>2 DEF A!Erase
  <2> QED
    BY <2>1, <2>2 DEF TokensOnce
<1>4. ASSUME NEW u \in Known, NEW kind \in {"reset", "verify"}, A!Issue(kind, u), UNCHANGED spent,
             \A d \in Clients : request'[d] = request[d] \/ request'[d] = A!Free
      PROVE  TokensOnce'
  <2>1. Len(tokens') = Len(tokens) + 1 /\ DOMAIN tokens \subseteq DOMAIN tokens' /\ \A t \in DOMAIN tokens : tokens'[t] = tokens[t]
    BY <1>4, IssueType DEF AccountsType
  <2> QED
    BY <1>4, <2>1, KindsDiffer DEF TokensOnce
<1>5. ASSUME UNCHANGED <<tokens, spent>>, \A d \in Clients : request'[d] = request[d] \/ request'[d] \notin Redeeming
      PROVE  TokensOnce'
  BY <1>5 DEF TokensOnce
<1>6. ASSUME NEW c \in Clients, A!RegisterCommit(c) PROVE TokensOnce'
  <2>1. \A d \in Clients : request'[d] = request[d] \/ request'[d] = A!Free
    BY <1>6, AnswerKind DEF A!RegisterCommit
  <2>2. request[c].user \in Known
    BY <1>6 DEF A!RegisterCommit, A!Reads, AccountsType, Registering, Redeeming, Building, A!Free, Known
  <2>3. (UNCHANGED tokens \/ A!Issue("verify", request[c].user)) /\ UNCHANGED spent
    BY <1>6 DEF A!RegisterCommit
  <2> QED
    BY <1>4, <1>5, <2>1, <2>2, <2>3, KindsDiffer
<1>7. ASSUME NEW u \in Users, NEW kind \in {"reset", "verify"}, A!Forgot(u, kind) PROVE TokensOnce'
  BY <1>4, <1>7 DEF A!Forgot, Known
<1>8. ASSUME NEW c \in Clients, A!BuildCommit(c) PROVE TokensOnce'
  BY <1>5, <1>8, AnswerKind, KindsDiffer DEF A!BuildCommit
<1>9. ASSUME NEW c \in Clients, NEW u \in Users, NEW code \in Codes \union {Nobody}, A!RegisterRead(c, u, code) PROVE TokensOnce'
  <2>1. [op |-> "register", user |-> u, arg |-> code] \in Registering
    BY DEF Registering
  <2> QED
    BY <1>5, <1>9, <2>1, ReadKind, KindsDiffer DEF A!RegisterRead
<1>10. ASSUME NEW c \in Clients, NEW u \in Owners, A!BuildRead(c, u) PROVE TokensOnce'
  <2>1. [op |-> "build", user |-> u, arg |-> A!Own(u)] \in Building
    BY <1>10 DEF Building, A!BuildRead, AccountsType, A!Own
  <2> QED
    BY <1>5, <1>10, <2>1, ReadKind, KindsDiffer DEF A!BuildRead
<1>11. CASE UNCHANGED <<tokens, spent, request>>
  BY <1>11 DEF TokensOnce
<1> QED
  BY <1>1, <1>2, <1>3, <1>6, <1>7, <1>8, <1>9, <1>10, <1>11 DEF A!Next, A!Access, A!Save, A!Unsave, A!CreateInvite, A!Bookmark, A!Carry

LEMMA InvitesOnceNext == AccountsType /\ Apart /\ InvitesOnce /\ A!Next => InvitesOnce'
<1> SUFFICES ASSUME AccountsType, Apart, InvitesOnce, A!Next, raced' = FALSE PROVE InvitesOnce'
  BY DEF InvitesOnce
<1>0. raced = FALSE
  BY ApartNext
<1> USE <1>0 DEF A!account, A!belongings, A!history
<1>1. ASSUME NEW c \in Clients, NEW u \in Users, NEW code \in Codes \union {Nobody}, A!RegisterRead(c, u, code) PROVE InvitesOnce'
  <2>1. request'[c] = [op |-> "register", user |-> u, arg |-> code] /\ \A d \in Clients \ {c} : request'[d] = request[d]
    BY <1>1, ReadKind DEF A!RegisterRead
  <2>2. code # Nobody => invites[code].used = Nobody
    BY <1>1 DEF A!RegisterRead
  <2>3. UNCHANGED <<via, invites>>
    BY <1>1 DEF A!RegisterRead
  <2> QED
    BY <2>1, <2>2, <2>3 DEF InvitesOnce
<1>2. ASSUME NEW c \in Clients, A!RegisterCommit(c) PROVE InvitesOnce'
  <2> DEFINE u == request[c].user  code == request[c].arg
  <2>1. request[c] \in Registering
    BY <1>2, KindsDiffer DEF A!RegisterCommit, A!Reads, AccountsType, A!Free
  <2>2. u \in Users /\ code \in Codes \union {Nobody} /\ (code # Nobody => invites[code].used = Nobody)
    BY <2>1 DEF Registering, InvitesOnce
  <2>3. request'[c] = A!Free /\ \A d \in Clients \ {c} : request'[d] = request[d]
    BY <1>2, AnswerKind DEF A!RegisterCommit
  <2>4. \A d \in Clients \ {c} : request[d] \in Registering => request[d].arg # code
    BY <2>1, KindsDiffer DEF Apart
  <2>5. CASE UNCHANGED <<via, invites>>
    BY <2>3, <2>5, KindsDiffer DEF InvitesOnce
  <2>6. CASE u \notin users
    <3>1. via' = [via EXCEPT ![u] = code] /\ invites' = [k \in Codes |-> IF k = code THEN [invites[k] EXCEPT !.used = u] ELSE invites[k]]
      BY <1>2, <2>6 DEF A!RegisterCommit
    <3>2. \A k \in Codes : k # code => invites'[k] = invites[k]
      BY <3>1
    <3>3. code \in Codes => invites'[code].used = u
      <4>1. ASSUME code \in Codes PROVE invites[code] \in Invites /\ invites'[code] = [invites[code] EXCEPT !.used = u]
        BY <3>1, <4>1 DEF AccountsType
      <4> QED
        BY <4>1 DEF Invites
    <3>4. ASSUME NEW w \in Users, via'[w] # Nobody PROVE invites'[via'[w]].used = w
      <4>1. CASE w = u
        BY <2>2, <3>1, <3>3, <3>4, <4>1 DEF AccountsType
      <4>2. CASE w # u
        <5>1. via'[w] = via[w] /\ via[w] \in Codes /\ invites[via[w]].used = w
          BY <3>1, <3>4, <4>2 DEF AccountsType, InvitesOnce
        <5>2. via[w] # code
          BY <2>2, <3>4, <5>1, ApiAssumption
        <5> QED
          BY <3>2, <5>1, <5>2
      <4> QED
        BY <4>1, <4>2
    <3>5. ASSUME NEW d \in Clients, request'[d] \in Registering, request'[d].arg # Nobody PROVE invites'[request'[d].arg].used = Nobody
      <4>1. d # c /\ request'[d] = request[d] /\ request[d].arg # code /\ request[d].arg \in Codes
        BY <2>3, <2>4, <3>5, KindsDiffer DEF Registering
      <4> QED
        BY <3>2, <3>5, <4>1 DEF InvitesOnce
    <3> QED
      BY <3>4, <3>5 DEF InvitesOnce
  <2> QED
    BY <1>2, <2>5, <2>6 DEF A!RegisterCommit
<1>3. ASSUME NEW u \in Users \union {Admin}, A!Erase(u) PROVE InvitesOnce'
  <2>1. CASE UNCHANGED <<via, invites>>
    BY <1>3, <2>1 DEF A!Erase, InvitesOnce
  <2>2. CASE A!Rows(u) \subseteq A!Deletes
    <3>1. /\ via' = [w \in Users |-> IF w = u THEN Nobody ELSE via[w]]
          /\ invites' = [c \in Codes |-> IF invites[c].used = u THEN [invites[c] EXCEPT !.used = Nobody] ELSE invites[c]]
          /\ request' = request
      BY <1>3, <2>2 DEF A!Erase
    <3>2. ASSUME NEW k \in Codes PROVE (invites[k].used = u \/ invites[k].used = Nobody => invites'[k].used = Nobody) /\ (invites[k].used # u => invites'[k] = invites[k])
      <4>1. invites[k] \in Invites
        BY DEF AccountsType
      <4>2. invites[k].used = u => invites'[k] = [invites[k] EXCEPT !.used = Nobody]
        BY <3>1
      <4>3. invites[k].used # u => invites'[k] = invites[k]
        BY <3>1
      <4> QED
        BY <4>1, <4>2, <4>3 DEF Invites
    <3>3. ASSUME NEW w \in Users, via'[w] # Nobody PROVE invites'[via'[w]].used = w
      <4>1. w # u /\ via'[w] = via[w] /\ via[w] \in Codes /\ invites[via[w]].used = w
        BY <3>1, <3>3 DEF AccountsType, InvitesOnce
      <4> QED
        BY <3>2, <4>1
    <3>4. ASSUME NEW d \in Clients, request'[d] \in Registering, request'[d].arg # Nobody PROVE invites'[request'[d].arg].used = Nobody
      <4>1. request'[d] = request[d] /\ request[d].arg \in Codes /\ invites[request[d].arg].used = Nobody
        BY <3>1, <3>4 DEF Registering, InvitesOnce
      <4> QED
        BY <3>2, <4>1
    <3> QED
      BY <3>3, <3>4 DEF InvitesOnce
  <2> QED
    BY <1>3, <2>1, <2>2 DEF A!Erase
<1>4. ASSUME NEW code \in Codes, A!CreateInvite(code) PROVE InvitesOnce'
  <2>1. \A k \in Codes : invites'[k].used = invites[k].used
    <3>1. \A k \in Codes : invites[k] \in Invites
      BY DEF AccountsType
    <3> QED
      BY <1>4, <3>1 DEF A!CreateInvite, Invites
  <2>2. UNCHANGED <<via, request>>
    BY <1>4 DEF A!CreateInvite
  <2>3. \A d \in Clients : request[d] \in Registering /\ request[d].arg # Nobody => request[d].arg \in Codes
    BY DEF Registering
  <2>4. \A w \in Users : via[w] # Nobody => via[w] \in Codes
    BY DEF AccountsType
  <2> QED
    BY <2>1, <2>2, <2>3, <2>4 DEF InvitesOnce
<1>5. ASSUME UNCHANGED <<via, invites>>, \A d \in Clients : request'[d] = request[d] \/ request'[d] \notin Registering
      PROVE  InvitesOnce'
  BY <1>5 DEF InvitesOnce
<1>6. ASSUME NEW c \in Clients, A!TokenCommit(c) \/ A!BuildCommit(c) PROVE InvitesOnce'
  <2>1. A!Answer(c) /\ UNCHANGED <<via, invites>>
    BY <1>6 DEF A!TokenCommit, A!BuildCommit
  <2> QED
    BY <1>5, <2>1, AnswerKind, KindsDiffer
<1>7. ASSUME NEW c \in Clients, NEW t \in DOMAIN tokens, A!TokenRead(c, t) PROVE InvitesOnce'
  <2>1. request'[c] = [op |-> "token", user |-> tokens[t].of, arg |-> t] /\ \A d \in Clients \ {c} : request'[d] = request[d]
    BY <1>7, ReadKind DEF A!TokenRead
  <2>2. request'[c] \notin Registering
    BY <2>1 DEF Registering
  <2> QED
    BY <1>5, <1>7, <2>1, <2>2 DEF A!TokenRead
<1>8. ASSUME NEW c \in Clients, NEW u \in Owners, A!BuildRead(c, u) PROVE InvitesOnce'
  <2>1. request'[c] = [op |-> "build", user |-> u, arg |-> A!Own(u)] /\ \A d \in Clients \ {c} : request'[d] = request[d]
    BY <1>8, ReadKind DEF A!BuildRead
  <2>2. request'[c] \notin Registering
    BY <2>1 DEF Registering
  <2> QED
    BY <1>5, <1>8, <2>1, <2>2 DEF A!BuildRead
<1>9. CASE UNCHANGED <<via, invites, request>>
  BY <1>9 DEF InvitesOnce
<1> QED
  BY <1>1, <1>2, <1>3, <1>4, <1>6, <1>7, <1>8, <1>9 DEF A!Next, A!Access, A!Save, A!Unsave, A!Forgot, A!Bookmark, A!Carry

LEMMA ProfilesOnceNext == AccountsType /\ Apart /\ ProfilesOnce /\ A!Next => ProfilesOnce'
<1> SUFFICES ASSUME AccountsType, Apart, ProfilesOnce, A!Next, raced' = FALSE PROVE ProfilesOnce'
  BY DEF ProfilesOnce
<1>0. raced = FALSE
  BY ApartNext
<1> USE <1>0 DEF A!account, A!belongings, A!history
<1>1. ASSUME NEW c \in Clients, NEW u \in Owners, A!BuildRead(c, u) PROVE ProfilesOnce'
  <2>1. request'[c] = [op |-> "build", user |-> u, arg |-> A!Own(u)] /\ \A d \in Clients \ {c} : request'[d] = request[d]
    BY <1>1, ReadKind DEF A!BuildRead
  <2>2. UNCHANGED profiles
    BY <1>1 DEF A!BuildRead
  <2>3. request'[c].user = u /\ request'[c].arg = A!Own(u)
    BY <2>1
  <2>4. \A w : A!Own(w)' = A!Own(w)
    BY <2>2 DEF A!Own
  <2> QED
    BY <2>1, <2>2, <2>3, <2>4 DEF ProfilesOnce, A!Own
<1>2. ASSUME NEW c \in Clients, A!BuildCommit(c) PROVE ProfilesOnce'
  <2> DEFINE u == request[c].user  new == [of |-> u, active |-> TRUE]
             kept == [p \in DOMAIN profiles |-> [profiles[p] EXCEPT !.active = @ /\ p \notin request[c].arg]]
  <2>1. request[c] \in Building /\ A!Own(u) \subseteq request[c].arg
    <3>1. request[c] \in Building
      <4>1. request[c].op = "build"
        BY <1>2 DEF A!BuildCommit, A!Reads
      <4>2. request[c] \in {A!Free} \union Registering \union Redeeming \union Building
        BY DEF AccountsType
      <4>3. A!Free.op = "none"
        BY DEF A!Free
      <4> QED
        BY <4>1, <4>2, <4>3, KindsDiffer
    <3> QED
      BY <3>1 DEF ProfilesOnce
  <2>2. request'[c] = A!Free /\ \A d \in Clients \ {c} : request'[d] = request[d]
    BY <1>2, AnswerKind DEF A!BuildCommit
  <2>3. \A d \in Clients \ {c} : request[d] \in Building => request[d].user # u
    BY <2>1, KindsDiffer DEF Apart
  <2>4. CASE UNCHANGED profiles
    BY <2>2, <2>4, KindsDiffer DEF ProfilesOnce, A!Own
  <2>5. CASE profiles' = Append(kept, new)
    <3> DEFINE l == Len(profiles)
    <3>1. l \in Nat /\ DOMAIN profiles = 1 .. l
      BY DEF AccountsType
    <3>2. \A p \in DOMAIN profiles : kept[p].of = profiles[p].of /\ (kept[p].active = TRUE => profiles[p].active = TRUE /\ p \notin request[c].arg)
      <4>1. \A p \in DOMAIN profiles : profiles[p] \in Profiles
        BY DEF AccountsType
      <4> QED
        BY <4>1 DEF Profiles
    <3>3. new.of = u
      OBVIOUS
    <3>4. kept \in Seq({kept[p] : p \in DOMAIN kept}) /\ Len(kept) = l /\ DOMAIN kept = 1 .. l
      <4>1. DOMAIN kept = 1 .. l /\ kept = [p \in 1 .. l |-> kept[p]]
        BY <3>1
      <4> HIDE DEF kept, l
      <4> QED
        BY <3>1, <4>1
    <3> HIDE DEF kept, new, l, u
    <3>5. DOMAIN profiles' = 1 .. (l + 1) /\ profiles'[l + 1] = new /\ \A p \in 1 .. l : profiles'[p] = kept[p]
      BY <2>5, <3>1, <3>4
    <3>6. \A p \in 1 .. l : profiles'[p].of = profiles[p].of /\ (profiles'[p].active = TRUE => profiles[p].active = TRUE /\ profiles[p].of # u)
      <4>1. \A p \in 1 .. l : profiles[p].of = u => p \in request[c].arg
        BY <2>1, <3>1 DEF A!Own
      <4> QED
        BY <3>1, <3>2, <3>5, <4>1
    <3>7. ASSUME NEW p \in DOMAIN profiles', NEW q \in DOMAIN profiles',
                 profiles'[p].active = TRUE, profiles'[q].active = TRUE, profiles'[p].of = profiles'[q].of
          PROVE  p = q
      <4>1. CASE p \in 1 .. l /\ q \in 1 .. l
        BY <3>1, <3>6, <3>7, <4>1 DEF ProfilesOnce
      <4>2. CASE p \notin 1 .. l \/ q \notin 1 .. l
        <5>1. \A x \in DOMAIN profiles' : x \in 1 .. l \/ x = l + 1
          BY <3>1, <3>5
        <5> QED
          BY <3>3, <3>5, <3>6, <3>7, <4>2, <5>1
      <4> QED
        BY <4>1, <4>2
    <3>8. ASSUME NEW d \in Clients, request'[d] \in Building, NEW p \in DOMAIN profiles', profiles'[p].of = request'[d].user
          PROVE  p \in request'[d].arg
      <4>1. d # c /\ request'[d] = request[d] /\ request[d] \in Building /\ request[d].user # u
        BY <2>2, <2>3, <3>8, KindsDiffer
      <4>2. p \in 1 .. l \/ (p = l + 1 /\ profiles'[p].of = u)
        BY <3>1, <3>3, <3>5
      <4>3. p \in 1 .. l /\ profiles[p].of = request[d].user
        BY <3>6, <3>8, <4>1, <4>2
      <4>4. A!Own(request[d].user) \subseteq request[d].arg
        BY <4>1 DEF ProfilesOnce
      <4> QED
        BY <3>1, <4>1, <4>3, <4>4 DEF A!Own
    <3> QED
      BY <3>7, <3>8 DEF ProfilesOnce, A!Own
  <2> QED
    BY <1>2, <2>4, <2>5 DEF A!BuildCommit
<1>3. ASSUME NEW u \in Users \union {Admin}, A!Erase(u) PROVE ProfilesOnce'
  <2>1. UNCHANGED request
    BY <1>3 DEF A!Erase
  <2>2. CASE UNCHANGED profiles
    BY <2>1, <2>2 DEF ProfilesOnce, A!Own
  <2>3. CASE profiles' = [p \in DOMAIN profiles |-> IF p \in A!Own(u) THEN [of |-> Nobody, active |-> FALSE] ELSE profiles[p]]
    <3>1. DOMAIN profiles' = DOMAIN profiles
      BY <2>3
    <3>2. \A p \in DOMAIN profiles : profiles'[p] = profiles[p] \/ (profiles'[p].of = Nobody /\ profiles'[p].active = FALSE)
      BY <2>3
    <3>3. \A d \in Clients : request[d] \in Building => request[d].user # Nobody
      BY ApiAssumption DEF Building, Known
    <3>4. \A d \in Clients, p \in DOMAIN profiles' :
             request'[d] \in Building /\ profiles'[p].of = request'[d].user => p \in request'[d].arg
      BY <2>1, <3>1, <3>2, <3>3 DEF ProfilesOnce, A!Own
    <3>5. \A p, q \in DOMAIN profiles' :
             profiles'[p].active = TRUE /\ profiles'[q].active = TRUE /\ profiles'[p].of = profiles'[q].of => p = q
      BY <3>1, <3>2 DEF ProfilesOnce
    <3> QED
      BY <3>4, <3>5 DEF ProfilesOnce, A!Own
  <2> QED
    BY <1>3, <2>2, <2>3 DEF A!Erase
<1>4. ASSUME UNCHANGED profiles, \A d \in Clients : request'[d] = request[d] \/ request'[d] \notin Building
      PROVE  ProfilesOnce'
  BY <1>4 DEF ProfilesOnce, A!Own
<1>5. ASSUME NEW c \in Clients, A!TokenCommit(c) \/ A!RegisterCommit(c) PROVE ProfilesOnce'
  <2>1. A!Answer(c) /\ UNCHANGED profiles
    BY <1>5 DEF A!TokenCommit, A!RegisterCommit
  <2> QED
    BY <1>4, <2>1, AnswerKind, KindsDiffer
<1>6. ASSUME NEW c \in Clients, NEW t \in DOMAIN tokens, A!TokenRead(c, t) PROVE ProfilesOnce'
  <2>1. request'[c] = [op |-> "token", user |-> tokens[t].of, arg |-> t] /\ \A d \in Clients \ {c} : request'[d] = request[d]
    BY <1>6, ReadKind DEF A!TokenRead
  <2>2. request'[c] \notin Building
    BY <2>1 DEF Building
  <2> QED
    BY <1>4, <1>6, <2>1, <2>2 DEF A!TokenRead
<1>7. ASSUME NEW c \in Clients, NEW u \in Users, NEW code \in Codes \union {Nobody}, A!RegisterRead(c, u, code) PROVE ProfilesOnce'
  <2>1. request'[c] = [op |-> "register", user |-> u, arg |-> code] /\ \A d \in Clients \ {c} : request'[d] = request[d]
    BY <1>7, ReadKind DEF A!RegisterRead
  <2>2. request'[c] \notin Building
    BY <2>1 DEF Building
  <2> QED
    BY <1>4, <1>7, <2>1, <2>2 DEF A!RegisterRead
<1>8. CASE UNCHANGED <<profiles, request>>
  BY <1>8 DEF ProfilesOnce, A!Own
<1> QED
  BY <1>1, <1>2, <1>3, <1>5, <1>6, <1>7, <1>8 DEF A!Next, A!Access, A!Save, A!Unsave, A!Forgot, A!CreateInvite, A!Bookmark, A!Carry

LEMMA SameSize == \A S : A!Cardinality(S) = Cardinality(S)
BY DEF A!Cardinality, Cardinality

\* For any users, codes and requests: no token works twice, no invite brings in two
\* accounts, no account has two active profiles, unless two requests read the same
\* before either wrote (registration.py, repositories.py, profiles.py).
THEOREM ApiOnlyOnce == ApiSpec => []OnlyOnce
<1> DEFINE Inv == part = "accounts" => AccountsInv
<1>1. ApiInit => Inv
  BY AccountsInvInit DEF ApiInit, AtStart
<1>2. Inv /\ [ApiNext]_api => Inv'
  <2> SUFFICES ASSUME Inv, [ApiNext]_api PROVE Inv'
    OBVIOUS
  <2>1. CASE part = "accounts" /\ A!Next /\ part' = part
    BY <2>1, AccountsTypeNext, ApartNext, TokensOnceNext, InvitesOnceNext, ProfilesOnceNext DEF AccountsInv
  <2>2. CASE part # "accounts" /\ part' = part
    BY <2>2
  <2>3. CASE UNCHANGED api
    <3>1. UNCHANGED <<part, users, via, invites, tokens, profiles, request, spent, raced>>
      BY <2>3 DEF api, accounts
    <3> QED
      <4>1. AccountsType' <=> AccountsType
        BY <3>1 DEF AccountsType
      <4>2. (Apart' <=> Apart) /\ (InvitesOnce' <=> InvitesOnce) /\ (TokensOnce' <=> TokensOnce)
        BY <3>1 DEF Apart, InvitesOnce, TokensOnce
      <4>3. ProfilesOnce' <=> ProfilesOnce
        BY <3>1 DEF ProfilesOnce, A!Own
      <4>4. AccountsInv' <=> AccountsInv
        BY <4>1, <4>2, <4>3 DEF AccountsInv
      <4> QED
        BY <3>1, <4>4
  <2> QED
    BY <2>1, <2>2, <2>3 DEF ApiNext
<1>3. Inv => OnlyOnce
  <2> SUFFICES ASSUME AccountsInv, ~raced PROVE A!OnlyOnce
    BY DEF OnlyOnce, A!OnlyOnce
  <2> raced = FALSE
    BY DEF AccountsInv, AccountsType
  <2>1. \A t \in DOMAIN spent : spent[t] <= 1
    BY DEF AccountsInv, AccountsType, TokensOnce
  <2>2. \A c, d \in Users : c # d /\ via[c] # Nobody => via[c] # via[d]
    BY DEF AccountsInv, InvitesOnce
  <2>3. ASSUME NEW u \in users PROVE Cardinality(A!Active(u)) <= 1
    <3>1. \A p, q \in A!Active(u) : p = q
      <4>1. \A p \in A!Active(u) : p \in DOMAIN profiles /\ profiles[p].of = u /\ profiles[p].active = TRUE
        <5>1. \A p \in DOMAIN profiles : profiles[p] \in Profiles
          BY DEF AccountsInv, AccountsType
        <5> QED
          BY <5>1 DEF A!Active, A!Own, Profiles
      <4> QED
        BY <4>1 DEF AccountsInv, ProfilesOnce
    <3>2. CASE A!Active(u) = {}
      BY <3>2, FS_EmptySet
    <3>3. CASE \E p : p \in A!Active(u)
      <4>1. PICK p : A!Active(u) = {p}
        BY <3>1, <3>3
      <4>2. Cardinality(A!Active(u)) = 1
        <5>1. Cardinality({p}) = 1
          BY FS_Singleton
        <5> QED
          BY <4>1, <5>1, Zenon
      <4> QED
        BY <4>2
    <3> QED
      BY <3>2, <3>3
  <2> QED
    BY <2>1, <2>2, <2>3, SameSize DEF A!OnlyOnce
<1> QED
  BY <1>1, <1>2, <1>3, PTL DEF ApiSpec

-----------------------------------------------------------------------------
(* Captures of a page, and what they say.                                  *)

Captures == [at : Nat, text : P!Texts \union {P!OldHash}, state : {"CAPTURED", "UNCHANGED", "CHANGED"},
             by : Clients \union {"watch", "simulated"}, seen : SUBSET Nat]
Excerpts == [at : Nat, by : Clients]

RunStates == {"QUEUED", "RUNNING", "BOUND", "COMMITTED", "COMPLETED", "FAILED"}

PagesType ==
    /\ clock \in Nat /\ checked \in Nat
    /\ captures \subseteq Captures /\ excerpts \subseteq Excerpts
    /\ runStatus \in [Clients -> RunStates]
    /\ pending \in [Clients -> SUBSET Captures] /\ unread \in [Clients -> Nat]

\* A run holds a capture of its own while it is bound, and none at any other time.
Holds ==
    \A r \in Clients :
        IF runStatus[r] = "BOUND" THEN \E p \in Captures : pending[r] = {p} /\ p.by = r ELSE pending[r] = {}

\* A capture is known by its time.
Distinct ==
    /\ \A s \in captures : 1 <= s.at /\ s.at <= clock
    /\ \A r \in Clients : \A p \in pending[r] : 1 <= p.at /\ p.at <= clock /\ \A s \in captures : p.at # s.at
    /\ \A s, t \in captures : s.at = t.at => s = t
    /\ \A q, r \in Clients : q # r => \A x \in pending[q], p \in pending[r] : x.at # p.at

\* Of a run there are as many artifacts as attempts of it have committed, each with its capture.
Left(failed, there) == failed + IF there \in {"COMMITTED", "COMPLETED"} THEN 1 ELSE 0
OfRun(X, r) == {x \in X : x.by = r}
RestsOf(X, C, n, r) ==
    /\ IsFiniteSet(OfRun(X, r)) /\ Cardinality(OfRun(X, r)) = n
    /\ {a.at : a \in OfRun(X, r)} = {s.at : s \in OfRun(C, r)}
Rests ==
    /\ \A r \in Clients : RestsOf(excerpts, captures, Left(unread[r], runStatus[r]), r)
    /\ checked # 0 => \E a \in excerpts : a.at = checked

\* A capture tells its text from the newest of those that were there when it was taken.
Told(C, s) ==
    /\ \A x \in s.seen : \E t \in C : t.at = x
    /\ s.state = P!StateOf({t \in C : t.at \in s.seen}, s.text)
Telling ==
    /\ \A s \in captures : s.by # "simulated" => Told(captures, s)
    /\ \A r \in Clients : \A p \in pending[r] : Told(captures, p)
    /\ \A S \in SUBSET captures : S # {} => P!Newest(S) # {}

PagesInv == PagesType /\ Holds /\ Distinct /\ Rests /\ Telling

LEMMA PagesInvInit == P!Init => PagesInv
<1> SUFFICES ASSUME P!Init PROVE PagesInv
  OBVIOUS
<1>1. PagesType /\ Holds /\ Distinct /\ Telling
  BY DEF P!Init, PagesType, RunStates, Holds, Distinct, Telling
<1>2. ASSUME NEW r \in Clients PROVE RestsOf(excerpts, captures, Left(unread[r], runStatus[r]), r)
  <2>1. OfRun(excerpts, r) = {} /\ OfRun(captures, r) = {} /\ Left(unread[r], runStatus[r]) = 0
    BY DEF P!Init, OfRun, Left
  <2> QED
    BY <2>1, FS_EmptySet DEF RestsOf
<1>3. checked = 0
  BY DEF P!Init
<1> QED
  BY <1>1, <1>2, <1>3 DEF PagesInv, Rests

LEMMA SameRest ==
  ASSUME Rests, UNCHANGED <<captures, excerpts, checked>>,
         \A r \in Clients : Left(unread'[r], runStatus'[r]) = Left(unread[r], runStatus[r])
  PROVE  Rests'
<1>1. \A r \in Clients : RestsOf(excerpts, captures, Left(unread'[r], runStatus'[r]), r)
  BY DEF Rests
<1>2. checked' # 0 => \E a \in excerpts' : a.at = checked'
  BY DEF Rests
<1>3. \A r \in Clients : RestsOf(excerpts, captures, Left(unread[r], runStatus[r]), r)'
  BY <1>1 DEF RestsOf, OfRun, Left
<1> QED
  BY <1>2, <1>3 DEF Rests

LEMMA CaptureTells ==
  ASSUME NEW C \in SUBSET Captures, NEW s \in Captures, NEW text, s.text = text,
         s.seen = {t.at : t \in C}, s.state = P!StateOf(C, text)
  PROVE  Told(C, s)
<1>1. {t \in C : t.at \in s.seen} = C
  OBVIOUS
<1> QED
  BY <1>1 DEF Told

LEMMA ToldStays ==
  ASSUME NEW C, NEW s, NEW n, \A t \in C : t.at # n.at, Told(C, s)
  PROVE  Told(C \union {n}, s)
<1>1. n.at \notin s.seen
  BY DEF Told
<1>2. {t \in C \union {n} : t.at \in s.seen} = {t \in C : t.at \in s.seen}
  BY <1>1
<1> QED
  BY <1>2 DEF Told

LEMMA NewestStays ==
  ASSUME NEW C \in SUBSET Captures, NEW n \in Captures, \A S \in SUBSET C : S # {} => P!Newest(S) # {},
         NEW S \in SUBSET (C \union {n}), S # {}
  PROVE  P!Newest(S) # {}
<1>1. CASE n \notin S
  BY <1>1
<1>2. CASE S = {n}
  <2>1. n.at \in Nat
    BY DEF Captures
  <2>2. n \in P!Newest(S)
    BY <1>2, <2>1 DEF P!Newest
  <2> QED
    BY <2>2
<1>3. CASE n \in S /\ S \ {n} # {}
  <2>1. PICK t \in S \ {n} : \A u \in S \ {n} : u.at <= t.at
    BY <1>3 DEF P!Newest
  <2>2. n.at \in Nat /\ t.at \in Nat /\ \A u \in S : u.at \in Nat
    BY DEF Captures
  <2>3. t \in P!Newest(S) \/ n \in P!Newest(S)
    BY <1>3, <2>1, <2>2 DEF P!Newest
  <2> QED
    BY <2>3
<1> QED
  BY <1>1, <1>2, <1>3

\* What a new capture that is committed leaves as it was.
LEMMA PagesGrow ==
  ASSUME PagesInv, NEW n \in Captures, 1 <= n.at, \A s \in captures : n.at # s.at,
         captures' = captures \union {n}, n.by # "simulated" => Told(captures, n),
         \A r \in Clients : \A p \in pending'[r] : p \in pending[r]
  PROVE  /\ captures' \subseteq Captures /\ Telling'
         /\ \A s, t \in captures' : s.at = t.at => s = t
<1>1. captures' \subseteq Captures
  BY DEF PagesInv, PagesType
<1>2. \A s \in captures' : s.by # "simulated" => Told(captures, s)
  BY DEF PagesInv, Telling
<1>3. \A s : Told(captures, s) => Told(captures', s)
  BY ToldStays, Zenon
<1>4. \A r \in Clients : \A p \in pending'[r] : Told(captures', p)
  BY <1>3 DEF PagesInv, Telling
<1>5. \A S \in SUBSET captures' : S # {} => P!Newest(S) # {}
  <2>1. captures \in SUBSET Captures /\ \A S \in SUBSET captures : S # {} => P!Newest(S) # {}
    BY DEF PagesInv, PagesType, Telling
  <2> QED
    BY <2>1, NewestStays
<1>6. Telling'
  BY <1>2, <1>3, <1>4, <1>5 DEF Telling, P!Newest
<1>7. \A s, t \in captures' : s.at = t.at => s = t
  BY DEF PagesInv, Distinct
<1> QED
  BY <1>1, <1>6, <1>7

LEMMA NewCapture ==
  ASSUME PagesInv, NEW text \in P!Texts, NEW by \in Clients \union {"watch"}
  PROVE  LET s == P!Capture(captures, text, by)
         IN  /\ s \in Captures /\ s.at = clock + 1 /\ s.by = by /\ Told(captures, s)
             /\ s.state = P!StateOf(captures, text)
             /\ \A t \in captures : s.at # t.at
<1> DEFINE s == P!Capture(captures, text, by)
<1>1. P!StateOf(captures, text) \in {"CAPTURED", "UNCHANGED", "CHANGED"}
  BY DEF P!StateOf
<1>2. \A t \in captures : t.at \in Nat
  BY DEF PagesInv, PagesType, Captures
<1>3. s \in Captures
  BY <1>1, <1>2 DEF PagesInv, PagesType, P!Capture, Captures
<1>4. s.at = clock + 1 /\ s.by = by /\ s.text = text /\ s.seen = {t.at : t \in captures} /\ s.state = P!StateOf(captures, text)
  BY DEF P!Capture
<1>5. \A t \in captures : s.at # t.at
  BY <1>2, <1>4 DEF PagesInv, PagesType, Distinct
<1> HIDE DEF s
<1>6. Told(captures, s)
  BY <1>3, <1>4, CaptureTells DEF PagesInv, PagesType
<1> QED
  BY <1>3, <1>4, <1>5, <1>6 DEF s

LEMMA PagesInvNext == PagesInv /\ P!Next => PagesInv'
<1> SUFFICES ASSUME PagesInv, P!Next PROVE PagesInv'
  OBVIOUS
<1>0. \A r \in Clients : r # "watch" /\ r # "simulated"
  BY ApiAssumption
<1> USE DEF PagesInv
<1>1. ASSUME NEW r \in Clients, P!Start(r) \/ P!Unbound(r) \/ P!GiveUp(r) PROVE PagesInv'
  <2>1. UNCHANGED <<clock, captures, excerpts, checked, pending, unread>>
    BY <1>1 DEF P!Start, P!Unbound, P!GiveUp
  <2>2. runStatus[r] \in {"QUEUED", "RUNNING"}
    BY <1>1 DEF P!Start, P!Unbound, P!GiveUp, P!MayTry
  <2>3. runStatus' = runStatus \/ runStatus' = [runStatus EXCEPT ![r] = "RUNNING"] \/ runStatus' = [runStatus EXCEPT ![r] = "FAILED"]
    BY <1>1 DEF P!Start, P!Unbound, P!GiveUp
  <2>4. runStatus' \in [Clients -> RunStates]
        /\ \A q \in Clients : runStatus'[q] = runStatus[q] \/ (q = r /\ runStatus'[q] \notin {"BOUND", "COMMITTED", "COMPLETED"})
    BY <2>3 DEF PagesType, RunStates
  <2>5. PagesType'
    BY <2>1, <2>4 DEF PagesType
  <2>6. Holds'
    BY <2>1, <2>2, <2>4 DEF Holds
  <2>7. Rests'
    <3>1. \A q \in Clients : Left(unread'[q], runStatus'[q]) = Left(unread[q], runStatus[q])
      BY <2>1, <2>2, <2>4 DEF Left
    <3> QED
      BY <2>1, <3>1, SameRest
  <2>8. Telling' /\ Distinct'
    BY <2>1 DEF Telling, Distinct
  <2> QED
    BY <2>5, <2>6, <2>7, <2>8
<1>2. ASSUME NEW r \in Clients, NEW t \in P!Texts, P!Bind(r, t) PROVE PagesInv'
  <2> DEFINE p == P!Capture(captures, t, r)
  <2>1. runStatus[r] = "RUNNING" /\ pending[r] = {}
    BY <1>2 DEF P!Bind, P!MayTry, Holds
  <2>2. captures \union pending[r] = captures
    BY <2>1
  <2>3. pending' = [pending EXCEPT ![r] = {p}]
    BY <1>2, <2>1, <2>2 DEF P!Bind, PagesType
  <2>4. p \in Captures /\ p.at = clock + 1 /\ p.by = r /\ Told(captures, p) /\ \A s \in captures : p.at # s.at
    BY NewCapture
  <2>5. clock' = clock + 1 /\ clock \in Nat /\ runStatus' = [runStatus EXCEPT ![r] = "BOUND"] /\ UNCHANGED <<captures, excerpts, checked, unread>>
    BY <1>2 DEF P!Bind, PagesType
  <2> HIDE DEF p
  <2>6. PagesType'
    BY <2>3, <2>4, <2>5 DEF PagesType, RunStates
  <2>7. \A q \in Clients : IF q = r THEN pending'[q] = {p} /\ runStatus'[q] = "BOUND" ELSE pending'[q] = pending[q] /\ runStatus'[q] = runStatus[q]
    BY <2>3, <2>5 DEF PagesType
  <2>8. Holds'
    BY <2>4, <2>7 DEF Holds
  <2>9. Distinct'
    <3>1. \A q \in Clients : \A x \in pending[q] : x.at \in Nat /\ x.at <= clock
      BY DEF PagesType, Distinct, Captures
    <3>2. \A s \in captures : s.at \in Nat
      BY DEF PagesType, Captures
    <3> QED
      BY <2>4, <2>5, <2>7, <3>1, <3>2 DEF Distinct
  <2>10. Rests'
    <3>1. \A q \in Clients : Left(unread'[q], runStatus'[q]) = Left(unread[q], runStatus[q])
      BY <2>1, <2>5, <2>7 DEF Left
    <3> QED
      BY <2>5, <3>1, SameRest
  <2>11. Telling'
    BY <2>4, <2>5, <2>7 DEF Telling
  <2> QED
    BY <2>6, <2>8, <2>9, <2>10, <2>11
<1>3. ASSUME NEW r \in Clients, P!Commit(r) PROVE PagesInv'
  <2>1. PICK p \in Captures : pending[r] = {p} /\ p.by = r
    BY <1>3 DEF P!Commit, Holds
  <2>2. p.at \in Nat /\ 1 <= p.at /\ p.at <= clock /\ Told(captures, p) /\ \A s \in captures : p.at # s.at
    BY <2>1 DEF Distinct, Telling, Captures
  <2>3. captures' = captures \union {p} /\ pending' = [pending EXCEPT ![r] = {}] /\ UNCHANGED clock
    BY <1>3, <2>1 DEF P!Commit
  <2>4. excerpts' = excerpts \union {[at |-> p.at, by |-> r]} /\ checked' = p.at
    BY <1>3, <2>1 DEF P!Commit, P!Newest
  <2>5. runStatus[r] = "BOUND" /\ runStatus' = [runStatus EXCEPT ![r] = "COMMITTED"] /\ UNCHANGED unread
    BY <1>3 DEF P!Commit
  <2>6. \A q \in Clients : IF q = r THEN pending'[q] = {} /\ runStatus'[q] = "COMMITTED" ELSE pending'[q] = pending[q] /\ runStatus'[q] = runStatus[q]
    BY <2>3, <2>5 DEF PagesType
  <2>7. \A q \in Clients : \A x \in pending'[q] : x \in pending[q]
    BY <2>6
  <2>8. captures' \subseteq Captures /\ Telling' /\ \A s, t \in captures' : s.at = t.at => s = t
    BY <2>1, <2>2, <2>3, <2>7, PagesGrow
  <2>9. PagesType'
    <3>1. excerpts' \subseteq Excerpts
      BY <2>2, <2>4 DEF PagesType, Excerpts
    <3>2. runStatus' \in [Clients -> RunStates] /\ pending' \in [Clients -> SUBSET Captures]
      BY <2>3, <2>5 DEF PagesType, RunStates
    <3> QED
      BY <2>2, <2>3, <2>4, <2>5, <2>8, <3>1, <3>2 DEF PagesType
  <2>10. Holds'
    BY <2>6 DEF Holds
  <2>11. Distinct'
    BY <2>1, <2>2, <2>3, <2>6, <2>8 DEF Distinct
  <2>12. Rests'
    <3> DEFINE new == [at |-> p.at, by |-> r]
    <3>1. /\ IsFiniteSet(OfRun(excerpts, r)) /\ Cardinality(OfRun(excerpts, r)) = Left(unread[r], runStatus[r])
          /\ {a.at : a \in OfRun(excerpts, r)} = {s.at : s \in OfRun(captures, r)}
      BY DEF Rests, RestsOf
    <3>2. RestsOf(excerpts', captures', Left(unread'[r], runStatus'[r]), r)
      <4>1. OfRun(excerpts', r) = OfRun(excerpts, r) \union {new} /\ OfRun(captures', r) = OfRun(captures, r) \union {p}
        BY <2>1, <2>3, <2>4 DEF OfRun
      <4>2. new \notin OfRun(excerpts, r)
        <5>1. ASSUME new \in OfRun(excerpts, r) PROVE FALSE
          <6>1. new.at \in {a.at : a \in OfRun(excerpts, r)}
            BY <5>1
          <6>2. PICK s \in OfRun(captures, r) : s.at = p.at
            BY <3>1, <6>1
          <6> QED
            BY <2>2, <6>2 DEF OfRun
        <5> QED
          BY <5>1
      <4>3. Left(unread'[r], runStatus'[r]) = Left(unread[r], runStatus[r]) + 1
        BY <2>5, <2>6 DEF Left, PagesType
      <4>4. IsFiniteSet(OfRun(excerpts', r)) /\ Cardinality(OfRun(excerpts', r)) = Left(unread[r], runStatus[r]) + 1
        <5>1. IsFiniteSet(OfRun(excerpts, r) \union {new}) /\ Cardinality(OfRun(excerpts, r) \union {new}) = Cardinality(OfRun(excerpts, r)) + 1
          BY <3>1, <4>2, FS_AddElement
        <5> HIDE DEF new
        <5> QED
          BY <3>1, <4>1, <5>1
      <4>5. {a.at : a \in OfRun(excerpts', r)} = {s.at : s \in OfRun(captures', r)}
        <5>1. {a.at : a \in OfRun(excerpts', r)} = {a.at : a \in OfRun(excerpts, r)} \union {p.at}
          <6>1. new.at = p.at
            OBVIOUS
          <6> HIDE DEF new
          <6> QED
            BY <4>1, <6>1
        <5>2. {s.at : s \in OfRun(captures', r)} = {s.at : s \in OfRun(captures, r)} \union {p.at}
          BY <4>1
        <5> QED
          BY <3>1, <5>1, <5>2
      <4> QED
        BY <4>3, <4>4, <4>5 DEF RestsOf
    <3>3. ASSUME NEW q \in Clients, q # r PROVE RestsOf(excerpts', captures', Left(unread[q], runStatus[q]), q)
      <4>1. RestsOf(excerpts, captures, Left(unread[q], runStatus[q]), q)
        BY DEF Rests
      <4>2. new.by # q /\ p.by # q
        BY <2>1, <3>3
      <4> HIDE DEF new
      <4>3. OfRun(excerpts', q) = OfRun(excerpts, q) /\ OfRun(captures', q) = OfRun(captures, q)
        BY <2>3, <2>4, <4>2 DEF OfRun, new
      <4> QED
        BY <4>1, <4>3 DEF RestsOf
    <3>4. \E a \in excerpts' : a.at = checked'
      <4>1. [at |-> p.at, by |-> r] \in excerpts' /\ [at |-> p.at, by |-> r].at = checked'
        BY <2>4
      <4> QED
        BY <4>1, Zenon
    <3> HIDE DEF new
    <3>5. \A q \in Clients : RestsOf(excerpts', captures', Left(unread'[q], runStatus'[q]), q)
      <4> SUFFICES ASSUME NEW q \in Clients PROVE RestsOf(excerpts', captures', Left(unread'[q], runStatus'[q]), q)
        OBVIOUS
      <4>1. CASE q = r
        BY <3>2, <4>1
      <4>2. CASE q # r
        <5>1. runStatus'[q] = runStatus[q] /\ unread'[q] = unread[q]
          BY <2>5, <2>6, <4>2
        <5> QED
          BY <3>3, <4>2, <5>1
      <4> QED
        BY <4>1, <4>2
    <3>6. \A q \in Clients : RestsOf(excerpts, captures, Left(unread[q], runStatus[q]), q)'
      BY <3>5 DEF RestsOf, OfRun, Left
    <3> QED
      BY <3>4, <3>6 DEF Rests
  <2> QED
    BY <2>8, <2>9, <2>10, <2>11, <2>12
<1>4. ASSUME NEW r \in Clients, P!Raise(r) PROVE PagesInv'
  <2>1. pending' = [pending EXCEPT ![r] = {}] /\ runStatus' = [runStatus EXCEPT ![r] = "RUNNING"] /\ runStatus[r] = "BOUND"
        /\ UNCHANGED <<clock, captures, excerpts, checked, unread>>
    BY <1>4 DEF P!Raise, P!RolledBack
  <2>2. \A q \in Clients : IF q = r THEN pending'[q] = {} /\ runStatus'[q] = "RUNNING" ELSE pending'[q] = pending[q] /\ runStatus'[q] = runStatus[q]
    BY <2>1 DEF PagesType
  <2>3. PagesType' /\ Holds'
    BY <2>1, <2>2 DEF PagesType, Holds, RunStates
  <2>4. Distinct'
    BY <2>1, <2>2 DEF Distinct
  <2>5. Rests'
    <3>1. \A q \in Clients : Left(unread'[q], runStatus'[q]) = Left(unread[q], runStatus[q])
      BY <2>1, <2>2 DEF Left
    <3> QED
      BY <2>1, <3>1, SameRest
  <2>6. Telling'
    BY <2>1, <2>2 DEF Telling
  <2> QED
    BY <2>3, <2>4, <2>5, <2>6
<1>5. ASSUME NEW n \in Captures, n.at = clock + 1, n.by \in {"watch", "simulated"}, captures' = captures \union {n},
             n.by # "simulated" => Told(captures, n), clock' = clock + 1, UNCHANGED <<excerpts, checked, runStatus, pending, unread>>
      PROVE  PagesInv'
  <2>1. clock \in Nat /\ \A s \in captures : s.at \in Nat /\ s.at # n.at
    BY <1>5 DEF PagesType, Distinct, Captures
  <2>2. captures' \subseteq Captures /\ Telling' /\ \A s, t \in captures' : s.at = t.at => s = t
    BY <1>5, <2>1, PagesGrow
  <2>3. PagesType' /\ Holds'
    BY <1>5, <2>1, <2>2 DEF PagesType, Holds
  <2>4. Distinct'
    <3>1. \A q \in Clients : \A x \in pending[q] : x.at \in Nat
      BY DEF PagesType, Captures
    <3> QED
      BY <1>5, <2>1, <2>2, <3>1 DEF Distinct
  <2>5. Rests'
    <3>1. ASSUME NEW r \in Clients PROVE RestsOf(excerpts, captures, Left(unread[r], runStatus[r]), r)'
      <4>1. RestsOf(excerpts, captures, Left(unread[r], runStatus[r]), r)
        BY DEF Rests
      <4>2. OfRun(captures', r) = OfRun(captures, r)
        BY <1>0, <1>5 DEF OfRun
      <4>3. RestsOf(excerpts, captures', Left(unread[r], runStatus[r]), r)
        BY <4>1, <4>2 DEF RestsOf
      <4> QED
        BY <1>5, <4>3 DEF RestsOf, OfRun, Left
    <3>2. (checked # 0 => \E a \in excerpts : a.at = checked)'
      BY <1>5 DEF Rests
    <3> QED
      BY <3>1, <3>2 DEF Rests
  <2> QED
    BY <2>2, <2>3, <2>4, <2>5
<1>6. ASSUME NEW q \in P!Texts, NEW t \in P!Texts, P!WatchCheck(q, t) PROVE PagesInv'
  <2> DEFINE n == P!Capture(captures, t, "watch")
  <2>1. captures' = captures \union {n} /\ clock' = clock + 1 /\ UNCHANGED <<excerpts, checked, runStatus, pending, unread>>
    BY <1>6 DEF P!WatchCheck
  <2>2. n \in Captures /\ n.at = clock + 1 /\ n.by = "watch" /\ Told(captures, n)
    BY NewCapture
  <2> HIDE DEF n
  <2> QED
    BY <1>5, <2>1, <2>2
<1>7. ASSUME P!SimulateChange PROVE PagesInv'
  <2> DEFINE n == [at |-> clock + 1, text |-> P!OldHash, state |-> "CAPTURED", by |-> "simulated", seen |-> {s.at : s \in captures}]
  <2>1. captures' = captures \union {n} /\ clock' = clock + 1 /\ UNCHANGED <<excerpts, checked, runStatus, pending, unread>>
    BY <1>7 DEF P!SimulateChange
  <2>2. n \in Captures
    <3>1. \A t \in captures : t.at \in Nat
      BY DEF PagesType, Captures
    <3> QED
      BY <3>1 DEF PagesType, Captures
  <2>3. n.at = clock + 1 /\ n.by = "simulated"
    OBVIOUS
  <2> HIDE DEF n
  <2> QED
    BY <1>5, <2>1, <2>2, <2>3
\* The row is read again, or that fails: as many attempts have committed as before.
<1>8. ASSUME NEW r \in Clients, P!Reread(r) \/ P!RereadFails(r) PROVE PagesInv'
  <2>1. UNCHANGED <<clock, captures, excerpts, checked, pending>> /\ runStatus[r] = "COMMITTED"
        /\ \/ runStatus' = [runStatus EXCEPT ![r] = "COMPLETED"] /\ unread' = unread
           \/ runStatus' = [runStatus EXCEPT ![r] = "RUNNING"] /\ unread' = [unread EXCEPT ![r] = @ + 1]
    BY <1>8 DEF P!Reread, P!RereadFails
  <2>2. \A q \in Clients :
            IF q = r THEN \/ runStatus'[q] = "COMPLETED" /\ unread'[q] = unread[q]
                          \/ runStatus'[q] = "RUNNING" /\ unread'[q] = unread[q] + 1
            ELSE runStatus'[q] = runStatus[q] /\ unread'[q] = unread[q]
    BY <2>1 DEF PagesType
  <2>3. PagesType'
    BY <2>1 DEF PagesType, RunStates
  <2>4. Holds'
    BY <2>1, <2>2 DEF Holds
  <2>5. Rests'
    <3>1. \A q \in Clients : Left(unread'[q], runStatus'[q]) = Left(unread[q], runStatus[q])
      BY <2>1, <2>2 DEF Left, PagesType
    <3> QED
      BY <2>1, <3>1, SameRest
  <2>6. Telling' /\ Distinct'
    BY <2>1 DEF Telling, Distinct
  <2> QED
    BY <2>3, <2>4, <2>5, <2>6
<1> QED
  BY <1>1, <1>2, <1>3, <1>4, <1>6, <1>7, <1>8 DEF P!Next

\* What an invariant of the model says of one run and of one capture.
LEMMA PagesInvMeans == PagesInv => P!EvidenceIsWhole
<1> SUFFICES ASSUME PagesInv PROVE P!EvidenceIsWhole
  OBVIOUS
<1>1. ASSUME NEW r \in Clients
      PROVE  LET X == {a \in excerpts : a.by = r}  S == {s \in captures : s.by = r}
             IN  /\ {a.at : a \in X} = {s.at : s \in S}
                 /\ P!Cardinality(X) = unread[r] + IF runStatus[r] \in {"COMMITTED", "COMPLETED"} THEN 1 ELSE 0
  <2> DEFINE X == {a \in excerpts : a.by = r}
  <2>1. P!Cardinality(X) = Cardinality(X)
    BY DEF P!Cardinality, Cardinality
  <2>2. RestsOf(excerpts, captures, Left(unread[r], runStatus[r]), r)
    BY DEF PagesInv, Rests
  <2> QED
    BY <2>1, <2>2 DEF RestsOf, OfRun, Left
<1>2. checked # 0 => \E a \in excerpts : a.at = checked
  BY DEF PagesInv, Rests
<1>3. ASSUME NEW s \in captures, s.by # "simulated", NEW before, before = {t \in captures : t.at < s.at},
             before = {t \in captures : t.at \in s.seen}
      PROVE  (s.state = "CAPTURED" <=> before = {}) /\ (s.state = "CHANGED" <=> \E t \in P!Newest(before) : t.text # s.text)
  <2>1. s.state = P!StateOf(before, s.text)
    BY <1>3 DEF PagesInv, Telling, Told
  <2>2. before # {} => P!Newest(before) # {}
    BY <1>3 DEF PagesInv, Telling
  <2>3. \A t, u \in P!Newest(before) : t = u
    BY <1>3 DEF PagesInv, PagesType, Captures, Distinct, P!Newest
  <2>4. P!Newest(before) \subseteq before
    BY DEF P!Newest
  <2> QED
    BY <2>1, <2>2, <2>3, <2>4 DEF P!StateOf
<1> QED
  BY <1>1, <1>2, <1>3 DEF P!EvidenceIsWhole

\* For any runs and texts: a live run has left one capture of its own, with its artifact, for
\* each attempt that committed, which is one for a run that ended well but for the attempts
\* whose row could not be read again, and none for another; and a snapshot tells its text
\* from the one before
\* (binding.py, research_job.py, snapshots.py).
THEOREM ApiEvidenceWhole == ApiSpec => []EvidenceIsWhole
<1> DEFINE Inv == part = "watching" => PagesInv
<1>1. ApiInit => Inv
  BY PagesInvInit DEF ApiInit, AtStart
<1>2. Inv /\ [ApiNext]_api => Inv'
  <2> SUFFICES ASSUME Inv, [ApiNext]_api PROVE Inv'
    OBVIOUS
  <2>1. CASE part = "watching" /\ P!Next /\ part' = part
    BY <2>1, PagesInvNext
  <2>2. CASE part # "watching" /\ part' = part
    BY <2>2
  <2>3. CASE UNCHANGED api
    <3>1. UNCHANGED <<part, clock, captures, excerpts, checked, runStatus, pending, unread>>
      BY <2>3 DEF api, watching
    <3>2. (PagesType' <=> PagesType) /\ (Holds' <=> Holds) /\ (Distinct' <=> Distinct)
      BY <3>1 DEF PagesType, Holds, Distinct
    <3>3. (Rests' <=> Rests) /\ (Telling' <=> Telling)
      BY <3>1 DEF Rests, RestsOf, OfRun, Left, Telling
    <3>4. PagesInv' <=> PagesInv
      BY <3>2, <3>3 DEF PagesInv
    <3> QED
      BY <3>1, <3>4
  <2> QED
    BY <2>1, <2>2, <2>3 DEF ApiNext
<1>3. Inv => EvidenceIsWhole
  BY PagesInvMeans DEF EvidenceIsWhole
<1> QED
  BY <1>1, <1>2, <1>3, PTL DEF ApiSpec

-----------------------------------------------------------------------------
(* Division by a length that is a constant.                                *)

LEMMA QuotientFloor ==
  ASSUME NEW x \in Int, NEW L \in Nat \ {0}
  PROVE  x \div L \in Int /\ (x \div L) * L <= x /\ x < (x \div L) * L + L
OBVIOUS

LEMMA ProductOrder ==
  ASSUME NEW L \in Nat \ {0}, NEW k \in Int, NEW m \in Int
  PROVE  (k <= m => k * L <= m * L) /\ (k < m => k * L + L <= m * L) /\ k * L \in Int
OBVIOUS

LEMMA QuotientOrder ==
  ASSUME NEW x \in Int, NEW L \in Nat \ {0}, NEW k \in Int
  PROVE  k <= x \div L <=> k * L <= x
<1> DEFINE q == x \div L
<1>1. q \in Int /\ q * L <= x /\ x < q * L + L
  BY QuotientFloor
<1> HIDE DEF q
<1>2. k <= q => k * L <= q * L
  BY <1>1, ProductOrder
<1>3. q < k => q * L + L <= k * L
  BY <1>1, ProductOrder
<1>4. k * L \in Int /\ q * L \in Int
  BY <1>1, ProductOrder
<1> QED
  <2>1. k <= q <=> k * L <= x
    BY <1>1, <1>2, <1>3, <1>4
  <2> QED
    BY <2>1 DEF q

-----------------------------------------------------------------------------
(* The meter and the limiter.                                              *)

\* Places in time: a second has its place, the next second the same one or the next.
LEMMA Places ==
  ASSUME NEW L \in Nat \ {0}, NEW x \in Nat, NEW y \in Nat, x <= y
  PROVE  /\ x \div L \in Nat /\ y \div L \in Nat /\ x \div L <= y \div L
         /\ y < x + L \/ y = x + 1 => y \div L <= (x \div L) + 1
<1> DEFINE p == x \div L  q == y \div L
<1>1. p \in Int /\ p * L <= x /\ x < p * L + L /\ q \in Int /\ q * L <= y /\ y < q * L + L
  BY QuotientFloor
<1>2. 0 <= p /\ 0 <= q /\ p <= q
  <2>1. 0 * L = 0 /\ p * L <= y
    BY <1>1, ProductOrder
  <2>2. (0 <= p <=> 0 * L <= x) /\ (0 <= q <=> 0 * L <= y) /\ (p <= q <=> p * L <= y)
    BY <1>1, QuotientOrder
  <2> QED
    BY <2>1, <2>2
<1>3. ASSUME y < x + L \/ y = x + 1, p + 1 < q PROVE FALSE
  <2>1. p + 2 <= q /\ (p + 2 <= q <=> (p + 2) * L <= y)
    BY <1>1, <1>3, QuotientOrder
  <2>2. (p + 1) * L + L <= (p + 2) * L /\ p * L + L <= (p + 1) * L /\ p * L \in Int /\ (p + 1) * L \in Int /\ (p + 2) * L \in Int
    BY <1>1, ProductOrder
  <2> HIDE DEF p, q
  <2> QED
    BY <1>1, <1>3, <2>1, <2>2
<1> QED
  <2>1. y < x + L \/ y = x + 1 => q <= p + 1
    BY <1>1, <1>3
  <2> QED
    BY <1>1, <1>2, <2>1

-----------------------------------------------------------------------------
(* One API key: its quota.                                                 *)

Requests == [id : Nat, day : K!Days, n : Nat]
Stages == {"idle", "counted", "read", "checked"}

MeterType ==
    /\ redis \in BOOLEAN /\ limitRaced \in BOOLEAN
    /\ now \in Nat /\ now <= MaxSecond /\ calls \in Nat /\ rolled \in Int
    /\ bucket \in [0 .. MaxSecond \div Window -> Nat]
    /\ meter \in [K!Days -> Nat] /\ usage \in [K!Days -> Nat] /\ received \in [K!Days -> Nat]
    /\ memory \in [day : K!Days, n : Nat]
    /\ at \in [KeyCallers -> Stages]
    /\ number \in [KeyCallers -> Requests]
    /\ when \in [KeyCallers -> Nat]
    /\ served \subseteq Requests

LEMMA TodayType == MeterType => K!Today \in K!Days /\ K!Today \in Nat /\ \A d \in K!Days : d \in Nat
<1> SUFFICES ASSUME MeterType PROVE K!Today \in K!Days /\ K!Today \in Nat
  BY DEF K!Days
<1>1. KeyDay \in Nat \ {0} /\ MaxSecond \in Nat /\ now \in Nat /\ now <= MaxSecond
  BY ApiAssumption DEF MeterType
<1>2. now \div KeyDay \in Nat /\ MaxSecond \div KeyDay \in Nat /\ now \div KeyDay <= MaxSecond \div KeyDay
  BY <1>1, Places
<1> QED
  BY <1>2 DEF K!Today, K!Days

LEMMA CounterType == MeterType => \A d \in K!Days : K!Counter(d) \in Nat
BY DEF MeterType, K!Counter

LEMMA NothingCounted == 0 \in K!Days /\ K!Uncounted \in Requests
<1>1. 0 \in K!Days
  <2>1. 0 \div KeyDay \in Nat /\ MaxSecond \div KeyDay \in Nat
    BY Places, ApiAssumption
  <2> QED
    BY <2>1 DEF K!Days
<1> QED
  BY <1>1 DEF K!Uncounted, Requests

LEMMA MeterTypeInit == K!Init => MeterType
<1> SUFFICES ASSUME K!Init PROVE MeterType
  OBVIOUS
<1>1. bucket \in [0 .. MaxSecond \div Window -> Nat] /\ meter \in [K!Days -> Nat] /\ usage \in [K!Days -> Nat] /\ received \in [K!Days -> Nat]
  BY DEF K!Init
<1>2. memory \in [day : K!Days, n : Nat]
  BY NothingCounted DEF K!Init
<1>3. at \in [KeyCallers -> Stages] /\ number \in [KeyCallers -> Requests] /\ when \in [KeyCallers -> Nat]
  BY NothingCounted DEF K!Init, Stages
<1>4. redis \in BOOLEAN /\ limitRaced \in BOOLEAN
  BY DEF K!Init
<1>5. now = 0 /\ calls = 0 /\ rolled = -1 /\ served = {}
  BY DEF K!Init
<1> QED
  BY <1>1, <1>2, <1>3, <1>4, <1>5, ApiAssumption DEF MeterType

LEMMA OverType ==
  ASSUME MeterType, NEW c \in KeyCallers, K!Over(c)
  PROVE  /\ at' \in [KeyCallers -> Stages] /\ number' \in [KeyCallers -> Requests] /\ when' \in [KeyCallers -> Nat]
         /\ at'[c] = "idle" /\ number'[c] = K!Uncounted
         /\ \A d \in KeyCallers \ {c} : at'[d] = at[d] /\ number'[d] = number[d] /\ when'[d] = when[d]
BY NothingCounted DEF MeterType, K!Over, K!Go, Stages

LEMMA MeterTypeNext == MeterType /\ K!Next => MeterType'
<1> SUFFICES ASSUME MeterType, K!Next PROVE MeterType'
  OBVIOUS
<1> USE DEF K!clock, K!limiter, K!meters
<1>1. ASSUME NEW c \in KeyCallers, K!Count(c) PROVE MeterType'
  <2> DEFINE r == [id |-> calls + 1, day |-> K!Today, n |-> K!NumberOf]
  <2>1. K!Today \in K!Days /\ K!Counter(K!Today) \in Nat
    BY TodayType, CounterType
  <2>2. r \in Requests
    BY <2>1 DEF MeterType, Requests, K!NumberOf
  <2>3. number' = [number EXCEPT ![c] = r] /\ calls' = calls + 1 /\ at' = [at EXCEPT ![c] = "counted"]
        /\ received' = [received EXCEPT ![K!Today] = @ + 1]
        /\ UNCHANGED <<redis, now, bucket, passed, limitRaced, usage, rolled, when, served>>
    BY <1>1 DEF K!Count, K!Go
  <2>4. meter' \in [K!Days -> Nat] /\ memory' \in [day : K!Days, n : Nat]
    <3>1. CASE redis
      <4>1. meter' = [meter EXCEPT ![K!Today] = @ + 1] /\ memory' = memory
        BY <1>1, <3>1 DEF K!Count
      <4> QED
        BY <2>1, <4>1 DEF MeterType
    <3>2. CASE ~redis
      <4>1. memory' = [day |-> K!Today, n |-> K!Counter(K!Today) + 1] /\ meter' = meter
        BY <1>1, <3>2 DEF K!Count
      <4> QED
        BY <2>1, <4>1 DEF MeterType
    <3> QED
      BY <3>1, <3>2
  <2> HIDE DEF r
  <2>5. number' \in [KeyCallers -> Requests] /\ at' \in [KeyCallers -> Stages] /\ calls' \in Nat /\ received' \in [K!Days -> Nat]
    BY <2>1, <2>2, <2>3 DEF MeterType, Stages
  <2> QED
    BY <2>3, <2>4, <2>5 DEF MeterType
<1>2. ASSUME NEW c \in KeyCallers, K!CheckRead(c) PROVE MeterType'
  <2>1. UNCHANGED <<redis, now, bucket, passed, meter, memory, usage, rolled, received, served, calls>>
    BY <1>2 DEF K!CheckRead
  <2>2. CASE K!Over(c) /\ UNCHANGED limitRaced
    BY <2>1, <2>2, OverType DEF MeterType
  <2>3. CASE K!Go(c, "read") /\ when' = [when EXCEPT ![c] = now] /\ number' = number
             /\ limitRaced' = (limitRaced \/ \E d \in KeyCallers : at[d] = "read")
    <3>1. limitRaced' \in BOOLEAN
      BY <2>3
    <3>2. at' \in [KeyCallers -> Stages] /\ when' \in [KeyCallers -> Nat]
      BY <2>3 DEF MeterType, K!Go, Stages
    <3> QED
      BY <2>1, <2>3, <3>1, <3>2 DEF MeterType
  <2> QED
    BY <1>2, <2>2, <2>3 DEF K!CheckRead
<1>3. ASSUME NEW c \in KeyCallers, K!CheckMark(c) PROVE MeterType'
  <2>1. bucket' \in [0 .. MaxSecond \div Window -> Nat]
    <3> DEFINE b == when[c] \div Window
    <3>1. bucket' = [bucket EXCEPT ![b] = @ + 1]
      BY <1>3 DEF K!CheckMark
    <3>2. bucket \in [0 .. MaxSecond \div Window -> Nat]
      BY DEF MeterType
    <3> HIDE DEF b
    <3> DEFINE B == 0 .. MaxSecond \div Window
    <3>3. bucket \in [B -> Nat]
      BY <3>2
    <3> HIDE DEF B
    <3>4. bucket' \in [B -> Nat]
      <4>1. bucket' = [x \in B |-> IF x = b THEN bucket[b] + 1 ELSE bucket[x]]
        BY <3>1, <3>3
      <4>2. \A x \in B : (IF x = b THEN bucket[b] + 1 ELSE bucket[x]) \in Nat
        BY <3>3
      <4> QED
        BY <4>1, <4>2
    <3> QED
      BY <3>4 DEF B
  <2>2. at' \in [KeyCallers -> Stages]
    BY <1>3 DEF K!CheckMark, K!Go, MeterType, Stages
  <2> QED
    BY <1>3, <2>1, <2>2 DEF K!CheckMark, MeterType
<1>4. ASSUME NEW c \in KeyCallers, K!CheckMemory(c) PROVE MeterType'
  <2>1. UNCHANGED <<redis, now, bucket, limitRaced, meter, memory, usage, rolled, received, served, calls>>
    BY <1>4 DEF K!CheckMemory
  <2>2. CASE K!Over(c)
    BY <2>1, <2>2, OverType DEF MeterType
  <2>3. CASE K!Go(c, "checked") /\ when' = [when EXCEPT ![c] = now] /\ UNCHANGED number
    <3>1. at' \in [KeyCallers -> Stages] /\ when' \in [KeyCallers -> Nat]
      BY <2>3 DEF MeterType, K!Go, Stages
    <3> QED
      BY <2>1, <2>3, <3>1 DEF MeterType
  <2> QED
    BY <1>4, <2>2, <2>3 DEF K!CheckMemory
<1>5. ASSUME NEW c \in KeyCallers, K!Serve(c) PROVE MeterType'
  <2>1. served' \subseteq Requests
    BY <1>5 DEF K!Serve, MeterType
  <2> QED
    BY <1>5, <2>1, OverType DEF K!Serve, MeterType
<1>6. CASE K!RollUp
  <2>1. usage' \in [K!Days -> Nat]
    <3>1. \A d \in K!Days : usage[d] + (IF d \in K!ActiveDays THEN K!Counter(d) ELSE 0) \in Nat
      BY CounterType DEF MeterType
    <3> QED
      BY <1>6, <3>1 DEF K!RollUp
  <2>2. rolled' \in Int
    BY <1>6, TodayType DEF K!RollUp
  <2> QED
    BY <1>6, <2>1, <2>2 DEF K!RollUp, MeterType
<1>7. CASE K!Tick
  <2>1. meter' \in [K!Days -> Nat]
    BY <1>7 DEF K!Tick, MeterType
  <2>2. now' \in Nat /\ now' <= MaxSecond
    BY <1>7, ApiAssumption DEF K!Tick, MeterType
  <2> QED
    BY <1>7, <2>1, <2>2 DEF K!Tick, MeterType
<1> QED
  BY <1>1, <1>2, <1>3, <1>4, <1>5, <1>6, <1>7 DEF K!Next

Total == K!Counter(K!Today)

\* A number is given to one request of a day, and none beyond what was counted.
Numbered ==
    /\ \A c \in KeyCallers : at[c] # "idle" =>
          /\ 1 <= number[c].n /\ number[c].day <= K!Today
          /\ number[c].day = K!Today => number[c].n <= Total
    /\ \A r \in served :
          /\ 1 <= r.n /\ r.n <= Quota /\ r.day <= K!Today
          /\ r.day = K!Today => r.n <= Total
    /\ \A c, d \in KeyCallers : c # d /\ at[c] # "idle" /\ at[d] # "idle" /\ number[c].day = number[d].day => number[c].n # number[d].n
    /\ \A c \in KeyCallers, r \in served : at[c] # "idle" /\ number[c].day = r.day => number[c].n # r.n
    /\ \A q, r \in served : q.day = r.day /\ q.n = r.n => q = r

LEMMA NumberedInit == K!Init => Numbered
BY DEF K!Init, Numbered

\* What the clock does to days and their counters.
LEMMA NextDay ==
  ASSUME MeterType, K!Tick
  PROVE  /\ K!Today \in Nat /\ K!Today' \in {K!Today, K!Today + 1}
         /\ \A d \in K!Days : d >= K!Today' - 1 => meter'[d] = meter[d]
<1>1. now \in Nat /\ now' = now + 1 /\ KeyDay \in Nat \ {0}
  BY ApiAssumption DEF MeterType, K!Tick
<1>2. now \div KeyDay \in Nat /\ (now + 1) \div KeyDay \in Nat /\ now \div KeyDay <= (now + 1) \div KeyDay
      /\ (now + 1) \div KeyDay <= (now \div KeyDay) + 1
  <2>1. now + 1 \in Nat /\ now <= now + 1
    BY <1>1
  <2> QED
    BY <1>1, <2>1, Places
<1>3. K!Today = now \div KeyDay /\ K!Today' = (now + 1) \div KeyDay
  BY <1>1 DEF K!Today
<1>4. \A d \in K!Days : now + 1 >= (d + 2) * KeyDay <=> d + 2 <= (now + 1) \div KeyDay
  <2> SUFFICES ASSUME NEW d \in K!Days PROVE now + 1 >= (d + 2) * KeyDay <=> d + 2 <= (now + 1) \div KeyDay
    OBVIOUS
  <2>1. d + 2 \in Int /\ now + 1 \in Int
    BY <1>1, TodayType
  <2>2. d + 2 <= (now + 1) \div KeyDay <=> (d + 2) * KeyDay <= now + 1
    BY <1>1, <2>1, QuotientOrder
  <2>3. (d + 2) * KeyDay \in Int
    BY <1>1, <2>1, ProductOrder
  <2> QED
    BY <1>1, <2>2, <2>3
<1>5. \A d \in K!Days : d \in Nat
  BY TodayType
<1>6. \A d \in K!Days : meter'[d] = meter[d] \/ now + 1 >= (d + 2) * KeyDay
  BY DEF K!Tick
<1>7. \A d \in K!Days : d >= K!Today' - 1 => meter'[d] = meter[d]
  BY <1>2, <1>3, <1>4, <1>5, <1>6
<1> QED
  BY <1>2, <1>3, <1>7

LEMMA NumberedStays ==
  ASSUME Numbered, UNCHANGED <<K!Today, Total>>, served' = served,
         \A c \in KeyCallers : at'[c] = "idle" \/ (at[c] # "idle" /\ number'[c] = number[c])
  PROVE  Numbered'
BY DEF Numbered

LEMMA NumberedNext == MeterType /\ Numbered /\ K!Next => Numbered'
<1> SUFFICES ASSUME MeterType, Numbered, K!Next PROVE Numbered'
  OBVIOUS
<1>0. K!Today \in Nat /\ K!Today \in K!Days /\ Total \in Nat
  BY TodayType, CounterType DEF Total
<1> USE DEF K!clock, K!limiter, K!meters
<1>1. ASSUME NEW c \in KeyCallers, K!Count(c) PROVE Numbered'
  <2>1. K!Today' = K!Today
    BY <1>1 DEF K!Count, K!Today
  <2>2. Total' = Total + 1
    <3>1. CASE redis
      <4>1. redis' = redis /\ meter' = [meter EXCEPT ![K!Today] = @ + 1]
        BY <1>1, <3>1 DEF K!Count
      <4> QED
        BY <1>0, <2>1, <3>1, <4>1 DEF Total, K!Counter, MeterType
    <3>2. CASE ~redis
      <4>1. redis' = redis /\ memory' = [day |-> K!Today, n |-> K!Counter(K!Today) + 1]
        BY <1>1, <3>2 DEF K!Count
      <4> QED
        BY <2>1, <3>2, <4>1 DEF Total, K!Counter
    <3> QED
      BY <3>1, <3>2
  <2> DEFINE new == [id |-> calls + 1, day |-> K!Today, n |-> K!NumberOf]
  <2>3. new.day = K!Today /\ new.n = Total + 1
    BY DEF Total, K!NumberOf
  <2>4. number' = [number EXCEPT ![c] = new] /\ at' = [at EXCEPT ![c] = "counted"] /\ served' = served /\ at[c] = "idle"
    BY <1>1 DEF K!Count, K!Go
  <2> HIDE DEF new
  <2>5. number'[c] = new /\ \A d \in KeyCallers \ {c} : number'[d] = number[d] /\ at'[d] = at[d]
    BY <2>4 DEF MeterType
  <2>6. \A d \in KeyCallers : number[d].n \in Nat /\ number[d].day \in Nat
    BY TodayType DEF MeterType, Requests
  <2>7. \A r \in served : r.n \in Nat /\ r.day \in Nat
    BY TodayType DEF MeterType, Requests
  <2>8. \A d \in KeyCallers : at'[d] # "idle" =>
          /\ 1 <= number'[d].n /\ number'[d].day <= K!Today /\ (number'[d].day = K!Today => number'[d].n <= Total + 1)
    BY <1>0, <2>3, <2>5, <2>6 DEF Numbered
  <2>9. \A r \in served : r.day = K!Today => r.n <= Total + 1
    BY <1>0, <2>7 DEF Numbered
  <2>10. \A d \in KeyCallers \ {c} : at[d] # "idle" /\ number[d].day = new.day => number[d].n # new.n
    BY <1>0, <2>3, <2>6 DEF Numbered
  <2>11. \A r \in served : r.day = new.day => r.n # new.n
    BY <1>0, <2>3, <2>7 DEF Numbered
  <2>12. \A d, e \in KeyCallers : d # e /\ at'[d] # "idle" /\ at'[e] # "idle" /\ number'[d].day = number'[e].day => number'[d].n # number'[e].n
    BY <2>5, <2>10 DEF Numbered
  <2>13. \A d \in KeyCallers, r \in served : at'[d] # "idle" /\ number'[d].day = r.day => number'[d].n # r.n
    BY <2>5, <2>11 DEF Numbered
  <2> QED
    BY <2>1, <2>2, <2>4, <2>8, <2>9, <2>12, <2>13 DEF Numbered
<1>2. ASSUME NEW c \in KeyCallers, at[c] # "idle", UNCHANGED <<redis, now, meter, memory, served>>,
             K!Over(c) \/ (number' = number /\ (K!Go(c, "read") \/ K!Go(c, "checked")))
      PROVE  Numbered'
  <2>1. UNCHANGED <<K!Today, Total>>
    BY <1>2 DEF K!Today, Total, K!Counter
  <2>2. \A d \in KeyCallers : at'[d] = "idle" \/ (at[d] # "idle" /\ number'[d] = number[d])
    <3>1. CASE K!Over(c)
      BY <3>1, OverType
    <3>2. CASE number' = number /\ (K!Go(c, "read") \/ K!Go(c, "checked"))
      BY <1>2, <3>2 DEF MeterType, K!Go
    <3> QED
      BY <1>2, <3>1, <3>2
  <2> QED
    BY <1>2, <2>1, <2>2, NumberedStays
<1>3. ASSUME NEW c \in KeyCallers, K!CheckRead(c) \/ K!CheckMark(c) \/ K!CheckMemory(c) PROVE Numbered'
  BY <1>2, <1>3 DEF K!CheckRead, K!CheckMark, K!CheckMemory
<1>4. ASSUME NEW c \in KeyCallers, K!Serve(c) PROVE Numbered'
  <2>1. UNCHANGED <<K!Today, Total>>
    BY <1>4 DEF K!Serve, K!Today, Total, K!Counter
  <2>2. at[c] # "idle" /\ at'[c] = "idle" /\ \A d \in KeyCallers \ {c} : at'[d] = at[d] /\ number'[d] = number[d]
    BY <1>4, OverType DEF K!Serve
  <2>3. CASE served' = served
    BY <2>1, <2>2, <2>3, NumberedStays
  <2>4. CASE number[c].n <= Quota /\ served' = served \union {number[c]}
    <3>1. \A r \in served' : 1 <= r.n /\ r.n <= Quota /\ r.day <= K!Today /\ (r.day = K!Today => r.n <= Total)
      BY <2>2, <2>4 DEF Numbered
    <3>2. \A d \in KeyCallers, r \in served' : at'[d] # "idle" /\ number'[d].day = r.day => number'[d].n # r.n
      BY <2>2, <2>4 DEF Numbered
    <3>3. \A q, r \in served' : q.day = r.day /\ q.n = r.n => q = r
      BY <2>2, <2>4 DEF Numbered
    <3> QED
      BY <2>1, <2>2, <3>1, <3>2, <3>3 DEF Numbered
  <2>5. number[c].n \in Nat /\ Quota \in Nat
    BY ApiAssumption DEF MeterType, Requests
  <2> QED
    BY <1>4, <2>3, <2>4, <2>5 DEF K!Serve
<1>5. CASE K!RollUp
  <2>1. UNCHANGED <<K!Today, Total>>
    BY <1>5 DEF K!RollUp, K!Today, Total, K!Counter
  <2> QED
    BY <1>5, <2>1, NumberedStays DEF K!RollUp, Numbered
<1>6. CASE K!Tick
  <2>1. UNCHANGED <<redis, memory, at, number, served>>
    BY <1>6 DEF K!Tick
  <2>2. CASE K!Today' = K!Today
    <3>1. K!Today >= K!Today' - 1
      BY <1>0, <2>2
    <3>2. meter'[K!Today] = meter[K!Today]
      BY <1>0, <1>6, <3>1, NextDay
    <3>3. Total' = Total
      BY <2>1, <2>2, <3>2 DEF Total, K!Counter
    <3> QED
      BY <2>1, <2>2, <3>3 DEF Numbered
  <2>3. CASE K!Today' = K!Today + 1
    <3>1. \A c \in KeyCallers : number[c].day \in Nat
      BY TodayType DEF MeterType, Requests
    <3>2. \A r \in served : r.day \in Nat
      BY TodayType DEF MeterType, Requests
    <3>3. \A c \in KeyCallers : at[c] # "idle" => number[c].day <= K!Today' /\ number[c].day # K!Today'
      BY <1>0, <2>3, <3>1 DEF Numbered
    <3>4. \A r \in served : r.day <= K!Today' /\ r.day # K!Today'
      BY <1>0, <2>3, <3>2 DEF Numbered
    <3> QED
      BY <2>1, <3>3, <3>4 DEF Numbered
  <2> QED
    BY <1>6, <2>2, <2>3, NextDay
<1> QED
  BY <1>1, <1>3, <1>4, <1>5, <1>6 DEF K!Next

LEMMA SameSizeOfLimits == \A S : K!Cardinality(S) = Cardinality(S)
BY DEF K!Cardinality, Cardinality

LEMMA QuotaMeans == MeterType /\ Numbered => K!QuotaHolds
<1> SUFFICES ASSUME MeterType, Numbered, NEW d \in K!Days PROVE Cardinality({r \in served : r.day = d}) <= Quota
  BY SameSizeOfLimits DEF K!QuotaHolds
<1> DEFINE S == {r \in served : r.day = d}  f == [r \in S |-> r.n]
<1>1. Quota \in Nat /\ IsFiniteSet(1 .. Quota) /\ Cardinality(1 .. Quota) = Quota
  BY ApiAssumption, FS_Interval
<1>2. \A r \in S : r.n \in 1 .. Quota
  BY <1>1 DEF Numbered, MeterType, Requests
<1>3. \A q, r \in S : q.n = r.n => q = r
  BY DEF Numbered
<1>4. f \in Injection(S, 1 .. Quota)
  BY <1>2, <1>3 DEF Injection, IsInjective
<1> HIDE DEF S, f
<1>5. Cardinality(S) <= Cardinality(1 .. Quota)
  BY <1>1, <1>4, FS_Injection
<1> QED
  BY <1>1, <1>5 DEF S

\* With Redis, the counters of today and yesterday are exact, and every day before the
\* last roll-up is in the table.
Rolled ==
    redis = TRUE =>
        /\ rolled = K!Today \/ rolled = K!Today - 1
        /\ \A d \in K!Days : d >= K!Today - 1 => meter[d] = received[d]
        /\ \A d \in K!Days : rolled > d => usage[d] >= received[d]

LEMMA RolledInit == K!Init => Rolled
<1> SUFFICES ASSUME K!Init PROVE Rolled
  OBVIOUS
<1>1. K!Today = 0
  <2>1. KeyDay \in Nat \ {0} /\ 0 \in Nat /\ 0 <= 0
    BY ApiAssumption
  <2>2. 0 \div KeyDay \in Int /\ (0 \div KeyDay) * KeyDay <= 0 /\ 0 < (0 \div KeyDay) * KeyDay + KeyDay /\ 0 \div KeyDay \in Nat
    BY <2>1, QuotientFloor, Places
  <2>3. 1 <= 0 \div KeyDay <=> 1 * KeyDay <= 0
    BY <2>1, QuotientOrder
  <2>4. 0 \div KeyDay = 0
    BY <2>1, <2>2, <2>3
  <2> QED
    BY <2>4 DEF K!Init, K!Today
<1>2. \A d \in K!Days : d \in Nat
  BY TodayType, MeterTypeInit
<1> QED
  BY <1>1, <1>2 DEF K!Init, Rolled

LEMMA RedisStays == K!Next => redis' = redis
<1> USE DEF K!clock
<1>1. ASSUME NEW c, K!Count(c) \/ K!CheckRead(c) \/ K!CheckMark(c) \/ K!CheckMemory(c) \/ K!Serve(c) PROVE redis' = redis
  BY <1>1 DEF K!Count, K!CheckRead, K!CheckMark, K!CheckMemory, K!Serve
<1>2. K!RollUp \/ K!Tick => redis' = redis
  BY DEF K!RollUp, K!Tick
<1> QED
  BY <1>1, <1>2 DEF K!Next

LEMMA RolledNext == MeterType /\ Rolled /\ K!Next => Rolled'
<1> SUFFICES ASSUME MeterType, Rolled, K!Next, redis = TRUE PROVE Rolled'
  BY RedisStays DEF Rolled
<1>0. K!Today \in Nat /\ K!Today \in K!Days /\ \A d \in K!Days : d \in Nat
  BY TodayType
<1>1. \A d \in K!Days : meter[d] \in Nat /\ usage[d] \in Nat /\ received[d] \in Nat
  BY DEF MeterType
<1> USE DEF K!clock, K!limiter, K!meters
<1>2. ASSUME NEW c \in KeyCallers, K!Count(c) PROVE Rolled'
  <2>1. UNCHANGED <<redis, now, usage, rolled>> /\ meter' = [meter EXCEPT ![K!Today] = @ + 1] /\ received' = [received EXCEPT ![K!Today] = @ + 1]
    BY <1>2 DEF K!Count
  <2>2. K!Today' = K!Today
    BY <2>1 DEF K!Today
  <2>3. \A d \in K!Days : IF d = K!Today THEN meter'[d] = meter[d] + 1 /\ received'[d] = received[d] + 1
                          ELSE meter'[d] = meter[d] /\ received'[d] = received[d]
    BY <2>1 DEF MeterType
  <2> QED
    BY <1>0, <1>1, <2>1, <2>2, <2>3 DEF Rolled, MeterType
<1>3. ASSUME NEW c \in KeyCallers, K!CheckRead(c) \/ K!CheckMark(c) \/ K!CheckMemory(c) \/ K!Serve(c) PROVE Rolled'
  <2>1. UNCHANGED <<redis, now, meter, usage, rolled, received>>
    BY <1>3 DEF K!CheckRead, K!CheckMark, K!CheckMemory, K!Serve
  <2>2. K!Today' = K!Today
    BY <2>1 DEF K!Today
  <2> QED
    BY <2>1, <2>2 DEF Rolled
<1>4. CASE K!RollUp
  <2>1. UNCHANGED <<redis, now, meter, received>> /\ rolled' = K!Today /\ rolled < K!Today
    BY <1>4 DEF K!RollUp
  <2>2. K!Today' = K!Today /\ rolled = K!Today - 1
    BY <1>0, <2>1 DEF K!Today, Rolled
  <2>3. \A d \in K!Days : usage'[d] = usage[d] + IF meter[d] > 0 THEN meter[d] ELSE 0
    BY <1>4 DEF K!RollUp, K!ActiveDays, K!Counter
  <2>4. \A d \in K!Days : usage'[d] = usage[d] + meter[d]
    BY <1>1, <2>3
  <2>5. \A d \in K!Days : K!Today > d => usage'[d] >= received[d]
    <3> SUFFICES ASSUME NEW d \in K!Days, K!Today > d PROVE usage'[d] >= received[d]
      OBVIOUS
    <3>1. CASE d = K!Today - 1
      <4>1. meter[d] = received[d]
        BY <1>0, <3>1 DEF Rolled
      <4> QED
        BY <1>1, <2>4, <4>1
    <3>2. CASE d # K!Today - 1
      <4>1. rolled > d
        BY <1>0, <2>2, <3>2
      <4>2. usage[d] >= received[d]
        BY <4>1 DEF Rolled
      <4> QED
        BY <1>1, <2>4, <4>2
    <3> QED
      BY <3>1, <3>2
  <2> QED
    BY <2>1, <2>2, <2>5 DEF Rolled
<1>5. CASE K!Tick
  <2>1. UNCHANGED <<redis, usage, rolled, received>> /\ (K!Today' > K!Today => rolled = K!Today)
    BY <1>5 DEF K!Tick, K!Today
  <2>2. K!Today' \in {K!Today, K!Today + 1} /\ \A d \in K!Days : d >= K!Today' - 1 => meter'[d] = meter[d]
    BY <1>5, NextDay
  <2>3. rolled = K!Today' \/ rolled = K!Today' - 1
    BY <1>0, <2>1, <2>2 DEF Rolled
  <2>4. \A d \in K!Days : d >= K!Today' - 1 => meter'[d] = received[d]
    <3>1. \A d \in K!Days : d >= K!Today' - 1 => d >= K!Today - 1
      <4>1. K!Today' = K!Today \/ K!Today' = K!Today + 1
        BY <2>2
      <4>2. K!Today \in Nat /\ \A d \in K!Days : d \in Nat
        BY <1>0
      <4> QED
        BY <4>1, <4>2
    <3>2. \A d \in K!Days : d >= K!Today - 1 => meter[d] = received[d]
      BY DEF Rolled
    <3> QED
      BY <2>2, <3>1, <3>2
  <2> QED
    BY <2>1, <2>3, <2>4 DEF Rolled
<1> QED
  BY <1>2, <1>3, <1>4, <1>5 DEF K!Next

-----------------------------------------------------------------------------
(* Its rate.                                                               *)

Slots == 0 .. MaxSecond \div Window
InSlot(s) == {p \in passed : p[2] \div Window = s}
Reading == {c \in KeyCallers : at[c] = "read"}

Arrivals == Requests \X Nat

\* What the limiter has let through, by seconds and by windows.
RateType ==
    /\ passed \subseteq Arrivals /\ IsFiniteSet(passed)
    /\ \A p \in passed : p[2] <= now
    /\ \A c \in Reading : when[c] <= now
    /\ redis = FALSE => Reading = {}

\* In memory a window is exact.
MemoryExact == redis = FALSE => \A t \in Nat : Cardinality({p \in passed : t - Window < p[2] /\ p[2] <= t}) <= Rate

\* What is estimated from the counters f.
Weight(f, t) ==
    LET b == t \div Window
    IN (IF b = 0 THEN 0 ELSE f[b - 1] * (Window - (t % Window))) + f[b] * Window

\* With Redis, and without a race, who has read is alone, has read what still holds, and
\* counts no earlier than what has been counted.
Alone ==
    redis = TRUE /\ limitRaced = FALSE =>
        /\ \A c, d \in Reading : c = d
        /\ \A c \in Reading : /\ Weight(bucket, when[c]) + Window <= Rate * Window
                              /\ \A p \in passed : p[2] <= when[c]
                              /\ \A s \in Slots : s > when[c] \div Window => bucket[s] = 0
        /\ \A s \in Slots : s > now \div Window => bucket[s] = 0

\* No slot counts more than the rate, no two neighbours twice as much.
SlotsHold ==
    redis = TRUE /\ limitRaced = FALSE =>
        \A s \in Slots : /\ Cardinality(InSlot(s)) <= bucket[s] /\ bucket[s] <= Rate
                         /\ s > 0 => bucket[s - 1] + bucket[s] < 2 * Rate

RateInv == RateType /\ MemoryExact /\ Alone /\ SlotsHold

LEMMA SlotOf ==
  ASSUME NEW t \in Nat, t <= MaxSecond
  PROVE  t \div Window \in Slots /\ t \div Window \in Nat
<1>1. Window \in Nat \ {0} /\ MaxSecond \in Nat
  BY ApiAssumption
<1>2. t \div Window \in Nat /\ MaxSecond \div Window \in Nat /\ t \div Window <= MaxSecond \div Window
  BY <1>1, Places
<1> QED
  BY <1>2 DEF Slots

LEMMA Backwards == \A s \in Slots : s \in Nat /\ (s > 0 => s - 1 \in Slots)
<1>1. MaxSecond \div Window \in Int
  BY QuotientFloor, ApiAssumption
<1> QED
  BY <1>1 DEF Slots

LEMMA RateInvInit == K!Init => RateInv
<1> SUFFICES ASSUME K!Init PROVE RateInv
  OBVIOUS
<1>1. passed = {} /\ Reading = {} /\ Rate \in Nat \ {0}
  BY ApiAssumption DEF K!Init, Reading
<1>2. IsFiniteSet({}) /\ Cardinality({}) = 0
  BY FS_EmptySet
<1>3. \A s : InSlot(s) = {}
  BY <1>1 DEF InSlot
<1>4. \A s \in Slots : bucket[s] = 0 /\ (s > 0 => s - 1 \in Slots)
  BY Backwards DEF K!Init, Slots
<1>5. RateType
  BY <1>1, <1>2 DEF RateType
<1>6. MemoryExact
  <2>1. \A t : {p \in passed : t - Window < p[2] /\ p[2] <= t} = {}
    BY <1>1
  <2> QED
    BY <1>1, <1>2, <2>1 DEF MemoryExact
<1>7. Alone
  BY <1>1, <1>4 DEF Alone
<1>8. SlotsHold
  <2>1. \A s \in Slots : bucket[s] = 0 /\ (s > 0 => bucket[s - 1] = 0) /\ Cardinality(InSlot(s)) = 0
    BY <1>2, <1>3, <1>4
  <2> QED
    BY <1>1, <2>1 DEF SlotsHold
<1> QED
  BY <1>5, <1>6, <1>7, <1>8 DEF RateInv

\* A request that gets through adds one at most to what is counted of it.
LEMMA OneMore ==
  ASSUME NEW S, IsFiniteSet(S), NEW x, NEW T, T \subseteq S \union {x}
  PROVE  IsFiniteSet(T) /\ Cardinality(T) \in Nat /\ Cardinality(S) \in Nat /\ Cardinality(T) <= Cardinality(S) + 1
<1>1. IsFiniteSet(S \union {x}) /\ Cardinality(S) \in Nat /\ Cardinality(S \union {x}) <= Cardinality(S) + 1
  <2>1. Cardinality(S) \in Nat
    BY FS_CardinalityType
  <2>2. IsFiniteSet(S \union {x}) /\ (Cardinality(S \union {x}) = Cardinality(S) \/ Cardinality(S \union {x}) = Cardinality(S) + 1)
    BY FS_AddElement
  <2> QED
    BY <2>1, <2>2
<1>2. IsFiniteSet(T) /\ Cardinality(T) <= Cardinality(S \union {x})
  BY <1>1, FS_Subset
<1>3. Cardinality(T) \in Nat /\ Cardinality(S \union {x}) \in Nat
  BY <1>1, <1>2, FS_CardinalityType
<1> QED
  BY <1>1, <1>2, <1>3

LEMMA RateSame ==
  ASSUME RateInv, UNCHANGED <<redis, now, bucket, passed, limitRaced>>, Reading' = Reading, \A c \in Reading : when'[c] = when[c]
  PROVE  RateInv'
<1>1. RateType'
  BY DEF RateInv, RateType
<1>2. MemoryExact'
  BY DEF RateInv, MemoryExact
<1>4. Alone'
  BY DEF RateInv, Alone
<1>5. \A s : InSlot(s)' = InSlot(s)
  BY DEF InSlot
<1>6. SlotsHold'
  BY <1>5 DEF RateInv, SlotsHold
<1> QED
  BY <1>1, <1>2, <1>4, <1>6 DEF RateInv

\* The estimate leaves room for one, and is all of the slot when the slot is full.
LEMMA RoomArithmetic ==
  ASSUME NEW n \in Nat, NEW p \in Nat, NEW rest \in Nat, rest >= 1, NEW L \in Nat \ {0}, NEW R \in Nat,
         p * rest + n * L + L <= R * L
  PROVE  n + 1 <= R /\ (n + 1 = R => p = 0)
<1>1. p * rest \in Int /\ p <= p * rest
  OBVIOUS
<1>2. n * L + L = (n + 1) * L /\ n * L \in Int /\ (n + 1) * L \in Int /\ R * L \in Int
  OBVIOUS
<1>3. R < n + 1 => R * L + L <= (n + 1) * L
  BY ProductOrder
<1>4. n + 1 = R => (n + 1) * L = R * L
  OBVIOUS
<1>5. n + 1 <= R
  BY <1>1, <1>2, <1>3
<1> QED
  BY <1>1, <1>2, <1>4, <1>5

LEMMA RoomForOne ==
  ASSUME MeterType, NEW t \in Nat, t <= MaxSecond, Weight(bucket, t) + Window <= Rate * Window
  PROVE  /\ bucket[t \div Window] + 1 <= Rate
         /\ bucket[t \div Window] + 1 = Rate /\ t \div Window > 0 => bucket[(t \div Window) - 1] = 0
<1> DEFINE s == t \div Window  rest == Window - (t % Window)
<1>1. Window \in Nat \ {0} /\ Rate \in Nat \ {0} /\ s \in Slots /\ s \in Nat
  BY ApiAssumption, SlotOf
<1>2. rest \in Nat /\ rest >= 1
  BY <1>1
<1>3. \A x \in Slots : bucket[x] \in Nat
  BY DEF MeterType, Slots
<1>4. Weight(bucket, t) = (IF s = 0 THEN 0 ELSE bucket[s - 1] * rest) + bucket[s] * Window
  BY DEF Weight
<1> HIDE DEF s, rest
<1>5. bucket[s] \in Nat /\ (s > 0 => bucket[s - 1] \in Nat)
  BY <1>1, <1>3, Backwards
<1>6. CASE s = 0
  <2>1. 0 * rest + bucket[s] * Window + Window <= Rate * Window
    BY <1>1, <1>2, <1>4, <1>5, <1>6
  <2>2. bucket[s] + 1 <= Rate
    BY <1>1, <1>2, <1>5, <2>1, RoomArithmetic
  <2> QED
    BY <1>6, <2>2 DEF s
<1>7. CASE s > 0
  <2>1. bucket[s - 1] * rest + bucket[s] * Window + Window <= Rate * Window
    BY <1>1, <1>4, <1>7
  <2>2. bucket[s] + 1 <= Rate /\ (bucket[s] + 1 = Rate => bucket[s - 1] = 0)
    <3> DEFINE n == bucket[s]  p == bucket[s - 1]
    <3>1. n \in Nat /\ p \in Nat /\ p * rest + n * Window + Window <= Rate * Window /\ Rate \in Nat
      BY <1>1, <1>5, <1>7, <2>1
    <3> HIDE DEF n, p
    <3>2. n + 1 <= Rate /\ (n + 1 = Rate => p = 0)
      BY <1>1, <1>2, <3>1, RoomArithmetic, Zenon
    <3> QED
      BY <3>2 DEF n, p
  <2> QED
    BY <2>2 DEF s
<1> QED
  BY <1>1, <1>6, <1>7

LEMMA WeightType ==
  ASSUME MeterType, NEW t \in Nat, t <= MaxSecond
  PROVE  Weight(bucket, t) \in Int
<1> DEFINE s == t \div Window  rest == Window - (t % Window)
<1>1. Window \in Nat \ {0} /\ s \in Slots /\ s \in Nat
  BY ApiAssumption, SlotOf
<1>2. rest \in Int
  BY <1>1
<1>3. \A x \in Slots : bucket[x] \in Nat
  BY DEF MeterType, Slots
<1>4. s = 0 \/ s - 1 \in Slots
  BY <1>1, Backwards
<1>5. Weight(bucket, t) = (IF s = 0 THEN 0 ELSE bucket[s - 1] * rest) + bucket[s] * Window
  BY DEF Weight
<1> HIDE DEF s, rest
<1> QED
  BY <1>1, <1>2, <1>3, <1>4, <1>5

LEMMA RateNextRead ==
  ASSUME MeterType, RateInv, NEW c \in KeyCallers, K!CheckRead(c)
  PROVE  RateInv'
<1>1. UNCHANGED <<redis, now, bucket, passed>> /\ at[c] = "counted" /\ redis = TRUE
  BY DEF K!CheckRead, K!clock, MeterType
<1>2. CASE K!Over(c) /\ UNCHANGED limitRaced
  <2>1. at'[c] = "idle" /\ \A d \in KeyCallers \ {c} : at'[d] = at[d] /\ when'[d] = when[d]
    BY <1>2, OverType
  <2>2. Reading' = Reading /\ \A d \in Reading : when'[d] = when[d]
    BY <1>1, <2>1 DEF Reading
  <2> QED
    BY <1>1, <1>2, <2>2, RateSame
<1>3. CASE /\ ~(K!Estimate(now) + Window > Rate * Window) /\ K!Go(c, "read") /\ when' = [when EXCEPT ![c] = now]
           /\ limitRaced' = (limitRaced \/ \E d \in KeyCallers : at[d] = "read")
  <2>1. Reading' = Reading \union {c} /\ when'[c] = now /\ \A d \in Reading \ {c} : when'[d] = when[d]
    BY <1>3 DEF MeterType, K!Go, Reading
  <2>2. limitRaced' = FALSE => limitRaced = FALSE /\ Reading = {}
    <3>1. limitRaced \in BOOLEAN
      BY DEF MeterType
    <3> QED
      BY <1>3, <3>1 DEF Reading
  <2>3. RateType'
    <3>1. now \in Nat
      BY DEF MeterType
    <3> QED
      BY <1>1, <2>1, <3>1 DEF RateInv, RateType
  <2>4. MemoryExact'
    BY <1>1 DEF RateInv, MemoryExact
  <2>5. Alone'
    <3> SUFFICES ASSUME limitRaced' = FALSE PROVE Alone'
      BY DEF Alone
    <3>1. Reading' = {c} /\ limitRaced = FALSE
      BY <2>1, <2>2
    <3>2. Weight(bucket, now) + Window <= Rate * Window
      <4>1. K!Estimate(now) = Weight(bucket, now)
        BY DEF K!Estimate, Weight
      <4>2. Weight(bucket, now) \in Int /\ Window \in Int /\ Rate * Window \in Int
        BY WeightType, ApiAssumption DEF MeterType
      <4> QED
        BY <1>3, <4>1, <4>2
    <3>3. Weight(bucket, when'[c]) + Window <= Rate * Window
      BY <2>1, <3>2
    <3>4. (\A p \in passed : p[2] <= now) /\ \A s \in Slots : s > now \div Window => bucket[s] = 0
      BY <1>1, <3>1 DEF RateInv, RateType, Alone
    <3> QED
      BY <1>1, <2>1, <3>1, <3>3, <3>4 DEF Alone
  <2>6. SlotsHold'
    <3>1. \A s : InSlot(s)' = InSlot(s)
      BY <1>1 DEF InSlot
    <3> QED
      BY <1>1, <2>2, <3>1 DEF RateInv, SlotsHold
  <2> QED
    BY <2>3, <2>4, <2>5, <2>6 DEF RateInv
<1> QED
  BY <1>2, <1>3 DEF K!CheckRead

LEMMA RateNextMark ==
  ASSUME MeterType, RateInv, NEW c \in KeyCallers, K!CheckMark(c)
  PROVE  RateInv'
<1> DEFINE b == when[c] \div Window  x == <<number[c], when[c]>>
<1>1. UNCHANGED <<redis, now, limitRaced, number, when>> /\ at[c] = "read"
  BY DEF K!CheckMark, K!clock
<1>2. passed' = passed \union {x} /\ bucket' = [bucket EXCEPT ![b] = @ + 1]
  BY DEF K!CheckMark, K!Pass
<1>3. c \in Reading /\ Reading' = Reading \ {c}
  BY <1>1 DEF K!CheckMark, K!Go, MeterType, Reading
<1>4. when[c] \in Nat /\ when[c] <= now /\ now \in Nat /\ now <= MaxSecond /\ when[c] <= MaxSecond
  <2>1. when[c] \in Nat /\ now \in Nat /\ now <= MaxSecond /\ MaxSecond \in Nat
    BY ApiAssumption DEF MeterType
  <2>2. when[c] <= now
    BY <1>3 DEF RateInv, RateType
  <2> QED
    BY <2>1, <2>2
<1>5. b \in Slots /\ b \in Nat /\ b <= now \div Window /\ now \div Window \in Nat
  BY <1>4, SlotOf, Places, ApiAssumption
<1>6. x \in Arrivals /\ x[2] = when[c]
  BY <1>4 DEF MeterType, Arrivals
<1>7. \A s \in Slots : bucket[s] \in Nat /\ bucket'[s] = IF s = b THEN bucket[s] + 1 ELSE bucket[s]
  BY <1>2 DEF MeterType, Slots
<1>8. redis = TRUE
  BY <1>3 DEF RateInv, RateType, MeterType
<1> HIDE DEF x
<1>9. RateType'
  <2>1. passed' \subseteq Arrivals /\ IsFiniteSet(passed')
    BY <1>2, <1>6, FS_AddElement DEF RateInv, RateType
  <2>2. \A p \in passed' : p[2] <= now
    BY <1>2, <1>4, <1>6 DEF RateInv, RateType
  <2> QED
    BY <1>1, <1>3, <1>8, <2>1, <2>2 DEF RateInv, RateType
<1>10. MemoryExact'
  BY <1>1, <1>8 DEF MemoryExact
<1> SUFFICES ASSUME limitRaced = FALSE PROVE Alone' /\ SlotsHold'
  BY <1>1, <1>9, <1>10 DEF RateInv, Alone, SlotsHold
<1>11. Reading' = {} /\ Weight(bucket, when[c]) + Window <= Rate * Window /\ \A s \in Slots : s > b => bucket[s] = 0
  BY <1>3, <1>8 DEF RateInv, Alone
<1>12. bucket[b] + 1 <= Rate /\ (bucket[b] + 1 = Rate /\ b > 0 => bucket[b - 1] = 0)
  BY <1>4, <1>11, RoomForOne
<1> HIDE DEF b
<1>13. Alone'
  <2>1. \A s \in Slots : s > now \div Window => bucket'[s] = 0
    <3> SUFFICES ASSUME NEW s \in Slots, s > now \div Window PROVE bucket'[s] = 0
      OBVIOUS
    <3>1. s \in Nat /\ s > b
      BY <1>5, Backwards
    <3> QED
      BY <1>7, <1>11, <3>1
  <2> QED
    BY <1>1, <1>11, <2>1 DEF Alone
<1>14. Rate \in Nat \ {0} /\ \A s \in Slots : bucket[s] <= Rate /\ Cardinality(InSlot(s)) <= bucket[s]
       /\ (s > 0 => bucket[s - 1] + bucket[s] < 2 * Rate)
  BY <1>8, ApiAssumption DEF RateInv, SlotsHold
<1>15. \A s \in Slots : Cardinality(InSlot(s)') <= bucket'[s]
  <2> SUFFICES ASSUME NEW s \in Slots PROVE Cardinality(InSlot(s)') <= bucket'[s]
    OBVIOUS
  <2>1. IsFiniteSet(InSlot(s))
    <3>1. InSlot(s) \subseteq passed /\ IsFiniteSet(passed)
      BY DEF InSlot, RateInv, RateType
    <3> QED
      BY <3>1, FS_Subset
  <2>2. CASE s = b
    <3>1. InSlot(s)' \subseteq InSlot(s) \union {x}
      BY <1>2 DEF InSlot
    <3>2. Cardinality(InSlot(s)') \in Nat /\ Cardinality(InSlot(s)) \in Nat /\ Cardinality(InSlot(s)') <= Cardinality(InSlot(s)) + 1
      BY <2>1, <3>1, OneMore
    <3> QED
      BY <1>7, <1>14, <2>2, <3>2
  <2>3. CASE s # b
    <3>1. InSlot(s)' = InSlot(s)
      BY <1>2, <1>6, <2>3 DEF InSlot, b
    <3> QED
      BY <1>7, <1>14, <2>3, <3>1
  <2> QED
    BY <2>2, <2>3
<1>16. \A s \in Slots : bucket'[s] <= Rate
  BY <1>7, <1>12, <1>14
<1>17. ASSUME NEW s \in Slots, s > 0 PROVE bucket'[s - 1] + bucket'[s] < 2 * Rate
  <2>1. s \in Nat /\ s - 1 \in Slots
    BY <1>17, Backwards
  <2>2. CASE s = b
    <3>1. bucket'[s] = bucket[b] + 1 /\ bucket'[s - 1] = bucket[b - 1] /\ bucket[b - 1] \in Nat /\ bucket[b] \in Nat /\ bucket[b - 1] <= Rate
      BY <1>7, <1>14, <2>1, <2>2
    <3>2. bucket[b] + 1 = Rate => bucket[b - 1] = 0
      BY <1>12, <1>17, <2>2
    <3> QED
      BY <1>12, <1>14, <3>1, <3>2
  <2>3. CASE s - 1 = b
    <3>1. s > b
      BY <1>5, <2>1, <2>3
    <3>2. bucket'[s] = 0 /\ bucket'[s - 1] = bucket[b] + 1 /\ bucket[b] \in Nat
      BY <1>5, <1>7, <1>11, <2>1, <2>3, <3>1
    <3> QED
      BY <1>12, <1>14, <3>2
  <2>4. CASE s # b /\ s - 1 # b
    BY <1>7, <1>14, <1>17, <2>1, <2>4
  <2> QED
    BY <2>2, <2>3, <2>4
<1>18. SlotsHold'
  BY <1>15, <1>16, <1>17 DEF SlotsHold
<1> QED
  BY <1>13, <1>18

LEMMA RateNextMemory ==
  ASSUME MeterType, RateInv, NEW c \in KeyCallers, K!CheckMemory(c)
  PROVE  RateInv'
<1> DEFINE x == <<number[c], now>>  Span(t) == {p \in passed : t - Window < p[2] /\ p[2] <= t}
<1>1. UNCHANGED <<redis, now, bucket, limitRaced>> /\ at[c] = "counted" /\ redis = FALSE
  BY DEF K!CheckMemory, K!clock, MeterType
<1>2. CASE K!Over(c) /\ UNCHANGED passed
  <2>1. at'[c] = "idle" /\ \A d \in KeyCallers \ {c} : at'[d] = at[d] /\ when'[d] = when[d]
    BY <1>2, OverType
  <2>2. Reading' = Reading /\ \A d \in Reading : when'[d] = when[d]
    BY <1>1, <2>1 DEF Reading
  <2> QED
    BY <1>1, <1>2, <2>2, RateSame
<1>3. CASE ~(K!Recent(now) >= Rate) /\ K!Go(c, "checked") /\ when' = [when EXCEPT ![c] = now] /\ K!Pass(c, now) /\ UNCHANGED number
  <2>1. Reading = {} /\ Reading' = {}
    <3>1. Reading = {}
      BY <1>1 DEF RateInv, RateType
    <3>2. Reading' \subseteq Reading
      BY <1>1, <1>3 DEF K!Go, MeterType, Reading
    <3> QED
      BY <3>1, <3>2
  <2>2. passed' = passed \union {x} /\ x \in Arrivals /\ x[2] = now /\ now \in Nat /\ Rate \in Nat
    BY <1>3, ApiAssumption DEF K!Pass, MeterType, Arrivals
  <2>3. passed \subseteq Arrivals /\ IsFiniteSet(passed) /\ \A p \in passed : p[2] <= now /\ p[2] \in Nat
    BY DEF RateInv, RateType, Arrivals
  <2>4. \A t \in Nat : IsFiniteSet(Span(t)) /\ Cardinality(Span(t)) \in Nat /\ Cardinality(Span(t)) <= Rate
    <3>1. \A t \in Nat : Span(t) \subseteq passed
      OBVIOUS
    <3>2. \A t \in Nat : Cardinality(Span(t)) <= Rate
      BY <1>1 DEF RateInv, MemoryExact
    <3> QED
      BY <2>3, <3>1, <3>2, FS_Subset, FS_CardinalityType
  <2>5. Cardinality(Span(now)) < Rate
    <3>1. K!Recent(now) = Cardinality(Span(now))
      BY SameSizeOfLimits DEF K!Recent
    <3> HIDE DEF Span
    <3>2. Cardinality(Span(now)) \in Nat
      BY <2>2, <2>4
    <3> QED
      BY <1>3, <2>2, <3>1, <3>2
  <2> HIDE DEF x
  <2>6. ASSUME NEW t \in Nat PROVE Cardinality({p \in passed' : t - Window < p[2] /\ p[2] <= t}) <= Rate
    <3> DEFINE T == {p \in passed' : t - Window < p[2] /\ p[2] <= t}
    <3>1. Window \in Nat
      BY ApiAssumption
    <3>2. CASE t >= now
      <4>1. T \subseteq Span(now) \union {x}
        BY <2>2, <2>3, <3>1, <3>2
      <4> HIDE DEF T, Span
      <4>2. Cardinality(T) \in Nat /\ Cardinality(T) <= Cardinality(Span(now)) + 1
        BY <2>2, <2>4, <4>1, OneMore
      <4>3. Cardinality(T) <= Rate
        BY <2>2, <2>4, <2>5, <4>2
      <4> QED
        BY <4>3 DEF T
    <3>3. CASE t < now
      <4>1. T = Span(t)
        BY <2>2, <3>3
      <4> HIDE DEF Span
      <4> QED
        BY <2>4, <4>1
    <3> QED
      BY <2>2, <3>2, <3>3
  <2>7. RateType'
    <3>1. passed' \subseteq Arrivals /\ IsFiniteSet(passed')
      BY <2>2, <2>3, FS_AddElement
    <3>2. \A p \in passed' : p[2] <= now
      BY <2>2, <2>3
    <3> QED
      BY <1>1, <2>1, <3>1, <3>2 DEF RateType
  <2>8. MemoryExact'
    BY <2>6 DEF MemoryExact
  <2> QED
    BY <1>1, <2>7, <2>8 DEF RateInv, Alone, SlotsHold
<1> QED
  BY <1>2, <1>3 DEF K!CheckMemory

LEMMA RateNext == MeterType /\ RateInv /\ K!Next => RateInv'
<1> SUFFICES ASSUME MeterType, RateInv, K!Next PROVE RateInv'
  OBVIOUS
<1> USE DEF K!clock, K!limiter, K!meters
<1>1. ASSUME NEW c \in KeyCallers, K!Count(c) PROVE RateInv'
  <2>1. UNCHANGED <<redis, now, bucket, passed, limitRaced, when>> /\ at[c] = "idle" /\ at' = [at EXCEPT ![c] = "counted"]
    BY <1>1 DEF K!Count, K!Go
  <2>2. Reading' = Reading
    BY <2>1 DEF Reading, MeterType
  <2> QED
    BY <2>1, <2>2, RateSame
<1>2. ASSUME NEW c \in KeyCallers, K!Serve(c) PROVE RateInv'
  <2>1. UNCHANGED <<redis, now, bucket, passed, limitRaced>> /\ at[c] = "checked" /\ K!Over(c)
    BY <1>2 DEF K!Serve
  <2>2. at'[c] = "idle" /\ \A d \in KeyCallers \ {c} : at'[d] = at[d] /\ when'[d] = when[d]
    BY <2>1, OverType
  <2>3. Reading' = Reading /\ \A d \in Reading : when'[d] = when[d]
    BY <2>1, <2>2 DEF Reading
  <2> QED
    BY <2>1, <2>3, RateSame
<1>3. CASE K!RollUp
  <2>1. UNCHANGED <<redis, now, bucket, passed, limitRaced, at, when>>
    BY <1>3 DEF K!RollUp
  <2> QED
    BY <2>1, RateSame DEF Reading
<1>4. CASE K!Tick
  <2>1. UNCHANGED <<redis, bucket, passed, limitRaced, at, when>> /\ now' = now + 1 /\ now \in Nat
    BY <1>4 DEF K!Tick, MeterType
  <2>2. Reading' = Reading
    BY <2>1 DEF Reading
  <2>3. RateType'
    <3>1. \A p \in passed : p[2] \in Nat /\ p[2] <= now
      BY DEF RateInv, RateType, Arrivals
    <3>2. \A c \in Reading : when[c] \in Nat /\ when[c] <= now
      BY DEF RateInv, RateType, Reading, MeterType
    <3>3. (\A p \in passed : p[2] <= now + 1) /\ \A c \in Reading : when[c] <= now + 1
      BY <2>1, <3>1, <3>2
    <3> QED
      BY <2>1, <2>2, <3>3 DEF RateInv, RateType
  <2>4. MemoryExact'
    BY <2>1 DEF RateInv, MemoryExact
  <2>5. Alone'
    <3>1. now \div Window <= (now + 1) \div Window /\ now \div Window \in Nat /\ (now + 1) \div Window \in Nat
      <4>1. now + 1 \in Nat /\ now <= now + 1
        BY <2>1
      <4> QED
        BY <2>1, <4>1, Places, ApiAssumption
    <3>2. \A s \in Slots : s > (now + 1) \div Window => s > now \div Window
      BY <3>1, Backwards
    <3> QED
      BY <2>1, <2>2, <3>2 DEF RateInv, Alone
  <2>6. SlotsHold'
    <3>1. \A s : InSlot(s)' = InSlot(s)
      BY <2>1 DEF InSlot
    <3> QED
      BY <2>1, <3>1 DEF RateInv, SlotsHold
  <2> QED
    BY <2>3, <2>4, <2>5, <2>6 DEF RateInv
<1> QED
  BY <1>1, <1>2, <1>3, <1>4, RateNextRead, RateNextMark, RateNextMemory DEF K!Next

\* A window of time lies in two slots.
LEMMA RateMeans == MeterType /\ RateInv => K!RateHolds
<1> SUFFICES ASSUME MeterType, RateInv, ~limitRaced, NEW t \in K!Seconds
             PROVE  K!Recent(t) < (IF redis THEN 2 * Rate ELSE Rate + 1)
  BY DEF K!RateHolds
<1> DEFINE T == {p \in passed : t - Window < p[2] /\ p[2] <= t}
<1>1. limitRaced = FALSE /\ (redis = TRUE \/ redis = FALSE)
  BY DEF MeterType
<1>2. t \in Nat /\ t <= MaxSecond /\ Window \in Nat \ {0} /\ Rate \in Nat \ {0}
  BY ApiAssumption DEF K!Seconds
<1>3. K!Recent(t) = Cardinality(T)
  BY SameSizeOfLimits DEF K!Recent
<1>4. IsFiniteSet(passed) /\ \A p \in passed : p[2] \in Nat
  BY DEF RateInv, RateType, Arrivals
<1>5. Cardinality(T) \in Nat
  <2>1. T \subseteq passed
    OBVIOUS
  <2> HIDE DEF T
  <2> QED
    BY <1>4, <2>1, FS_Subset, FS_CardinalityType
<1>6. CASE redis = FALSE
  <2>1. Cardinality(T) <= Rate
    BY <1>2, <1>6 DEF RateInv, MemoryExact
  <2> HIDE DEF T
  <2> QED
    BY <1>2, <1>3, <1>5, <1>6, <2>1
<1>7. CASE redis = TRUE
  <2> DEFINE s == t \div Window  Before == IF s = 0 THEN {} ELSE InSlot(s - 1)
  <2>1. s \in Slots /\ s \in Nat
    BY <1>2, SlotOf
  <2>2. T \subseteq InSlot(s) \union Before
    <3> SUFFICES ASSUME NEW p \in T PROVE p \in InSlot(s) \union Before
      OBVIOUS
    <3>1. p \in passed /\ p[2] \in Nat /\ p[2] <= t /\ t < p[2] + Window
      BY <1>2, <1>4
    <3>2. p[2] \div Window \in Nat /\ p[2] \div Window <= s /\ s <= (p[2] \div Window) + 1
      BY <1>2, <3>1, Places
    <3> HIDE DEF s
    <3>3. p[2] \div Window = s \/ (p[2] \div Window = s - 1 /\ s # 0)
      BY <2>1, <3>2
    <3> QED
      BY <3>1, <3>3 DEF InSlot
  <2> HIDE DEF T, s
  <2>3. IsFiniteSet(InSlot(s)) /\ IsFiniteSet(Before)
    <3>1. InSlot(s) \subseteq passed /\ Before \subseteq passed
      BY DEF InSlot
    <3> HIDE DEF Before
    <3> QED
      BY <1>4, <3>1, FS_Subset
  <2>4. Cardinality(InSlot(s)) + Cardinality(Before) < 2 * Rate
    <3>1. \A x \in Slots : /\ Cardinality(InSlot(x)) <= bucket[x] /\ bucket[x] <= Rate /\ bucket[x] \in Nat
                           /\ x > 0 => bucket[x - 1] + bucket[x] < 2 * Rate
      BY <1>1, <1>7 DEF RateInv, SlotsHold, MeterType, Slots
    <3>2. Cardinality(InSlot(s)) \in Nat /\ Cardinality(Before) \in Nat
      BY <2>3, FS_CardinalityType
    <3>3. CASE s = 0
      <4>1. Cardinality(Before) = 0
        BY <3>3, FS_EmptySet
      <4> QED
        BY <1>2, <2>1, <3>1, <3>2, <4>1
    <3>4. CASE s > 0
      <4>1. Before = InSlot(s - 1) /\ s - 1 \in Slots
        BY <2>1, <3>4, Backwards
      <4> QED
        BY <1>2, <2>1, <3>1, <3>2, <3>4, <4>1
    <3> QED
      BY <2>1, <3>3, <3>4
  <2>5. Cardinality(T) <= Cardinality(InSlot(s)) + Cardinality(Before)
    <3> HIDE DEF Before
    <3>1. IsFiniteSet(InSlot(s) \union Before)
          /\ Cardinality(InSlot(s) \union Before) = Cardinality(InSlot(s)) + Cardinality(Before) - Cardinality(InSlot(s) \intersect Before)
      BY <2>3, FS_Union
    <3>2. Cardinality(T) <= Cardinality(InSlot(s) \union Before)
      BY <2>2, <3>1, FS_Subset
    <3>3. Cardinality(InSlot(s)) \in Nat /\ Cardinality(Before) \in Nat /\ Cardinality(InSlot(s) \intersect Before) \in Nat
      <4>1. IsFiniteSet(InSlot(s) \intersect Before)
        BY <2>3, FS_Subset
      <4> QED
        BY <2>3, <4>1, FS_CardinalityType
    <3> QED
      BY <1>5, <3>1, <3>2, <3>3
  <2>6. Cardinality(InSlot(s)) \in Nat /\ Cardinality(Before) \in Nat
    BY <2>3, FS_CardinalityType
  <2> HIDE DEF Before
  <2> QED
    BY <1>2, <1>3, <1>5, <1>7, <2>4, <2>5, <2>6
<1> QED
  BY <1>1, <1>6, <1>7

-----------------------------------------------------------------------------
(* The month's spend, and the chain of lanes.                              *)

Walks == {"idle", "complete", "call", "answered", "text", "failed", "capped"}

DraftsType ==
    /\ chain \in Seq(STRING) /\ cap \in Nat /\ spend \in Nat /\ blind \in Nat
    /\ draftAt \in [Clients -> Walks]
    /\ lane \in [Clients -> Nat \ {0}] /\ tries \in [Clients -> Nat \ {0}]
    /\ failing \in [Clients -> SUBSET {N!Models[k] : k \in DOMAIN N!Models}]

\* The lanes before the one a request is at have failed it, and that one when it is
\* tried again; who is at none has forgotten them.
Tried(c) == {N!Models[k] : k \in 1 .. (lane[c] - 1)} \union IF tries[c] > 1 THEN {N!Models[lane[c]]} ELSE {}
Walked ==
    \A c \in Clients :
        /\ draftAt[c] = "call" => lane[c] <= Len(N!Models) /\ failing[c] = Tried(c)
        /\ draftAt[c] = "failed" => failing[c] = {N!Models[k] : k \in DOMAIN N!Models}
        /\ draftAt[c] \notin {"call", "failed"} => lane[c] = 1 /\ tries[c] = 1 /\ failing[c] = {}

\* Calls that may still cost.
Costing == {c \in Clients : draftAt[c] \in {"call", "answered"}}
Capped == cap > 0 => spend + Cost * Cardinality(Costing) <= cap - 1 + Cost * (Cardinality(Clients) + blind)

DraftsInv == DraftsType /\ Walked /\ Capped

LEMMA Timed ==
  ASSUME NEW x \in Nat, NEW y \in Nat, NEW z \in Nat
  PROVE  /\ x * y \in Nat /\ x * (y + z) = x * y + x * z
         /\ y <= z => x * y <= x * z
         /\ x * 0 = 0 /\ x * (y + 1) = x * y + x
OBVIOUS

LEMMA Lanes ==
  ASSUME chain \in Seq(STRING)
  PROVE  /\ Cardinality(N!Firsts) \in Nat
         /\ Len(N!Models) = Cardinality(N!Firsts) /\ DOMAIN N!Models = 1 .. Len(N!Models)
         /\ N!Models = <<>> <=> Len(N!Models) = 0
<1> DEFINE n == Cardinality(N!Firsts)
<1>1. n \in Nat /\ N!Cardinality(N!Firsts) = n
  <2>0. Len(chain) \in Int /\ 1 \in Int /\ DOMAIN chain = 1 .. Len(chain)
    OBVIOUS
  <2>1. IsFiniteSet(1 .. Len(chain))
    BY ONLY <2>0, FS_Interval
  <2>3. N!Firsts \subseteq 1 .. Len(chain)
    BY <2>0 DEF N!Firsts
  <2>2. IsFiniteSet(N!Firsts)
    BY <2>1, <2>3, FS_Subset
  <2> QED
    BY <2>2, FS_CardinalityType DEF N!Cardinality, Cardinality
<1>2. DOMAIN N!Models = 1 .. n /\ N!Models = [k \in 1 .. n |-> N!Models[k]]
  BY <1>1 DEF N!Models
<1> HIDE DEF n
<1>3. N!Models \in Seq({N!Models[k] : k \in 1 .. n}) /\ Len(N!Models) = n
  <2> DEFINE M == N!Models
  <2>1. DOMAIN M = 1 .. n /\ M = [k \in 1 .. n |-> M[k]]
    BY <1>2
  <2> HIDE DEF M
  <2>2. M \in Seq({M[k] : k \in 1 .. n}) /\ Len(M) = n
    BY <1>1, <2>1
  <2> QED
    BY <2>2 DEF M
<1>4. N!Models = <<>> <=> n = 0
  BY <1>1, <1>3
<1> QED
  BY <1>1, <1>2, <1>3, <1>4 DEF n

LEMMA DraftsInvInit == ApiInit => DraftsInv
<1> SUFFICES ASSUME ApiInit PROVE DraftsInv
  OBVIOUS
<1>1. DraftsType
  BY ApiAssumption DEF DraftsType, ApiInit, AtStart, N!Init, Walks
<1>2. Walked
  BY DEF Walked, ApiInit, AtStart, N!Init
<1>3. Capped
  <2>1. Costing = {} /\ spend = 0 /\ blind = 0
    BY DEF Costing, ApiInit, AtStart, N!Init
  <2>2. Cardinality(Costing) = 0 /\ Cardinality(Clients) \in Nat
    BY <2>1, FS_EmptySet, FS_CardinalityType, ApiAssumption
  <2>3. Cost * 0 = 0 /\ Cost * (Cardinality(Clients) + 0) >= 0 /\ Cost * (Cardinality(Clients) + 0) \in Int /\ cap \in Nat
    BY <2>2, <1>1, Timed, ApiAssumption DEF DraftsType
  <2> QED
    BY <2>1, <2>2, <2>3 DEF Capped
<1> QED
  BY <1>1, <1>2, <1>3 DEF DraftsInv

\* Which calls may cost, when one request moves.
LEMMA CostingCount ==
  ASSUME DraftsType
  PROVE  /\ IsFiniteSet(Costing) /\ Cardinality(Costing) \in Nat
         /\ Cardinality(Clients) \in Nat /\ Cardinality(Costing) <= Cardinality(Clients)
<1>1. Costing \subseteq Clients
  BY DEF Costing
<1> QED
  BY <1>1, ApiAssumption, FS_Subset, FS_CardinalityType

LEMMA CostingMoves ==
  ASSUME DraftsType, DraftsType', NEW c \in Clients, \A d \in Clients \ {c} : draftAt'[d] = draftAt[d]
  PROVE  /\ draftAt'[c] \in {"call", "answered"} => Cardinality(Costing') <= Cardinality(Costing) + 1
         /\ draftAt'[c] \in {"call", "answered"} /\ c \in Costing => Cardinality(Costing') = Cardinality(Costing)
         /\ draftAt'[c] \notin {"call", "answered"} => Cardinality(Costing') <= Cardinality(Costing)
         /\ draftAt'[c] \notin {"call", "answered"} /\ c \in Costing => Cardinality(Costing') = Cardinality(Costing) - 1
<1>1. IsFiniteSet(Costing) /\ Cardinality(Costing) \in Nat
  BY CostingCount
<1>2. CASE draftAt'[c] \in {"call", "answered"}
  <2>1. Costing' = Costing \union {c}
    BY <1>2 DEF Costing
  <2>2. Cardinality(Costing \union {c}) = IF c \in Costing THEN Cardinality(Costing) ELSE Cardinality(Costing) + 1
    BY <1>1, FS_AddElement
  <2> QED
    BY <2>1, <2>2, <1>1, <1>2
<1>3. CASE draftAt'[c] \notin {"call", "answered"}
  <2>1. Costing' = Costing \ {c}
    BY <1>3 DEF Costing
  <2>2. Cardinality(Costing \ {c}) = IF c \in Costing THEN Cardinality(Costing) - 1 ELSE Cardinality(Costing)
    BY <1>1, FS_RemoveElement
  <2> QED
    BY <2>1, <2>2, <1>1, <1>3
<1> QED
  BY <1>2, <1>3

\* The bound on the spend, from what a step does to its four numbers.
LEMMA CappedNext ==
  ASSUME DraftsType, DraftsType', Capped, cap' = cap,
         \/ spend' = spend /\ blind' = blind /\ Cardinality(Costing') <= Cardinality(Costing)
         \/ spend' = spend /\ blind' = blind + 1 /\ Cardinality(Costing') <= Cardinality(Costing) + 1
         \/ spend' = spend /\ blind' = blind /\ spend < cap
         \/ spend' = spend + Cost /\ blind' = blind /\ Cardinality(Costing') = Cardinality(Costing) - 1
         \/ spend' = 0 /\ blind' = 0
  PROVE  Capped'
<1> DEFINE q == Cardinality(Costing)
           r == Cardinality(Costing')
           n == Cardinality(Clients)
<1>1. q \in Nat /\ n \in Nat /\ q <= n
  BY CostingCount
<1>2. r \in Nat /\ r <= n
  <2>1. Costing' \subseteq Clients
    BY DEF Costing
  <2> QED
    BY <2>1, ApiAssumption, FS_Subset, FS_CardinalityType
<1>3. cap \in Nat /\ spend \in Nat /\ blind \in Nat /\ Cost \in Nat
  BY ApiAssumption DEF DraftsType
<1>4. cap > 0 => spend + Cost * q <= cap - 1 + Cost * (n + blind)
  BY DEF Capped
<1>5. \/ spend' = spend /\ blind' = blind /\ r <= q
      \/ spend' = spend /\ blind' = blind + 1 /\ r <= q + 1
      \/ spend' = spend /\ blind' = blind /\ spend < cap
      \/ spend' = spend + Cost /\ blind' = blind /\ r = q - 1
      \/ spend' = 0 /\ blind' = 0
  OBVIOUS
<1> HIDE DEF q, r, n
<1> DEFINE cq == Cost * q
           cr == Cost * r
           cn == Cost * n
           cb == Cost * blind
<1>6. /\ cq \in Nat /\ cr \in Nat /\ cn \in Nat /\ cb \in Nat
      /\ cr <= cn
      /\ Cost * (n + blind) = cn + cb /\ Cost * (n + 0) = cn /\ Cost * (n + (blind + 1)) = cn + cb + Cost
  <2>1. cq \in Nat /\ cr \in Nat /\ cn \in Nat /\ cb \in Nat /\ cr <= cn
    BY <1>1, <1>2, <1>3, Timed
  <2>2. Cost * (n + blind) = cn + cb /\ Cost * (n + 0) = cn + Cost * 0 /\ Cost * 0 = 0
    BY <1>1, <1>3, Timed
  <2>3. Cost * (n + (blind + 1)) = cn + Cost * (blind + 1) /\ Cost * (blind + 1) = cb + Cost
    BY <1>1, <1>3, Timed
  <2> QED
    BY <2>1, <2>2, <2>3, <1>3
<1>7. /\ r <= q => cr <= cq
      /\ r <= q + 1 => cr <= cq + Cost
      /\ r = q - 1 => cq = cr + Cost
  <2>1. r <= q => cr <= cq
    BY <1>1, <1>2, <1>3, Timed
  <2>2. r <= q + 1 => cr <= Cost * (q + 1)
    BY <1>1, <1>2, <1>3, Timed
  <2>3. Cost * (q + 1) = cq + Cost /\ Cost * (r + 1) = cr + Cost
    BY <1>1, <1>2, <1>3, Timed
  <2>4. r = q - 1 => q = r + 1
    BY <1>1, <1>2
  <2> QED
    BY <2>1, <2>2, <2>3, <2>4
<1>8. cap > 0 => spend + cq <= cap - 1 + (cn + cb)
  BY <1>4, <1>6
<1>9. cap' > 0 => spend' + Cost * r <= cap' - 1 + Cost * (n + blind')
  <2>0. SUFFICES ASSUME cap > 0 PROVE spend' + cr <= cap - 1 + Cost * (n + blind')
    OBVIOUS
  <2> HIDE DEF cq, cr, cn, cb
  <2>1. CASE spend' = spend /\ blind' = blind /\ r <= q
    BY <2>1, <2>0, <1>3, <1>6, <1>7, <1>8
  <2>2. CASE spend' = spend /\ blind' = blind + 1 /\ r <= q + 1
    BY <2>2, <2>0, <1>3, <1>6, <1>7, <1>8
  <2>3. CASE spend' = spend /\ blind' = blind /\ spend < cap
    BY <2>3, <2>0, <1>3, <1>6, <1>7, <1>8
  <2>4. CASE spend' = spend + Cost /\ blind' = blind /\ r = q - 1
    BY <2>4, <2>0, <1>3, <1>6, <1>7, <1>8
  <2>5. CASE spend' = 0 /\ blind' = 0
    BY <2>5, <2>0, <1>3, <1>6, <1>7, <1>8
  <2> QED
    BY <2>1, <2>2, <2>3, <2>4, <2>5, <1>5
<1> QED
  BY <1>9 DEF Capped, r, n

LEMMA DraftsInvNext == ASSUME DraftsInv, N!Next PROVE DraftsInv'
<1> USE DEF DraftsInv
<1> DEFINE M == N!Models
           All == {M[k] : k \in DOMAIN M}
<1>1. chain' = chain /\ cap' = cap /\ M' = M
  <2>1. chain' = chain /\ cap' = cap
    BY DEF N!Next, N!Ask, N!CheckCap, N!Answer, N!RecordUsage, N!Fails, N!NextLane, N!Use, N!NewMonth
  <2> QED
    BY <2>1 DEF N!Models, N!Firsts
<1>2. /\ Len(M) \in Nat /\ DOMAIN M = 1 .. Len(M) /\ M = <<>> <=> Len(M) = 0
      /\ Cost \in Nat /\ MAX_RETRIES \in Nat
  BY Lanes, ApiAssumption DEF DraftsType
<1> HIDE DEF M
<1>3. /\ chain \in Seq(STRING) /\ cap \in Nat /\ spend \in Nat /\ blind \in Nat
      /\ draftAt \in [Clients -> Walks]
      /\ lane \in [Clients -> Nat \ {0}] /\ tries \in [Clients -> Nat \ {0}]
      /\ failing \in [Clients -> SUBSET All]
  BY DEF DraftsType, M
<1> DEFINE TriedOf(l, t) == {M[k] : k \in 1 .. (l - 1)} \union IF t > 1 THEN {M[l]} ELSE {}
           WalkedAt(w, l, t, f) ==
             /\ w = "call" => l <= Len(M) /\ f = TriedOf(l, t)
             /\ w = "failed" => f = All
             /\ w \notin {"call", "failed"} => l = 1 /\ t = 1 /\ f = {}
           Moves(c) ==
             /\ draftAt' \in [Clients -> Walks] /\ lane' \in [Clients -> Nat \ {0}]
             /\ tries' \in [Clients -> Nat \ {0}] /\ failing' \in [Clients -> SUBSET All]
             /\ \A d \in Clients \ {c} : draftAt'[d] = draftAt[d] /\ lane'[d] = lane[d] /\ tries'[d] = tries[d] /\ failing'[d] = failing[d]
<1>4. \A c \in Clients : WalkedAt(draftAt[c], lane[c], tries[c], failing[c])
  BY DEF Walked, Tried, M
<1>5. ASSUME NEW c \in Clients, Moves(c), WalkedAt(draftAt'[c], lane'[c], tries'[c], failing'[c]),
             spend' \in Nat, blind' \in Nat
      PROVE  /\ DraftsType' /\ Walked'
             /\ \A d \in Clients \ {c} : draftAt'[d] = draftAt[d]
  <2>1. DraftsType'
    BY <1>1, <1>3, <1>5 DEF DraftsType, M
  <2>2. \A d \in Clients : WalkedAt(draftAt'[d], lane'[d], tries'[d], failing'[d])
    <3> SUFFICES ASSUME NEW d \in Clients PROVE WalkedAt(draftAt'[d], lane'[d], tries'[d], failing'[d])
      OBVIOUS
    <3>1. CASE d = c
      BY <3>1, <1>5
    <3>2. CASE d # c
      <4>1. draftAt'[d] = draftAt[d] /\ lane'[d] = lane[d] /\ tries'[d] = tries[d] /\ failing'[d] = failing[d]
        BY <3>2, <1>5
      <4> QED
        BY <4>1, <1>4
    <3> QED
      BY <3>1, <3>2
  <2>3. Walked'
    BY <2>2, <1>1 DEF Walked, Tried, M
  <2> QED
    BY <2>1, <2>3, <1>5
<1>6. ASSUME NEW c \in Clients, draftAt[c] \notin {"call", "failed"} PROVE lane[c] = 1 /\ tries[c] = 1 /\ failing[c] = {}
  BY <1>4, <1>6
<1> HIDE DEF TriedOf
<1>8. ASSUME NEW c \in Clients, N!Ask(c) \/ N!CheckCap(c) \/ N!Answer(c) \/ N!RecordUsage(c) \/ N!Fails(c) \/ N!NextLane(c) \/ N!Use(c)
      PROVE  DraftsInv'
  <2>1. CASE N!Ask(c)
    <3>1. draftAt[c] = "idle" /\ draftAt' = [draftAt EXCEPT ![c] = "complete"]
          /\ lane' = lane /\ tries' = tries /\ failing' = failing /\ spend' = spend /\ blind' = blind
      BY <2>1 DEF N!Ask, N!walk
    <3>2. Moves(c) /\ draftAt'[c] = "complete" /\ lane'[c] = 1 /\ tries'[c] = 1 /\ failing'[c] = {}
      BY <3>1, <1>3, <1>6 DEF Walks
    <3>3. DraftsType' /\ Walked' /\ \A d \in Clients \ {c} : draftAt'[d] = draftAt[d]
      BY <3>1, <3>2, <1>3, <1>5
    <3>4. Cardinality(Costing') <= Cardinality(Costing)
      BY <3>2, <3>3, CostingMoves
    <3> QED
      BY <3>1, <3>3, <3>4, <1>1, CappedNext
  <2>2. CASE N!CheckCap(c)
    <3>1. PICK read \in BOOLEAN :
             /\ read \/ cap > 0
             /\ blind' = IF read THEN blind ELSE blind + 1
             /\ draftAt' = [draftAt EXCEPT ![c] = IF cap > 0 /\ read /\ spend >= cap THEN "capped"
                                                  ELSE IF M = <<>> THEN "failed" ELSE "call"]
      BY <2>2 DEF N!CheckCap, M
    <3>2. draftAt[c] = "complete" /\ lane' = lane /\ tries' = tries /\ failing' = failing /\ spend' = spend
      BY <2>2 DEF N!CheckCap, N!walk
    <3> DEFINE w == IF cap > 0 /\ read /\ spend >= cap THEN "capped" ELSE IF M = <<>> THEN "failed" ELSE "call"
    <3>3. w \in Walks /\ (w = "call" => 1 <= Len(M)) /\ (w = "failed" => All = {}) /\ TriedOf(1, 1) = {}
      BY <1>2 DEF TriedOf, Walks
    <3>4. spend' \in Nat /\ blind' \in Nat /\ draftAt' = [draftAt EXCEPT ![c] = w]
      BY <3>1, <3>2, <1>3
    <3> HIDE DEF w
    <3>9. Moves(c) /\ draftAt'[c] = w /\ lane'[c] = 1 /\ tries'[c] = 1 /\ failing'[c] = {}
      BY <3>2, <3>3, <3>4, <1>3, <1>6
    <3>5. DraftsType' /\ Walked' /\ \A d \in Clients \ {c} : draftAt'[d] = draftAt[d]
      <4>1. WalkedAt(draftAt'[c], lane'[c], tries'[c], failing'[c])
        BY <3>3, <3>9
      <4> QED
        BY <3>4, <3>9, <4>1, <1>5
    <3>6. CASE w \in {"call", "answered"}
      <4>1. Cardinality(Costing') <= Cardinality(Costing) + 1
        BY <3>9, <3>5, <3>6, CostingMoves
      <4>2. CASE read
        <5>1. blind' = blind /\ (cap = 0 \/ spend < cap)
          BY <4>2, <3>1, <3>6, <1>3 DEF w
        <5>2. CASE cap = 0
          BY <5>2, <3>5, <1>1 DEF Capped
        <5>3. CASE spend < cap
          BY <5>3, <5>1, <3>2, <3>5, <1>1, CappedNext
        <5> QED
          BY <5>1, <5>2, <5>3
      <4>3. CASE ~read
        BY <4>1, <4>3, <3>1, <3>2, <3>5, <1>1, CappedNext
      <4> QED
        BY <4>2, <4>3
    <3>7. CASE w \notin {"call", "answered"}
      <4>1. Cardinality(Costing') <= Cardinality(Costing)
        BY <3>9, <3>5, <3>7, CostingMoves
      <4>2. Cardinality(Costing') <= Cardinality(Costing) + 1
        <5>1. Cardinality(Costing') \in Nat
          <6>1. Costing' \subseteq Clients
            BY DEF Costing
          <6> QED
            BY <6>1, ApiAssumption, FS_Subset, FS_CardinalityType
        <5> QED
          BY <5>1, <4>1, CostingCount
      <4> QED
        BY <4>1, <4>2, <3>1, <3>2, <3>5, <1>1, CappedNext
    <3> QED
      BY <3>6, <3>7
  <2>3. CASE N!Answer(c)
    <3>1. draftAt[c] = "call" /\ draftAt' = [draftAt EXCEPT ![c] = "answered"]
          /\ lane' = [lane EXCEPT ![c] = 1] /\ tries' = [tries EXCEPT ![c] = 1] /\ failing' = [failing EXCEPT ![c] = {}]
          /\ spend' = spend /\ blind' = blind
      BY <2>3 DEF N!Answer, N!Rest
    <3>2. Moves(c) /\ draftAt'[c] = "answered" /\ lane'[c] = 1 /\ tries'[c] = 1 /\ failing'[c] = {}
      BY <3>1, <1>3 DEF Walks
    <3>3. DraftsType' /\ Walked' /\ \A d \in Clients \ {c} : draftAt'[d] = draftAt[d]
      BY <3>1, <3>2, <1>3, <1>5
    <3>4. Cardinality(Costing') = Cardinality(Costing)
      <4>1. c \in Costing
        BY <3>1 DEF Costing
      <4> QED
        BY <3>2, <3>3, <4>1, CostingMoves
    <3>5. Cardinality(Costing') <= Cardinality(Costing)
      BY <3>4, CostingCount
    <3> QED
      BY <3>1, <3>3, <3>5, <1>1, CappedNext
  <2>4. CASE N!RecordUsage(c)
    <3>1. draftAt[c] = "answered" /\ draftAt' = [draftAt EXCEPT ![c] = "text"]
          /\ lane' = lane /\ tries' = tries /\ failing' = failing /\ spend' \in {spend, spend + Cost} /\ blind' = blind
      BY <2>4 DEF N!RecordUsage, N!walk
    <3>2. Moves(c) /\ draftAt'[c] = "text" /\ lane'[c] = 1 /\ tries'[c] = 1 /\ failing'[c] = {}
      BY <3>1, <1>3, <1>6 DEF Walks
    <3>3. DraftsType' /\ Walked' /\ \A d \in Clients \ {c} : draftAt'[d] = draftAt[d]
      <4>1. spend' \in Nat /\ blind' \in Nat
        BY <3>1, <1>2, <1>3
      <4> QED
        BY <3>2, <4>1, <1>5
    <3>4. Cardinality(Costing') = Cardinality(Costing) - 1
      <4>1. c \in Costing
        BY <3>1 DEF Costing
      <4> QED
        BY <3>2, <3>3, <4>1, CostingMoves
    <3>5. Cardinality(Costing') <= Cardinality(Costing)
      BY <3>4, CostingCount
    <3> QED
      BY <3>1, <3>3, <3>4, <3>5, <1>1, CappedNext
  <2>5. CASE N!Fails(c)
    <3>1. draftAt[c] = "call" /\ draftAt' = draftAt /\ lane' = lane /\ spend' = spend /\ blind' = blind
          /\ failing' = [failing EXCEPT ![c] = failing[c] \union {M[lane[c]]}]
          /\ tries' = [tries EXCEPT ![c] = tries[c] + 1]
      BY <2>5 DEF N!Fails, M
    <3>2. lane[c] \in Nat \ {0} /\ tries[c] \in Nat \ {0} /\ lane[c] <= Len(M) /\ failing[c] = TriedOf(lane[c], tries[c])
          /\ failing[c] \in SUBSET All
      BY <3>1, <1>3, <1>4
    <3>3. tries[c] + 1 \in Nat \ {0} /\ tries[c] + 1 > 1 /\ M[lane[c]] \in All
      BY <3>2, <1>2
    <3>6. failing[c] \union {M[lane[c]]} = TriedOf(lane[c], tries[c] + 1)
      BY <3>2, <3>3 DEF TriedOf
    <3>7. Moves(c) /\ draftAt'[c] = "call" /\ lane'[c] = lane[c] /\ tries'[c] = tries[c] + 1
          /\ failing'[c] = failing[c] \union {M[lane[c]]}
      BY <3>1, <3>2, <3>3, <1>3
    <3>4. DraftsType' /\ Walked'
      <4>1. WalkedAt(draftAt'[c], lane'[c], tries'[c], failing'[c])
        BY <3>2, <3>6, <3>7
      <4> QED
        BY <3>1, <3>7, <4>1, <1>3, <1>5
    <3>5. Cardinality(Costing') <= Cardinality(Costing)
      <4>1. Costing' = Costing
        BY <3>1 DEF Costing
      <4> QED
        BY <4>1, CostingCount
    <3> QED
      BY <3>1, <3>4, <3>5, <1>1, CappedNext
  <2>6. CASE N!NextLane(c)
    <3>1. draftAt[c] = "call" /\ tries[c] > N!Attempts(lane[c]) /\ failing' = failing /\ spend' = spend /\ blind' = blind
      BY <2>6 DEF N!NextLane
    <3>2. lane[c] \in Nat \ {0} /\ tries[c] \in Nat \ {0} /\ lane[c] <= Len(M) /\ failing[c] = TriedOf(lane[c], tries[c])
      BY <3>1, <1>3, <1>4
    <3>3. failing[c] = {M[k] : k \in 1 .. lane[c]}
      <4>1. tries[c] > 1
        BY <3>1, <3>2, <1>2 DEF N!Attempts
      <4>2. 1 .. lane[c] = (1 .. (lane[c] - 1)) \union {lane[c]}
        BY <3>2
      <4> QED
        BY <3>2, <4>1, <4>2 DEF TriedOf
    <3>4. CASE lane[c] < Len(M)
      <4>1. lane' = [lane EXCEPT ![c] = lane[c] + 1] /\ tries' = [tries EXCEPT ![c] = 1] /\ draftAt' = draftAt
        BY <2>6, <3>4 DEF N!NextLane, M
      <4>2. lane[c] + 1 \in Nat \ {0} /\ lane[c] + 1 <= Len(M) /\ lane[c] + 1 - 1 = lane[c]
        BY <3>2, <3>4, <1>2
      <4>3. failing[c] = TriedOf(lane[c] + 1, 1)
        <5>1. \A l \in Nat : TriedOf(l, 1) = {M[k] : k \in 1 .. (l - 1)}
          <6>1. ~(1 > 1)
            OBVIOUS
          <6> QED
            BY <6>1 DEF TriedOf
        <5>2. PICK l \in Nat : l = lane[c] + 1
          BY <4>2
        <5>3. TriedOf(l, 1) = {M[k] : k \in 1 .. (l - 1)}
          BY <5>1
        <5>4. l - 1 = lane[c]
          BY <3>2, <5>2
        <5> QED
          BY <3>3, <5>2, <5>3, <5>4
      <4>4. DraftsType' /\ Walked'
        <5>1. Moves(c) /\ draftAt'[c] = "call" /\ lane'[c] = lane[c] + 1 /\ tries'[c] = 1 /\ failing'[c] = failing[c]
          BY <3>1, <4>1, <4>2, <1>3
        <5>2. WalkedAt(draftAt'[c], lane'[c], tries'[c], failing'[c])
          BY <4>2, <4>3, <5>1
        <5> QED
          BY <3>1, <5>1, <5>2, <1>3, <1>5
      <4>5. Cardinality(Costing') <= Cardinality(Costing)
        <5>1. Costing' = Costing
          BY <4>1 DEF Costing
        <5> QED
          BY <5>1, CostingCount
      <4> QED
        BY <3>1, <4>4, <4>5, <1>1, CappedNext
    <3>5. CASE ~(lane[c] < Len(M))
      <4>1. draftAt' = [draftAt EXCEPT ![c] = "failed"] /\ lane' = lane /\ tries' = tries
        BY <2>6, <3>5 DEF N!NextLane, M
      <4>2. failing[c] = All
        <5>1. lane[c] = Len(M)
          BY <3>2, <3>5, <1>2
        <5> QED
          BY <3>3, <5>1, <1>2
      <4>5. Moves(c) /\ draftAt'[c] = "failed" /\ failing'[c] = failing[c]
        BY <3>1, <4>1, <1>3 DEF Walks
      <4>3. DraftsType' /\ Walked' /\ \A d \in Clients \ {c} : draftAt'[d] = draftAt[d]
        <5>1. WalkedAt(draftAt'[c], lane'[c], tries'[c], failing'[c])
          BY <4>2, <4>5
        <5> QED
          BY <3>1, <4>5, <5>1, <1>3, <1>5
      <4>4. Cardinality(Costing') <= Cardinality(Costing)
        BY <4>3, <4>5, CostingMoves
      <4> QED
        BY <3>1, <4>3, <4>4, <1>1, CappedNext
    <3> QED
      BY <3>4, <3>5
  <2>7. CASE N!Use(c)
    <3>1. spend' = spend /\ blind' = blind
      BY <2>7 DEF N!Use
    <3>2. PICK w \in {"idle", "complete"} : draftAt' = [draftAt EXCEPT ![c] = w]
      BY <2>7 DEF N!Use, N!Useful, N!Again, N!Degrade, N!End
    <3>3. lane' = [lane EXCEPT ![c] = 1] /\ tries' = [tries EXCEPT ![c] = 1] /\ failing' = [failing EXCEPT ![c] = {}]
      <4>1. CASE N!Useful(c)
        <5>1. draftAt[c] = "text" /\ lane' = lane /\ tries' = tries /\ failing' = failing
          BY <4>1 DEF N!Useful, N!walk
        <5> QED
          BY <5>1, <1>3, <1>6
      <4>2. CASE N!Again(c) \/ N!Degrade(c)
        BY <4>2 DEF N!Again, N!Degrade, N!Rest
      <4> QED
        BY <2>7, <4>1, <4>2 DEF N!Use
    <3>4. Moves(c) /\ draftAt'[c] \in {"idle", "complete"} /\ lane'[c] = 1 /\ tries'[c] = 1 /\ failing'[c] = {}
      BY <3>2, <3>3, <1>3 DEF Walks
    <3>5. DraftsType' /\ Walked' /\ \A d \in Clients \ {c} : draftAt'[d] = draftAt[d]
      BY <3>1, <3>4, <1>3, <1>5
    <3>6. Cardinality(Costing') <= Cardinality(Costing)
      BY <3>4, <3>5, CostingMoves
    <3> QED
      BY <3>1, <3>5, <3>6, <1>1, CappedNext
  <2> QED
    BY <1>8, <2>1, <2>2, <2>3, <2>4, <2>5, <2>6, <2>7
<1>9. CASE N!NewMonth
  <2>1. spend' = 0 /\ blind' = 0 /\ draftAt' = draftAt /\ lane' = lane /\ tries' = tries /\ failing' = failing
    BY <1>9 DEF N!NewMonth, N!walk
  <2>2. DraftsType'
    BY <2>1, <1>1, <1>3 DEF DraftsType, M
  <2>3. Walked'
    BY <2>1, <1>1 DEF Walked, Tried, M
  <2> QED
    BY <2>1, <2>2, <2>3, <1>1, CappedNext
<1> QED
  BY <1>8, <1>9 DEF N!Next

LEMMA DraftsMean == DraftsInv => N!DraftingHolds
<1> SUFFICES ASSUME DraftsInv PROVE N!DraftingHolds
  OBVIOUS
<1>1. N!FailureIsUnanimous
  BY DEF DraftsInv, Walked, N!FailureIsUnanimous
<1>2. N!SpendIsCapped
  <2>1. N!Cardinality(Clients) = Cardinality(Clients)
    BY ApiAssumption DEF N!Cardinality, Cardinality
  <2>2. Cardinality(Costing) \in Nat /\ Cost \in Nat /\ spend \in Nat
    BY CostingCount, ApiAssumption DEF DraftsInv, DraftsType
  <2>3. Cost * Cardinality(Costing) \in Nat
    BY <2>2, Timed
  <2>4. cap > 0 => spend + Cost * Cardinality(Costing) <= cap - 1 + Cost * (Cardinality(Clients) + blind)
    BY DEF DraftsInv, Capped
  <2>5. cap \in Nat /\ blind \in Nat /\ Cardinality(Clients) \in Nat /\ Cost * (Cardinality(Clients) + blind) \in Nat
    BY CostingCount, Timed, ApiAssumption DEF DraftsInv, DraftsType
  <2> DEFINE x == Cost * Cardinality(Costing)
             y == Cost * (Cardinality(Clients) + blind)
  <2>6. cap > 0 => spend <= cap - 1 + y
    <3> HIDE DEF x, y
    <3>1. x \in Nat /\ y \in Nat /\ (cap > 0 => spend + x <= cap - 1 + y)
      BY <2>3, <2>4, <2>5 DEF x, y
    <3> QED
      BY <3>1, <2>2, <2>5
  <2> QED
    BY <2>1, <2>6 DEF N!SpendIsCapped
<1> QED
  BY <1>1, <1>2 DEF N!DraftingHolds

\* Inductive: what a request knows of the counters, and what a lane's failures leave.
LimitsInv ==
    /\ part = "meter" => MeterType /\ Numbered /\ Rolled /\ RateInv
    /\ part = "drafting" => DraftsInv

\* For any callers, rate, window, quota and day: no more requests of a day are served than
\* the quota, no more in a window than twice the rate of the shared counter or the rate of
\* the process's own, and the nightly roll-up has counted every request of a day that is
\* over (ratelimit.py).  For any chain, cap and price: the month's spend passes the cap by
\* no more than the calls under way and those let through blindly, and a completion fails
\* only after every lane did (llm.py).
THEOREM ApiLimitsHold == ApiSpec => []LimitsHold
<1>1. ApiInit => LimitsInv
  BY MeterTypeInit, NumberedInit, RolledInit, RateInvInit, DraftsInvInit DEF LimitsInv, ApiInit, AtStart
<1>2. LimitsInv /\ [ApiNext]_api => LimitsInv'
  <2> SUFFICES ASSUME LimitsInv, [ApiNext]_api PROVE LimitsInv'
    OBVIOUS
  <2>1. CASE part = "meter" /\ K!Next /\ part' = part
    BY <2>1, MeterTypeNext, NumberedNext, RolledNext, RateNext DEF LimitsInv
  <2>2. CASE part = "drafting" /\ N!Next /\ part' = part
    BY <2>2, DraftsInvNext DEF LimitsInv
  <2>3. CASE part \notin {"meter", "drafting"} /\ part' = part
    BY <2>3 DEF LimitsInv
  <2>4. CASE UNCHANGED api
    <3>1. /\ UNCHANGED <<redis, now, bucket, passed, meter, memory, usage, rolled, at, number, when, served, received, limitRaced, calls>>
          /\ UNCHANGED <<chain, cap, spend, draftAt, lane, tries, failing, blind>> /\ part' = part
      BY <2>4 DEF api, limits, drafting
    <3>2. (MeterType' <=> MeterType) /\ (Rolled' <=> Rolled)
      BY <3>1 DEF MeterType, Rolled, K!Today
    <3>3. Numbered' <=> Numbered
      BY <3>1 DEF Numbered, Total, K!Counter, K!Today
    <3>4. RateInv' <=> RateInv
      <4>1. Reading' = Reading
        BY <3>1 DEF Reading
      <4>4. RateType' <=> RateType
        BY <3>1, <4>1 DEF RateType
      <4>3. MemoryExact' <=> MemoryExact
        BY <3>1 DEF MemoryExact
      <4>2. (Alone' <=> Alone) /\ (SlotsHold' <=> SlotsHold)
        BY <3>1, <4>1 DEF Alone, SlotsHold, InSlot
      <4> QED
        BY <4>2, <4>3, <4>4 DEF RateInv
    <3>5. DraftsInv' <=> DraftsInv
      <4>1. N!Models' = N!Models
        BY <3>1 DEF N!Models, N!Firsts
      <4>2. (DraftsType' <=> DraftsType) /\ (Walked' <=> Walked)
        BY <3>1, <4>1 DEF DraftsType, Walked, Tried
      <4>3. Capped' <=> Capped
        BY <3>1 DEF Capped, Costing
      <4> QED
        BY <4>2, <4>3 DEF DraftsInv
    <3> QED
      BY <3>1, <3>2, <3>3, <3>4, <3>5 DEF LimitsInv
  <2> QED
    BY <2>1, <2>2, <2>3, <2>4 DEF ApiNext
<1>3. LimitsInv => LimitsHold
  <2>1. ASSUME MeterType, Rolled PROVE K!NoDayIsLost
    <3>1. redis = TRUE \/ redis = FALSE
      BY <2>1 DEF MeterType
    <3> QED
      BY <2>1, <3>1 DEF Rolled, K!NoDayIsLost
  <2>2. ASSUME MeterType, Numbered, RateInv PROVE K!LimitsHold
    BY <2>2, QuotaMeans, RateMeans DEF K!LimitsHold
  <2> QED
    BY <2>1, <2>2, DraftsMean DEF LimitsInv, LimitsHold
<1> QED
  BY <1>1, <1>2, <1>3, PTL DEF ApiSpec

-----------------------------------------------------------------------------
(* Verdicts.                                                               *)

VerdictsType ==
    /\ assessed \subseteq J!Gate
    /\ money \in [J!Income \union J!Costs -> Amounts \union {J!None}] /\ unlisted \in BOOLEAN
    /\ statements \subseteq J!Statement
    /\ deadline \in J!Text /\ instant \in Nat

LEMMA VerdictsTypeInit == J!Init => VerdictsType
BY DEF J!Init, VerdictsType

LEMMA VerdictsTypeNext == VerdictsType /\ J!Next => VerdictsType'
<1> SUFFICES ASSUME VerdictsType, J!Next PROVE VerdictsType'
  OBVIOUS
<1>1. ASSUME NEW g \in J!Gate, NEW h \in J!Gate, J!Assess(g, h) PROVE VerdictsType'
  BY <1>1 DEF VerdictsType, J!Assess
<1>2. ASSUME NEW i \in J!Income \union J!Costs, NEW a \in Amounts, J!Learn(i, a) PROVE VerdictsType'
  BY <1>2 DEF VerdictsType, J!Learn
<1>3. ASSUME NEW s \in J!Statement, J!State(s) PROVE VerdictsType'
  BY <1>3 DEF VerdictsType, J!State
<1>4. CASE J!Itemise
  <2>1. unlisted' \in BOOLEAN /\ UNCHANGED <<assessed, money, statements, deadline, instant>>
    BY <1>4 DEF J!Itemise
  <2> QED
    BY <2>1 DEF VerdictsType
<1>5. ASSUME NEW d, J!AssessDimension(d) PROVE VerdictsType'
  BY <1>5 DEF VerdictsType, J!AssessDimension
<1>6. ASSUME NEW u, NEW s, J!Ages(u, s) PROVE VerdictsType'
  BY <1>6 DEF VerdictsType, J!Ages
<1>7. CASE J!Tick
  BY <1>7 DEF VerdictsType, J!Tick
<1> QED
  BY <1>1, <1>2, <1>3, <1>4, <1>5, <1>6, <1>7 DEF J!Next

\* Full funding takes every amount to be known, so that there is nothing left to learn.
LEMMA FundingSurvives ==
  ASSUME VerdictsType, J!FullyFunded(money, unlisted), NEW f \in [J!Income \union J!Costs -> Amounts],
         NEW x \in (IF unlisted THEN Amounts ELSE {0}), \A i \in DOMAIN f : money[i] # J!None => f[i] = money[i]
  PROVE  J!TotalIn(f) >= J!TotalOut(f) + x
<1>1. unlisted = FALSE /\ \A i \in J!Income \union J!Costs : money[i] # J!None
  <2>1. J!Complete(money, unlisted)
    BY DEF J!FullyFunded, J!Gap
  <2> QED
    BY <2>1 DEF J!Complete, VerdictsType
<1>2. \A i \in J!Income \union J!Costs : f[i] = money[i]
  BY <1>1
<1>3. {"award", "waiver", "tuition", "living"} \subseteq J!Income \union J!Costs
  BY DEF J!Income, J!Costs
<1>4. \A i \in J!Income \union J!Costs : money[i] \in Int
  BY <1>1, ApiAssumption DEF VerdictsType
<1>5. J!TotalIn(f) = J!TotalIn(money) /\ J!TotalOut(f) = J!TotalOut(money)
  BY <1>2, <1>3 DEF J!TotalIn, J!TotalOut
<1>6. J!TotalIn(money) \in Int /\ J!TotalOut(money) \in Int
  BY <1>1, <1>3, <1>4 DEF J!TotalIn, J!TotalOut, J!Known
<1>7. J!Gap(money, unlisted) = J!TotalIn(money) - J!TotalOut(money) /\ J!Gap(money, unlisted) >= 0
  BY DEF J!FullyFunded, J!Gap
<1> QED
  BY <1>1, <1>5, <1>6, <1>7

\* A case to act on has no open gate, so that no answer can close it.
LEMMA SuggestionSurvives ==
  ASSUME VerdictsType, J!Suggest(assessed, dimensions, urgent, stale) = "ACT",
         NEW a \in [J!Unknowns(assessed) -> {"PASS", "FAIL"}]
  PROVE  J!Actionable(J!Answered(assessed, a)) /\ J!FormallyOpen(J!Answered(assessed, a))
<1>1. J!Blockers(assessed) = {} /\ J!Unknowns(assessed) = {}
  BY DEF J!Suggest
<1>2. J!Answered(assessed, a) = assessed
  BY <1>1 DEF J!Answered
<1>3. J!FormallyOpen(assessed)
  BY <1>1 DEF J!FormallyOpen, J!Blockers, J!Unknowns
<1> QED
  BY <1>1, <1>2, <1>3 DEF J!Actionable

LEMMA PassedMeans == \A left, days \in Int : J!Label(left, days) = "PASSED" <=> left < 0
BY DEF J!Label

LEMMA VerdictsMean == VerdictsType => J!VerdictsHold
<1> SUFFICES ASSUME VerdictsType PROVE J!VerdictsHold
  OBVIOUS
<1>1. J!VerdictsSurviveAnswers
  BY FundingSurvives, SuggestionSurvives DEF J!VerdictsSurviveAnswers
<1>2. J!PassedIsPast
  <2> SUFFICES ASSUME NEW tz \in {-4, 0, 4}
               PROVE  LET d == J!Parse(deadline, tz)  day == J!Parse(deadline, J!None)
                      IN  /\ deadline.clock # J!None /\ (deadline.zone = "named" \/ (deadline.zone = "offset" /\ deadline.shift % 2 = 0))
                                /\ J!Urgency(d, instant, tz) # "TypeError"
                             => (J!Urgency(d, instant, tz) = "PASSED" <=> instant + deadline.shift > deadline.date * DayLength + deadline.clock)
                          /\ day.precision = "DATE_ONLY"
                             => (J!Urgency(day, instant, tz) = "PASSED" <=> instant + tz >= (deadline.date + 1) * DayLength)
    BY DEF J!PassedIsPast
  <2> DEFINE d == J!Parse(deadline, tz)  day == J!Parse(deadline, J!None)
  <2>0. DayLength \in Nat \ {0} /\ instant \in Nat /\ tz \in Int /\ tz # J!None
    BY ApiAssumption DEF VerdictsType, J!None
  <2>1. ASSUME deadline.clock # J!None, deadline.zone = "named" \/ (deadline.zone = "offset" /\ deadline.shift % 2 = 0),
               J!Urgency(d, instant, tz) # "TypeError"
        PROVE  J!Urgency(d, instant, tz) = "PASSED" <=> instant + deadline.shift > deadline.date * DayLength + deadline.clock
    <3>1. deadline.date \in 1 .. 2 /\ deadline.clock = 3 /\ deadline.shift \in {-4, 0, 3, 4}
      BY <2>1 DEF VerdictsType, J!Text, J!None
    <3> DEFINE moment == J!Instant(deadline, deadline.shift)
    <3>2. d.precision \in {"LOCAL_TIME", "OFFSET_AWARE"} /\ d.at = moment
      <4>1. deadline.date # J!None
        BY <3>1 DEF J!None
      <4>2. CASE deadline.zone = "named"
        BY <2>1, <4>1, <4>2 DEF J!Parse
      <4>3. CASE deadline.zone = "offset" /\ deadline.shift % 2 = 0
        <5>1. J!WholeHours(deadline.shift) = deadline.shift
          BY <3>1, <4>3 DEF J!WholeHours
        <5> QED
          BY <2>1, <4>1, <4>3, <5>1 DEF J!Parse
      <4> QED
        BY <2>1, <4>2, <4>3
    <3>3. moment \in Int /\ moment = deadline.date * DayLength + deadline.clock - deadline.shift
      BY <2>0, <3>1 DEF J!Instant
    <3>4. J!Urgency(d, instant, tz) = J!Label(moment - instant, (moment - instant) \div DayLength)
      BY <2>1, <3>2 DEF J!Urgency
    <3> HIDE DEF moment, d
    <3>5. J!Label(moment - instant, (moment - instant) \div DayLength) = "PASSED" <=> moment - instant < 0
      BY <2>0, <3>3, PassedMeans, QuotientFloor
    <3> QED
      BY <2>0, <3>1, <3>3, <3>4, <3>5
  <2>2. ASSUME day.precision = "DATE_ONLY"
        PROVE  J!Urgency(day, instant, tz) = "PASSED" <=> instant + tz >= (deadline.date + 1) * DayLength
    <3> DEFINE q == (instant + tz) \div DayLength
    <3>1. deadline.date \in 1 .. 2 /\ day = [precision |-> "DATE_ONLY", date |-> deadline.date]
      BY <2>2 DEF VerdictsType, J!Text, J!None, J!Parse
    <3>2. J!Urgency(day, instant, tz) = J!Label(deadline.date - q, deadline.date - q)
      BY <2>0, <3>1 DEF J!Urgency
    <3>3. q \in Int /\ (deadline.date + 1 <= q <=> (deadline.date + 1) * DayLength <= instant + tz)
      <4> PICK local : local = instant + tz
        OBVIOUS
      <4> PICK next : next = deadline.date + 1
        OBVIOUS
      <4>1. local \in Int /\ next \in Int /\ DayLength \in Nat \ {0}
        BY <2>0, <3>1
      <4>2. local \div DayLength \in Int
        BY <4>1, QuotientFloor
      <4>3. next <= local \div DayLength <=> next * DayLength <= local
        BY <4>1, QuotientOrder
      <4>4. q = local \div DayLength
        OBVIOUS
      <4> HIDE DEF q
      <4> QED
        BY <4>2, <4>3, <4>4
    <3> HIDE DEF q, day
    <3>5. J!Label(deadline.date - q, deadline.date - q) = "PASSED" <=> deadline.date - q < 0
      BY <3>1, <3>3, PassedMeans
    <3>6. (deadline.date + 1) * DayLength \in Int
      BY <2>0, <3>1
    <3> QED
      BY <2>0, <3>1, <3>2, <3>3, <3>5, <3>6
  <2> QED
    BY <2>1, <2>2
<1> QED
  BY <1>1, <1>2 DEF J!VerdictsHold

\* For any amounts, gates, days and texts: what is fully funded stays so whatever the
\* unknown amounts are, what one may act on stays actionable whatever the answers are, and
\* a deadline has passed when its instant has (funding.py, gates.py, deadlines.py).
THEOREM ApiVerdictsHold == ApiSpec => []VerdictsHold
<1> DEFINE Inv == part = "verdicts" => VerdictsType
<1>1. ApiInit => Inv
  BY VerdictsTypeInit DEF ApiInit, AtStart
<1>2. Inv /\ [ApiNext]_api => Inv'
  <2> SUFFICES ASSUME Inv, [ApiNext]_api PROVE Inv'
    OBVIOUS
  <2>1. CASE part = "verdicts" /\ J!Next /\ part' = part
    BY <2>1, VerdictsTypeNext
  <2>2. CASE part # "verdicts" /\ part' = part
    BY <2>2
  <2>3. CASE UNCHANGED api
    BY <2>3 DEF api, verdicts, VerdictsType
  <2> QED
    BY <2>1, <2>2, <2>3 DEF ApiNext
<1>3. Inv => VerdictsHold
  BY VerdictsMean DEF VerdictsHold
<1> QED
  BY <1>1, <1>2, <1>3, PTL DEF ApiSpec

LEMMA SameSizeOfVerdicts == \A S : J!Cardinality(S) = Cardinality(S)
BY DEF J!Cardinality, Cardinality

Spoken(S) == {s.value : s \in S}

LEMMA TopGrows ==
  ASSUME NEW S \in SUBSET J!Statement, NEW s \in J!Statement,
         ~ \A t \in S : s.authority < t.authority
  PROVE  J!TopValues(S) \subseteq J!TopValues(S \union {s})
<1> SUFFICES ASSUME NEW h \in J!Highest(S) PROVE h \in J!Highest(S \union {s})
  BY DEF J!TopValues
<1>1. \A t \in S \union {s} : t.authority \in Int
  BY ApiAssumption DEF J!Statement
<1>2. h \in S /\ \A t \in S : h.authority <= t.authority
  BY DEF J!Highest
<1>3. h.authority <= s.authority
  BY <1>1, <1>2
<1> QED
  BY <1>2, <1>3 DEF J!Highest

\* For any authorities and values: a contradiction ends with a statement of a higher
\* authority than every one before, and in no other way (authority_logic.py).
THEOREM ApiContradictionStays == ApiSpec => ContradictionStays
<1> DEFINE Inv == statements \subseteq J!Statement /\ IsFiniteSet(Spoken(statements))
<1>1. ApiInit => Inv
  <2> SUFFICES ASSUME ApiInit PROVE Inv
    OBVIOUS
  <2>1. statements = {} /\ Spoken(statements) = {}
    BY DEF ApiInit, AtStart, J!Init, Spoken
  <2> QED
    BY <2>1, FS_EmptySet
<1>2. [ApiNext]_api => UNCHANGED statements \/ \E s \in J!Statement : statements' = statements \union {s}
  <2> SUFFICES ASSUME [ApiNext]_api PROVE UNCHANGED statements \/ \E s \in J!Statement : statements' = statements \union {s}
    OBVIOUS
  <2>1. CASE J!Next
    BY <2>1 DEF J!Next, J!Assess, J!AssessDimension, J!Ages, J!Learn, J!Itemise, J!State, J!Tick
  <2>2. CASE UNCHANGED verdicts
    BY <2>2 DEF verdicts
  <2> QED
    BY <2>1, <2>2 DEF ApiNext, api
<1>3. Inv /\ [ApiNext]_api => Inv'
  <2> SUFFICES ASSUME Inv, [ApiNext]_api PROVE Inv'
    OBVIOUS
  <2>1. CASE UNCHANGED statements
    BY <2>1
  <2>2. ASSUME NEW s \in J!Statement, statements' = statements \union {s} PROVE Inv'
    <3>1. Spoken(statements') = Spoken(statements) \union {s.value}
      BY <2>2 DEF Spoken
    <3>2. IsFiniteSet(Spoken(statements'))
      BY <3>1, FS_AddElement
    <3> QED
      BY <2>2, <3>2 DEF Spoken
  <2> QED
    BY <1>2, <2>1, <2>2
<1>4. Inv /\ [ApiNext]_api =>
        [J!Contradicted(statements) => J!Contradicted(statements')
                                       \/ \E s \in statements' : \A t \in statements : s.authority < t.authority]_(J!vars)
  <2> SUFFICES ASSUME Inv, Inv', J!Contradicted(statements), [ApiNext]_api
               PROVE  J!Contradicted(statements') \/ \E s \in statements' : \A t \in statements : s.authority < t.authority
    BY <1>3
  <2>1. CASE UNCHANGED statements
    BY <2>1
  <2>2. ASSUME NEW s \in J!Statement, statements' = statements \union {s}, ~ \A t \in statements : s.authority < t.authority
        PROVE  J!Contradicted(statements')
    <3>1. J!TopValues(statements) \subseteq J!TopValues(statements')
      BY <2>2, TopGrows
    <3>2. J!TopValues(statements') \subseteq Spoken(statements')
      BY DEF J!TopValues, J!Highest, Spoken
    <3>3. IsFiniteSet(J!TopValues(statements'))
      BY <3>2, FS_Subset DEF Spoken
    <3>4. IsFiniteSet(J!TopValues(statements)) /\ Cardinality(J!TopValues(statements)) <= Cardinality(J!TopValues(statements'))
      BY <3>1, <3>3, FS_Subset
    <3>5. Cardinality(J!TopValues(statements)) \in Nat /\ Cardinality(J!TopValues(statements')) \in Nat
      BY <3>3, <3>4, FS_CardinalityType
    <3> QED
      BY <3>4, <3>5, SameSizeOfVerdicts DEF J!Contradicted
  <2> QED
    BY <1>2, <2>1, <2>2
<1> QED
  BY <1>1, <1>3, <1>4, PTL DEF ApiSpec, ContradictionStays, J!ContradictionStays
=============================================================================
