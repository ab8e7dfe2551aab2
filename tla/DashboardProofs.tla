--------------------------- MODULE DashboardProofs ---------------------------
(* Theorems about the pages of the dashboard, for any bounds and any names,   *)
(* texts, files and attendees; and their composition in one tab.              *)
EXTENDS DashboardPages, EventPagesProofs, SequenceTheorems

----------------------------------------------------------------------------
(***************************************************************************)
(* EventWizard                                                             *)
(***************************************************************************)
LEMMA WizardBoundsAreNat ==
    /\ MaxDays \in Nat /\ MaxDays > 0 /\ MaxTickets \in Nat /\ MaxEntries \in Nat
    /\ MaxCreates \in Nat /\ MaxWizLosses \in Nat
  BY WizardBounds

\* Every step behind the one on screen has nothing against its fields.
Reviewed == \A k \in 0 .. 2 : step > k => Valid(k)

DraftInv ==
    /\ step \in 0 .. LastStep
    /\ details \in Quality /\ days \in Seq(BOOLEAN) /\ tickets \in Seq(Quality)
    /\ Len(days) \in 1 .. MaxDays /\ Len(tickets) <= MaxTickets
    /\ wizError \in BOOLEAN
    /\ Reviewed

IsCreate(c) ==
    /\ c = [no |-> c.no, details |-> c.details, dates |-> c.dates, tickets |-> c.tickets, at |-> c.at]
    /\ c.no \in 1 .. wizClicks /\ c.at \in {"sent", "refused", "made"}
    /\ c.details # "bad" /\ c.dates > 0
    /\ \A i \in DOMAIN c.tickets : c.tickets[i] # "bad"

\* The page waits for the answer of an event that may be made, or has left.
Settling == submitting /\ \A c \in creates : c.at = "made"

CreatesInv ==
    /\ submitting \in BOOLEAN /\ gone \in BOOLEAN
    /\ wizClicks \in 0 .. MaxCreates /\ wizLosses \in Nat
    /\ created \subseteq 1 .. wizClicks
    /\ creates = {} \/ (submitting /\ \E c : creates = {c} /\ IsCreate(c))
    /\ Cardinality(created) <= wizLosses + (IF Settling THEN 1 ELSE 0)

WizInv == DraftInv /\ CreatesInv

LEMMA CreatedIsFinite ==
    ASSUME CreatesInv
    PROVE  IsFiniteSet(created) /\ Cardinality(created) \in Nat
<1>1. IsFiniteSet(1 .. wizClicks)
  BY FS_Interval DEF CreatesInv
<1> QED
  BY <1>1, FS_Subset, FS_CardinalityType DEF CreatesInv

LEMMA WizInvIsEnough ==
    WizInv => WizTypeOK /\ SentIsReviewed /\ OneEventEach
<1> SUFFICES ASSUME WizInv PROVE WizTypeOK /\ SentIsReviewed /\ OneEventEach
  OBVIOUS
<1>1. created \subseteq 1 .. MaxCreates
  BY WizardBoundsAreNat DEF WizInv, CreatesInv
<1>2. Cardinality(creates) <= 1
  <2>1. creates = {} \/ \E c : creates = {c}
    BY Zenon DEF WizInv, CreatesInv
  <2>2. creates = {} => Cardinality(creates) = 0
    BY FS_EmptySet
  <2>3. ASSUME NEW c, creates = {c} PROVE Cardinality(creates) = 1
    BY <2>3, FS_Singleton
  <2> QED
    BY <2>1, <2>2, <2>3
<1>3. {wizError, submitting, gone} \subseteq BOOLEAN
  BY Zenon DEF WizInv, DraftInv, CreatesInv
<1>4. WizTypeOK
  BY <1>1, <1>2, <1>3 DEF WizInv, DraftInv, WizTypeOK
<1>5. SentIsReviewed
  BY DEF WizInv, CreatesInv, IsCreate, SentIsReviewed
<1>6. OneEventEach
  BY CreatedIsFinite DEF WizInv, CreatesInv, OneEventEach
<1> QED
  BY <1>4, <1>5, <1>6

LEMMA WithoutOne ==
    ASSUME NEW S, NEW s \in Seq(S), NEW i \in DOMAIN s
    PROVE  Without(s, i) \in Seq(S) /\ Len(Without(s, i)) = Len(s) - 1
<1>1. Len(s) \in Nat /\ i \in 1 .. Len(s) /\ \A j \in 1 .. Len(s) : s[j] \in S
  BY LenProperties, ElementOfSeq
<1>2. SubSeq(s, 1, i - 1) \in Seq(S) /\ Len(SubSeq(s, 1, i - 1)) = i - 1
  BY <1>1, SubSeqProperties
<1>3. SubSeq(s, i + 1, Len(s)) \in Seq(S) /\ Len(SubSeq(s, i + 1, Len(s))) = Len(s) - i
  BY <1>1, SubSeqProperties
<1> PICK u, v, w : u = SubSeq(s, 1, i - 1) /\ v = SubSeq(s, i + 1, Len(s)) /\ w = u \o v
  OBVIOUS
<1>4. w \in Seq(S) /\ Len(w) = Len(u) + Len(v)
  BY <1>2, <1>3, ConcatProperties
<1>5. Without(s, i) = w
  BY DEF Without
<1>6. Len(u) = i - 1 /\ Len(v) = Len(s) - i /\ i \in Int /\ Len(s) \in Int
  BY <1>1, <1>2, <1>3
<1>7. Len(w) = Len(s) - 1
  <2>1. PICK a, b, n : a = Len(u) /\ b = Len(v) /\ n = Len(s)
    OBVIOUS
  <2>2. a = i - 1 /\ b = n - i /\ i \in Int /\ n \in Int /\ Len(w) = a + b
    BY <1>4, <1>6, <2>1
  <2>3. a + b = n - 1
    BY <2>2
  <2> QED
    BY <2>1, <2>2, <2>3
<1> QED
  BY <1>4, <1>5, <1>7

LEMMA CreatesQuiet ==
    ASSUME CreatesInv, UNCHANGED <<submitting, creates, created, gone, wizClicks, wizLosses>>
    PROVE  CreatesInv'
  BY DEF CreatesInv, IsCreate, Settling

LEMMA EditsKeep ==
    ASSUME WizInv, (\E q \in Quality : EditDetails(q)) \/ EditDays \/ EditTickets
    PROVE  WizInv'
<1>1. UNCHANGED <<step, wizError, submitting, creates, created, gone, wizClicks, wizLosses>>
  BY DEF EditDetails, EditDays, EditTickets, Enter
<1>2. CASE \E q \in Quality : EditDetails(q)
  <2>1. step = 0 /\ details' \in Quality /\ UNCHANGED <<days, tickets>>
    BY <1>2 DEF EditDetails, Enter
  <2> QED
    BY <1>1, <2>1, CreatesQuiet DEF WizInv, DraftInv, Reviewed, LastStep
<1>3. CASE EditDays
  <2>1. step = 1 /\ UNCHANGED <<details, tickets>>
    BY <1>3 DEF EditDays, Enter
  <2>2. days' \in Seq(BOOLEAN) /\ Len(days') \in 1 .. MaxDays
    <3>1. days \in Seq(BOOLEAN) /\ Len(days) \in 1 .. MaxDays /\ DOMAIN days = 1 .. Len(days) /\ MaxDays \in Nat
      BY WizardBoundsAreNat DEF WizInv, DraftInv
    <3>2. CASE Len(days) < MaxDays /\ days' = Append(days, FALSE)
      BY <3>1, <3>2
    <3>3. ASSUME NEW i \in DOMAIN days, days' = [days EXCEPT ![i] = ~@]
          PROVE  days' \in Seq(BOOLEAN) /\ Len(days') \in 1 .. MaxDays
      <4>1. PICK b \in BOOLEAN : b = ~days[i]
        BY Zenon
      <4>2. days' = [days EXCEPT ![i] = b]
        BY <3>3, <4>1
      <4> QED
        BY <3>1, <4>2, ExceptSeq
    <3>4. ASSUME Len(days) > 1, NEW i \in DOMAIN days, days' = Without(days, i)
          PROVE  days' \in Seq(BOOLEAN) /\ Len(days') \in 1 .. MaxDays
      BY <3>1, <3>4, WithoutOne
    <3> QED
      BY <1>3, <3>2, <3>3, <3>4 DEF EditDays
  <2>3. Reviewed'
    BY <1>1, <2>1 DEF WizInv, DraftInv, Reviewed, Valid
  <2> QED
    BY <1>1, <2>1, <2>2, <2>3, CreatesQuiet DEF WizInv, DraftInv
<1>4. CASE EditTickets
  <2>1. step = 2 /\ UNCHANGED <<details, days>>
    BY <1>4 DEF EditTickets, Enter
  <2>2. tickets' \in Seq(Quality) /\ Len(tickets') <= MaxTickets
    <3>1. /\ tickets \in Seq(Quality) /\ Len(tickets) <= MaxTickets /\ DOMAIN tickets = 1 .. Len(tickets)
          /\ Len(tickets) \in Nat /\ MaxTickets \in Nat /\ "bad" \in Quality
      BY WizardBoundsAreNat DEF WizInv, DraftInv, Quality
    <3>2. CASE Len(tickets) < MaxTickets /\ tickets' = Append(tickets, "bad")
      BY <3>1, <3>2
    <3>3. ASSUME NEW i \in DOMAIN tickets, NEW q \in Quality, tickets' = [tickets EXCEPT ![i] = q]
          PROVE  tickets' \in Seq(Quality) /\ Len(tickets') <= MaxTickets
      BY <3>1, <3>3, ExceptSeq
    <3>4. ASSUME NEW i \in DOMAIN tickets, tickets' = Without(tickets, i)
          PROVE  tickets' \in Seq(Quality) /\ Len(tickets') <= MaxTickets
      BY <3>1, <3>4, WithoutOne
    <3> QED
      BY <1>4, <3>2, <3>3, <3>4 DEF EditTickets
  <2>3. Reviewed'
    BY <1>1, <2>1 DEF WizInv, DraftInv, Reviewed, Valid, FilledDays
  <2> QED
    BY <1>1, <2>1, <2>2, <2>3, CreatesQuiet DEF WizInv, DraftInv
<1> QED
  BY <1>2, <1>3, <1>4

LEMMA StepsKeep == WizInv /\ (GoNext \/ GoBack) => WizInv'
<1> SUFFICES ASSUME WizInv, GoNext \/ GoBack PROVE WizInv'
  OBVIOUS
<1>1. UNCHANGED <<draft, submitting, creates, created, gone, wizClicks, wizLosses>>
  BY DEF GoNext, GoBack, Kept
<1>2. CreatesInv'
  BY <1>1, CreatesQuiet DEF WizInv
<1>3. \A k : Valid(k)' <=> Valid(k)
  BY <1>1 DEF Valid, FilledDays, draft
<1>4. step' \in 0 .. LastStep /\ Reviewed'
  <2>1. CASE GoNext /\ Valid(step)
    BY <1>3, <2>1 DEF GoNext, WizInv, DraftInv, Reviewed, LastStep
  <2>2. CASE GoNext /\ ~Valid(step)
    BY <1>3, <2>2 DEF GoNext, WizInv, DraftInv, Reviewed
  <2>3. CASE GoBack
    BY <1>3, <2>3 DEF GoBack, WizInv, DraftInv, Reviewed, LastStep
  <2> QED
    BY <2>1, <2>2, <2>3
<1>5. wizError' \in BOOLEAN
  BY Zenon DEF GoNext, GoBack
<1> QED
  BY <1>1, <1>2, <1>4, <1>5 DEF WizInv, DraftInv, draft

LEMMA CreateKeeps == WizInv /\ Create => WizInv'
<1> SUFFICES ASSUME WizInv, Create PROVE WizInv'
  OBVIOUS
<1>1. PICK c : c = [no |-> wizClicks + 1, details |-> details, dates |-> Cardinality(FilledDays),
                    tickets |-> tickets, at |-> "sent"]
  OBVIOUS
<1>2. /\ step = LastStep /\ ~submitting /\ wizClicks < MaxCreates /\ wizClicks' = wizClicks + 1
      /\ wizError' = FALSE /\ submitting' = TRUE /\ creates' = creates \union {c}
      /\ UNCHANGED <<step, draft, created, gone, wizLosses>>
  BY <1>1 DEF Create, Kept
<1>3. DraftInv'
  BY <1>2 DEF WizInv, DraftInv, Reviewed, Valid, FilledDays, draft
<1>4. wizClicks' \in 0 .. MaxCreates /\ created' \subseteq 1 .. wizClicks'
  BY <1>2, WizardBoundsAreNat DEF WizInv, CreatesInv
<1>5. Valid(0) /\ Valid(1) /\ Valid(2)
  BY <1>2 DEF WizInv, DraftInv, Reviewed, LastStep
<1>6. IsCreate(c)'
  <2>1. IsFiniteSet(FilledDays)
    <3>1. FilledDays \subseteq 1 .. Len(days) /\ Len(days) \in Nat
      BY DEF FilledDays, WizInv, DraftInv
    <3>2. IsFiniteSet(1 .. Len(days))
      BY <3>1, FS_Interval
    <3> QED
      BY <3>1, <3>2, FS_Subset
  <2>2. Cardinality(FilledDays) > 0
    BY <1>5, <2>1, FS_EmptySet, FS_CardinalityType DEF Valid
  <2> QED
    BY <1>1, <1>2, <1>4, <1>5, <2>2 DEF IsCreate, Valid, WizInv, CreatesInv
<1>7. creates' = {c} /\ ~Settling' /\ Cardinality(created) <= wizLosses
  BY <1>1, <1>2 DEF WizInv, CreatesInv, Settling
<1> QED
  BY <1>2, <1>3, <1>4, <1>6, <1>7 DEF WizInv, CreatesInv

\* The call under way moves on; an event is made only when it is served.
LEMMA CreateMoves ==
    ASSUME WizInv, NEW c \in creates, NEW at \in {"refused", "made"},
           creates' = (creates \ {c}) \union {[c EXCEPT !.at = at]},
           UNCHANGED <<step, draft, wizError, submitting, gone, wizClicks>>,
           \/ c.at = "sent" /\ at = "made" /\ created' = created \union {c.no} /\ wizLosses' = wizLosses
           \/ c.at = "sent" /\ at = "refused" /\ UNCHANGED <<created, wizLosses>>
           \/ at = "refused" /\ created' = created /\ wizLosses' = wizLosses + 1
    PROVE  WizInv'
<1>1. submitting /\ creates = {c} /\ IsCreate(c)
  BY DEF WizInv, CreatesInv
<1>2. PICK d : d = [no |-> c.no, details |-> c.details, dates |-> c.dates, tickets |-> c.tickets, at |-> at]
  OBVIOUS
<1>3. creates' = {d}
  BY <1>1, <1>2 DEF IsCreate
<1>4. IsCreate(d)'
  BY <1>1, <1>2 DEF IsCreate
<1>5. DraftInv'
  BY DEF WizInv, DraftInv, Reviewed, Valid, FilledDays, draft
<1>6. Settling' <=> at = "made"
  BY <1>1, <1>2, <1>3 DEF Settling
<1>7. Settling <=> c.at = "made"
  BY <1>1 DEF Settling
<1>8. /\ Cardinality(created \union {c.no}) \in {Cardinality(created), Cardinality(created) + 1}
      /\ Cardinality(created) \in Nat /\ wizLosses \in Nat
  <2>1. IsFiniteSet(created)
    BY CreatedIsFinite DEF WizInv
  <2>2. Cardinality(created \union {c.no}) \in {Cardinality(created), Cardinality(created) + 1}
    BY <2>1, FS_AddElement
  <2> QED
    BY <2>2, CreatedIsFinite DEF WizInv, CreatesInv
<1>9. wizLosses' \in Nat /\ Cardinality(created') <= wizLosses' + (IF Settling' THEN 1 ELSE 0)
  <2>1. Cardinality(created) <= wizLosses + (IF c.at = "made" THEN 1 ELSE 0)
    BY <1>7 DEF WizInv, CreatesInv
  <2>2. CASE at = "made"
    <3>1. PICK more : more = created \union {c.no}
      OBVIOUS
    <3>2. created' = more /\ c.at = "sent" /\ wizLosses' = wizLosses
      BY <2>2, <3>1
    <3>3. Cardinality(more) <= Cardinality(created) + 1 /\ Cardinality(more) \in Nat
      BY <1>8, <3>1
    <3> QED
      BY <1>6, <1>8, <2>1, <2>2, <3>2, <3>3
  <2>3. CASE at = "refused"
    <3>1. created' = created
      BY <2>3
    <3> QED
      BY <1>6, <1>8, <2>1, <2>3, <3>1
  <2> QED
    BY <2>2, <2>3
<1>10. created' \subseteq 1 .. wizClicks
  BY <1>1 DEF WizInv, CreatesInv, IsCreate
<1> QED
  BY <1>1, <1>3, <1>4, <1>5, <1>9, <1>10 DEF WizInv, CreatesInv

LEMMA AnswersKeep ==
    ASSUME WizInv, NEW c \in creates,
           ServeCreate(c) \/ LoseCreate(c) \/ CreateAnswered(c) \/ CreateFails(c)
    PROVE  WizInv'
<1>1. CASE ServeCreate(c)
  BY <1>1, CreateMoves DEF ServeCreate, Kept
<1>2. CASE LoseCreate(c)
  BY <1>2, CreateMoves DEF LoseCreate, Kept
<1>3. submitting /\ creates = {c}
  BY DEF WizInv, CreatesInv
<1>4. CASE CreateAnswered(c)
  <2>1. /\ c.at = "made" /\ creates' = {} /\ gone' = TRUE
        /\ UNCHANGED <<step, draft, wizError, submitting, created, wizClicks, wizLosses>>
    BY <1>3, <1>4 DEF CreateAnswered, Kept
  <2>2. Settling /\ Settling'
    BY <1>3, <2>1 DEF Settling
  <2> QED
    BY <2>1, <2>2 DEF WizInv, DraftInv, CreatesInv, Reviewed, Valid, FilledDays, draft
<1>5. CASE CreateFails(c)
  <2>1. /\ c.at = "refused" /\ creates' = {} /\ wizError' = TRUE /\ submitting' = FALSE
        /\ UNCHANGED <<step, draft, created, gone, wizClicks, wizLosses>>
    BY <1>3, <1>5 DEF CreateFails, Kept
  <2>2. ~Settling /\ ~Settling'
    BY <1>3, <2>1 DEF Settling
  <2> QED
    BY <2>1, <2>2 DEF WizInv, DraftInv, CreatesInv, Reviewed, Valid, FilledDays, draft
<1> QED
  BY <1>1, <1>2, <1>4, <1>5

LEMMA WizInitInv == WizInit => WizInv
<1> SUFFICES ASSUME WizInit PROVE WizInv
  OBVIOUS
<1>1. DraftInv
  <2>1. days = <<FALSE>> /\ tickets = <<>> /\ step = 0 /\ details = "bad"
    BY DEF WizInit
  <2>2. days \in Seq(BOOLEAN) /\ Len(days) = 1 /\ tickets \in Seq(Quality) /\ Len(tickets) = 0
    BY <2>1
  <2>3. wizError \in BOOLEAN
    BY Zenon DEF WizInit
  <2> QED
    BY <2>1, <2>2, <2>3, WizardBoundsAreNat DEF DraftInv, Reviewed, LastStep, Quality
<1>2. CreatesInv
  <2>1. submitting \in BOOLEAN /\ gone \in BOOLEAN
    BY Zenon DEF WizInit
  <2>2. creates = {} /\ created = {} /\ wizClicks = 0 /\ wizLosses = 0 /\ ~submitting
    BY DEF WizInit
  <2> QED
    BY <2>1, <2>2, FS_EmptySet, WizardBoundsAreNat DEF CreatesInv, Settling
<1> QED
  BY <1>1, <1>2 DEF WizInv

LEMMA WizNextKeeps == WizInv /\ [WizNext]_wizVars => WizInv'
<1> SUFFICES ASSUME WizInv, [WizNext]_wizVars PROVE WizInv'
  OBVIOUS
<1>1. CASE UNCHANGED wizVars
  BY <1>1, CreatesQuiet DEF wizVars, draft, WizInv, DraftInv, Reviewed, Valid, FilledDays
<1> QED
  BY <1>1, EditsKeep, StepsKeep, CreateKeeps, AnswersKeep DEF WizNext

----------------------------------------------------------------------------
(***************************************************************************)
(* TenantPage                                                              *)
(***************************************************************************)

\* No profile is newer than the row, and the newest is the row.
Fresh(p) == p.read <= orgWrites /\ (p.read = orgWrites => p.row = tenant)

SectionsInv ==
    /\ profile # Nil => profile \in Profiles /\ Fresh(profile)
    /\ profileError \in BOOLEAN
    /\ form \in [subdomain : Names \union {Nil}, logoUrl : Logos \union {Nil}]
    /\ typed \subseteq Fields /\ busy \subseteq {"brand", "asaas"}
    /\ \A f \in Fields \ typed : form[f] = Shown(f)

IsOrgCall(c) ==
    /\ c = [op |-> c.op, data |-> c.data, by |-> c.by, no |-> c.no, at |-> c.at, got |-> c.got]
    /\ c.at \in {"sent", "answered"}
    /\ c.op = "save" =>
        /\ c.data["subdomain"] \in Names \union {Keep}
        /\ c.data["logoUrl"] \in Logos \union {Keep}
        /\ \A f \in Fields : c.data[f] # Keep => f \in c.by
    /\ c.op = "upload" => c.data \in Logos
    /\ c.got # Nil =>
        IF c.op = "upload" THEN c.got \in Logos ELSE c.got \in Profiles /\ Fresh(c.got)

\* The answer to the last write is shown or under way, unless it was lost,
\* overtaken, or given to another tab.
IsNewest(p) == p # Nil /\ p.read = orgWrites
NewestIsKnown ==
    ~orgStale /\ orgWrites > 0 =>
        \/ IsNewest(profile)
        \/ \E c \in orgCalls : c.op # "upload" /\ c.at = "answered" /\ IsNewest(c.got)

OrgInv ==
    /\ tenant \in Rows /\ orgWrites \in Nat /\ orgStale \in BOOLEAN
    /\ SectionsInv
    /\ \A c \in orgCalls : IsOrgCall(c)
    /\ NewestIsKnown

LEMMA OrgInvIsEnough ==
    OrgInv => OrgTypeOK /\ OnlyTypedIsSent /\ ShownTenantIsStored
<1> SUFFICES ASSUME OrgInv PROVE OrgTypeOK /\ OnlyTypedIsSent /\ ShownTenantIsStored
  OBVIOUS
<1>1. OrgTypeOK
  <2>1. {profileError, orgStale} \subseteq BOOLEAN
    BY Zenon DEF OrgInv, SectionsInv
  <2>2. profile # Nil => profile.row \in Rows /\ profile.read \in 0 .. orgWrites
    BY DEF OrgInv, SectionsInv, Profiles, Fresh
  <2> QED
    BY <2>1, <2>2 DEF OrgInv, SectionsInv, IsOrgCall, OrgTypeOK
<1>2. OnlyTypedIsSent
  BY DEF OrgInv, IsOrgCall, OnlyTypedIsSent
<1>3. ASSUME orgCalls = {}, profile # Nil, ~orgStale
      PROVE  profile.row = tenant /\ (typed = {} => \A f \in Fields : form[f] = tenant[f])
  <2>1. profile \in Profiles /\ Fresh(profile) /\ profile.read = orgWrites
    BY <1>3 DEF OrgInv, SectionsInv, NewestIsKnown, IsNewest, Fresh, Profiles
  <2> QED
    BY <1>3, <2>1 DEF OrgInv, SectionsInv, Fresh, Shown
<1> QED
  BY <1>1, <1>2, <1>3 DEF ShownTenantIsStored

LEMMA OrgInitInv == OrgInit => OrgInv
<1> SUFFICES ASSUME OrgInit PROVE OrgInv
  OBVIOUS
<1>1. tenant \in Rows
  BY FirstNameIsFree DEF OrgInit, Rows
<1>2. profileError \in BOOLEAN /\ orgStale \in BOOLEAN
  BY Zenon DEF OrgInit
<1>3. profile = Nil /\ form = Blank /\ typed = {} /\ busy = {} /\ orgWrites = 0
  BY DEF OrgInit
<1>4. SectionsInv
  BY <1>2, <1>3 DEF SectionsInv, Blank, Fields, Shown
<1>5. \A c \in orgCalls : IsOrgCall(c)
  BY DEF OrgInit, IsOrgCall
<1> QED
  BY <1>1, <1>2, <1>3, <1>4, <1>5 DEF OrgInv, NewestIsKnown

LEMMA OrgEdits ==
    ASSUME OrgInv, NEW f \in Fields, NEW v, EditField(f, v),
           v \in (IF f = "subdomain" THEN Names ELSE {Nil})
    PROVE  OrgInv'
<1>1. /\ form' = [form EXCEPT ![f] = v] /\ typed' = typed \union {f}
      /\ UNCHANGED <<tenant, profile, profileError, busy, orgCalls, orgWrites, orgStale>>
  BY DEF EditField
<1>2. Fields = {"subdomain", "logoUrl"}
  BY DEF Fields, Blank
<1>3. SectionsInv'
  BY <1>1, <1>2 DEF OrgInv, SectionsInv, Fresh, Shown
<1> QED
  BY <1>1, <1>3 DEF OrgInv, IsOrgCall, Fresh, NewestIsKnown, IsNewest

LEMMA OrgSends ==
    ASSUME OrgInv, NEW op \in {"save", "connect", "disconnect", "upload"}, NEW data, OrgSend(op, data),
           UNCHANGED <<tenant, profile, profileError, form, typed, orgWrites, orgStale>>,
           busy' \subseteq {"brand", "asaas"},
           op = "upload" => data \in Logos,
           op = "save" => data = [f \in Fields |-> Diff(f)]
    PROVE  OrgInv'
<1> PICK d : d = [op |-> op, data |-> data, by |-> typed, no |-> orgClicks + 1, at |-> "sent", got |-> Nil]
  OBVIOUS
<1>1. orgCalls' = orgCalls \union {d}
  BY DEF OrgSend
<1>2. Fields = {"subdomain", "logoUrl"}
  BY DEF Fields, Blank
<1>3. ASSUME op = "save"
      PROVE  /\ data["subdomain"] \in Names \union {Keep} /\ data["logoUrl"] \in Logos \union {Keep}
             /\ \A f \in Fields : data[f] # Keep => f \in typed
  BY <1>2, <1>3 DEF Diff, OrgInv, SectionsInv
<1>4. IsOrgCall(d)'
  BY <1>3 DEF IsOrgCall
<1>5. SectionsInv'
  BY DEF OrgInv, SectionsInv, Fresh, Shown
<1>6. \A c \in orgCalls : IsOrgCall(c)'
  BY DEF OrgInv, IsOrgCall, Fresh
<1> QED
  BY <1>1, <1>4, <1>5, <1>6 DEF OrgInv, NewestIsKnown, IsNewest

LEMMA AnsweredOrgCall ==
    ASSUME NEW c, NEW got,
           c = [op |-> c.op, data |-> c.data, by |-> c.by, no |-> c.no, at |-> c.at, got |-> c.got]
    PROVE  [c EXCEPT !.at = "answered", !.got = got]
           = [op |-> c.op, data |-> c.data, by |-> c.by, no |-> c.no, at |-> "answered", got |-> got]
<1>1. PICK o, v, y, n, t, g : c = [op |-> o, data |-> v, by |-> y, no |-> n, at |-> t, got |-> g]
  OBVIOUS
<1>2. PICK d : d = [c EXCEPT !.at = "answered"]
  OBVIOUS
<1>3. d = [op |-> o, data |-> v, by |-> y, no |-> n, at |-> "answered", got |-> g]
  BY <1>1, <1>2
<1>4. [c EXCEPT !.at = "answered", !.got = got] = [d EXCEPT !.got = got]
  BY <1>2
<1>5. [d EXCEPT !.got = got] = [op |-> o, data |-> v, by |-> y, no |-> n, at |-> "answered", got |-> got]
  BY <1>3
<1> QED
  BY <1>1, <1>4, <1>5

\* An answer of the API, with the write it made, if it made one.
LEMMA OrgAnswers ==
    ASSUME OrgInv, NEW c \in orgCalls, NEW got, OrgAnswer(c, got), tenant' \in Rows,
           \/ UNCHANGED <<tenant, orgWrites>>
           \/ orgWrites' = orgWrites + 1 /\ got = ToProfile(tenant', orgWrites') /\ c.op # "upload",
           got # Nil => IF c.op = "upload" THEN got \in Logos
                        ELSE got = ToProfile(tenant', orgWrites')
    PROVE  OrgInv'
<1> PICK d : d = [op |-> c.op, data |-> c.data, by |-> c.by, no |-> c.no, at |-> "answered", got |-> got]
  OBVIOUS
<1>1. IsOrgCall(c) /\ c.at = "sent" /\ orgCalls' = (orgCalls \ {c}) \union {d}
  <2>1. c = [op |-> c.op, data |-> c.data, by |-> c.by, no |-> c.no, at |-> c.at, got |-> c.got]
    BY DEF OrgInv, IsOrgCall
  <2>2. [c EXCEPT !.at = "answered", !.got = got] = d
    BY <2>1, AnsweredOrgCall
  <2> QED
    BY <2>2 DEF OrgAnswer, OrgInv
<1>2. UNCHANGED <<profile, profileError, form, typed, busy, orgStale>>
  BY DEF OrgAnswer, orgPage
<1>3. orgWrites \in Nat /\ orgWrites' \in Nat
  BY DEF OrgInv
<1>4. \A p \in Profiles : Fresh(p) => Fresh(p)'
  <2>1. ASSUME NEW p \in Profiles, Fresh(p) PROVE Fresh(p)'
    <3>1. p.read \in Nat
      BY DEF Profiles
    <3> QED
      BY <1>3, <2>1, <3>1 DEF Fresh
  <2> QED
    BY <2>1
<1>5. got = ToProfile(tenant', orgWrites') => got \in Profiles /\ Fresh(got)'
  BY <1>3 DEF ToProfile, Profiles, Fresh
<1>6. IsOrgCall(d)'
  BY <1>1, <1>5 DEF IsOrgCall
<1>7. \A b \in orgCalls : IsOrgCall(b)'
  BY <1>4 DEF OrgInv, IsOrgCall
<1>8. SectionsInv'
  BY <1>2, <1>4 DEF OrgInv, SectionsInv, Shown
<1>9. NewestIsKnown'
  <2>1. CASE UNCHANGED <<tenant, orgWrites>>
    BY <1>1, <1>2, <2>1 DEF OrgInv, NewestIsKnown, IsNewest
  <2>2. CASE got = ToProfile(tenant', orgWrites') /\ c.op # "upload"
    <3>1. got # Nil /\ got.read = orgWrites'
      BY <1>5, <2>2, NilIsNoProfile DEF ToProfile
    <3> QED
      BY <1>1, <2>2, <3>1 DEF NewestIsKnown, IsNewest
  <2> QED
    BY <2>1, <2>2
<1> QED
  BY <1>1, <1>2, <1>3, <1>6, <1>7, <1>8, <1>9 DEF OrgInv

LEMMA OrgServes ==
    ASSUME OrgInv, NEW c \in orgCalls,
           \/ ServeGet(c) \/ ServeSave(c) \/ ServeConnect(c) \/ ServeDisconnect(c)
           \/ ServeUpload(c) \/ ServeRefuses(c)
    PROVE  OrgInv'
<1>1. IsOrgCall(c) /\ tenant \in Rows
  BY DEF OrgInv
<1>2. CASE ServeGet(c)
  BY <1>1, <1>2, OrgAnswers DEF ServeGet
<1>3. CASE ServeUpload(c)
  BY <1>1, <1>3, OrgAnswers DEF ServeUpload, IsOrgCall
<1>4. CASE ServeRefuses(c)
  BY <1>1, <1>4, OrgAnswers DEF ServeRefuses
<1>5. ASSUME NEW r \in Rows, UpdateTenant(c, r), c.op # "upload" PROVE OrgInv'
  BY <1>5, OrgAnswers DEF UpdateTenant
<1>6. CASE ServeSave(c)
  <2> DEFINE r == [f \in DOMAIN tenant |-> IF f \in Fields /\ c.data[f] # Keep THEN c.data[f] ELSE tenant[f]]
  <2>1. /\ tenant = [subdomain |-> tenant.subdomain, logoUrl |-> tenant.logoUrl, connected |-> tenant.connected]
        /\ tenant.subdomain \in Names \ Taken /\ tenant.logoUrl \in Logos \union {Nil} /\ tenant.connected \in BOOLEAN
    BY <1>1 DEF Rows
  <2>2. /\ c.data["subdomain"] \in Names \union {Keep} /\ c.data["logoUrl"] \in Logos \union {Keep}
        /\ c.data["subdomain"] \notin Taken
    BY <1>1, <1>6 DEF ServeSave, IsOrgCall
  <2>3. DOMAIN tenant = {"subdomain", "logoUrl", "connected"} /\ Fields = {"subdomain", "logoUrl"}
    BY <2>1 DEF Fields, Blank
  <2>4. /\ r["subdomain"] \in Names \ Taken /\ r["logoUrl"] \in Logos \union {Nil} /\ r["connected"] \in BOOLEAN
    BY <2>1, <2>2, <2>3
  <2>5. r = [subdomain |-> r["subdomain"], logoUrl |-> r["logoUrl"], connected |-> r["connected"]]
    BY <2>3
  <2>6. r \in Rows
    BY <2>4, <2>5 DEF Rows
  <2> QED
    BY <1>5, <1>6, <2>6 DEF ServeSave
<1>7. CASE ServeConnect(c)
  <2>1. [tenant EXCEPT !.connected = TRUE] \in Rows
    BY <1>1 DEF Rows
  <2> QED
    BY <1>5, <1>7, <2>1 DEF ServeConnect
<1>8. CASE ServeDisconnect(c)
  <2>1. [tenant EXCEPT !.connected = FALSE] \in Rows
    BY <1>1 DEF Rows
  <2> QED
    BY <1>5, <1>8, <2>1 DEF ServeDisconnect
<1> QED
  BY <1>2, <1>3, <1>4, <1>6, <1>7, <1>8

LEMMA OrgLosesCall ==
    ASSUME OrgInv, NEW c, OrgCallFails(c)
    PROVE  OrgInv'
<1> PICK d : d = [op |-> c.op, data |-> c.data, by |-> c.by, no |-> c.no, at |-> "answered", got |-> Nil]
  OBVIOUS
<1>1. IsOrgCall(c) /\ orgCalls' = (orgCalls \ {c}) \union {d}
  <2>1. c = [op |-> c.op, data |-> c.data, by |-> c.by, no |-> c.no, at |-> c.at, got |-> c.got]
    BY DEF OrgCallFails, OrgInv, IsOrgCall
  <2>2. [c EXCEPT !.at = "answered", !.got = Nil] = d
    BY <2>1, AnsweredOrgCall
  <2> QED
    BY <2>2 DEF OrgCallFails, OrgInv
<1>2. orgStale' = TRUE /\ UNCHANGED <<tenant, profile, profileError, form, typed, busy, orgWrites>>
  BY DEF OrgCallFails, orgPage
<1>3. IsOrgCall(d)'
  BY <1>1 DEF IsOrgCall
<1>4. \A b \in orgCalls : IsOrgCall(b)'
  BY <1>2 DEF OrgInv, IsOrgCall, Fresh
<1>5. SectionsInv'
  BY <1>2 DEF OrgInv, SectionsInv, Fresh, Shown
<1> QED
  BY <1>1, <1>2, <1>3, <1>4, <1>5 DEF OrgInv, NewestIsKnown

LEMMA SavedElsewhere ==
    ASSUME OrgInv, NEW s \in Names, SaveElsewhere(s)
    PROVE  OrgInv'
<1>1. /\ tenant' = [tenant EXCEPT !.subdomain = s] /\ s \notin Taken
      /\ orgWrites' = orgWrites + 1 /\ orgStale' = TRUE
      /\ UNCHANGED <<profile, profileError, form, typed, busy, orgCalls>>
  BY DEF SaveElsewhere, orgPage
<1>2. tenant' \in Rows /\ orgWrites \in Nat
  BY <1>1 DEF OrgInv, Rows
<1>3. ASSUME NEW p \in Profiles, Fresh(p) PROVE Fresh(p)'
  <2>1. p.read \in Nat
    BY DEF Profiles
  <2> QED
    BY <1>1, <1>2, <1>3, <2>1 DEF Fresh
<1>4. SectionsInv'
  BY <1>1, <1>3 DEF OrgInv, SectionsInv, Shown
<1>5. \A c \in orgCalls : IsOrgCall(c)'
  BY <1>3 DEF OrgInv, IsOrgCall
<1> QED
  BY <1>1, <1>2, <1>4, <1>5 DEF OrgInv, NewestIsKnown

LEMMA OrgShows ==
    ASSUME OrgInv, NEW c \in orgCalls, ProfileArrives(c)
    PROVE  OrgInv'
<1> PICK p : p = c.got
  OBVIOUS
<1>1. /\ c.op # "upload" /\ p # Nil /\ p \in Profiles /\ Fresh(p) /\ c.at = "answered"
      /\ profile' = p /\ form' = [f \in Fields |-> p.row[f]] /\ typed' = {}
      /\ orgCalls' = orgCalls \ {c} /\ UNCHANGED <<tenant, orgWrites, profileError>>
      /\ orgStale' = (orgStale \/ (profile # Nil /\ profile.read > p.read))
      /\ busy' \subseteq {"brand", "asaas"}
  BY DEF ProfileArrives, OrgArrive, Show, OrgInv, IsOrgCall, SectionsInv
<1>2. Fields = {"subdomain", "logoUrl"}
  BY DEF Fields, Blank
<1>3. form' \in [subdomain : Names \union {Nil}, logoUrl : Logos \union {Nil}]
  <2>1. p.row["subdomain"] \in Names /\ p.row["logoUrl"] \in Logos \union {Nil}
    BY <1>1 DEF Profiles, Rows
  <2>2. form' = [subdomain |-> p.row["subdomain"], logoUrl |-> p.row["logoUrl"]]
    BY <1>1, <1>2
  <2> QED
    BY <2>1, <2>2
<1>4. \A q : Fresh(q)' <=> Fresh(q)
  BY <1>1 DEF Fresh
<1>5. SectionsInv'
  BY <1>1, <1>3, <1>4 DEF OrgInv, SectionsInv, Shown
<1>6. \A b \in orgCalls' : IsOrgCall(b)'
  BY <1>1, <1>4 DEF OrgInv, IsOrgCall
<1>7. orgStale' \in BOOLEAN
  BY <1>1 DEF OrgInv
<1>8. NewestIsKnown'
  <2> SUFFICES ASSUME ~orgStale', orgWrites' > 0
               PROVE  \/ IsNewest(profile)'
                      \/ \E b \in orgCalls' : b.op # "upload" /\ b.at = "answered" /\ IsNewest(b.got)'
    BY DEF NewestIsKnown
  <2>1. ~orgStale /\ orgWrites > 0 /\ (profile = Nil \/ ~(profile.read > p.read))
    BY <1>1
  <2>2. p.read \in Nat /\ p.read <= orgWrites /\ orgWrites \in Nat
    BY <1>1 DEF Profiles, Fresh, OrgInv
  <2>3. CASE IsNewest(profile)
    BY <1>1, <2>1, <2>2, <2>3 DEF IsNewest
  <2>4. ASSUME NEW b \in orgCalls, b.op # "upload", b.at = "answered", IsNewest(b.got)
        PROVE  \/ IsNewest(profile)'
               \/ \E a \in orgCalls' : a.op # "upload" /\ a.at = "answered" /\ IsNewest(a.got)'
    BY <1>1, <2>4 DEF IsNewest
  <2> QED
    BY <2>1, <2>3, <2>4 DEF OrgInv, NewestIsKnown
<1> QED
  BY <1>1, <1>5, <1>6, <1>7, <1>8 DEF OrgInv

LEMMA OrgHears ==
    ASSUME OrgInv, NEW c \in orgCalls, UploadArrives(c) \/ OrgErrorArrives(c)
    PROVE  OrgInv'
<1>1. /\ orgCalls' = orgCalls \ {c} /\ UNCHANGED <<tenant, orgWrites, orgStale, profile>>
      /\ c.op = "upload" \/ c.got = Nil
      /\ IsOrgCall(c) /\ busy' \subseteq {"brand", "asaas"}
  BY DEF UploadArrives, OrgErrorArrives, OrgArrive, OrgInv, SectionsInv
<1>2. profileError' \in BOOLEAN
  <2>1. profileError \in BOOLEAN
    BY DEF OrgInv, SectionsInv
  <2> QED
    BY <2>1, Zenon DEF UploadArrives, OrgErrorArrives
<1>3. \A q : Fresh(q)' <=> Fresh(q)
  BY <1>1 DEF Fresh
<1>4. \A f : Shown(f)' = Shown(f)
  BY <1>1 DEF Shown
<1>5. SectionsInv'
  <2>1. CASE UploadArrives(c)
    <3>1. c.got \in Logos /\ form' = [form EXCEPT !.logoUrl = c.got] /\ typed' = typed \union {"logoUrl"}
      BY <1>1, <2>1 DEF UploadArrives, IsOrgCall
    <3>2. Fields = {"subdomain", "logoUrl"}
      BY DEF Fields, Blank
    <3> QED
      BY <1>1, <1>2, <1>3, <1>4, <3>1, <3>2 DEF OrgInv, SectionsInv
  <2>2. CASE OrgErrorArrives(c)
    <3>1. UNCHANGED <<form, typed>>
      BY <2>2 DEF OrgErrorArrives
    <3> QED
      BY <1>1, <1>2, <1>3, <1>4, <3>1 DEF OrgInv, SectionsInv
  <2> QED
    BY <2>1, <2>2
<1>6. \A b \in orgCalls' : IsOrgCall(b)'
  BY <1>1, <1>3 DEF OrgInv, IsOrgCall
<1>7. NewestIsKnown'
  BY <1>1 DEF OrgInv, NewestIsKnown, IsNewest
<1> QED
  BY <1>1, <1>5, <1>6, <1>7 DEF OrgInv

LEMMA OrgNextKeeps == OrgInv /\ [OrgNext]_orgVars => OrgInv'
<1> SUFFICES ASSUME OrgInv, [OrgNext]_orgVars PROVE OrgInv'
  OBVIOUS
<1>1. ASSUME NEW s \in Names, TypeSubdomain(s) PROVE OrgInv'
  BY <1>1, OrgEdits DEF TypeSubdomain, Fields, Blank
<1>2. ASSUME RemoveLogo PROVE OrgInv'
  BY <1>2, OrgEdits DEF RemoveLogo, Fields, Blank
<1>3. ASSUME NEW l \in Logos, Upload(l) PROVE OrgInv'
  <2>1. OrgSend("upload", l) /\ UNCHANGED <<tenant, orgPage, orgWrites, orgStale>>
    BY <1>3 DEF Upload
  <2>2. busy' \subseteq {"brand", "asaas"}
    BY <2>1 DEF orgPage, OrgInv, SectionsInv
  <2> QED
    BY <2>1, <2>2, OrgSends DEF orgPage
<1>4. ASSUME NEW part \in {"brand", "asaas"}, NEW op \in {"save", "connect", "disconnect"}, NEW data,
             Submit(part, op, data), op = "save" => data = [f \in Fields |-> Diff(f)]
      PROVE  OrgInv'
  <2>1. busy' \subseteq {"brand", "asaas"}
    BY <1>4 DEF Submit, OrgInv, SectionsInv
  <2> QED
    BY <1>4, <2>1, OrgSends DEF Submit
<1>5. CASE ClickSave \/ ClickConnect \/ ClickDisconnect
  BY <1>4, <1>5 DEF ClickSave, ClickConnect, ClickDisconnect
<1>6. CASE UNCHANGED orgVars
  BY <1>6 DEF orgVars, orgPage, OrgInv, SectionsInv, IsOrgCall, Fresh, Shown, NewestIsKnown, IsNewest
<1> QED
  BY <1>1, <1>2, <1>3, <1>5, <1>6, SavedElsewhere, OrgServes, OrgLosesCall, OrgShows, OrgHears DEF OrgNext

----------------------------------------------------------------------------

(***************************************************************************)
(* TeamPage.  AllRows are all those that are shown or on their way: what the  *)
(* page will show of somebody is the newest of them, unless a write is     *)
(* about to be read back.                                                  *)
(***************************************************************************)
Brings(op, got, e) ==
    /\ got # Nil
    /\ \/ op = "list" /\ e \in got.rows
       \/ op \in {"invite", "switch"} /\ e = got
Carries(c, e) == c.at = "answered" /\ Brings(c.op, c.got, e)
AllRows == members \union {e \in TeamRows : \E c \in teamCalls : Carries(c, e)}
RowsOf(i) == {e \in AllRows : e.id = i}

IsRow(e) ==
    /\ e \in TeamRows /\ e.id \in DOMAIN users /\ e.read <= writes
    /\ e.read = writes => e.may = users[e.id].may

OneEach(s) == \A e, f \in s : e.id = f.id => e = f

IsTeamCall(c) ==
    /\ c = [op |-> c.op, arg |-> c.arg, no |-> c.no, at |-> c.at, got |-> c.got]
    /\ c.at \in {"sent", "written", "answered"}
    /\ c.op = "list" /\ c.got # Nil => c.got \in [rows : SUBSET TeamRows] /\ OneEach(c.got.rows)
    /\ c.op = "invite" => c.arg \in Emails /\ (c.got # Nil => c.got \in TeamRows)
    /\ c.op = "switch" => /\ c.arg.area \in Areas
                          /\ c.got # Nil => c.got \in TeamRows /\ c.got.id = c.arg.id

TeamFlags ==
    /\ listed \in BOOLEAN /\ listError \in BOOLEAN /\ inviting \in BOOLEAN /\ overtaken \in BOOLEAN
    /\ pending \in [1 .. MaxAccounts -> Areas \union {Nil}]

TeamAccounts ==
    /\ users \in Seq(UserType) /\ removed \subseteq DOMAIN users /\ tenants \subseteq Subdomains
    /\ writes \in Nat

TeamCallsInv ==
    /\ \A c \in teamCalls : IsTeamCall(c)
    /\ \A c, d \in teamCalls : c.op = d.op /\ c.op \in {"list", "invite"} => c = d
    /\ inviting <=> \E c \in teamCalls : c.op = "invite"

RowsInv ==
    /\ \A e \in AllRows : IsRow(e)
    /\ \A e, f \in AllRows : e.id = f.id /\ e.read = f.read => e.may = f.may

Written(i) == \E c \in teamCalls : c.op = "switch" /\ c.at = "written" /\ c.arg.id = i
NewestIsTrue(i) ==
    \/ RowsOf(i) = {} \/ Written(i)
    \/ \E f \in RowsOf(i) : f.may = users[i].may /\ \A e \in RowsOf(i) : e.read <= f.read

ListAsked == \E c \in teamCalls : c.op = "list" /\ c.at = "sent"

InOrder ==
    /\ OneEach(members)
    /\ \A c \in teamCalls : c.op = "switch" => \E m \in members : m.id = c.arg.id
    /\ \A i \in Accounts : NewestIsTrue(i)
    /\ \A i \in Staff(Org) : ListAsked \/ RowsOf(i) # {}

TeamInv ==
    /\ TeamFlags /\ TeamAccounts /\ TeamCallsInv /\ RowsInv
    /\ ~listed => members = {}
    /\ ~overtaken => InOrder

LEMMA TeamInvIsEnough == TeamInv => TeamTypeOK /\ ShownTeamIsStored
<1> SUFFICES ASSUME TeamInv PROVE TeamTypeOK /\ ShownTeamIsStored
  OBVIOUS
<1>1. TeamTypeOK
  <2>1. {listed, listError, inviting, overtaken} \subseteq BOOLEAN
    BY Zenon DEF TeamInv, TeamFlags
  <2>2. \A m \in members : m.id \in DOMAIN users /\ m.role \in Roles /\ m.may \subseteq Areas /\ m.read \in 0 .. writes
    BY DEF TeamInv, TeamAccounts, RowsInv, AllRows, IsRow, TeamRows, Roles
  <2>3. \A i \in DOMAIN pending : pending[i] \in Areas \union {Nil}
    BY DEF TeamInv, TeamFlags
  <2>4. \A c \in teamCalls : c.at \in {"sent", "written", "answered"}
    BY DEF TeamInv, TeamCallsInv, IsTeamCall
  <2>5. Cardinality({c \in teamCalls : c.op = "invite"}) <= 1
    <3> PICK s : s = {c \in teamCalls : c.op = "invite"}
      OBVIOUS
    <3>1. \A c, d \in s : c = d
      BY DEF TeamInv, TeamCallsInv
    <3>2. s = {} \/ \E c : s = {c}
      BY <3>1
    <3>3. ASSUME NEW c, s = {c} PROVE Cardinality(s) <= 1
      BY <3>3, FS_Singleton
    <3>4. s = {} => Cardinality(s) <= 1
      BY FS_EmptySet
    <3> QED
      BY <3>2, <3>3, <3>4
  <2> QED
    BY <2>1, <2>2, <2>3, <2>4, <2>5 DEF TeamInv, TeamAccounts, TeamTypeOK
<1>2. ShownTeamIsStored
  <2> SUFFICES ASSUME TeamSettled
               PROVE  /\ \A m \in members : m.id \in Accounts => m.may = users[m.id].may
                      /\ \A i \in Staff(Org) : \E m \in members : m.id = i
    BY DEF ShownTeamIsStored
  <2>1. InOrder /\ teamCalls = {}
    BY DEF TeamSettled, TeamInv
  <2>2. AllRows = members /\ ~ListAsked /\ \A i : ~Written(i)
    BY <2>1 DEF AllRows, ListAsked, Written
  <2>3. ASSUME NEW m \in members, m.id \in Accounts PROVE m.may = users[m.id].may
    BY <2>1, <2>2, <2>3 DEF InOrder, NewestIsTrue, RowsOf, OneEach
  <2> QED
    BY <2>1, <2>2, <2>3 DEF InOrder, RowsOf
<1> QED
  BY <1>1, <1>2

LEMMA TeamInitInv == TeamInit => TeamInv
<1> SUFFICES ASSUME TeamInit PROVE TeamInv
  OBVIOUS
<1>1. TeamFlags
  <2>1. listed \in BOOLEAN /\ listError \in BOOLEAN /\ inviting \in BOOLEAN /\ overtaken \in BOOLEAN
    BY Zenon DEF TeamInit
  <2> QED
    BY <2>1 DEF TeamInit, TeamFlags
<1>2. TeamAccounts
  <2> DEFINE user(i) == [email |-> FirstEmails[i], tenantId |-> Org, may |-> Areas,
                         role |-> IF i = 1 THEN "OWNER" ELSE "STAFF"]
  <2>1. users = [i \in DOMAIN FirstEmails |-> user(i)]
    BY DEF TeamInit
  <2>2. \A i \in DOMAIN FirstEmails : user(i) \in UserType
    BY FirstEmailsAreEmails, OrgIsASubdomain DEF UserType, Roles
  <2>3. DOMAIN FirstEmails = 1 .. Len(FirstEmails) /\ Len(FirstEmails) \in Nat
    BY FirstEmailsAreEmails
  <2> HIDE DEF user
  <2>4. users \in [1 .. Len(FirstEmails) -> UserType]
    BY <2>1, <2>2, <2>3
  <2>5. users \in Seq(UserType)
    BY <2>3, <2>4
  <2> QED
    BY <2>5, OrgIsASubdomain DEF TeamAccounts, TeamInit
<1>3. /\ members = {} /\ ~inviting
      /\ \A c \in teamCalls : c = [op |-> "list", arg |-> Nil, no |-> 0, at |-> "sent", got |-> Nil]
      /\ \E c \in teamCalls : c.op = "list" /\ c.at = "sent"
  BY DEF TeamInit
<1>4. TeamCallsInv
  BY <1>3 DEF TeamCallsInv, IsTeamCall
<1>5. AllRows = {} /\ ListAsked
  BY <1>3 DEF AllRows, Carries, Brings, ListAsked
<1>6. RowsInv
  BY <1>5 DEF RowsInv
<1>7. InOrder
  BY <1>3, <1>5 DEF InOrder, OneEach, NewestIsTrue, RowsOf
<1> QED
  BY <1>1, <1>2, <1>3, <1>4, <1>6, <1>7 DEF TeamInv

\* AllRows may go, and come as they are read; a write makes all there are old.
LEMMA RowsKeep ==
    ASSUME RowsInv, TeamAccounts, NEW n, AllRows' \subseteq AllRows \union n,
           writes' = writes + 1 \/ (writes' = writes /\ \A i \in DOMAIN users : users'[i].may = users[i].may),
           DOMAIN users \subseteq DOMAIN users',
           \A e \in n : e \in TeamRows /\ e.id \in DOMAIN users' /\ e.read = writes' /\ e.may = users'[e.id].may
    PROVE  RowsInv'
<1>1. writes \in Nat /\ writes' \in Nat /\ writes <= writes'
  BY DEF TeamAccounts
<1>2. ASSUME NEW e \in AllRows PROVE IsRow(e)'
  <2>1. IsRow(e) /\ e.read \in Nat
    BY DEF RowsInv, IsRow, TeamRows
  <2> QED
    BY <1>1, <2>1 DEF IsRow
<1>3. \A e \in n : IsRow(e)'
  BY <1>1 DEF IsRow
<1>4. \A e \in AllRows' : IsRow(e)'
  BY <1>2, <1>3
<1>5. ASSUME NEW e \in AllRows', NEW f \in AllRows', e.id = f.id, e.read = f.read PROVE e.may = f.may
  <2>1. CASE e \in AllRows /\ f \in AllRows
    BY <1>5, <2>1 DEF RowsInv
  <2>2. CASE e \in n \/ f \in n
    BY <1>4, <1>5, <2>2 DEF IsRow
  <2> QED
    BY <2>1, <2>2
<1> QED
  BY <1>4, <1>5 DEF RowsInv

LEMMA NewestStays ==
    ASSUME NEW i, NewestIsTrue(i), RowsOf(i)' = RowsOf(i), users'[i].may = users[i].may,
           Written(i) => Written(i)'
    PROVE  NewestIsTrue(i)'
<1> PICK r : r = RowsOf(i)
  OBVIOUS
<1>1. RowsOf(i) = r /\ RowsOf(i)' = r
  OBVIOUS
<1> QED
  BY <1>1 DEF NewestIsTrue

LEMMA NewestComes ==
    ASSUME NEW i, RowsInv', NEW f \in RowsOf(i)', f.may = users'[i].may, f.read = writes'
    PROVE  NewestIsTrue(i)'
<1>1. \A e \in RowsOf(i)' : e.read <= f.read
  BY DEF RowsOf, RowsInv, IsRow
<1> QED
  BY <1>1 DEF NewestIsTrue

LEMMA TeamMoved ==
    ASSUME TeamInv, NEW c \in teamCalls, NEW at, NEW got, Move(c, at, got)
    PROVE  /\ \E d : /\ d = [op |-> c.op, arg |-> c.arg, no |-> c.no, at |-> at, got |-> got]
                     /\ teamCalls' = (teamCalls \ {c}) \union {d}
           /\ UNCHANGED <<members, listed, listError, inviting, pending, overtaken>>
<1> PICK d : d = [op |-> c.op, arg |-> c.arg, no |-> c.no, at |-> at, got |-> got]
  OBVIOUS
<1>1. IsTeamCall(c)
  BY DEF TeamInv, TeamCallsInv
<1>2. PICK o, v, n, t, g : c = [op |-> o, arg |-> v, no |-> n, at |-> t, got |-> g]
  BY <1>1 DEF IsTeamCall
<1>3. PICK e : e = [c EXCEPT !.at = at]
  OBVIOUS
<1>4. e = [op |-> o, arg |-> v, no |-> n, at |-> at, got |-> g]
  BY <1>2, <1>3
<1>5. [c EXCEPT !.at = at, !.got = got] = [e EXCEPT !.got = got]
  BY <1>3
<1>6. [e EXCEPT !.got = got] = d
  BY <1>2, <1>4
<1>7. teamCalls' = (teamCalls \ {c}) \union {d}
  BY <1>5, <1>6 DEF Move
<1> QED
  BY <1>7 DEF Move, page

\* One call is served: what it reads, n, is new; the others are as they were.
LEMMA TeamServed ==
    ASSUME TeamInv, NEW c \in teamCalls, c.at # "answered",
           NEW at \in {"written", "answered"}, NEW got, Move(c, at, got), NEW n,
           at = "written" => c.op = "switch" /\ got = Nil /\ n = {},
           at = "answered" => \A e : e \in n <=> Brings(c.op, got, e),
           c.op = "list" /\ got # Nil => got \in [rows : SUBSET TeamRows] /\ OneEach(got.rows),
           c.op = "switch" /\ got # Nil => got.id = c.arg.id,
           TeamAccounts', DOMAIN users \subseteq DOMAIN users',
           writes' = writes + 1 \/ (writes' = writes /\ \A i \in DOMAIN users : users'[i].may = users[i].may),
           \A e \in n : e \in TeamRows /\ e.id \in DOMAIN users' /\ e.read = writes' /\ e.may = users'[e.id].may,
           \A i \in Accounts' :
               \/ \E e \in n : e.id = i
               \/ at = "written" /\ c.arg.id = i
               \/ i \in Accounts /\ users'[i].may = users[i].may /\ (c.at = "written" => c.arg.id # i),
           \A i \in Staff(Org)' : (\E e \in n : e.id = i) \/ (i \in Staff(Org) /\ c.op # "list")
    PROVE  TeamInv'
<1>1. PICK d : /\ d = [op |-> c.op, arg |-> c.arg, no |-> c.no, at |-> at, got |-> got]
               /\ teamCalls' = (teamCalls \ {c}) \union {d}
  BY TeamMoved
<1>2. UNCHANGED <<members, listed, listError, inviting, pending, overtaken>>
  BY TeamMoved
<1>3. d.op = c.op /\ d.arg = c.arg /\ d.at = at /\ d.got = got
  BY <1>1
<1>4. IsTeamCall(c) /\ TeamAccounts /\ RowsInv /\ TeamFlags
  BY DEF TeamInv, TeamCallsInv
<1>5. \A e : Carries(d, e) <=> e \in n
  BY <1>3 DEF Carries
<1>6. \A e : ~Carries(c, e)
  BY DEF Carries
<1>7. AllRows' = AllRows \union n
  BY <1>1, <1>2, <1>5, <1>6 DEF AllRows, Carries
<1>8. RowsInv'
  BY <1>4, <1>7, RowsKeep
<1>9. IsTeamCall(d)'
  <2>1. c.op \in {"invite", "switch"} /\ got # Nil => got \in n
    BY DEF Brings
  <2>2. c.op \in {"invite", "switch"} /\ got # Nil => got \in TeamRows
    BY <2>1
  <2>3. d = [op |-> d.op, arg |-> d.arg, no |-> d.no, at |-> d.at, got |-> d.got]
    BY <1>1
  <2>4. d.op = "list" /\ d.got # Nil => d.got \in [rows : SUBSET TeamRows] /\ OneEach(d.got.rows)
    BY <1>3
  <2>5. d.op = "switch" => d.arg.area \in Areas /\ (d.got # Nil => d.got \in TeamRows /\ d.got.id = d.arg.id)
    BY <1>3, <1>4, <2>2 DEF IsTeamCall
  <2>7. d.op = "invite" => d.arg \in Emails /\ (d.got # Nil => d.got \in TeamRows)
    BY <1>3, <1>4, <2>2 DEF IsTeamCall
  <2>8. d.at \in {"sent", "written", "answered"}
    BY <1>3
  <2>6. IsTeamCall(d)
    BY <2>3, <2>4, <2>5, <2>7, <2>8 DEF IsTeamCall
  <2> QED
    BY <2>6 DEF IsTeamCall
<1>10. TeamCallsInv'
  <2>1. \A b \in teamCalls : IsTeamCall(b)'
    BY DEF TeamInv, TeamCallsInv, IsTeamCall
  <2> QED
    BY <1>1, <1>2, <1>3, <1>9, <2>1 DEF TeamInv, TeamCallsInv
<1>11. ASSUME ~overtaken PROVE InOrder'
  <2>1. InOrder
    BY <1>11 DEF TeamInv
  <2>2. ASSUME NEW i \in Accounts' PROVE NewestIsTrue(i)'
    <3>1. CASE \E e \in n : e.id = i
      <4>1. PICK e \in n : e.id = i
        BY <3>1
      <4>2. e \in RowsOf(i)' /\ e.may = users'[i].may /\ e.read = writes'
        BY <1>7, <4>1 DEF RowsOf
      <4> QED
        BY <1>8, <4>2, NewestComes
    <3>2. CASE at = "written" /\ c.arg.id = i
      <4>1. Written(i)'
        BY <1>1, <1>3, <3>2 DEF Written
      <4> QED
        BY <4>1 DEF NewestIsTrue
    <3>3. CASE /\ ~\E e \in n : e.id = i
               /\ i \in Accounts /\ users'[i].may = users[i].may /\ (c.at = "written" => c.arg.id # i)
      <4>1. RowsOf(i)' = RowsOf(i)
        BY <1>7, <3>3 DEF RowsOf
      <4>2. Written(i) => Written(i)'
        BY <1>1, <3>3 DEF Written
      <4> QED
        BY <2>1, <3>3, <4>1, <4>2, NewestStays DEF InOrder
    <3> QED
      BY <3>1, <3>2, <3>3
  <2>3. ASSUME NEW i \in Staff(Org)' PROVE ListAsked' \/ RowsOf(i)' # {}
    <3>1. CASE \E e \in n : e.id = i
      BY <1>7, <3>1 DEF RowsOf
    <3>2. CASE i \in Staff(Org) /\ c.op # "list"
      BY <1>1, <1>7, <2>1, <3>2 DEF InOrder, ListAsked, RowsOf
    <3> QED
      BY <3>1, <3>2
  <2>4. OneEach(members)' /\ \A b \in teamCalls' : b.op = "switch" => \E m \in members' : m.id = b.arg.id
    BY <1>1, <1>2, <1>3, <2>1 DEF InOrder, OneEach
  <2> QED
    BY <2>2, <2>3, <2>4 DEF InOrder
<1>12. TeamFlags' /\ (~listed' => members' = {}) /\ (~overtaken' => InOrder')
  BY <1>2, <1>4, <1>11 DEF TeamFlags, TeamInv
<1> QED
  BY <1>8, <1>10, <1>12 DEF TeamInv

LEMMA TeamRefuses ==
    ASSUME TeamInv, NEW c \in teamCalls, c.at = "sent", c.op # "list", Refuse(c)
    PROVE  TeamInv'
<1>1. Move(c, "answered", Nil) /\ UNCHANGED <<users, removed, tenants, writes>>
  BY DEF Refuse, accounts
<1>2. TeamAccounts' /\ Accounts' = Accounts /\ Staff(Org)' = Staff(Org)
  BY <1>1 DEF TeamInv, TeamAccounts, Accounts, Staff
<1> PICK n : n = {}
  OBVIOUS
<1>3. \A e : e \in n <=> Brings(c.op, Nil, e)
  BY DEF Brings
<1>4. /\ \A i \in Accounts' : i \in Accounts /\ users'[i].may = users[i].may /\ (c.at = "written" => c.arg.id # i)
      /\ \A i \in Staff(Org)' : i \in Staff(Org) /\ c.op # "list"
  BY <1>1, <1>2
<1> QED
  BY <1>1, <1>2, <1>3, <1>4, TeamServed

LEMMA MemberIsRow ==
    ASSUME TeamAccounts, NEW i \in DOMAIN users, NEW time \in Nat
    PROVE  /\ Member(i, time) \in TeamRows /\ Member(i, time) # Nil
           /\ Member(i, time).id = i /\ Member(i, time).read = time /\ Member(i, time).may = users[i].may
<1>1. users[i] \in UserType /\ i \in Nat
  BY DEF TeamAccounts
<1>2. Member(i, time) \in TeamRows
  BY <1>1 DEF Member, TeamRows, UserType, Roles
<1>3. Nil \notin TeamRows
  BY NilIsNoRow, Zenon
<1> QED
  BY <1>2, <1>3 DEF Member

LEMMA TeamLists ==
    ASSUME TeamInv, NEW c \in teamCalls, ServeList(c)
    PROVE  TeamInv'
<1>a. PICK n : n = {Member(i, writes) : i \in {j \in Accounts : users[j].tenantId = Org}}
  OBVIOUS
<1>b. PICK got : got = [rows |-> n]
  OBVIOUS
<1>1. /\ c.op = "list" /\ c.at = "sent" /\ Move(c, "answered", got)
      /\ UNCHANGED <<users, removed, tenants, writes>>
  BY <1>a, <1>b DEF ServeList, accounts
<1>2. TeamAccounts /\ writes \in Nat
  BY DEF TeamInv, TeamAccounts
<1>3. TeamAccounts' /\ Accounts' = Accounts /\ Staff(Org)' = Staff(Org)
  BY <1>1, <1>2 DEF TeamAccounts, Accounts, Staff
<1>4. \A i \in DOMAIN users : /\ Member(i, writes) \in TeamRows /\ Member(i, writes).id = i
                              /\ Member(i, writes).read = writes /\ Member(i, writes).may = users[i].may
  BY <1>2, MemberIsRow
<1>5. ASSUME NEW e \in n
      PROVE  /\ e \in TeamRows /\ e.id \in DOMAIN users /\ e.read = writes /\ e.may = users[e.id].may
             /\ e = Member(e.id, writes)
  <2>1. PICK i \in DOMAIN users : e = Member(i, writes)
    BY <1>a DEF Accounts
  <2> QED
    BY <1>4, <2>1
<1>6. OneEach(n)
  BY <1>5 DEF OneEach
<1>7. ASSUME NEW i \in Staff(Org) PROVE \E e \in n : e.id = i
  <2>1. i \in Accounts /\ users[i].tenantId = Org /\ i \in DOMAIN users
    BY DEF Staff, Accounts
  <2>2. Member(i, writes) \in n
    BY <1>a, <2>1
  <2> QED
    BY <1>4, <2>1, <2>2
<1>8. got \in [rows : SUBSET TeamRows] /\ got.rows = n /\ got # Nil
  <2>1. n \in SUBSET TeamRows
    BY <1>5
  <2>2. Nil \notin [rows : SUBSET TeamRows]
    BY NilIsNoRow, Zenon
  <2>3. got \in [rows : SUBSET TeamRows] /\ got.rows = n
    BY <1>b, <2>1
  <2> QED
    BY <2>2, <2>3
<1>9. \A e : e \in n <=> Brings(c.op, got, e)
  BY <1>1, <1>8 DEF Brings
<1>10. \A i \in Accounts' : i \in Accounts /\ users'[i].may = users[i].may /\ (c.at = "written" => c.arg.id # i)
  BY <1>1, <1>3
<1>11. \A i \in Staff(Org)' : \E e \in n : e.id = i
  BY <1>3, <1>7
<1>12. DOMAIN users \subseteq DOMAIN users' /\ c.at # "answered"
       /\ writes' = writes /\ (\A i \in DOMAIN users : users'[i].may = users[i].may)
       /\ \A e \in n : e \in TeamRows /\ e.id \in DOMAIN users' /\ e.read = writes' /\ e.may = users'[e.id].may
  BY <1>1, <1>5
<1>13. OneEach(got.rows) /\ got \in [rows : SUBSET TeamRows] /\ c.op # "switch"
  BY <1>1, <1>6, <1>8
<1> QED
  BY <1>1, <1>3, <1>9, <1>10, <1>11, <1>12, <1>13, TeamServed

LEMMA TeamInvites ==
    ASSUME TeamInv, NEW c \in teamCalls, c.op = "invite", c.at = "sent", Invite(Org, c.arg),
           c.arg \in Emails, writes' = writes + 1,
           Move(c, "answered", [id |-> Len(users) + 1, role |-> "STAFF", may |-> Areas, read |-> writes + 1])
    PROVE  TeamInv'
<1>a. PICK k : k = Len(users) + 1
  OBVIOUS
<1>b. PICK t : t = writes + 1
  OBVIOUS
<1>c. PICK got : got = [id |-> k, role |-> "STAFF", may |-> Areas, read |-> t]
  OBVIOUS
<1>d. PICK user : user = [email |-> c.arg, tenantId |-> Org, role |-> "STAFF", may |-> Areas]
  OBVIOUS
<1>1. TeamAccounts /\ writes \in Nat /\ t \in Nat /\ writes' = t /\ Move(c, "answered", got)
  BY <1>a, <1>b, <1>c DEF TeamInv, TeamAccounts
<1>2. users' = Append(users, user) /\ UNCHANGED <<removed, tenants>>
  BY <1>d DEF Invite, CreateUser
<1>3. user \in UserType
  BY <1>d, OrgIsASubdomain DEF UserType, Roles
<1>4. /\ users' \in Seq(UserType) /\ DOMAIN users' = DOMAIN users \union {k} /\ k \notin DOMAIN users
      /\ k \in Nat /\ users'[k] = user /\ \A i \in DOMAIN users : users'[i] = users[i]
  <2>1. /\ users' \in Seq(UserType) /\ Len(users') = k /\ Len(users) \in Nat
        /\ \A i \in 1 .. Len(users) : users'[i] = users[i]
        /\ users'[k] = user
    BY <1>1, <1>2, <1>3, <1>a DEF TeamAccounts
  <2>2. DOMAIN users = 1 .. Len(users) /\ DOMAIN users' = 1 .. k
    BY <1>1, <2>1 DEF TeamAccounts
  <2> QED
    BY <1>a, <2>1, <2>2
<1>5. TeamAccounts'
  BY <1>1, <1>2, <1>4 DEF TeamAccounts
<1>6. got \in TeamRows /\ got # Nil /\ got.id = k /\ got.read = t /\ got.may = Areas
  <2>1. got \in TeamRows
    BY <1>1, <1>4, <1>c DEF TeamRows
  <2>2. Nil \notin TeamRows
    BY NilIsNoRow, Zenon
  <2> QED
    BY <1>c, <2>1, <2>2
<1>e. PICK n : n = {got}
  OBVIOUS
<1>7. \A e : e \in n <=> Brings(c.op, got, e)
  BY <1>6, <1>e DEF Brings
<1>8. \A e \in n : e \in TeamRows /\ e.id \in DOMAIN users' /\ e.read = writes' /\ e.may = users'[e.id].may
  BY <1>1, <1>4, <1>6, <1>d, <1>e
<1>9. \A i \in Accounts' : (\E e \in n : e.id = i) \/ (i \in Accounts /\ users'[i].may = users[i].may)
  BY <1>2, <1>4, <1>6, <1>e DEF Accounts
<1>10. \A i \in Staff(Org)' : (\E e \in n : e.id = i) \/ i \in Staff(Org)
  BY <1>2, <1>4, <1>6, <1>e DEF Staff, Accounts
<1>11. DOMAIN users \subseteq DOMAIN users' /\ writes' = writes + 1
  BY <1>4
<1> QED
  BY <1>1, <1>5, <1>7, <1>8, <1>9, <1>10, <1>11, TeamServed

LEMMA TeamSwitches ==
    ASSUME TeamInv, NEW c \in teamCalls, c.op = "switch", c.at = "sent",
           UpdatePermissions(Org, c.arg.id, c.arg.area, c.arg.value),
           writes' = writes + 1, Move(c, "written", Nil)
    PROVE  TeamInv'
<1>a. PICK k, a : k = c.arg.id /\ a = c.arg.area
  OBVIOUS
<1>b. PICK may : may = IF c.arg.value THEN users[k].may \union {a} ELSE users[k].may \ {a}
  OBVIOUS
<1>1. TeamAccounts /\ writes \in Nat /\ a \in Areas /\ c.arg.id = k
  BY <1>a DEF TeamInv, TeamAccounts, TeamCallsInv, IsTeamCall
<1>2. /\ k \in DOMAIN users /\ UNCHANGED <<removed, tenants>>
      /\ users' = [users EXCEPT ![k].may = may]
  BY <1>a, <1>b DEF UpdatePermissions, Staff, Accounts
<1>3. users[k] \in UserType /\ may \in SUBSET Areas
  <2>1. users[k] \in UserType
    BY <1>1, <1>2 DEF TeamAccounts
  <2>2. users[k].may \in SUBSET Areas
    BY <2>1 DEF UserType
  <2> QED
    BY <1>1, <1>b, <2>1, <2>2
<1>4. [users[k] EXCEPT !.may = may] \in UserType
  BY <1>3 DEF UserType
<1>5. users' \in Seq(UserType) /\ DOMAIN users' = DOMAIN users
  BY <1>1, <1>2, <1>4 DEF TeamAccounts
<1>6. /\ \A i \in DOMAIN users : users'[i].tenantId = users[i].tenantId /\ users'[i].role = users[i].role
      /\ \A i \in DOMAIN users : i # k => users'[i].may = users[i].may
  BY <1>1, <1>2, <1>3, <1>4 DEF UserType, TeamAccounts
<1>7. TeamAccounts'
  BY <1>1, <1>2, <1>5 DEF TeamAccounts
<1>c. PICK n : n = {}
  OBVIOUS
<1>8. \A i \in Accounts' : c.arg.id = i \/ (i \in Accounts /\ users'[i].may = users[i].may)
  BY <1>1, <1>2, <1>5, <1>6 DEF Accounts
<1>9. \A i \in Staff(Org)' : i \in Staff(Org)
  BY <1>2, <1>5, <1>6 DEF Staff, Accounts
<1>10. n = {} /\ (\A e \in n : e \in TeamRows /\ e.id \in DOMAIN users' /\ e.read = writes' /\ e.may = users'[e.id].may)
  BY <1>c
<1> QED
  BY <1>5, <1>7, <1>8, <1>9, <1>10, TeamServed

LEMMA TeamReadsBack ==
    ASSUME TeamInv, NEW c \in teamCalls, ReadBack(c)
    PROVE  TeamInv'
<1>a. PICK got : got = IF c.arg.id \in Accounts THEN Member(c.arg.id, writes) ELSE Nil
  OBVIOUS
<1>b. PICK n : n = IF got = Nil THEN {} ELSE {got}
  OBVIOUS
<1>1. /\ c.op = "switch" /\ c.at = "written" /\ Move(c, "answered", got)
      /\ UNCHANGED <<users, removed, tenants, writes>>
  BY <1>a DEF ReadBack, accounts
<1>2. TeamAccounts /\ writes \in Nat
  BY DEF TeamInv, TeamAccounts
<1>3. TeamAccounts' /\ Accounts' = Accounts /\ Staff(Org)' = Staff(Org)
  BY <1>1, <1>2 DEF TeamAccounts, Accounts, Staff
<1>4. IF c.arg.id \in Accounts
      THEN /\ got \in TeamRows /\ got # Nil /\ got.id = c.arg.id /\ c.arg.id \in DOMAIN users
           /\ got.read = writes /\ got.may = users[c.arg.id].may
      ELSE got = Nil
  BY <1>2, <1>a, MemberIsRow DEF Accounts
<1>5. \A e : e \in n <=> Brings(c.op, got, e)
  BY <1>1, <1>b DEF Brings
<1>6. \A e \in n : e \in TeamRows /\ e.id \in DOMAIN users' /\ e.read = writes' /\ e.may = users'[e.id].may
  BY <1>1, <1>4, <1>b
<1>7. \A i \in Accounts' : (\E e \in n : e.id = i) \/ (i \in Accounts /\ users'[i].may = users[i].may /\ c.arg.id # i)
  BY <1>1, <1>3, <1>4, <1>b
<1>8. \A i \in Staff(Org)' : i \in Staff(Org) /\ c.op # "list"
  BY <1>1, <1>3
<1>9. /\ c.at # "answered" /\ DOMAIN users \subseteq DOMAIN users' /\ writes' = writes
      /\ \A i \in DOMAIN users : users'[i].may = users[i].may
  BY <1>1
<1>10. got # Nil => got.id = c.arg.id
  BY <1>4
<1> QED
  BY <1>1, <1>3, <1>5, <1>6, <1>7, <1>8, <1>9, <1>10, TeamServed

LEMMA TeamRemoves ==
    ASSUME TeamInv, NEW c \in teamCalls, c.op = "remove", c.at = "sent", Remove(Org, c.arg),
           writes' = writes + 1, Move(c, "answered", "removed")
    PROVE  TeamInv'
<1>a. PICK n : n = {}
  OBVIOUS
<1>b. PICK got : got = "removed"
  OBVIOUS
<1>1. TeamAccounts /\ c.arg \in DOMAIN users /\ removed' = removed \union {c.arg} /\ UNCHANGED <<users, tenants>>
  BY DEF TeamInv, Remove, Staff, Accounts
<1>2. TeamAccounts' /\ Accounts' \subseteq Accounts
  BY <1>1 DEF TeamAccounts, Accounts
<1>3. \A i \in Staff(Org)' : i \in Staff(Org)
  BY <1>1 DEF Staff, Accounts
<1>4. \A e : e \in n <=> Brings(c.op, got, e)
  BY <1>a DEF Brings
<1>5. /\ \A e \in n : e \in TeamRows /\ e.id \in DOMAIN users' /\ e.read = writes' /\ e.may = users'[e.id].may
      /\ \A i \in Accounts' : i \in Accounts /\ users'[i].may = users[i].may
  BY <1>1, <1>2, <1>a
<1>6. Move(c, "answered", got) /\ DOMAIN users \subseteq DOMAIN users'
  BY <1>1, <1>b
<1> QED
  BY <1>2, <1>3, <1>4, <1>5, <1>6, TeamServed

LEMMA TeamServes ==
    ASSUME TeamInv, NEW c \in teamCalls,
           ServeList(c) \/ ServeInvite(c) \/ ServeSwitch(c) \/ ReadBack(c) \/ ServeRemove(c)
    PROVE  TeamInv'
<1>1. CASE ServeInvite(c)
  <2>1. c.arg \in Emails
    BY <1>1 DEF ServeInvite, TeamInv, TeamCallsInv, IsTeamCall
  <2> QED
    BY <1>1, <2>1, TeamInvites, TeamRefuses DEF ServeInvite
<1>2. CASE ServeSwitch(c)
  BY <1>2, TeamSwitches, TeamRefuses DEF ServeSwitch
<1>3. CASE ServeRemove(c)
  BY <1>3, TeamRemoves, TeamRefuses DEF ServeRemove
<1> QED
  BY <1>1, <1>2, <1>3, TeamLists, TeamReadsBack

\* A click sends a call that carries nothing yet.
LEMMA TeamClicked ==
    ASSUME TeamInv, NEW op \in {"invite", "switch", "remove"}, NEW arg, Click(op, arg), TeamFlags',
           IF op = "invite" THEN arg \in Emails /\ ~inviting /\ inviting' ELSE inviting' = inviting,
           op = "switch" => arg.area \in Areas /\ \E m \in members : m.id = arg.id
    PROVE  TeamInv'
<1>a. PICK d : d = [op |-> op, arg |-> arg, no |-> teamClicks + 1, at |-> "sent", got |-> Nil]
  OBVIOUS
<1>1. /\ teamCalls' = teamCalls \union {d}
      /\ UNCHANGED <<users, removed, tenants, members, listed, listError, writes, overtaken>>
  BY <1>a DEF Click, accounts
<1>2. d.op = op /\ d.arg = arg /\ d.at = "sent" /\ d.got = Nil
  BY <1>a
<1>3. TeamAccounts /\ RowsInv /\ TeamCallsInv
  BY DEF TeamInv
<1>4. TeamAccounts' /\ Accounts' = Accounts /\ Staff(Org)' = Staff(Org)
  BY <1>1, <1>3 DEF TeamAccounts, Accounts, Staff
<1>5. AllRows' = AllRows
  BY <1>1, <1>2 DEF AllRows, Carries
<1>6. RowsInv'
  BY <1>1, <1>3, <1>5 DEF RowsInv, IsRow
<1>7. TeamCallsInv'
  <2>1. d = [op |-> d.op, arg |-> d.arg, no |-> d.no, at |-> d.at, got |-> d.got]
    BY <1>a
  <2>2. IsTeamCall(d)
    BY <1>2, <2>1 DEF IsTeamCall
  <2>3. \A b \in teamCalls' : IsTeamCall(b)'
    BY <1>1, <1>3, <2>2 DEF TeamCallsInv, IsTeamCall
  <2>4. \A b, e \in teamCalls' : b.op = e.op /\ b.op \in {"list", "invite"} => b = e
    BY <1>1, <1>2, <1>3 DEF TeamCallsInv
  <2>5. inviting' <=> \E b \in teamCalls' : b.op = "invite"
    BY <1>1, <1>2, <1>3 DEF TeamCallsInv
  <2> QED
    BY <2>3, <2>4, <2>5 DEF TeamCallsInv
<1>8. ASSUME ~overtaken' PROVE InOrder'
  <2>1. InOrder
    BY <1>1, <1>8 DEF TeamInv
  <2>2. ASSUME NEW i \in Accounts' PROVE NewestIsTrue(i)'
    <3>1. NewestIsTrue(i) /\ RowsOf(i)' = RowsOf(i) /\ users'[i].may = users[i].may
      BY <1>1, <1>4, <1>5, <2>1 DEF InOrder, RowsOf
    <3>2. Written(i) => Written(i)'
      BY <1>1 DEF Written
    <3> QED
      BY <3>1, <3>2, NewestStays
  <2>3. \A i \in Staff(Org)' : ListAsked' \/ RowsOf(i)' # {}
    BY <1>1, <1>4, <1>5, <2>1 DEF InOrder, ListAsked, RowsOf
  <2>4. OneEach(members)' /\ \A b \in teamCalls' : b.op = "switch" => \E m \in members' : m.id = b.arg.id
    BY <1>1, <1>2, <2>1 DEF InOrder, OneEach
  <2> QED
    BY <2>2, <2>3, <2>4 DEF InOrder
<1>9. ~listed' => members' = {}
  BY <1>1 DEF TeamInv
<1> QED
  BY <1>4, <1>6, <1>7, <1>8, <1>9 DEF TeamInv

LEMMA TeamClicks ==
    ASSUME TeamInv,
           \/ \E e \in Emails : ClickInvite(e)
           \/ \E m \in StaffRows : ClickRemove(m) \/ \E a \in Areas : ClickSwitch(m, a)
    PROVE  TeamInv'
<1>1. TeamFlags
  BY DEF TeamInv
<1>2. CASE \E e \in Emails : ClickInvite(e)
  <2>1. PICK e \in Emails : ClickInvite(e)
    BY <1>2
  <2>2. Click("invite", e) /\ ~inviting /\ inviting' /\ UNCHANGED <<pending, listed, listError, overtaken>>
    BY <2>1, Zenon DEF ClickInvite, Click
  <2>3. inviting' \in BOOLEAN
    BY <2>1, Zenon DEF ClickInvite
  <2>4. TeamFlags'
    BY <1>1, <2>2, <2>3 DEF TeamFlags
  <2> QED
    BY <2>2, <2>4, TeamClicked
<1>3. CASE \E m \in StaffRows : ClickRemove(m)
  <2>1. PICK m \in StaffRows : ClickRemove(m)
    BY <1>3
  <2>2. Click("remove", m.id) /\ UNCHANGED <<inviting, pending, listed, listError, overtaken>>
    BY <2>1 DEF ClickRemove, Click
  <2>3. TeamFlags'
    BY <1>1, <2>2 DEF TeamFlags
  <2> QED
    BY <2>2, <2>3, TeamClicked
<1>4. CASE \E m \in StaffRows : \E a \in Areas : ClickSwitch(m, a)
  <2>1. PICK m \in StaffRows, a \in Areas : ClickSwitch(m, a)
    BY <1>4
  <2>a. PICK arg : arg = [id |-> m.id, area |-> a, value |-> a \notin m.may]
    OBVIOUS
  <2>2. /\ Click("switch", arg) /\ pending' = [pending EXCEPT ![m.id] = a]
        /\ UNCHANGED <<inviting, listed, listError, overtaken>>
    BY <2>1, <2>a DEF ClickSwitch, Click
  <2>3. arg.area \in Areas /\ m \in members /\ m.id = arg.id
    BY <2>1, <2>a DEF StaffRows
  <2>4. TeamFlags'
    BY <1>1, <2>2 DEF TeamFlags
  <2> QED
    BY <2>2, <2>3, <2>4, TeamClicked
<1> QED
  BY <1>2, <1>3, <1>4

LEMMA TeamLoses ==
    ASSUME TeamInv, NEW c \in teamCalls, LoseAnswer(c)
    PROVE  TeamInv'
<1>a. PICK d : d = [c EXCEPT !.got = Nil]
  OBVIOUS
<1>1. /\ teamCalls' = (teamCalls \ {c}) \union {d} /\ overtaken'
      /\ UNCHANGED <<users, removed, tenants, members, listed, listError, inviting, pending, writes>>
  BY <1>a, Zenon DEF LoseAnswer, accounts, page
<1>2. IsTeamCall(c) /\ TeamAccounts /\ RowsInv /\ TeamCallsInv /\ TeamFlags
  BY DEF TeamInv, TeamCallsInv
<1>3. d = [op |-> c.op, arg |-> c.arg, no |-> c.no, at |-> c.at, got |-> Nil]
  <2>1. PICK o, v, n, t, g : c = [op |-> o, arg |-> v, no |-> n, at |-> t, got |-> g]
    BY <1>2 DEF IsTeamCall
  <2> QED
    BY <1>a, <2>1
<1>4. d.op = c.op /\ d.arg = c.arg /\ d.at = c.at /\ d.got = Nil
  BY <1>3
<1>5. IsTeamCall(d)
  <2>1. d = [op |-> d.op, arg |-> d.arg, no |-> d.no, at |-> d.at, got |-> d.got]
    BY <1>3
  <2> QED
    BY <1>2, <1>4, <2>1 DEF IsTeamCall
<1>6. TeamCallsInv'
  <2>3. \A b \in teamCalls' : IsTeamCall(b)'
    BY <1>1, <1>2, <1>5 DEF TeamCallsInv, IsTeamCall
  <2> QED
    BY <1>1, <1>2, <1>4, <2>3 DEF TeamCallsInv
<1>7. TeamAccounts'
  BY <1>1, <1>2 DEF TeamAccounts
<1>8. AllRows' \subseteq AllRows
  BY <1>1, <1>4 DEF AllRows, Carries, Brings
<1>9. RowsInv'
  BY <1>1, <1>2, <1>8 DEF RowsInv, IsRow
<1>10. overtaken' \in BOOLEAN
  BY Zenon DEF LoseAnswer
<1>11. TeamFlags' /\ (~listed' => members' = {})
  BY <1>1, <1>2, <1>10 DEF TeamFlags, TeamInv
<1> QED
  BY <1>1, <1>6, <1>7, <1>9, <1>11 DEF TeamInv

\* An answer arrives in order: every row there was is shown or on its way
\* still, or a newer one of the same account is.
LEMMA TeamArrived ==
    ASSUME TeamInv, NEW c \in teamCalls, Arrive(c), TeamFlags',
           IF c.op = "invite" THEN ~inviting' ELSE inviting' = inviting,
           members' \subseteq members \union {e \in TeamRows : Carries(c, e)},
           ~listed' => members' = {},
           ~overtaken' =>
               /\ ~overtaken /\ OneEach(members)'
               /\ \A m \in members : \E e \in members' : e.id = m.id /\ m.read <= e.read
               /\ \A m \in TeamRows : Carries(c, m) => m \in members'
    PROVE  TeamInv'
<1>1. /\ teamCalls' = teamCalls \ {c} /\ c.at = "answered"
      /\ UNCHANGED <<users, removed, tenants, writes>>
  BY DEF Arrive, accounts
<1>2. TeamAccounts /\ RowsInv /\ TeamCallsInv
  BY DEF TeamInv
<1>3. TeamAccounts' /\ Accounts' = Accounts /\ Staff(Org)' = Staff(Org)
  BY <1>1, <1>2 DEF TeamAccounts, Accounts, Staff
<1>4. TeamCallsInv'
  BY <1>1, <1>2 DEF TeamCallsInv, IsTeamCall
<1>5. AllRows' \subseteq AllRows
  BY <1>1 DEF AllRows
<1>6. RowsInv'
  BY <1>1, <1>2, <1>5 DEF RowsInv, IsRow
<1>7. ASSUME ~overtaken' PROVE InOrder'
  <2>1. InOrder
    BY <1>7 DEF TeamInv
  <2>2. ASSUME NEW e \in AllRows PROVE \E g \in AllRows' : g.id = e.id /\ e.read <= g.read
    <3>1. e.read \in Nat
      BY <1>2 DEF RowsInv, IsRow, TeamRows
    <3>2. CASE e \in members
      BY <1>7, <3>2 DEF AllRows
    <3>3. CASE e \in TeamRows /\ \E d \in teamCalls : Carries(d, e)
      <4>1. e \in AllRows'
        BY <1>1, <1>7, <3>3 DEF AllRows
      <4> QED
        BY <3>1, <4>1
    <3> QED
      BY <3>2, <3>3 DEF AllRows
  <2>3. ASSUME NEW i \in Accounts' PROVE NewestIsTrue(i)'
    <3>1. NewestIsTrue(i)
      BY <1>3, <2>1 DEF InOrder
    <3>2. CASE RowsOf(i) = {}
      BY <1>5, <3>2 DEF RowsOf, NewestIsTrue
    <3>3. CASE Written(i)
      BY <1>1, <3>3 DEF Written, NewestIsTrue
    <3>4. ASSUME NEW f \in RowsOf(i), f.may = users[i].may, \A e \in RowsOf(i) : e.read <= f.read
          PROVE  NewestIsTrue(i)'
      <4>1. f \in AllRows /\ f.id = i
        BY DEF RowsOf
      <4>2. PICK g \in AllRows' : g.id = i /\ f.read <= g.read
        BY <2>2, <4>1
      <4>3. g \in AllRows /\ g \in RowsOf(i) /\ g \in RowsOf(i)'
        BY <1>5, <4>2 DEF RowsOf
      <4>4. f.read \in Nat /\ g.read \in Nat
        BY <1>2, <4>1, <4>3 DEF RowsInv, IsRow, TeamRows
      <4>5. g.read = f.read
        BY <3>4, <4>2, <4>3, <4>4
      <4>6. g.may = f.may
        BY <1>2, <4>1, <4>2, <4>3, <4>5 DEF RowsInv
      <4>7. \A e \in RowsOf(i)' : e.read <= g.read
        BY <1>5, <3>4, <4>5 DEF RowsOf
      <4>8. g.may = users'[i].may
        BY <1>1, <3>4, <4>6
      <4> QED
        BY <4>3, <4>7, <4>8 DEF NewestIsTrue
    <3> QED
      BY <3>1, <3>2, <3>3, <3>4 DEF NewestIsTrue
  <2>4. ASSUME NEW i \in Staff(Org)' PROVE ListAsked' \/ RowsOf(i)' # {}
    <3>1. ListAsked \/ RowsOf(i) # {}
      BY <1>3, <2>1 DEF InOrder
    <3>2. ListAsked => ListAsked'
      BY <1>1 DEF ListAsked
    <3> QED
      BY <2>2, <3>1, <3>2 DEF RowsOf
  <2>5. \A b \in teamCalls' : b.op = "switch" => \E m \in members' : m.id = b.arg.id
    BY <1>1, <1>7, <2>1 DEF InOrder
  <2> QED
    BY <1>7, <2>3, <2>4, <2>5 DEF InOrder
<1> QED
  BY <1>3, <1>4, <1>6, <1>7 DEF TeamInv

LEMMA TeamListArrives ==
    ASSUME TeamInv, NEW c \in teamCalls, ListArrives(c)
    PROVE  TeamInv'
<1>1. c.op = "list" /\ Arrive(c) /\ c.at = "answered" /\ teamCalls' = teamCalls \ {c} /\ UNCHANGED <<inviting, pending>>
  BY DEF ListArrives, Arrive
<1>2. IsTeamCall(c) /\ TeamFlags /\ (~listed => members = {})
  BY DEF TeamInv, TeamCallsInv
<1>3. CASE c.got = Nil
  <2>1. listError' /\ UNCHANGED <<members, listed, overtaken>>
    BY <1>3, Zenon DEF ListArrives
  <2>2. listError' \in BOOLEAN
    BY <1>3, Zenon DEF ListArrives
  <2>3. TeamFlags'
    BY <1>1, <1>2, <2>1, <2>2 DEF TeamFlags
  <2>4. ~listed' => members' = {}
    BY <1>2, <2>1
  <2>5. \A m \in members : m.read \in Nat
    BY DEF TeamInv, RowsInv, AllRows, IsRow, TeamRows
  <2>6. ~overtaken' =>
               /\ ~overtaken /\ OneEach(members)'
               /\ \A m \in members : \E e \in members' : e.id = m.id /\ m.read <= e.read
               /\ \A m \in TeamRows : Carries(c, m) => m \in members'
    BY <1>3, <2>1, <2>5 DEF TeamInv, InOrder, OneEach, Carries, Brings
  <2> QED
    BY <1>1, <2>1, <2>3, <2>4, <2>6, TeamArrived
<1>4. CASE c.got # Nil
  <2>1. members' = c.got.rows /\ listed' /\ overtaken' = (overtaken \/ listed) /\ UNCHANGED listError
    BY <1>4, Zenon DEF ListArrives
  <2>2. listed' \in BOOLEAN /\ overtaken' \in BOOLEAN
    BY <1>4, Zenon DEF ListArrives
  <2>3. TeamFlags'
    BY <1>1, <1>2, <2>1, <2>2 DEF TeamFlags
  <2>4. c.got.rows \in SUBSET TeamRows /\ OneEach(c.got.rows)
    BY <1>1, <1>2, <1>4 DEF IsTeamCall
  <2>5. \A e : Carries(c, e) <=> e \in c.got.rows
    BY <1>1, <1>4 DEF Carries, Brings
  <2>6. members' \subseteq members \union {e \in TeamRows : Carries(c, e)}
    BY <2>1, <2>4, <2>5
  <2>7. ~overtaken' =>
               /\ ~overtaken /\ OneEach(members)'
               /\ \A m \in members : \E e \in members' : e.id = m.id /\ m.read <= e.read
               /\ \A m \in TeamRows : Carries(c, m) => m \in members'
    BY <1>2, <2>1, <2>4, <2>5 DEF OneEach
  <2> QED
    BY <1>1, <2>1, <2>3, <2>6, <2>7, TeamArrived
<1> QED
  BY <1>3, <1>4

LEMMA TeamInviteArrives ==
    ASSUME TeamInv, NEW c \in teamCalls, InviteArrives(c)
    PROVE  TeamInv'
<1>1. /\ c.op = "invite" /\ Arrive(c) /\ c.at = "answered" /\ ~inviting'
      /\ UNCHANGED <<listError, pending>>
  BY DEF InviteArrives, Arrive
<1>2. IsTeamCall(c) /\ TeamFlags /\ (~listed => members = {})
  BY DEF TeamInv, TeamCallsInv
<1>3. inviting' \in BOOLEAN
  BY Zenon DEF InviteArrives
<1>a. \A m \in members : m.read \in Nat
  BY DEF TeamInv, RowsInv, AllRows, IsRow, TeamRows
<1>4. CASE c.got = Nil
  <2>1. UNCHANGED <<members, listed, overtaken>>
    BY <1>4 DEF InviteArrives
  <2>2. TeamFlags'
    BY <1>1, <1>2, <1>3, <2>1 DEF TeamFlags
  <2>3. ~overtaken' =>
               /\ ~overtaken /\ OneEach(members)'
               /\ \A m \in members : \E e \in members' : e.id = m.id /\ m.read <= e.read
               /\ \A m \in TeamRows : Carries(c, m) => m \in members'
    BY <1>4, <1>a, <2>1 DEF TeamInv, InOrder, OneEach, Carries, Brings
  <2> QED
    BY <1>1, <1>2, <2>1, <2>2, <2>3, TeamArrived
<1>5. CASE c.got # Nil
  <2>1. /\ members' = members \union {c.got} /\ listed'
        /\ overtaken' = (overtaken \/ \E m \in members : m.id = c.got.id)
    BY <1>5, Zenon DEF InviteArrives
  <2>2. listed' \in BOOLEAN /\ overtaken' \in BOOLEAN
    BY <1>5, Zenon DEF InviteArrives
  <2>3. TeamFlags'
    BY <1>1, <1>2, <1>3, <2>2 DEF TeamFlags
  <2>4. c.got \in TeamRows
    BY <1>1, <1>2, <1>5 DEF IsTeamCall
  <2>5. \A e : Carries(c, e) <=> e = c.got
    BY <1>1, <1>5 DEF Carries, Brings
  <2>6. members' \subseteq members \union {e \in TeamRows : Carries(c, e)}
    BY <2>1, <2>4, <2>5
  <2>7. ~overtaken' => ~overtaken /\ OneEach(members) /\ ~\E m \in members : m.id = c.got.id
    <3>1. ~overtaken' => ~overtaken /\ ~\E m \in members : m.id = c.got.id
      BY <2>1, Zenon
    <3> QED
      BY <3>1 DEF TeamInv, InOrder
  <2>8. ~overtaken' =>
               /\ ~overtaken /\ OneEach(members)'
               /\ \A m \in members : \E e \in members' : e.id = m.id /\ m.read <= e.read
               /\ \A m \in TeamRows : Carries(c, m) => m \in members'
    BY <1>a, <2>1, <2>5, <2>7 DEF OneEach
  <2> QED
    BY <1>1, <2>1, <2>3, <2>6, <2>8, TeamArrived
<1> QED
  BY <1>4, <1>5

LEMMA TeamSwitchArrives ==
    ASSUME TeamInv, NEW c \in teamCalls, SwitchArrives(c)
    PROVE  TeamInv'
<1>1. /\ c.op = "switch" /\ Arrive(c) /\ c.at = "answered"
      /\ pending' = [pending EXCEPT ![c.arg.id] = Nil]
      /\ UNCHANGED <<listed, listError, inviting>>
  BY DEF SwitchArrives, Arrive
<1>2. IsTeamCall(c) /\ TeamFlags /\ (~listed => members = {})
  BY DEF TeamInv, TeamCallsInv
<1>3. pending' \in [1 .. MaxAccounts -> Areas \union {Nil}]
  BY <1>1, <1>2 DEF TeamFlags
<1>a. \A m \in members : m.read \in Nat
  BY DEF TeamInv, RowsInv, AllRows, IsRow, TeamRows
<1>4. CASE c.got = Nil
  <2>1. UNCHANGED <<members, overtaken>>
    BY <1>4 DEF SwitchArrives
  <2>2. TeamFlags'
    BY <1>1, <1>2, <1>3, <2>1 DEF TeamFlags
  <2>3. ~overtaken' =>
               /\ ~overtaken /\ OneEach(members)'
               /\ \A m \in members : \E e \in members' : e.id = m.id /\ m.read <= e.read
               /\ \A m \in TeamRows : Carries(c, m) => m \in members'
    BY <1>4, <1>a, <2>1 DEF TeamInv, InOrder, OneEach, Carries, Brings
  <2> QED
    BY <1>1, <1>2, <2>1, <2>2, <2>3, TeamArrived
<1>5. CASE c.got # Nil
  <2>1. /\ members' = {IF m.id = c.got.id THEN c.got ELSE m : m \in members}
        /\ overtaken' = (overtaken \/ \E m \in members : m.id = c.got.id /\ m.read > c.got.read)
    BY <1>5, Zenon DEF SwitchArrives
  <2>2. overtaken' \in BOOLEAN
    BY <1>5, Zenon DEF SwitchArrives
  <2>3. TeamFlags'
    BY <1>1, <1>2, <1>3, <2>2 DEF TeamFlags
  <2>4. c.got \in TeamRows /\ c.got.read \in Nat /\ c.got.id = c.arg.id
    BY <1>1, <1>2, <1>5 DEF IsTeamCall, TeamRows
  <2>5. \A e : Carries(c, e) <=> e = c.got
    BY <1>1, <1>5 DEF Carries, Brings
  <2>6. members' \subseteq members \union {e \in TeamRows : Carries(c, e)}
    BY <2>1, <2>4, <2>5
  <2>7. ASSUME ~overtaken'
        PROVE  /\ ~overtaken /\ OneEach(members)
               /\ \A m \in members : m.id = c.got.id => m.read <= c.got.read
               /\ \E m \in members : m.id = c.got.id
    <3>1. ~overtaken /\ ~\E m \in members : m.id = c.got.id /\ m.read > c.got.read
      BY <2>1, <2>7, Zenon
    <3>2. OneEach(members) /\ \E m \in members : m.id = c.got.id
      BY <1>1, <2>4, <3>1 DEF TeamInv, InOrder
    <3> QED
      BY <1>a, <2>4, <3>1, <3>2
  <2>8. \A e : e \in members' <=> \/ e = c.got /\ \E m \in members : m.id = c.got.id
                                  \/ e \in members /\ e.id # c.got.id
    BY <2>1
  <2>9. ASSUME ~overtaken'
        PROVE  /\ ~overtaken /\ OneEach(members)'
               /\ \A m \in members : \E e \in members' : e.id = m.id /\ m.read <= e.read
               /\ \A m \in TeamRows : Carries(c, m) => m \in members'
    <3>1. c.got \in members'
      BY <2>7, <2>8, <2>9
    <3>2. OneEach(members)'
      BY <2>7, <2>8, <2>9 DEF OneEach
    <3>3. ASSUME NEW m \in members PROVE \E e \in members' : e.id = m.id /\ m.read <= e.read
      <4>1. CASE m.id = c.got.id
        BY <2>7, <2>9, <3>1, <4>1
      <4>2. CASE m.id # c.got.id
        BY <1>a, <2>8, <4>2
      <4> QED
        BY <4>1, <4>2
    <3> QED
      BY <2>5, <2>7, <2>9, <3>1, <3>2, <3>3
  <2>10. ~listed' => members' = {}
    BY <1>1, <1>2, <2>1
  <2> QED
    BY <1>1, <2>3, <2>6, <2>9, <2>10, TeamArrived
<1> QED
  BY <1>4, <1>5

LEMMA TeamRemoveArrives ==
    ASSUME TeamInv, NEW c \in teamCalls, RemoveArrives(c)
    PROVE  TeamInv'
<1>1. /\ c.op = "remove" /\ Arrive(c) /\ listError'
      /\ UNCHANGED <<members, listed, inviting, pending, overtaken>>
  BY Zenon DEF RemoveArrives
<1>2. TeamFlags /\ (~listed => members = {})
  BY DEF TeamInv
<1>3. listError' \in BOOLEAN
  BY Zenon DEF RemoveArrives
<1>4. TeamFlags' /\ (~listed' => members' = {})
  BY <1>1, <1>2, <1>3 DEF TeamFlags
<1>5. \A m \in members : m.read \in Nat
  BY DEF TeamInv, RowsInv, AllRows, IsRow, TeamRows
<1>6. ~overtaken' =>
               /\ ~overtaken /\ OneEach(members)'
               /\ \A m \in members : \E e \in members' : e.id = m.id /\ m.read <= e.read
               /\ \A m \in TeamRows : Carries(c, m) => m \in members'
  BY <1>1, <1>5 DEF TeamInv, InOrder, OneEach, Carries, Brings
<1> QED
  BY <1>1, <1>4, <1>6, TeamArrived

LEMMA TeamNextKeeps == TeamInv /\ [TeamNext]_teamVars => TeamInv'
<1> SUFFICES ASSUME TeamInv, [TeamNext]_teamVars PROVE TeamInv'
  OBVIOUS
<1>1. CASE \/ \E e \in Emails : ClickInvite(e)
           \/ \E m \in StaffRows : ClickRemove(m) \/ \E a \in Areas : ClickSwitch(m, a)
  BY <1>1, TeamClicks
<1>2. CASE \E c \in teamCalls :
            ServeList(c) \/ ServeInvite(c) \/ ServeSwitch(c) \/ ReadBack(c) \/ ServeRemove(c)
  BY <1>2, TeamServes
<1>3. CASE \E c \in teamCalls : LoseAnswer(c)
  BY <1>3, TeamLoses
<1>4. CASE \E c \in teamCalls : ListArrives(c) \/ InviteArrives(c) \/ SwitchArrives(c) \/ RemoveArrives(c)
  BY <1>4, TeamListArrives, TeamInviteArrives, TeamSwitchArrives, TeamRemoveArrives
<1>5. CASE UNCHANGED teamVars
  <2>1. UNCHANGED <<users, removed, tenants, members, listed, listError, inviting, pending, teamCalls, writes, overtaken>>
    BY <1>5 DEF teamVars, accounts, page
  <2>2. TeamFlags' /\ TeamAccounts' /\ TeamCallsInv' /\ AllRows' = AllRows
    BY <2>1 DEF TeamInv, TeamFlags, TeamAccounts, TeamCallsInv, AllRows
  <2>3. RowsInv'
    BY <2>1, <2>2 DEF TeamInv, RowsInv, IsRow
  <2>4. \A i : NewestIsTrue(i) => NewestIsTrue(i)'
    <3> SUFFICES ASSUME NEW i, NewestIsTrue(i) PROVE NewestIsTrue(i)'
      OBVIOUS
    <3>1. RowsOf(i)' = RowsOf(i) /\ users'[i].may = users[i].may /\ (Written(i) => Written(i)')
      BY <2>1, <2>2 DEF RowsOf, Written
    <3> QED
      BY <3>1, NewestStays
  <2>5. InOrder => InOrder'
    <3>1. Accounts' = Accounts /\ Staff(Org)' = Staff(Org) /\ (ListAsked => ListAsked')
      BY <2>1 DEF Accounts, Staff, ListAsked
    <3>2. OneEach(members) => OneEach(members)'
      BY <2>1 DEF OneEach
    <3>3. \A i : RowsOf(i)' = RowsOf(i)
      BY <2>2 DEF RowsOf
    <3> QED
      BY <2>1, <2>4, <3>1, <3>2, <3>3 DEF InOrder
  <2> QED
    BY <2>1, <2>2, <2>3, <2>5 DEF TeamInv
<1> QED
  BY <1>1, <1>2, <1>3, <1>4, <1>5 DEF TeamNext

----------------------------------------------------------------------------
(***************************************************************************)
(* The tab: each page keeps its own invariant, and no page touches what    *)
(* another shows.                                                          *)
(***************************************************************************)
DashInv ==
    /\ tab \in Tabs
    /\ GateInv /\ TeamInv /\ OrgInv /\ WizInv /\ EvInv /\ CrInv /\ CeInv

\* A step of the tab is a step of one page, and of each other page none.
LEMMA OnePageMoves ==
    ASSUME [Next]_vars
    PROVE  /\ UNCHANGED tab
           /\ [GateNext]_gateVars /\ [TeamNext]_teamVars /\ [OrgNext]_orgVars /\ [WizNext]_wizVars
           /\ [EvNext]_evVars /\ [CrNext]_crVars /\ [CeNext]_ceVars
<1>1. CASE UNCHANGED vars
  BY <1>1 DEF vars
<1>2. CASE GateStep \/ TeamStep \/ TenantStep \/ WizardStep
  BY <1>2 DEF GateStep, TeamStep, TenantStep, WizardStep
<1>3. CASE EventStep \/ CredentialStep \/ CertificateStep
  BY <1>3 DEF EventStep, CredentialStep, CertificateStep
<1> QED
  BY <1>1, <1>2, <1>3 DEF Next

LEMMA DashHolds == Spec => []DashInv
<1>1. Init => DashInv
  BY GateInitInv, TeamInitInv, OrgInitInv, WizInitInv, EvInitInv, CrInitInv, CeInitInv
     DEF Init, DashInv
<1>2. ASSUME DashInv, [Next]_vars PROVE DashInv'
  <2>1. tab' \in Tabs
    BY <1>2, OnePageMoves DEF DashInv
  <2>2. GateInv' /\ TeamInv' /\ OrgInv' /\ WizInv'
    BY <1>2, OnePageMoves, GateNextKeeps, TeamNextKeeps, OrgNextKeeps, WizNextKeeps DEF DashInv
  <2>3. EvInv' /\ CrInv' /\ CeInv'
    BY <1>2, OnePageMoves, EvNextKeeps, CrNextKeeps, CeNextKeeps DEF DashInv
  <2> QED
    BY <2>1, <2>2, <2>3 DEF DashInv
<1> QED
  BY <1>1, <1>2, PTL DEF Spec

\* Every page's state is well shaped, whichever page is open.
THEOREM TypeCorrect == Spec => []TypeOK
<1>1. DashInv => TypeOK
  BY GateInvIsEnough, TeamInvIsEnough, OrgInvIsEnough, WizInvIsEnough,
     EvInvIsEnough, CrInvIsEnough, CeInvIsEnough
     DEF DashInv, TypeOK
<1> QED
  BY <1>1, DashHolds, PTL

\* A save of the organization's form writes no field its owner did not touch,
\* however old the profile it is compared with has become (settings page.tsx:432-433).
THEOREM SaveSendsTheTyped == Spec => []OnlyTypedIsSent
<1>1. DashInv => OnlyTypedIsSent
  BY OrgInvIsEnough DEF DashInv
<1> QED
  BY <1>1, DashHolds, PTL

\* With every call answered, none lost and none overtaken, each switch of the
\* team stands as PermissionGuard will find it, no member is missing, and both
\* sections of the organization show the tenant's row (settings page.tsx:105-109,
\* :168-169, :420-424).
THEOREM SettledSettingsAreTrue == Spec => []SettingsShowWhatIsStored
<1>1. DashInv => SettingsShowWhatIsStored
  BY TeamInvIsEnough, OrgInvIsEnough DEF DashInv, SettingsShowWhatIsStored
<1> QED
  BY <1>1, DashHolds, PTL

\* Going back and forth in the wizard, nothing that a step refuses reaches the
\* API (new/page.tsx:24-25).
THEOREM WizardSendsTheReviewed == Spec => []SentIsReviewed
<1>1. DashInv => SentIsReviewed
  BY WizInvIsEnough DEF DashInv
<1> QED
  BY <1>1, DashHolds, PTL

\* One wizard makes one event, and one more for each answer that was lost.
THEOREM WizardMakesOneEvent == Spec => []OneEventEach
<1>1. DashInv => OneEventEach
  BY WizInvIsEnough DEF DashInv
<1> QED
  BY <1>1, DashHolds, PTL

\* When nothing is under way on the check-in page and its list is the answer of
\* the last search asked, that list is of the query and the day on screen; the
\* repeat of a search after a click is excepted.
THEOREM ListIsOfTheScreen == Spec => []SearchCatchesUp
<1>1. DashInv => SearchCatchesUp
  BY GateInvIsEnough DEF DashInv
<1> QED
  BY <1>1, DashHolds, PTL

\* A camera is open only for the run of the scanner's effect on screen, unless
\* the permission was given after that run had been cancelled.
THEOREM CameraIsReleased == Spec => []CameraReleased
<1>1. DashInv => CameraReleased
  BY GateInvIsEnough DEF DashInv
<1> QED
  BY <1>1, DashHolds, PTL

\* A code is submitted for the day on screen when its frame was drawn, unless its
\* run was cancelled while the video was starting.
THEOREM ScansAreForTheDay == Spec => []ScannedForDayShown
<1>1. DashInv => ScannedForDayShown
  BY GateInvIsEnough DEF DashInv
<1> QED
  BY <1>1, DashHolds, PTL

\* With nothing lost, overtaken or overlapped, the event's page shows the title,
\* the status and the guests stored (events/[id]/page.tsx:103, :117, :442-446),
\* and the credential's canvas the artwork of its draft once its download has
\* settled (credential-editor.tsx:55-72).
THEOREM EventPagesAreTrue == Spec => []EventShownIsTrue
<1>1. DashInv => EventShownIsTrue
  BY EvInvIsEnough, CrInvIsEnough DEF DashInv, EventShownIsTrue
<1> QED
  BY <1>1, DashHolds, PTL

\* A row of the certificates' page marked `Enviado' has its certificate, a waiting
\* job or a dropped one (certificate/page.tsx:106-107), however sends, reloads,
\* sweeps and the worker interleave.
THEOREM SentIsTrue == Spec => []ShownSentIsOnItsWay
<1>1. DashInv => ShownSentIsOnItsWay
  BY CeInvIsEnough DEF DashInv
<1> QED
  BY <1>1, DashHolds, PTL

\* `Salvo' on the event's, the credential's and the certificates' page is said of
\* what is stored, unless it was edited after it was sent (events/[id]/page.tsx:315,
\* credential-editor.tsx:263, certificate/page.tsx:225).
THEOREM SavedIsTrue == Spec => []SavedIsStored
<1>1. DashInv => SavedIsStored
  BY EvInvIsEnough, CrInvIsEnough, CeInvIsEnough DEF DashInv, SavedIsStored
<1> QED
  BY <1>1, DashHolds, PTL
=============================================================================
