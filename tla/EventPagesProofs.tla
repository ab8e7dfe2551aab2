-------------------------- MODULE EventPagesProofs --------------------------
(* Theorems about the pages of one event, for any bounds and any attendees,   *)
(* texts and files: the check-in page, the event's page, the credential's and *)
(* the certificates'.                                                         *)
EXTENDS GatePage, EventPage, CredentialPage, CertificatePage, FiniteSetTheorems, TLAPS


USE DEF screen, search, scanner

----------------------------------------------------------------------------
(***************************************************************************)
(* GatePage: the inductive invariant, by the parts of the page             *)
(***************************************************************************)
PageInv ==
    /\ load \in {"loading", "shown", "failed"}
    /\ day \in Days \union {Nil} /\ (load = "shown" <=> day # Nil)
    /\ mode \in {"qr", "search"} /\ query \in Queries
    /\ picks \in 0 .. MaxPicks

\* The search last asked is for what is on screen, once the timer has run out.
IsForScreen(s) ==
    /\ s.no <= asked
    /\ load = "shown" /\ ~timer /\ s.no = asked /\ s.by = "typing"
           => s.day = day /\ s.query = query

SearchInv ==
    /\ timer \in BOOLEAN /\ searchError \in BOOLEAN
    /\ asked \in 0 .. MaxSearches
    /\ flying \subseteq Searches /\ list \in Searches \union {Nil}
    /\ marks \subseteq [day : Days, query : Queries]
    /\ \A s \in flying : IsForScreen(s)
    /\ list # Nil => IsForScreen(list)

RunStates == [day : Days \union {Nil}, mount : 0 .. MaxStarts,
              at : {"none", "asking", "starting", "decoding", "late", "failed", "ended"},
              cancelled : BOOLEAN, stream : BOOLEAN]

\* A frame shows the day its run is for, unless the run's interval outlived it.
FrameIsTrue(f) ==
    /\ f.run <= started
    /\ f.shown # run[f.run].day => run[f.run].cancelled /\ run[f.run].at = "decoding"

ScannerInv ==
    /\ scanError \in BOOLEAN
    /\ started \in 0 .. MaxStarts /\ mounted \in 0 .. started
    /\ started > 0 => load = "shown"
    /\ run \in [Runs -> RunStates]
    /\ frames \subseteq [run : Runs, shown : Days]
    /\ scans \subseteq [run : Runs, shown : Days]
    /\ \A g \in Runs :
        /\ Current(g) <=> g = started /\ Scanning(mode)
        /\ g > started => run[g] = Idle
        /\ Current(g) => run[g].day = day
        /\ run[g].stream => Current(g) \/ run[g].at = "late"
    /\ \A f \in frames \union scans : FrameIsTrue(f)

GateInv == PageInv /\ SearchInv /\ ScannerInv

LEMMA GateBoundsAreNat ==
    /\ MaxPicks \in Nat /\ MaxSearches \in Nat /\ MaxStarts \in Nat
    /\ MaxFrames \in Nat /\ MaxMarks \in Nat
  BY GateBounds

LEMMA GateInvIsEnough ==
    GateInv => GateTypeOK /\ SearchCatchesUp /\ CameraReleased /\ ScannedForDayShown
<1> SUFFICES ASSUME GateInv PROVE GateTypeOK /\ SearchCatchesUp /\ CameraReleased /\ ScannedForDayShown
  OBVIOUS
<1>1. mounted \in 0 .. MaxStarts
  BY GateBoundsAreNat DEF GateInv, ScannerInv
<1>2. GateTypeOK
  BY <1>1 DEF GateInv, PageInv, SearchInv, ScannerInv, RunStates, GateTypeOK
<1>3. SearchCatchesUp
  BY DEF GateInv, SearchInv, IsForScreen, SearchCatchesUp
<1>4. CameraReleased /\ ScannedForDayShown
  BY DEF GateInv, ScannerInv, FrameIsTrue, CameraReleased, ScannedForDayShown
<1> QED
  BY <1>2, <1>3, <1>4

----------------------------------------------------------------------------
(***************************************************************************)
(* What leaves a part alone, or re-arms it                                 *)
(***************************************************************************)
LEMMA SearchQuiet ==
    ASSUME SearchInv, UNCHANGED <<load, day, query, search, marks>>
    PROVE  SearchInv'
  BY DEF SearchInv, IsForScreen

LEMMA SearchRearmed ==
    ASSUME SearchInv, timer', UNCHANGED <<asked, flying, list, searchError, marks>>, timer' \in BOOLEAN
    PROVE  SearchInv'
  BY DEF SearchInv, IsForScreen

LEMMA ScannerQuiet ==
    ASSUME ScannerInv, UNCHANGED <<load, mode, day, scanner, frames, scans>>
    PROVE  ScannerInv'
  BY DEF ScannerInv, FrameIsTrue, Current, Scanning

\* Nothing scans, and nothing will: the day is of no matter.
LEMMA ScannerOff ==
    ASSUME ScannerInv, ~Scanning(mode), ~Scanning(mode)', load # "shown" \/ load' = "shown",
           UNCHANGED <<scanner, frames, scans>>
    PROVE  ScannerInv'
  BY DEF ScannerInv, FrameIsTrue, Current

\* A search of the day and query given, asked by a timer that runs out or after
\* a click.
LEMMA Searched ==
    ASSUME SearchInv, NEW d \in Days, NEW q \in Queries, NEW by \in {"typing", "mark"},
           RunSearch(d, q, by), timer' \in BOOLEAN, marks' \subseteq marks,
           UNCHANGED <<load, day, query, list>>,
           by = "typing" => d = day /\ q = query,
           by = "mark" => UNCHANGED timer
    PROVE  SearchInv'
<1> PICK s : s = [no |-> asked + 1, day |-> d, query |-> q, by |-> by]
  OBVIOUS
<1>1. /\ asked < MaxSearches /\ asked' = asked + 1 /\ searchError' = FALSE
      /\ flying' = flying \union {s}
  BY NilIsNoDay DEF RunSearch
<1>2. s \in Searches /\ asked' \in 0 .. MaxSearches
  BY <1>1, GateBoundsAreNat DEF SearchInv, Searches
<1>3. IsForScreen(s)'
  BY <1>1 DEF IsForScreen, SearchInv
<1>4. ASSUME NEW r \in Searches, IsForScreen(r) PROVE IsForScreen(r)'
  <2>1. r.no \in Int /\ asked \in Int /\ r.no <= asked
    BY <1>4 DEF IsForScreen, Searches, SearchInv
  <2> QED
    BY <1>1, <2>1 DEF IsForScreen
<1> QED
  BY <1>1, <1>2, <1>3, <1>4 DEF SearchInv

----------------------------------------------------------------------------
(***************************************************************************)
(* The runs of the scanner's effect                                        *)
(***************************************************************************)

\* The cleanup cancels the current run, closes its camera and its interval, and
\* leaves every other run alone.
LEMMA CleanedRuns ==
    ASSUME ScannerInv
    PROVE  /\ CleanedUp \in [Runs -> RunStates]
           /\ \A g \in Runs :
               /\ ~Current(g) => CleanedUp[g] = run[g]
               /\ Current(g) => /\ CleanedUp[g].cancelled /\ ~CleanedUp[g].stream
                                /\ CleanedUp[g].day = run[g].day
<1> DEFINE Cleaned(g) == [run[g] EXCEPT !.cancelled = TRUE, !.stream = FALSE,
                             !.at = IF @ = "decoding" THEN "ended" ELSE @]
<1>1. ASSUME NEW g \in Runs
      PROVE  /\ Cleaned(g) \in RunStates /\ Cleaned(g).cancelled /\ ~Cleaned(g).stream
             /\ Cleaned(g).day = run[g].day
  <2>1. run[g] \in RunStates
    BY DEF ScannerInv
  <2> QED
    BY <2>1 DEF RunStates
<1> HIDE DEF Cleaned
<1>2. CleanedUp = [g \in Runs |-> IF Current(g) THEN Cleaned(g) ELSE run[g]]
  BY DEF CleanedUp, Cleaned
<1> QED
  BY <1>1, <1>2 DEF ScannerInv

\* A run of the effect starts when the one before it is cancelled.
LEMMA ScannerStarts ==
    ASSUME PageInv, ScannerInv, NEW before \in [Runs -> RunStates], NEW d \in Days, NEW m \in 0 .. started + 1,
           StartScanner(before, d, m), mounted' = m, scanError' \in BOOLEAN,
           \A g \in Runs : /\ ~Current(g) => before[g] = run[g]
                           /\ Current(g) => /\ before[g].cancelled /\ ~before[g].stream
                                            /\ before[g].day = run[g].day,
           Scanning(mode)', load' = "shown", day' = d, UNCHANGED <<frames, scans>>
    PROVE  ScannerInv'
<1> PICK new : new = [day |-> d, mount |-> m, at |-> "asking", cancelled |-> FALSE, stream |-> FALSE]
  OBVIOUS
<1>1. /\ started < MaxStarts /\ started' = started + 1
      /\ run' = [before EXCEPT ![started + 1] = new]
  BY DEF StartScanner
<1>2. /\ started \in 0 .. MaxStarts /\ MaxStarts \in Nat /\ started + 1 \in Runs
      /\ started' \in 0 .. MaxStarts /\ mounted' \in 0 .. started'
  BY <1>1, GateBoundsAreNat DEF ScannerInv, Runs
<1>3. new \in RunStates
  BY <1>2 DEF RunStates
<1>4. /\ run' \in [Runs -> RunStates] /\ run'[started + 1] = new
      /\ \A g \in Runs : g # started + 1 => run'[g] = before[g]
  BY <1>1, <1>2, <1>3
<1> PICK k : k = started + 1
  OBVIOUS
<1>5. \A g \in Runs : Current(g)' <=> g = started'
  <2>1. ASSUME NEW g \in Runs, g # k PROVE ~Current(g)'
    <3>1. CASE Current(g)
      BY <1>4, <2>1, <3>1 DEF Current
    <3>2. CASE ~Current(g)
      <4>1. run'[g] = run[g] /\ (g \in 1 .. started => run[g].cancelled)
        BY <1>4, <2>1, <3>2 DEF Current
      <4> QED
        BY <1>1, <1>2, <2>1, <4>1 DEF Current, Runs
    <3> QED
      BY <3>1, <3>2
  <2>2. Current(k)'
    BY <1>1, <1>2, <1>4 DEF Current
  <2> QED
    BY <1>1, <2>1, <2>2
<1>6. \A g \in Runs : g > started' => run'[g] = Idle
  <2>1. ASSUME NEW g \in Runs, g > started + 1 PROVE run'[g] = Idle
    <3>1. g > started /\ g # started + 1 /\ ~Current(g)
      BY <1>2, <2>1 DEF Runs, Current
    <3> QED
      BY <1>4, <3>1 DEF ScannerInv
  <2> QED
    BY <1>1, <2>1
<1>7. \A g \in Runs : Current(g)' => run'[g].day = day'
  BY <1>1, <1>2, <1>4, <1>5
<1>8. ASSUME NEW g \in Runs, run'[g].stream PROVE Current(g)' \/ run'[g].at = "late"
  <2>1. g # started + 1 /\ run'[g] = before[g]
    BY <1>4, <1>8
  <2>2. ~Current(g) /\ before[g] = run[g]
    BY <1>8, <2>1
  <2> QED
    BY <1>8, <2>1, <2>2 DEF ScannerInv
<1>9. ASSUME NEW f \in frames \union scans PROVE FrameIsTrue(f)'
  <2>1. f.run \in Runs /\ f.run <= started /\ FrameIsTrue(f)
    BY <1>9 DEF ScannerInv, FrameIsTrue
  <2>2. f.run # started + 1 /\ run'[f.run] = before[f.run] /\ f.run <= started'
    BY <1>1, <1>2, <1>4, <2>1 DEF Runs
  <2>3. CASE Current(f.run)
    BY <2>1, <2>2, <2>3 DEF FrameIsTrue, Current
  <2>4. CASE ~Current(f.run)
    BY <2>1, <2>2, <2>4 DEF FrameIsTrue
  <2> QED
    BY <2>3, <2>4
<1> QED
  BY <1>2, <1>4, <1>5, <1>6, <1>7, <1>8, <1>9 DEF ScannerInv

\* One run moves on: what it was started for and whether it is cancelled stay.
LEMMA RunMoves ==
    ASSUME ScannerInv, NEW g \in Runs, NEW r \in RunStates, run' = [run EXCEPT ![g] = r],
           run[g].at \in {"asking", "starting"}, r.day = run[g].day, r.cancelled = run[g].cancelled,
           r.stream => run[g].stream \/ ~r.cancelled \/ r.at = "late",
           scanError' \in BOOLEAN, UNCHANGED <<load, mode, day, mounted, started, frames, scans>>
    PROVE  ScannerInv'
<1>1. run' \in [Runs -> RunStates] /\ run'[g] = r /\ \A h \in Runs \ {g} : run'[h] = run[h]
  BY DEF ScannerInv
<1>2. g <= started /\ started \in Int
  BY DEF ScannerInv, Idle, Runs
<1>3. \A h \in Runs : Current(h)' <=> Current(h)
  BY <1>1 DEF Current
<1>4. \A h \in Runs : h > started => run'[h] = Idle
  BY <1>1, <1>2 DEF ScannerInv, Runs
<1>5. \A h \in Runs : Current(h) => run'[h].day = day
  BY <1>1 DEF ScannerInv
<1>6. \A h \in Runs : run'[h].stream => Current(h) \/ run'[h].at = "late"
  <2>1. r.stream => Current(g) \/ r.at = "late"
    BY <1>2 DEF ScannerInv, Current, Runs
  <2> QED
    BY <1>1, <2>1 DEF ScannerInv
<1>7. ASSUME NEW f \in frames \union scans PROVE FrameIsTrue(f)'
  BY <1>1, <1>7 DEF ScannerInv, FrameIsTrue
<1> QED
  BY <1>1, <1>3, <1>4, <1>5, <1>6, <1>7 DEF ScannerInv, Scanning

----------------------------------------------------------------------------
(***************************************************************************)
(* The actions                                                             *)
(***************************************************************************)
LEMMA GateInitInv == GateInit => GateInv
<1> SUFFICES ASSUME GateInit PROVE GateInv
  OBVIOUS
<1>1. PageInv
  BY NoQueryIsAQuery, NilIsNoDay, GateBoundsAreNat DEF GateInit, PageInv
<1>2. SearchInv
  <2>1. timer \in BOOLEAN /\ searchError \in BOOLEAN
    BY Zenon DEF GateInit
  <2>2. asked \in 0 .. MaxSearches
    BY GateBoundsAreNat DEF GateInit
  <2>3. flying = {} /\ marks = {} /\ list = Nil
    BY DEF GateInit
  <2> QED
    BY <2>1, <2>2, <2>3 DEF SearchInv
<1>3. Idle \in RunStates
  BY GateBoundsAreNat DEF Idle, RunStates
<1>4. run \in [Runs -> RunStates] /\ \A g \in Runs : run[g] = Idle
  BY <1>3 DEF GateInit
<1>5. started = 0 /\ mounted = 0 /\ load = "loading" /\ frames = {} /\ scans = {}
  BY DEF GateInit
<1>6. scanError \in BOOLEAN
  BY Zenon DEF GateInit
<1>7. \A g \in Runs : ~Current(g) /\ ~run[g].stream
  BY <1>4, <1>5 DEF Current, Idle
<1>8. ScannerInv
  BY <1>4, <1>5, <1>6, <1>7, GateBoundsAreNat DEF ScannerInv, Scanning
<1> QED
  BY <1>1, <1>2, <1>8 DEF GateInv

LEMMA LoadEventKeeps == GateInv /\ LoadEvent => GateInv'
<1> SUFFICES ASSUME GateInv, LoadEvent PROVE GateInv'
  OBVIOUS
<1>1. /\ load = "loading" /\ load' = "shown" /\ day' = FirstDay /\ FirstDay \in Days
      /\ mode' = IF Cardinality(Days) >= 2 THEN "qr" ELSE "search"
      /\ timer' = TRUE
      /\ UNCHANGED <<query, asked, flying, list, searchError, marks, frames, scans, picks>>
  BY FirstIsADay DEF LoadEvent
<1>2. PageInv'
  BY <1>1, NilIsNoDay DEF GateInv, PageInv
<1>3. SearchInv'
  BY <1>1, SearchRearmed DEF GateInv
<1>4. CASE Cardinality(Days) >= 2 /\ Capable
  <2>1. started = 0 /\ mounted = 0
    BY <1>1, GateBoundsAreNat DEF GateInv, ScannerInv
  <2>2. /\ mounted' = mounted + 1 /\ scanError' = FALSE
        /\ StartScanner(run, FirstDay, mounted + 1)
    BY <1>4 DEF LoadEvent, MountScanner
  <2>3. \A g \in Runs : ~Current(g)
    BY <2>1 DEF Current
  <2>4. Scanning(mode)'
    BY <1>1, <1>4 DEF Scanning
  <2>5. mounted + 1 \in 0 .. started + 1
    BY <2>1
  <2> QED
    BY <1>1, <1>2, <1>3, <2>2, <2>3, <2>4, <2>5, ScannerStarts DEF GateInv, ScannerInv
<1>5. CASE ~(Cardinality(Days) >= 2 /\ Capable)
  <2>1. ~Scanning(mode) /\ ~Scanning(mode)' /\ UNCHANGED scanner
    BY <1>1, <1>5 DEF LoadEvent, Scanning
  <2> QED
    BY <1>1, <1>2, <1>3, <2>1, ScannerOff DEF GateInv
<1> QED
  BY <1>4, <1>5

LEMMA PickDayKeeps ==
    ASSUME GateInv, NEW d \in Days, PickDay(d)
    PROVE  GateInv'
<1>1. /\ load = "shown" /\ day' = d /\ timer' = TRUE /\ picks < MaxPicks /\ picks' = picks + 1
      /\ UNCHANGED <<screen, query, asked, flying, list, searchError, marks, frames, scans>>
  BY DEF PickDay, OffersDays, Pick
<1>2. PageInv'
  BY <1>1, NilIsNoDay, GateBoundsAreNat DEF GateInv, PageInv
<1>3. SearchInv'
  BY <1>1, SearchRearmed DEF GateInv
<1>4. CASE Scanning(mode)
  <2>1. StartScanner(CleanedUp, d, mounted) /\ UNCHANGED <<mounted, scanError>>
    BY <1>4 DEF PickDay
  <2>2. Scanning(mode)' /\ load' = "shown"
    BY <1>1, <1>4 DEF Scanning
  <2>3. mounted \in 0 .. started + 1 /\ scanError \in BOOLEAN
    BY <1>4 DEF GateInv, ScannerInv
  <2>4. PICK before : before = CleanedUp
    OBVIOUS
  <2> QED
    BY <1>1, <1>2, <1>3, <2>1, <2>2, <2>3, <2>4, CleanedRuns, ScannerStarts DEF GateInv
<1>5. CASE ~Scanning(mode)
  <2>1. ~Scanning(mode)' /\ UNCHANGED scanner
    BY <1>1, <1>5 DEF PickDay, Scanning
  <2> QED
    BY <1>1, <1>2, <1>3, <1>5, <2>1, ScannerOff DEF GateInv
<1> QED
  BY <1>4, <1>5

LEMMA PickCameraKeeps == GateInv /\ PickCamera => GateInv'
<1> SUFFICES ASSUME GateInv, PickCamera PROVE GateInv'
  OBVIOUS
<1>1. /\ load = "shown" /\ Capable /\ mode = "search" /\ mode' = "qr"
      /\ picks < MaxPicks /\ picks' = picks + 1
      /\ mounted' = mounted + 1 /\ scanError' = FALSE
      /\ StartScanner(run, day, mounted + 1)
      /\ UNCHANGED <<load, day, query, search, marks, frames, scans>>
  BY DEF PickCamera, OffersModes, Pick, MountScanner
<1>2. PageInv'
  BY <1>1, GateBoundsAreNat DEF GateInv, PageInv
<1>3. SearchInv'
  BY <1>1, SearchQuiet DEF GateInv
<1>4. ScannerInv'
  <2>1. day \in Days /\ Scanning(mode)' /\ ~Scanning(mode)
    BY <1>1 DEF GateInv, PageInv, Scanning
  <2>2. \A g \in Runs : ~Current(g)
    BY <2>1 DEF GateInv, ScannerInv
  <2>3. mounted + 1 \in 0 .. started + 1 /\ run \in [Runs -> RunStates]
    BY DEF GateInv, ScannerInv
  <2> QED
    BY <1>1, <2>1, <2>2, <2>3, ScannerStarts DEF GateInv
<1> QED
  BY <1>2, <1>3, <1>4 DEF GateInv

LEMMA PickSearchKeeps == GateInv /\ PickSearch => GateInv'
<1> SUFFICES ASSUME GateInv, PickSearch PROVE GateInv'
  OBVIOUS
<1>1. /\ mode' = "search" /\ picks < MaxPicks /\ picks' = picks + 1 /\ run' = CleanedUp
      /\ UNCHANGED <<load, day, query, search, marks, mounted, scanError, started, frames, scans>>
  BY DEF PickSearch, Pick
<1>2. PageInv'
  BY <1>1, GateBoundsAreNat DEF GateInv, PageInv
<1>3. SearchInv'
  BY <1>1, SearchQuiet DEF GateInv
<1>4. ScannerInv'
  <2>1. PICK after : after = CleanedUp
    OBVIOUS
  <2>2. /\ after \in [Runs -> RunStates] /\ run' = after
        /\ \A g \in Runs :
            /\ ~Current(g) => after[g] = run[g]
            /\ Current(g) => after[g].cancelled /\ ~after[g].stream /\ after[g].day = run[g].day
    BY <1>1, <2>1, CleanedRuns DEF GateInv
  <2>3. \A g \in Runs : ~Current(g)'
    BY <1>1, <2>2 DEF Current
  <2>4. ~Scanning(mode)'
    BY <1>1 DEF Scanning
  <2>5. \A g \in Runs : g > started => ~Current(g) /\ after[g] = Idle
    BY <2>2 DEF GateInv, ScannerInv, Current, Runs
  <2>6. ASSUME NEW f \in frames \union scans PROVE FrameIsTrue(f)'
    <3>1. f.run \in Runs /\ FrameIsTrue(f)
      BY <2>6 DEF GateInv, ScannerInv
    <3> QED
      BY <1>1, <2>2, <3>1 DEF FrameIsTrue, Current
  <2> QED
    BY <1>1, <2>2, <2>3, <2>4, <2>5, <2>6 DEF GateInv, ScannerInv
<1> QED
  BY <1>2, <1>3, <1>4 DEF GateInv

LEMMA StaffKeeps == GateInv /\ GateStaff => GateInv'
<1> SUFFICES ASSUME GateInv, GateStaff PROVE GateInv'
  OBVIOUS
<1>1. ASSUME NEW q \in Queries, Type(q) PROVE GateInv'
  <2>1. /\ timer' = TRUE /\ query' = q /\ picks < MaxPicks /\ picks' = picks + 1
        /\ UNCHANGED <<screen, day, asked, flying, list, searchError, marks, scanner, frames, scans>>
    BY <1>1 DEF Type, Pick
  <2>2. PageInv'
    BY <2>1, GateBoundsAreNat DEF GateInv, PageInv
  <2> QED
    BY <2>1, <2>2, SearchRearmed, ScannerQuiet DEF GateInv
<1>2. CASE MarkPresent
  <2>1. /\ load = "shown" /\ UNCHANGED <<screen, day, query, search, scanner, frames, scans, picks>>
        /\ marks' = marks \union {[day |-> day, query |-> query]}
    BY <1>2 DEF MarkPresent, Searching
  <2>2. PageInv' /\ ScannerInv'
    BY <2>1, ScannerQuiet DEF GateInv, PageInv
  <2>3. [day |-> day, query |-> query] \in [day : Days, query : Queries]
    BY <2>1 DEF GateInv, PageInv
  <2> QED
    BY <2>1, <2>2, <2>3 DEF GateInv, SearchInv, IsForScreen
<1> QED
  BY <1>1, <1>2, PickDayKeeps, PickCameraKeeps, PickSearchKeeps DEF GateStaff

LEMMA DebounceKeeps == GateInv /\ Debounce => GateInv'
<1> SUFFICES ASSUME GateInv, Debounce PROVE GateInv'
  OBVIOUS
<1>1. /\ timer' = FALSE /\ RunSearch(day, query, "typing")
      /\ UNCHANGED <<screen, day, query, list, marks, scanner, frames, scans, picks>>
  BY DEF Debounce
<1>2. PageInv' /\ ScannerInv'
  BY <1>1, ScannerQuiet DEF GateInv, PageInv
<1>3. CASE day = Nil
  BY <1>1, <1>2, <1>3 DEF GateInv, PageInv, SearchInv, IsForScreen, RunSearch
<1>4. CASE day # Nil
  BY <1>1, <1>2, <1>4, Searched DEF GateInv, PageInv
<1> QED
  BY <1>3, <1>4

LEMMA MarkQueuedKeeps ==
    ASSUME GateInv, NEW m, MarkQueued(m)
    PROVE  GateInv'
<1>1. /\ m.day \in Days /\ m.query \in Queries /\ marks' = marks \ {m}
      /\ RunSearch(m.day, m.query, "mark")
      /\ UNCHANGED <<screen, day, query, timer, list, scanner, frames, scans, picks>>
  BY DEF MarkQueued, GateInv, SearchInv
<1>2. PageInv' /\ ScannerInv' /\ timer \in BOOLEAN
  BY <1>1, ScannerQuiet DEF GateInv, PageInv, SearchInv
<1> QED
  BY <1>1, <1>2, Searched DEF GateInv

LEMMA RunMovesOn ==
    ASSUME GateInv, NEW g \in Runs, CameraOpens(g) \/ CameraFails(g) \/ StartDecoding(g)
    PROVE  GateInv'
<1>1. UNCHANGED <<screen, day, query, search, marks, mounted, started, frames, scans, picks>>
  BY DEF CameraOpens, CameraFails, StartDecoding
<1>2. PageInv' /\ SearchInv'
  BY <1>1, SearchQuiet DEF GateInv, PageInv
<1>3. /\ run[g] \in RunStates /\ run \in [Runs -> RunStates] /\ scanError \in BOOLEAN
      /\ run[g].stream => Current(g) \/ run[g].at = "late"
  BY DEF GateInv, ScannerInv
<1>4. PICK r \in RunStates :
          /\ run' = [run EXCEPT ![g] = r] /\ run[g].at \in {"asking", "starting"}
          /\ r.day = run[g].day /\ r.cancelled = run[g].cancelled
          /\ r.stream => run[g].stream \/ ~r.cancelled \/ r.at = "late"
          /\ scanError' \in BOOLEAN
  <2>1. CASE CameraOpens(g)
    <3> DEFINE r == [run[g] EXCEPT !.stream = TRUE,
                        !.at = IF run[g].cancelled THEN "late" ELSE IF scanError THEN "failed" ELSE "starting"]
    <3>1. r \in RunStates /\ r.day = run[g].day /\ r.cancelled = run[g].cancelled /\ (r.cancelled => r.at = "late")
      BY <1>3 DEF RunStates
    <3>2. run' = [run EXCEPT ![g] = r]
      BY <1>3, <2>1 DEF CameraOpens
    <3> HIDE DEF r
    <3> QED
      BY <1>3, <2>1, <3>1, <3>2 DEF CameraOpens
  <2>2. ASSUME NEW at \in {"failed", "decoding"}, Stay(g, at), run[g].at \in {"asking", "starting"}, scanError' \in BOOLEAN
        PROVE  \E r \in RunStates :
                   /\ run' = [run EXCEPT ![g] = r] /\ run[g].at \in {"asking", "starting"}
                   /\ r.day = run[g].day /\ r.cancelled = run[g].cancelled
                   /\ r.stream => run[g].stream \/ ~r.cancelled \/ r.at = "late"
                   /\ scanError' \in BOOLEAN
    <3> DEFINE r == [run[g] EXCEPT !.at = at]
    <3>1. r \in RunStates /\ r.day = run[g].day /\ r.cancelled = run[g].cancelled /\ r.stream = run[g].stream
      BY <1>3, <2>2 DEF RunStates
    <3>2. run' = [run EXCEPT ![g] = r]
      BY <1>3, <2>2 DEF Stay
    <3> HIDE DEF r
    <3> QED
      BY <2>2, <3>1, <3>2
  <2>3. CASE CameraFails(g)
    BY <1>3, <2>2, <2>3 DEF CameraFails, ShowError
  <2>4. CASE StartDecoding(g)
    BY <1>3, <2>2, <2>4 DEF StartDecoding
  <2> QED
    BY <2>1, <2>3, <2>4
<1> QED
  BY <1>1, <1>2, <1>4, RunMoves DEF GateInv

LEMMA FramesKeep ==
    ASSUME GateInv, \/ \E g \in Runs : DrawFrame(g)
                    \/ \E f \in frames : Detect(f) \/ DetectNothing(f)
    PROVE  GateInv'
<1>1. UNCHANGED <<screen, day, query, search, marks, scanner, picks>>
  BY DEF DrawFrame, Detect, DetectNothing
<1>2. PageInv' /\ SearchInv'
  BY <1>1, SearchQuiet DEF GateInv, PageInv
<1>3. \A f : FrameIsTrue(f)' <=> FrameIsTrue(f)
  BY <1>1 DEF FrameIsTrue
<1>4. ASSUME frames' \union scans' \subseteq frames \union scans, frames' \subseteq [run : Runs, shown : Days],
             scans' \subseteq [run : Runs, shown : Days]
      PROVE  GateInv'
  BY <1>1, <1>2, <1>3, <1>4 DEF GateInv, ScannerInv, Current, Scanning
<1>5. ASSUME NEW g \in Runs, DrawFrame(g) PROVE GateInv'
  <2>1. PICK f : f = [run |-> g, shown |-> day]
    OBVIOUS
  <2>2. frames' = frames \union {f} /\ scans' = scans /\ run[g].at = "decoding"
    BY <1>5, <2>1 DEF DrawFrame
  <2>3. g <= started /\ day \in Days
    BY <2>2 DEF GateInv, ScannerInv, PageInv, Idle, Runs
  <2>4. FrameIsTrue(f) /\ f \in [run : Runs, shown : Days]
    BY <2>1, <2>2, <2>3 DEF FrameIsTrue, GateInv, ScannerInv, Current, Runs
  <2> QED
    BY <1>1, <1>2, <1>3, <2>2, <2>4 DEF GateInv, ScannerInv, Current, Scanning
<1>6. ASSUME NEW f \in frames, Detect(f) \/ DetectNothing(f) PROVE GateInv'
  BY <1>4, <1>6 DEF Detect, DetectNothing, GateInv, ScannerInv
<1> QED
  BY <1>5, <1>6

LEMMA NetworkKeeps == GateInv /\ Network => GateInv'
<1> SUFFICES ASSUME GateInv, Network PROVE GateInv'
  OBVIOUS
<1>1. CASE LoadFails
  <2>1. load = "loading" /\ load' = "failed"
        /\ UNCHANGED <<mode, day, query, search, marks, scanner, frames, scans, picks>>
    BY <1>1 DEF LoadFails
  <2> QED
    BY <2>1, ScannerOff DEF GateInv, PageInv, SearchInv, IsForScreen, Scanning
<1>2. ASSUME NEW s \in flying, SearchAnswered(s) \/ SearchFails(s) PROVE GateInv'
  <2>1. UNCHANGED <<screen, day, query, timer, asked, marks, scanner, frames, scans, picks>>
    BY <1>2 DEF SearchAnswered, SearchFails
  <2>2. PageInv' /\ ScannerInv'
    BY <2>1, ScannerQuiet DEF GateInv, PageInv
  <2>3. \A r : IsForScreen(r)' <=> IsForScreen(r)
    BY <2>1 DEF IsForScreen
  <2>4. SearchInv'
    BY <1>2, <2>1, <2>3 DEF SearchAnswered, SearchFails, GateInv, SearchInv
  <2> QED
    BY <2>2, <2>4 DEF GateInv
<1> QED
  BY <1>1, <1>2, LoadEventKeeps DEF Network

LEMMA GateNextKeeps == GateInv /\ [GateNext]_gateVars => GateInv'
<1> SUFFICES ASSUME GateInv, [GateNext]_gateVars PROVE GateInv'
  OBVIOUS
<1>1. CASE Browser
  BY <1>1, DebounceKeeps, MarkQueuedKeeps, RunMovesOn, FramesKeep DEF Browser
<1>2. CASE UNCHANGED gateVars
  BY <1>2, SearchQuiet, ScannerQuiet DEF gateVars, GateInv, PageInv
<1> QED
  BY <1>1, <1>2, StaffKeeps, NetworkKeeps DEF GateNext

----------------------------------------------------------------------------

LEMMA AnsweredCall ==
    ASSUME NEW c, NEW got, c = [op |-> c.op, data |-> c.data, no |-> c.no, at |-> c.at, got |-> c.got]
    PROVE  [c EXCEPT !.at = "answered", !.got = got] =
               [op |-> c.op, data |-> c.data, no |-> c.no, at |-> "answered", got |-> got]
<1>1. PICK o, v, n, t, g : c = [op |-> o, data |-> v, no |-> n, at |-> t, got |-> g]
  OBVIOUS
<1>2. PICK e : e = [c EXCEPT !.at = "answered"]
  OBVIOUS
<1>3. e = [op |-> o, data |-> v, no |-> n, at |-> "answered", got |-> g]
  BY <1>1, <1>2
<1>4. [c EXCEPT !.at = "answered", !.got = got] = [e EXCEPT !.got = got]
  BY <1>2
<1>5. [e EXCEPT !.got = got] = [op |-> o, data |-> v, no |-> n, at |-> "answered", got |-> got]
  BY <1>3
<1> QED
  BY <1>1, <1>4, <1>5

(***************************************************************************)
(* EventPage.  The event with its form and the list of guests share the    *)
(* page and nothing else: each has its invariant and its calls.            *)
(***************************************************************************)
Updates == {c \in evCalls : c.op \in {"get", "save", "status"}}
GuestCalls == {c \in evCalls : c.op \in {"list", "flag"}}

IsEvCall(c) == c = [op |-> c.op, data |-> c.data, no |-> c.no, at |-> c.at, got |-> c.got]

\* What a read at the last update shows is what is stored.
IsRead(e) == e \in EvReads /\ e.read <= evWrites /\ (e.read = evWrites => e.row = row)
EvNewest(e) == e # Nil /\ e.read = evWrites

FormIsStored(f) == row.name = f.name /\ f.description \in {Empty, row.description}
Forms == [name : Texts, description : Texts \union {Empty}]

IsUpdate(c) ==
    /\ c.got # Nil => IsRead(c.got)
    /\ c.op = "status" => c.data \in Statuses
    /\ c.op = "save" =>
        /\ c.data \in Forms
        /\ ~evTouched => c.data = evForm /\ (c.got # Nil => FormIsStored(evForm))

EvFlags ==
    /\ loadError \in BOOLEAN /\ saving \in BOOLEAN /\ saved \in BOOLEAN
    /\ changingStatus \in BOOLEAN /\ confirmingEnd \in BOOLEAN
    /\ evStale \in BOOLEAN /\ evTouched \in BOOLEAN

\* Before the event has come there is nothing to click.
EvShownInv ==
    /\ row \in EvRows /\ evWrites \in Nat
    /\ evForm \in [name : Texts \union {Empty}, description : Texts \union {Empty}]
    /\ event # Nil => IsRead(event)
    /\ event = Nil => ~saved /\ ~saving /\ ~changingStatus /\ evWrites = 0
    /\ saved => ~saving /\ (~evTouched => FormIsStored(evForm))

EvUpdatesInv ==
    /\ \A c \in Updates : IsUpdate(c)
    /\ \A c, d \in Updates : c.op = d.op => c = d
    /\ saving <=> \E c \in Updates : c.op = "save"
    /\ changingStatus <=> \E c \in Updates : c.op = "status"
    /\ (\E c \in Updates : c.op = "get") => event = Nil

\* What the page shows is the newest answer, or the newest is on its way.
EvNewestIsKnown ==
    ~evStale /\ event # Nil =>
        EvNewest(event) \/ \E c \in Updates : c.op # "get" /\ c.at = "answered" /\ EvNewest(c.got)

EventInv == EvFlags /\ EvShownInv /\ EvUpdatesInv /\ EvNewestIsKnown

Tells(shown) == \A g \in DOMAIN shown : shown[g] <=> g \in flags
Toggled(c) == [c.data.list EXCEPT ![c.data.guest] = ~@]

IsGuestCall(c) ==
    /\ c.op = "list" => participants = Nil /\ (c.got # Nil => c.got \in GuestLists /\ Tells(c.got))
    /\ c.op = "flag" =>
        /\ participants # Nil /\ c.data.list \in GuestLists /\ c.data.guest \in DOMAIN c.data.list
        /\ c.data.value <=> ~c.data.list[c.data.guest]
        /\ ~guestsMuddled =>
            /\ c.data.list = participants
            /\ IF c.at = "sent" THEN Tells(participants) ELSE c.got # Nil /\ Tells(Toggled(c))

GuestsInv ==
    /\ flags \subseteq Guests /\ toggling \in Guests \union {Nil} /\ guestsMuddled \in BOOLEAN
    /\ participants # Nil => participants \in GuestLists
    /\ \A c \in GuestCalls : IsGuestCall(c)
    /\ \A c, d \in GuestCalls : c.op = d.op /\ (c.op = "list" \/ ~guestsMuddled) => c = d
    /\ ~guestsMuddled /\ participants # Nil =>
           Tells(participants) \/ \E c \in GuestCalls : c.op = "flag"

EvInv == EventInv /\ GuestsInv /\ \A c \in evCalls : IsEvCall(c)

eventVars == <<row, event, loadError, evForm, saving, saved, evTouched, changingStatus, confirmingEnd,
               evWrites, evStale>>
guestVars == <<flags, participants, toggling, guestsMuddled>>

LEMMA ListFacts ==
    ASSUME NEW shown \in GuestLists
    PROVE  DOMAIN shown \subseteq Guests /\ shown \in [DOMAIN shown -> BOOLEAN]
  BY DEF GuestLists

LEMMA NilFacts == Nil \notin EvReads /\ Nil \notin GuestLists /\ Nil # TRUE
  BY NilIsNoEvAnswer, Zenon

LEMMA EvInvIsEnough ==
    EvInv => EvTypeOK /\ EventPageIsTrue /\ SavedFormIsStored
<1> SUFFICES ASSUME EvInv PROVE EvTypeOK /\ EventPageIsTrue /\ SavedFormIsStored
  OBVIOUS
<1>1. {loadError, saving, saved, changingStatus, confirmingEnd,
       evStale, evTouched, guestsMuddled} \subseteq BOOLEAN
  BY Zenon DEF EvInv, EventInv, EvFlags, GuestsInv
<1>2. EvTypeOK
  <2>1. event # Nil => event.row \in EvRows /\ event.read \in 0 .. evWrites
    BY DEF EvInv, EventInv, EvShownInv, IsRead, EvReads
  <2>2. (saving <=> \E c \in evCalls : c.op = "save") /\ (changingStatus <=> \E c \in evCalls : c.op = "status")
    BY DEF EvInv, EventInv, EvUpdatesInv, Updates
  <2>3. participants # Nil => DOMAIN participants \subseteq Guests
    BY ListFacts DEF EvInv, GuestsInv
  <2>4. row \in EvRows /\ flags \subseteq Guests /\ toggling \in Guests \union {Nil}
        /\ evForm \in [name : Texts \union {Empty}, description : Texts \union {Empty}]
    BY DEF EvInv, EventInv, EvShownInv, GuestsInv
  <2> QED
    BY <1>1, <2>1, <2>2, <2>3, <2>4, Zenon DEF EvTypeOK
<1>3. EventPageIsTrue
  <2>1. ASSUME event # Nil, ~evStale, ~Waiting({"save", "status"}) PROVE event.row = row
    <3>1. ~\E c \in Updates : c.op # "get"
      BY <2>1 DEF Waiting, Updates
    <3> QED
      BY <2>1, <3>1 DEF EvInv, EventInv, EvNewestIsKnown, EvNewest, EvShownInv, IsRead
  <2>2. ASSUME participants # Nil, ~guestsMuddled, ~Waiting({"flag"}) PROVE Tells(participants)
    BY <2>2 DEF EvInv, GuestsInv, GuestCalls, Waiting
  <2> QED
    BY <2>1, <2>2 DEF EventPageIsTrue, Tells
<1>4. SavedFormIsStored
  BY DEF EvInv, EventInv, EvShownInv, FormIsStored, SavedFormIsStored
<1> QED
  BY <1>2, <1>3, <1>4

LEMMA EventStays ==
    ASSUME EventInv, UNCHANGED eventVars, UNCHANGED Updates
    PROVE  EventInv'
<1> PICK u : u = Updates
  OBVIOUS
<1>1. Updates' = u /\ Updates = u
  OBVIOUS
<1>2. UNCHANGED <<row, event, loadError, evForm, saving, saved, evTouched, changingStatus, confirmingEnd,
               evWrites, evStale>>
  BY DEF eventVars
<1> QED
  BY <1>1, <1>2 DEF EventInv, EvFlags, EvShownInv, EvUpdatesInv, EvNewestIsKnown, EvNewest, IsUpdate, IsRead, FormIsStored

LEMMA GuestsStay ==
    ASSUME GuestsInv, UNCHANGED guestVars, UNCHANGED GuestCalls
    PROVE  GuestsInv'
<1>1. UNCHANGED <<flags, participants, toggling, guestsMuddled>>
  BY DEF guestVars
<1> QED
  BY <1>1 DEF GuestsInv, IsGuestCall, Tells, Toggled

LEMMA EvInitInv == EvInit => EvInv
<1> SUFFICES ASSUME EvInit PROVE EvInv
  OBVIOUS
<1>1. \A c \in evCalls : /\ c = [op |-> c.op, data |-> Nil, no |-> 0, at |-> "sent", got |-> Nil]
                         /\ c.op \in {"get", "list"}
  BY DEF EvInit
<1>2. EvFlags /\ guestsMuddled \in BOOLEAN
  BY Zenon DEF EvInit, EvFlags
<1>3. /\ row \in EvRows /\ evWrites = 0 /\ event = Nil /\ ~saved /\ ~saving /\ ~changingStatus
      /\ evForm = [name |-> Empty, description |-> Empty] /\ flags = {} /\ toggling = Nil
      /\ participants = Nil
  BY DEF EvInit
<1>4. EvShownInv
  BY <1>3 DEF EvShownInv
<1>5. EvUpdatesInv
  BY <1>1, <1>3 DEF EvUpdatesInv, Updates, IsUpdate
<1>6. EvNewestIsKnown
  BY <1>3 DEF EvNewestIsKnown
<1>7. GuestsInv
  BY <1>1, <1>2, <1>3 DEF GuestsInv, GuestCalls, IsGuestCall
<1>8. \A c \in evCalls : IsEvCall(c)
  BY <1>1 DEF IsEvCall
<1> QED
  BY <1>2, <1>4, <1>5, <1>6, <1>7, <1>8 DEF EvInv, EventInv

LEMMA EvSends ==
    ASSUME EvInv, NEW op, NEW data, EvSend(op, data)
    PROVE  \E d : /\ d = [op |-> op, data |-> data, no |-> d.no, at |-> "sent", got |-> Nil]
                  /\ evCalls' = evCalls \union {d} /\ \A c \in evCalls' : IsEvCall(c)
                  /\ Updates' = IF op \in {"get", "save", "status"} THEN Updates \union {d} ELSE Updates
                  /\ GuestCalls' = IF op \in {"list", "flag"} THEN GuestCalls \union {d} ELSE GuestCalls
<1> PICK d : d = [op |-> op, data |-> data, no |-> evClicks + 1, at |-> "sent", got |-> Nil]
  OBVIOUS
<1>1. d.op = op /\ evCalls' = evCalls \union {d} /\ IsEvCall(d)
  BY DEF EvSend, IsEvCall
<1>2. \A c \in evCalls' : IsEvCall(c)
  BY <1>1 DEF EvInv
<1>3. Updates' = IF op \in {"get", "save", "status"} THEN Updates \union {d} ELSE Updates
  BY <1>1 DEF Updates
<1>4. GuestCalls' = IF op \in {"list", "flag"} THEN GuestCalls \union {d} ELSE GuestCalls
  BY <1>1 DEF GuestCalls
<1>5. d = [op |-> op, data |-> data, no |-> d.no, at |-> "sent", got |-> Nil]
  OBVIOUS
<1> QED
  BY <1>1, <1>2, <1>3, <1>4, <1>5

LEMMA EvEdits ==
    ASSUME EvInv,
           \/ \E t \in Texts : EditForm("name", t)
           \/ \E t \in Texts \union {Empty} : EditForm("description", t)
    PROVE  EvInv'
<1>1. PICK f \in {"name", "description"}, t \in Texts \union {Empty} : EditForm(f, t)
  OBVIOUS
<1>2. /\ event # Nil /\ evForm' = [evForm EXCEPT ![f] = t] /\ evTouched' = TRUE
      /\ UNCHANGED <<row, event, loadError, saving, saved, changingStatus, confirmingEnd,
                     evWrites, evStale, evCalls>>
      /\ UNCHANGED guestVars
  BY <1>1 DEF EditForm, Loaded, Stored, status, guestList, guestVars
<1>3. evForm' \in [name : Texts \union {Empty}, description : Texts \union {Empty}]
  BY <1>2 DEF EvInv, EventInv, EvShownInv
<1>4. EventInv'
  <2>1. EvFlags'
    BY <1>2 DEF EvInv, EventInv, EvFlags
  <2>2. EvShownInv'
    BY <1>2, <1>3 DEF EvInv, EventInv, EvShownInv, IsRead
  <2>3. EvUpdatesInv'
    BY <1>2 DEF EvInv, EventInv, EvUpdatesInv, IsUpdate, IsRead, Updates
  <2>4. EvNewestIsKnown'
    BY <1>2 DEF EvInv, EventInv, EvNewestIsKnown, EvNewest, Updates
  <2> QED
    BY <2>1, <2>2, <2>3, <2>4 DEF EventInv
<1>5. GuestsInv'
  BY <1>2, GuestsStay DEF EvInv, GuestCalls
<1> QED
  BY <1>2, <1>4, <1>5 DEF EvInv, IsEvCall

LEMMA EvSubmits ==
    ASSUME EvInv,
           \/ HandleSave \/ AskToEnd \/ ConfirmTimesOut
           \/ \E from, to \in Statuses : ChangeStatus(from, to)
    PROVE  EvInv'
<1>1. UNCHANGED <<row, event, loadError, evForm, evWrites, evStale>> /\ UNCHANGED guestVars
  BY DEF HandleSave, AskToEnd, ConfirmTimesOut, ChangeStatus, Stored, evDraft, guestList, guestVars
<1>2. CASE HandleSave
  <2>1. /\ event # Nil /\ ~saving /\ evForm.name # Empty /\ saving' = TRUE /\ saved' = FALSE
        /\ evTouched' = FALSE /\ UNCHANGED <<changingStatus, confirmingEnd>> /\ EvSend("save", evForm)
    BY <1>2 DEF HandleSave, Loaded, status
  <2>2. PICK d : /\ d = [op |-> "save", data |-> evForm, no |-> d.no, at |-> "sent", got |-> Nil]
                 /\ \A c \in evCalls' : IsEvCall(c)
                 /\ Updates' = Updates \union {d} /\ GuestCalls' = GuestCalls
    BY <2>1, EvSends
  <2>3. d.op = "save" /\ d.data = evForm /\ d.got = Nil /\ d.at = "sent"
    BY <2>2
  <2>4. EvFlags' /\ EvShownInv'
    BY <1>1, <2>1 DEF EvInv, EventInv, EvFlags, EvShownInv, IsRead
  <2>5. \A c \in Updates : c.op # "save" /\ IsUpdate(c) /\ c.op # "get"
    BY <2>1 DEF EvInv, EventInv, EvUpdatesInv
  <2>6. evForm \in Forms
    BY <2>1 DEF EvInv, EventInv, EvShownInv, Forms
  <2>7. \A c \in Updates' : IsUpdate(c)'
    BY <1>1, <2>1, <2>2, <2>3, <2>5, <2>6 DEF IsUpdate, IsRead
  <2>8. EvUpdatesInv'
    BY <1>1, <2>1, <2>2, <2>3, <2>5, <2>7 DEF EvInv, EventInv, EvUpdatesInv
  <2>9. EvNewestIsKnown'
    BY <1>1, <2>2 DEF EvInv, EventInv, EvNewestIsKnown, EvNewest
  <2>10. GuestsInv'
    BY <1>1, <2>2, GuestsStay DEF EvInv
  <2> QED
    BY <2>2, <2>4, <2>8, <2>9, <2>10 DEF EvInv, EventInv
<1>3. ASSUME NEW from, NEW to \in Statuses, ChangeStatus(from, to) PROVE EvInv'
  <2>1. /\ event # Nil /\ ~changingStatus /\ changingStatus' = TRUE /\ confirmingEnd' = FALSE
        /\ UNCHANGED <<saving, saved, evTouched>> /\ EvSend("status", to)
    BY <1>3 DEF ChangeStatus, Loaded, evDraft
  <2>2. PICK d : /\ d = [op |-> "status", data |-> to, no |-> d.no, at |-> "sent", got |-> Nil]
                 /\ \A c \in evCalls' : IsEvCall(c)
                 /\ Updates' = Updates \union {d} /\ GuestCalls' = GuestCalls
    BY <2>1, EvSends
  <2>3. d.op = "status" /\ d.data = to /\ d.got = Nil /\ d.at = "sent"
    BY <2>2
  <2>4. EvFlags' /\ EvShownInv'
    BY <1>1, <2>1 DEF EvInv, EventInv, EvFlags, EvShownInv, IsRead, FormIsStored
  <2>5. \A c \in Updates : c.op # "status" /\ IsUpdate(c) /\ c.op # "get"
    BY <2>1 DEF EvInv, EventInv, EvUpdatesInv
  <2>6. \A c \in Updates' : IsUpdate(c)'
    BY <1>1, <1>3, <2>1, <2>2, <2>3, <2>5 DEF IsUpdate, IsRead, FormIsStored
  <2>7. EvUpdatesInv'
    BY <1>1, <2>1, <2>2, <2>3, <2>5, <2>6 DEF EvInv, EventInv, EvUpdatesInv
  <2>8. EvNewestIsKnown'
    BY <1>1, <2>2 DEF EvInv, EventInv, EvNewestIsKnown, EvNewest
  <2>9. GuestsInv'
    BY <1>1, <2>2, GuestsStay DEF EvInv
  <2> QED
    BY <2>2, <2>4, <2>7, <2>8, <2>9 DEF EvInv, EventInv
<1>4. CASE AskToEnd \/ ConfirmTimesOut
  <2>1. UNCHANGED <<saving, saved, evTouched, changingStatus, evCalls>>
    BY <1>4 DEF AskToEnd, ConfirmTimesOut, evDraft
  <2>2. confirmingEnd' \in BOOLEAN
    BY <1>4, Zenon DEF AskToEnd, ConfirmTimesOut
  <2>3. EvFlags' /\ EvShownInv'
    BY <1>1, <2>1, <2>2 DEF EvInv, EventInv, EvFlags, EvShownInv, IsRead, FormIsStored
  <2>4. EvUpdatesInv' /\ EvNewestIsKnown'
    BY <1>1, <2>1 DEF EvInv, EventInv, EvUpdatesInv, EvNewestIsKnown, EvNewest, Updates, IsUpdate, IsRead, FormIsStored
  <2>5. GuestsInv'
    BY <1>1, <2>1, GuestsStay DEF EvInv, GuestCalls
  <2> QED
    BY <2>1, <2>3, <2>4, <2>5 DEF EvInv, EventInv, IsEvCall
<1> QED
  BY <1>2, <1>3, <1>4

LEMMA EvToggles ==
    ASSUME EvInv, NEW g \in Guests, ToggleWillNotAttend(g)
    PROVE  EvInv'
<1> PICK data : data = [guest |-> g, value |-> ~participants[g], list |-> participants]
  OBVIOUS
<1>1. /\ UNCHANGED eventVars /\ UNCHANGED <<flags, participants>>
      /\ participants # Nil /\ g \in DOMAIN participants /\ toggling' = g
      /\ guestsMuddled' = (guestsMuddled \/ \E c \in evCalls : c.op = "flag")
      /\ EvSend("flag", data)
  BY DEF ToggleWillNotAttend, Stored, eventVars, evDraft, status
<1>2. PICK d : /\ d = [op |-> "flag", data |-> data, no |-> d.no, at |-> "sent", got |-> Nil]
               /\ \A c \in evCalls' : IsEvCall(c)
               /\ Updates' = Updates /\ GuestCalls' = GuestCalls \union {d}
  BY <1>1, EvSends
<1>3. d.op = "flag" /\ d.data = data /\ d.at = "sent"
  BY <1>2
<1>4. participants \in GuestLists
  BY <1>1 DEF EvInv, GuestsInv
<1>5. ~guestsMuddled' => Tells(participants)' /\ ~guestsMuddled /\ \A c \in GuestCalls : c.op # "flag"
  BY <1>1 DEF EvInv, GuestsInv, GuestCalls, Tells
<1>6. data.guest = g /\ data.list = participants /\ (data.value <=> ~participants[g])
  OBVIOUS
<1>7. IsGuestCall(d)'
  BY <1>1, <1>3, <1>4, <1>5, <1>6 DEF IsGuestCall
<1>8. ASSUME NEW c \in GuestCalls PROVE IsGuestCall(c)'
  BY <1>1, <1>5 DEF EvInv, GuestsInv, IsGuestCall, Tells
<1>9. guestsMuddled' \in BOOLEAN
  BY <1>1, Zenon
<1>10. GuestsInv'
  <2>1. \A b, c \in GuestCalls' : b.op = c.op /\ (b.op = "list" \/ ~guestsMuddled') => b = c
    BY <1>2, <1>3, <1>5 DEF EvInv, GuestsInv
  <2> QED
    BY <1>1, <1>2, <1>3, <1>4, <1>7, <1>8, <1>9, <2>1 DEF EvInv, GuestsInv
<1>11. EventInv'
  BY <1>1, <1>2, EventStays DEF EvInv
<1> QED
  BY <1>2, <1>10, <1>11 DEF EvInv

EvAnsweredWith(c, got) ==
    evCalls' = (evCalls \ {c}) \union {[c EXCEPT !.at = "answered", !.got = got]}

LEMMA EvAnswered ==
    ASSUME EvInv, NEW c \in evCalls, NEW got,
           EvAnsweredWith(c, got)
    PROVE  \E d : /\ d.op = c.op /\ d.data = c.data /\ d.at = "answered" /\ d.got = got
                  /\ \A e \in evCalls' : IsEvCall(e)
                  /\ Updates' = IF c \in Updates THEN (Updates \ {c}) \union {d} ELSE Updates
                  /\ GuestCalls' = IF c \in GuestCalls THEN (GuestCalls \ {c}) \union {d} ELSE GuestCalls
<1> PICK d : d = [op |-> c.op, data |-> c.data, no |-> c.no, at |-> "answered", got |-> got]
  OBVIOUS
<1>1. IsEvCall(c)
  BY DEF EvInv
<1>2. evCalls' = (evCalls \ {c}) \union {d}
  BY <1>1, AnsweredCall DEF IsEvCall, EvAnsweredWith
<1>3. d.op = c.op /\ d.data = c.data /\ d.at = "answered" /\ d.got = got /\ IsEvCall(d)
  BY DEF IsEvCall
<1>4. \A e \in evCalls' : IsEvCall(e)
  BY <1>2, <1>3 DEF EvInv
<1>5. Updates' = IF c \in Updates THEN (Updates \ {c}) \union {d} ELSE Updates
  BY <1>2, <1>3 DEF Updates
<1>6. GuestCalls' = IF c \in GuestCalls THEN (GuestCalls \ {c}) \union {d} ELSE GuestCalls
  BY <1>2, <1>3 DEF GuestCalls
<1> QED
  BY <1>3, <1>4, <1>5, <1>6

LEMMA UpdateAnswered ==
    ASSUME EvInv, NEW c \in evCalls, NEW got, c \in Updates, c \notin GuestCalls,
           EvAnsweredWith(c, got)
    PROVE  \E d : /\ d.op = c.op /\ d.data = c.data /\ d.at = "answered" /\ d.got = got
                  /\ \A e \in evCalls' : IsEvCall(e)
                  /\ Updates' = (Updates \ {c}) \union {d} /\ GuestCalls' = GuestCalls
<1>1. PICK d : /\ d.op = c.op /\ d.data = c.data /\ d.at = "answered" /\ d.got = got
               /\ \A e \in evCalls' : IsEvCall(e)
               /\ Updates' = IF c \in Updates THEN (Updates \ {c}) \union {d} ELSE Updates
               /\ GuestCalls' = IF c \in GuestCalls THEN (GuestCalls \ {c}) \union {d} ELSE GuestCalls
  BY EvAnswered
<1>2. Updates' = (Updates \ {c}) \union {d} /\ GuestCalls' = GuestCalls
  BY <1>1
<1> QED
  BY <1>1, <1>2

LEMMA GuestAnswered ==
    ASSUME EvInv, NEW c \in evCalls, NEW got, c \in GuestCalls, c \notin Updates,
           EvAnsweredWith(c, got)
    PROVE  \E d : /\ d.op = c.op /\ d.data = c.data /\ d.at = "answered" /\ d.got = got
                  /\ \A e \in evCalls' : IsEvCall(e)
                  /\ Updates' = Updates /\ GuestCalls' = (GuestCalls \ {c}) \union {d}
<1>1. PICK d : /\ d.op = c.op /\ d.data = c.data /\ d.at = "answered" /\ d.got = got
               /\ \A e \in evCalls' : IsEvCall(e)
               /\ Updates' = IF c \in Updates THEN (Updates \ {c}) \union {d} ELSE Updates
               /\ GuestCalls' = IF c \in GuestCalls THEN (GuestCalls \ {c}) \union {d} ELSE GuestCalls
  BY EvAnswered
<1>2. GuestCalls' = (GuestCalls \ {c}) \union {d} /\ Updates' = Updates
  BY <1>1
<1> QED
  BY <1>1, <1>2

LEMMA UpdatedRow ==
    ASSUME EvInv, NEW c \in Updates, c.op \in {"save", "status"}
    PROVE  /\ Updated(c) \in EvRows
           /\ c.op = "status" => Updated(c).name = row.name /\ Updated(c).description = row.description
           /\ c.op = "save" => /\ Updated(c).name = c.data.name
                               /\ c.data.description \in {Empty, Updated(c).description}
<1>1. row \in EvRows /\ IsUpdate(c)
  BY DEF EvInv, EventInv, EvShownInv, EvUpdatesInv
<1>2. CASE c.op = "status"
  <2>1. Updated(c) = [row EXCEPT !.status = c.data]
    BY <1>2 DEF Updated
  <2> QED
    BY <1>1, <1>2, <2>1 DEF EvRows, IsUpdate
<1>3. CASE c.op = "save"
  <2>1. PICK n : n = c.data.name
    OBVIOUS
  <2>2. PICK t : t = IF c.data.description = Empty THEN row.description ELSE c.data.description
    OBVIOUS
  <2>3. n \in Texts /\ t \in Texts \union {Empty}
    BY <1>1, <1>3, <2>1, <2>2 DEF IsUpdate, Forms, EvRows
  <2>4. Updated(c) = [row EXCEPT !.name = n, !.description = t]
    BY <1>3, <2>1, <2>2 DEF Updated
  <2>5. PICK r : r = [row EXCEPT !.name = n]
    OBVIOUS
  <2>6. PICK v \in Statuses, w \in Texts \union {Empty} : row = [name |-> row.name, description |-> w, status |-> v]
    BY <1>1 DEF EvRows
  <2>7. r = [name |-> n, description |-> w, status |-> v]
    BY <2>5, <2>6
  <2>8. Updated(c) = [r EXCEPT !.description = t]
    BY <2>4, <2>5
  <2>9. Updated(c) = [name |-> n, description |-> t, status |-> v]
    BY <2>7, <2>8
  <2> QED
    BY <1>3, <2>1, <2>2, <2>3, <2>9 DEF EvRows
<1> QED
  BY <1>2, <1>3

LEMMA EvServesUpdate ==
    ASSUME EvInv, NEW c \in evCalls, ServeUpdate(c)
    PROVE  EvInv'
<1> PICK r : r = Updated(c)
  OBVIOUS
<1> PICK n : n = evWrites + 1
  OBVIOUS
<1> PICK got : got = [row |-> r, read |-> n]
  OBVIOUS
<1>1. /\ c.op \in {"save", "status"} /\ c.at = "sent" /\ row' = r /\ evWrites' = n /\ UNCHANGED flags
      /\ EvAnsweredWith(c, got)
      /\ UNCHANGED <<event, loadError, evForm, saving, saved, evTouched, changingStatus, confirmingEnd, evStale>>
      /\ UNCHANGED guestVars
  BY DEF ServeUpdate, EvAnswer, EvAnsweredWith, evDraft, status, guestList, guestVars
<1>2. c \in Updates /\ c \notin GuestCalls
  BY <1>1 DEF Updates, GuestCalls
<1>3. PICK d : /\ d.op = c.op /\ d.data = c.data /\ d.at = "answered" /\ d.got = got
               /\ \A e \in evCalls' : IsEvCall(e)
               /\ Updates' = (Updates \ {c}) \union {d} /\ GuestCalls' = GuestCalls
  BY <1>1, <1>2, UpdateAnswered
<1>4. /\ r \in EvRows
      /\ c.op = "status" => r.name = row.name /\ r.description = row.description
      /\ c.op = "save" => r.name = c.data.name /\ c.data.description \in {Empty, r.description}
  BY <1>1, <1>2, UpdatedRow
<1>5. /\ evWrites \in Nat /\ n \in Nat /\ n = evWrites + 1 /\ got \in EvReads
      /\ got.read = n /\ got.row = r /\ got # Nil
  BY <1>4, NilFacts DEF EvInv, EventInv, EvShownInv, EvReads
<1>6. \A e : IsRead(e) => IsRead(e)' /\ e.read # n
  BY <1>1, <1>5 DEF IsRead, EvReads
<1>7. IsRead(got)'
  BY <1>1, <1>5 DEF IsRead
<1>8. event # Nil /\ IsUpdate(c) /\ (c.op = "save" => saving)
  BY <1>1, <1>2 DEF EvInv, EventInv, EvShownInv, EvUpdatesInv
<1>9. c.op = "status" => \A f : FormIsStored(f)' <=> FormIsStored(f)
  BY <1>1, <1>4 DEF FormIsStored
<1>10. EvFlags' /\ EvShownInv'
  BY <1>1, <1>4, <1>5, <1>6, <1>8, <1>9 DEF EvInv, EventInv, EvFlags, EvShownInv, FormIsStored
<1>11. ASSUME NEW e \in Updates \ {c} PROVE IsUpdate(e)'
  <2>1. IsUpdate(e) /\ (e.op = "save" => c.op = "status")
    BY <1>1, <1>2 DEF EvInv, EventInv, EvUpdatesInv
  <2>2. UNCHANGED <<evForm, evTouched>>
    BY <1>1
  <2>3. e.op = "save" => (FormIsStored(evForm) => FormIsStored(evForm)')
    BY <1>9, <2>1, <2>2 DEF FormIsStored
  <2>4. e.got # Nil => IsRead(e.got)'
    BY <1>6, <2>1 DEF IsUpdate
  <2> QED
    BY <2>1, <2>2, <2>3, <2>4 DEF IsUpdate
<1>12. IsUpdate(d)'
  <2>1. c.op = "save" /\ ~evTouched => FormIsStored(evForm)'
    BY <1>1, <1>4, <1>8 DEF IsUpdate, FormIsStored
  <2> QED
    BY <1>1, <1>3, <1>7, <1>8, <2>1 DEF IsUpdate
<1>13. EvUpdatesInv'
  BY <1>1, <1>2, <1>3, <1>11, <1>12 DEF EvInv, EventInv, EvUpdatesInv
<1>14. EvNewestIsKnown'
  BY <1>1, <1>3, <1>5 DEF EvNewestIsKnown, EvNewest
<1>15. GuestsInv'
  BY <1>1, <1>3, GuestsStay DEF EvInv
<1> QED
  BY <1>3, <1>10, <1>13, <1>14, <1>15 DEF EvInv, EventInv

LEMMA EvServesEvent ==
    ASSUME EvInv, NEW c \in evCalls, ServeEvent(c)
    PROVE  EvInv'
<1> PICK got : got = [row |-> row, read |-> evWrites]
  OBVIOUS
<1>1. /\ c.op = "get" /\ c.at = "sent"
      /\ EvAnsweredWith(c, got)
      /\ UNCHANGED <<row, evWrites, event, loadError, evForm, saving, saved, evTouched, changingStatus,
                     confirmingEnd, evStale>>
      /\ UNCHANGED guestVars
  BY DEF ServeEvent, EvAnswer, EvAnsweredWith, At, evDraft, status, guestList, guestVars
<1>2. c \in Updates /\ c \notin GuestCalls
  BY <1>1 DEF Updates, GuestCalls
<1>3. PICK d : /\ d.op = c.op /\ d.data = c.data /\ d.at = "answered" /\ d.got = got
               /\ \A e \in evCalls' : IsEvCall(e)
               /\ Updates' = (Updates \ {c}) \union {d} /\ GuestCalls' = GuestCalls
  BY <1>1, <1>2, UpdateAnswered
<1>4. IsRead(got)'
  BY <1>1 DEF EvInv, EventInv, EvShownInv, IsRead, EvReads
<1>5. EvFlags' /\ EvShownInv'
  BY <1>1 DEF EvInv, EventInv, EvFlags, EvShownInv, IsRead, FormIsStored
<1>6. \A e \in Updates : IsUpdate(e)'
  BY <1>1 DEF EvInv, EventInv, EvUpdatesInv, IsUpdate, IsRead, FormIsStored
<1>7. IsUpdate(d)'
  BY <1>1, <1>3, <1>4 DEF IsUpdate
<1>8. EvUpdatesInv'
  BY <1>1, <1>2, <1>3, <1>6, <1>7 DEF EvInv, EventInv, EvUpdatesInv
<1>9. EvNewestIsKnown'
  BY <1>1, <1>2, <1>3 DEF EvInv, EventInv, EvUpdatesInv, EvNewestIsKnown, EvNewest
<1>10. GuestsInv'
  BY <1>1, <1>3, GuestsStay DEF EvInv
<1> QED
  BY <1>3, <1>5, <1>8, <1>9, <1>10 DEF EvInv, EventInv

LEMMA EvServesGuests ==
    ASSUME EvInv, NEW c \in evCalls, ServeGuests(c)
    PROVE  EvInv'
<1> PICK got : got = [g \in Guests |-> g \in flags]
  OBVIOUS
<1>1. /\ c.op = "list" /\ c.at = "sent"
      /\ EvAnsweredWith(c, got)
      /\ UNCHANGED eventVars /\ UNCHANGED <<flags, participants, toggling, guestsMuddled>>
  BY DEF ServeGuests, EvAnswer, EvAnsweredWith, eventVars, evDraft, status, guestList
<1>2. c \in GuestCalls /\ c \notin Updates
  BY <1>1 DEF Updates, GuestCalls
<1>3. PICK d : /\ d.op = c.op /\ d.data = c.data /\ d.at = "answered" /\ d.got = got
               /\ \A e \in evCalls' : IsEvCall(e)
               /\ Updates' = Updates /\ GuestCalls' = (GuestCalls \ {c}) \union {d}
  BY <1>1, <1>2, GuestAnswered
<1>4. got \in GuestLists /\ Tells(got)
  <2>1. \A g \in Guests : (g \in flags) \in BOOLEAN
    OBVIOUS
  <2>2. got \in [Guests -> BOOLEAN]
    BY <2>1, Zenon
  <2> QED
    BY <2>2 DEF GuestLists, Tells
<1>5. \A e \in GuestCalls : IsGuestCall(e)'
  BY <1>1 DEF EvInv, GuestsInv, IsGuestCall, Tells
<1>6. IsGuestCall(d)'
  BY <1>1, <1>2, <1>3, <1>4 DEF EvInv, GuestsInv, IsGuestCall, Tells
<1>7. GuestsInv'
  BY <1>1, <1>2, <1>3, <1>5, <1>6 DEF EvInv, GuestsInv, Tells
<1>8. EventInv'
  BY <1>1, <1>3, EventStays DEF EvInv
<1> QED
  BY <1>3, <1>7, <1>8 DEF EvInv

LEMMA EvServesFlag ==
    ASSUME EvInv, NEW c \in evCalls, ServeFlag(c)
    PROVE  EvInv'
<1> PICK g, l : g = c.data.guest /\ l = c.data.list
  OBVIOUS
<1>0. PICK done : done # Nil /\ EvAnswer(c, done)
  <2>1. TRUE # Nil /\ EvAnswer(c, TRUE)
    BY NilFacts, Zenon DEF ServeFlag
  <2> QED
    BY <2>1, Zenon
<1>1. /\ c.op = "flag" /\ c.at = "sent"
      /\ EvAnsweredWith(c, done)
      /\ flags' = IF c.data.value THEN flags \union {g} ELSE flags \ {g}
      /\ UNCHANGED eventVars /\ UNCHANGED <<participants, toggling, guestsMuddled>>
  BY <1>0 DEF ServeFlag, EvAnswer, EvAnsweredWith, eventVars, evDraft, status, guestList
<1>2. c \in GuestCalls /\ c \notin Updates
  BY <1>1 DEF Updates, GuestCalls
<1>3. PICK d : /\ d.op = c.op /\ d.data = c.data /\ d.at = "answered" /\ d.got = done
               /\ \A e \in evCalls' : IsEvCall(e)
               /\ Updates' = Updates /\ GuestCalls' = (GuestCalls \ {c}) \union {d}
  BY <1>1, <1>2, GuestAnswered
<1>4. /\ participants # Nil /\ l \in GuestLists /\ g \in DOMAIN l /\ (c.data.value <=> ~l[g])
      /\ ~guestsMuddled => l = participants /\ Tells(l)
  BY <1>1, <1>2 DEF EvInv, GuestsInv, IsGuestCall
<1>5. /\ DOMAIN l \subseteq Guests /\ l \in [DOMAIN l -> BOOLEAN]
  BY <1>4, ListFacts
<1>6. ~guestsMuddled => Tells([l EXCEPT ![g] = ~@])'
  BY <1>1, <1>4, <1>5 DEF Tells
<1>7. ASSUME NEW e \in GuestCalls \ {c} PROVE IsGuestCall(e)'
  <2>1. IsGuestCall(e) /\ e.op # "list" /\ (e.op = "flag" => guestsMuddled)
    BY <1>1, <1>2, <1>4 DEF EvInv, GuestsInv, IsGuestCall
  <2> QED
    BY <1>1, <2>1 DEF IsGuestCall
<1>8. IsGuestCall(d)'
  <2>1. Toggled(d)' = [l EXCEPT ![g] = ~@]
    BY <1>3 DEF Toggled
  <2>2. done # Nil
    BY <1>0
  <2>3. ~guestsMuddled => Tells(Toggled(d))'
    BY <1>3, <1>6 DEF Tells, Toggled
  <2> QED
    BY <1>1, <1>3, <1>4, <2>2, <2>3 DEF IsGuestCall
<1>9. GuestsInv'
  <2>1. flags' \subseteq Guests
    BY <1>1, <1>4, <1>5 DEF EvInv, GuestsInv
  <2>2. \A a, b \in GuestCalls' : a.op = b.op /\ (a.op = "list" \/ ~guestsMuddled') => a = b
    BY <1>1, <1>2, <1>3 DEF EvInv, GuestsInv
  <2> QED
    BY <1>1, <1>3, <1>7, <1>8, <2>1, <2>2 DEF EvInv, GuestsInv
<1>10. EventInv'
  BY <1>1, <1>3, EventStays DEF EvInv
<1> QED
  BY <1>3, <1>9, <1>10 DEF EvInv

LEMMA EvLosesCall ==
    ASSUME EvInv, NEW c \in evCalls, LoseEvCall(c)
    PROVE  EvInv'
<1>1. /\ EvAnsweredWith(c, Nil)
      /\ UNCHANGED <<row, evWrites, event, loadError, evForm, saving, saved, evTouched,
                     changingStatus, confirmingEnd, flags, participants, toggling>>
      /\ evStale' = (evStale \/ c.op \in {"save", "status"})
      /\ guestsMuddled' = (guestsMuddled \/ c.op = "flag")
  BY DEF LoseEvCall, EvAnsweredWith, evDraft, status
<1>2. PICK d : /\ d.op = c.op /\ d.data = c.data /\ d.at = "answered" /\ d.got = Nil
               /\ \A e \in evCalls' : IsEvCall(e)
               /\ Updates' = IF c \in Updates THEN (Updates \ {c}) \union {d} ELSE Updates
               /\ GuestCalls' = IF c \in GuestCalls THEN (GuestCalls \ {c}) \union {d} ELSE GuestCalls
  BY <1>1, EvAnswered
<1>3. evStale' \in BOOLEAN /\ guestsMuddled' \in BOOLEAN
  BY <1>1, Zenon
<1>4. EvFlags' /\ EvShownInv'
  BY <1>1, <1>3 DEF EvInv, EventInv, EvFlags, EvShownInv, IsRead, FormIsStored
<1>5. ASSUME NEW b \in Updates, IsUpdate(b) PROVE IsUpdate(b)'
  BY <1>1, <1>5 DEF IsUpdate, IsRead, FormIsStored
<1>6. EventInv'
  <2>1. CASE c \in Updates
    <3>1. Updates' = (Updates \ {c}) \union {d}
      BY <1>2, <2>1
    <3>2. IsUpdate(d)'
      BY <1>1, <1>2, <2>1 DEF EvInv, EventInv, EvUpdatesInv, IsUpdate
    <3>3. EvUpdatesInv'
      BY <1>1, <1>2, <1>5, <2>1, <3>1, <3>2 DEF EvInv, EventInv, EvUpdatesInv
    <3>4. EvNewestIsKnown'
      BY <1>1, <2>1, <3>1 DEF EvInv, EventInv, EvNewestIsKnown, EvNewest, Updates
    <3> QED
      BY <1>4, <3>3, <3>4 DEF EventInv
  <2>2. CASE c \notin Updates
    <3>1. Updates' = Updates /\ c.op \notin {"save", "status"}
      BY <1>2, <2>2 DEF Updates
    <3>2. UNCHANGED evStale
      BY <1>1, <3>1, Zenon DEF EvInv, EventInv, EvFlags
    <3> QED
      BY <1>1, <3>1, <3>2, EventStays DEF EvInv, eventVars
  <2> QED
    BY <2>1, <2>2
<1>7. GuestsInv'
  <2>1. ASSUME NEW b \in GuestCalls, IsGuestCall(b) PROVE IsGuestCall(b)'
    BY <1>1, <2>1 DEF IsGuestCall, Tells, Toggled
  <2>2. CASE c \in GuestCalls
    <3>1. GuestCalls' = (GuestCalls \ {c}) \union {d} /\ (c.op = "flag" => guestsMuddled')
      BY <1>1, <1>2, <2>2
    <3>2. IsGuestCall(d)'
      BY <1>1, <1>2, <2>2 DEF EvInv, GuestsInv, IsGuestCall
    <3> QED
      BY <1>1, <1>2, <1>3, <2>1, <2>2, <3>1, <3>2 DEF EvInv, GuestsInv, Tells
  <2>3. CASE c \notin GuestCalls
    <3>1. GuestCalls' = GuestCalls
      BY <1>2, <2>3
    <3> QED
      BY <1>1, <1>3, <2>1, <3>1 DEF EvInv, GuestsInv, Tells
  <2> QED
    BY <2>2, <2>3
<1> QED
  BY <1>2, <1>6, <1>7 DEF EvInv

LEMMA EvArrived ==
    ASSUME EvInv, NEW c \in evCalls, EvArrive(c)
    PROVE  /\ Updates' = Updates \ {c} /\ GuestCalls' = GuestCalls \ {c}
           /\ \A e \in evCalls' : IsEvCall(e)
           /\ UNCHANGED <<row, flags, evWrites>> /\ c.at = "answered"
<1>1. evCalls' = evCalls \ {c} /\ UNCHANGED <<row, flags, evWrites>> /\ c.at = "answered"
  BY DEF EvArrive, Stored
<1> QED
  BY <1>1 DEF EvInv, IsEvCall, Updates, GuestCalls

LEMMA EvShows ==
    ASSUME EvInv, NEW c \in evCalls, EventArrives(c)
    PROVE  EvInv'
<1>1. /\ c.op = "get" /\ EvArrive(c) /\ event' = c.got /\ (loadError' <=> c.got = Nil)
      /\ evForm' = IF c.got = Nil THEN evForm ELSE [name |-> c.got.row.name, description |-> c.got.row.description]
      /\ UNCHANGED <<saving, saved, evTouched, changingStatus, confirmingEnd, evStale>>
      /\ UNCHANGED <<participants, toggling, guestsMuddled>>
  BY DEF EventArrives, status, guestList
<1>2. loadError' \in BOOLEAN
  BY Zenon DEF EventArrives
<1>3. /\ Updates' = Updates \ {c} /\ GuestCalls' = GuestCalls \ {c}
      /\ \A e \in evCalls' : IsEvCall(e)
      /\ UNCHANGED <<row, flags, evWrites>>
  BY <1>1, EvArrived
<1>4. c \in Updates /\ c \notin GuestCalls
  BY <1>1 DEF Updates, GuestCalls
<1>5. /\ event = Nil /\ ~saved /\ ~saving /\ ~changingStatus /\ evWrites = 0
      /\ \A b \in Updates : b.op \notin {"save", "status"} /\ IsUpdate(b)
      /\ c.got # Nil => IsRead(c.got)
  BY <1>1, <1>4 DEF EvInv, EventInv, EvShownInv, EvUpdatesInv, IsUpdate
<1>6. evForm' \in [name : Texts \union {Empty}, description : Texts \union {Empty}]
  BY <1>1, <1>5 DEF EvInv, EventInv, EvShownInv, IsRead, EvReads, EvRows
<1>7. EvFlags' /\ EvShownInv'
  BY <1>1, <1>2, <1>3, <1>5, <1>6 DEF EvInv, EventInv, EvFlags, EvShownInv, IsRead
<1>8. EvUpdatesInv'
  BY <1>1, <1>3, <1>4, <1>5 DEF EvInv, EventInv, EvUpdatesInv, IsUpdate, IsRead
<1>9. EvNewestIsKnown'
  BY <1>1, <1>3, <1>5 DEF EvNewestIsKnown, EvNewest, IsRead, EvReads
<1>10. GuestsInv'
  BY <1>1, <1>3, <1>4, GuestsStay DEF EvInv, guestVars
<1> QED
  BY <1>3, <1>7, <1>8, <1>9, <1>10 DEF EvInv, EventInv

LEMMA EvUpdateArrives ==
    ASSUME EvInv, NEW c \in evCalls, SaveArrives(c) \/ StatusArrives(c)
    PROVE  EvInv'
<1>1. /\ c.op \in {"save", "status"} /\ EvArrive(c) /\ ShowEvent(c)
      /\ UNCHANGED <<loadError, evForm, evTouched, confirmingEnd>>
      /\ UNCHANGED <<participants, toggling, guestsMuddled>>
  BY DEF SaveArrives, StatusArrives, status, evDraft, guestList
<1>2. /\ Updates' = Updates \ {c} /\ GuestCalls' = GuestCalls \ {c}
      /\ \A e \in evCalls' : IsEvCall(e)
      /\ UNCHANGED <<row, flags, evWrites>>
  BY <1>1, EvArrived
<1>3. c \in Updates /\ c \notin GuestCalls
  BY <1>1 DEF Updates, GuestCalls
<1>4. event # Nil /\ IsUpdate(c) /\ IsRead(event)
  BY <1>1, <1>3 DEF EvInv, EventInv, EvShownInv, EvUpdatesInv
<1>5. /\ event' # Nil /\ IsRead(event')
      /\ c.got # Nil => event' = c.got /\ evStale' = (evStale \/ event.read > c.got.read)
      /\ c.got = Nil => UNCHANGED <<event, evStale>>
  BY <1>1, <1>4 DEF ShowEvent, IsUpdate
<1>6. evStale' \in BOOLEAN
  <2>1. evStale \in BOOLEAN
    BY DEF EvInv, EventInv, EvFlags
  <2> QED
    BY <1>5, <2>1, Zenon
<1>7. EvNewestIsKnown'
  <2>1. CASE c.got = Nil
    BY <1>2, <1>5, <2>1 DEF EvInv, EventInv, EvNewestIsKnown, EvNewest
  <2>2. CASE c.got # Nil
    <3>1. IsRead(c.got) /\ c.got.read \in Nat /\ event.read \in Nat /\ evWrites \in Nat
      BY <1>4, <2>2 DEF IsUpdate, IsRead, EvReads, EvInv, EventInv, EvShownInv
    <3>2. c.got.read <= evWrites
      BY <3>1 DEF IsRead
    <3>3. SUFFICES ASSUME ~evStale'
                   PROVE  EvNewest(event)' \/ \E b \in Updates' : b.op # "get" /\ b.at = "answered" /\ EvNewest(b.got)'
      BY DEF EvNewestIsKnown
    <3>4. ~evStale /\ ~(event.read > c.got.read)
      BY <1>5, <2>2, <3>3
    <3>5. CASE EvNewest(event)
      <4>1. c.got.read = evWrites
        BY <3>1, <3>2, <3>4, <3>5 DEF EvNewest
      <4> QED
        BY <1>2, <1>5, <2>2, <4>1 DEF EvNewest
    <3>6. ASSUME NEW b \in Updates, b.op # "get", b.at = "answered", EvNewest(b.got)
          PROVE  EvNewest(event)' \/ \E a \in Updates' : a.op # "get" /\ a.at = "answered" /\ EvNewest(a.got)'
      BY <1>2, <1>5, <2>2, <3>6 DEF EvNewest
    <3> QED
      BY <1>4, <3>4, <3>5, <3>6 DEF EvInv, EventInv, EvNewestIsKnown
  <2> QED
    BY <2>1, <2>2
<1>8. ASSUME NEW b \in Updates PROVE IsUpdate(b)'
  BY <1>1, <1>2 DEF EvInv, EventInv, EvUpdatesInv, IsUpdate, IsRead, FormIsStored
<1>9. IsRead(event)'
  BY <1>2, <1>5 DEF IsRead
<1>10. EvFlags' /\ EvShownInv' /\ EvUpdatesInv'
  <2>1. CASE SaveArrives(c)
    <3>1. /\ c.op = "save" /\ saving' = FALSE /\ (saved' <=> c.got # Nil) /\ UNCHANGED changingStatus
      BY <2>1 DEF SaveArrives, status
    <3>2. saving' \in BOOLEAN /\ saved' \in BOOLEAN
      BY <2>1, Zenon DEF SaveArrives
    <3>3. c.got # Nil /\ ~evTouched => FormIsStored(evForm)'
      BY <1>1, <1>2, <1>4, <3>1 DEF IsUpdate, FormIsStored
    <3>4. EvFlags'
      BY <1>1, <1>6, <3>1, <3>2 DEF EvInv, EventInv, EvFlags
    <3>5. EvShownInv'
      BY <1>1, <1>2, <1>5, <1>9, <3>1, <3>3 DEF EvInv, EventInv, EvShownInv
    <3>6. EvUpdatesInv'
      BY <1>2, <1>3, <1>4, <1>8, <3>1 DEF EvInv, EventInv, EvUpdatesInv
    <3> QED
      BY <3>4, <3>5, <3>6
  <2>2. CASE StatusArrives(c)
    <3>1. /\ c.op = "status" /\ changingStatus' = FALSE /\ UNCHANGED <<saving, saved>>
      BY <2>2 DEF StatusArrives, evDraft
    <3>2. changingStatus' \in BOOLEAN
      BY <2>2, Zenon DEF StatusArrives
    <3>3. EvFlags'
      BY <1>1, <1>6, <3>1, <3>2 DEF EvInv, EventInv, EvFlags
    <3>4. EvShownInv'
      BY <1>1, <1>2, <1>5, <1>9, <3>1 DEF EvInv, EventInv, EvShownInv, FormIsStored
    <3>5. EvUpdatesInv'
      BY <1>2, <1>3, <1>4, <1>8, <3>1 DEF EvInv, EventInv, EvUpdatesInv
    <3> QED
      BY <3>3, <3>4, <3>5
  <2> QED
    BY <2>1, <2>2
<1>11. GuestsInv'
  BY <1>1, <1>2, <1>3, GuestsStay DEF EvInv, guestVars
<1> QED
  BY <1>2, <1>7, <1>10, <1>11 DEF EvInv, EventInv

LEMMA EvGuestsArrive ==
    ASSUME EvInv, NEW c \in evCalls, GuestsArrive(c) \/ FlagArrives(c)
    PROVE  EvInv'
<1>1. /\ c.op \in {"list", "flag"} /\ EvArrive(c)
      /\ UNCHANGED <<event, loadError, evForm, saving, saved, evTouched, changingStatus, confirmingEnd, evStale>>
      /\ UNCHANGED guestsMuddled
  BY DEF GuestsArrive, FlagArrives, status, evDraft
<1>2. /\ Updates' = Updates \ {c} /\ GuestCalls' = GuestCalls \ {c}
      /\ \A e \in evCalls' : IsEvCall(e)
      /\ UNCHANGED <<row, flags, evWrites>> /\ c.at = "answered"
  BY <1>1, EvArrived
<1>3. c \in GuestCalls /\ c \notin Updates
  BY <1>1 DEF Updates, GuestCalls
<1>4. EventInv'
  BY <1>1, <1>2, <1>3, EventStays DEF EvInv, eventVars
<1>5. IsGuestCall(c) /\ \A b \in GuestCalls : IsGuestCall(b)
  BY <1>3 DEF EvInv, GuestsInv
<1>6. CASE GuestsArrive(c)
  <2>1. /\ c.op = "list" /\ UNCHANGED toggling
        /\ participants' = IF c.got = Nil THEN [g \in {} |-> FALSE] ELSE c.got
    BY <1>6 DEF GuestsArrive
  <2>2. participants = Nil /\ \A b \in GuestCalls : b.op # "flag"
    BY <1>5, <2>1 DEF IsGuestCall
  <2>3. participants' \in GuestLists /\ Tells(participants')
    <3>1. [g \in {} |-> FALSE] \in [{} -> BOOLEAN]
      BY Zenon
    <3>2. [g \in {} |-> FALSE] \in GuestLists /\ Tells([g \in {} |-> FALSE])
      BY <3>1 DEF GuestLists, Tells
    <3> QED
      BY <1>5, <2>1, <3>2 DEF IsGuestCall
  <2>4. Tells(participants)'
    BY <1>2, <2>3 DEF Tells
  <2>5. \A b \in GuestCalls' : b.op \notin {"list", "flag"}
    BY <1>2, <1>3, <2>1, <2>2 DEF EvInv, GuestsInv
  <2>6. GuestsInv'
    BY <1>1, <1>2, <2>1, <2>3, <2>4, <2>5 DEF EvInv, GuestsInv, GuestCalls, IsGuestCall
  <2> QED
    BY <1>2, <1>4, <2>6 DEF EvInv
<1>7. CASE FlagArrives(c)
  <2>1. /\ c.op = "flag" /\ toggling' = Nil
        /\ participants' = IF c.got = Nil THEN participants ELSE Toggled(c)
    BY <1>7 DEF FlagArrives, Toggled
  <2>2. participants # Nil /\ participants \in GuestLists /\ c.data.list \in GuestLists
    BY <1>5, <2>1 DEF IsGuestCall, EvInv, GuestsInv
  <2>3. Toggled(c) \in GuestLists
    <3>1. PICK l, g : l = c.data.list /\ g = c.data.guest
      OBVIOUS
    <3>2. l \in [DOMAIN l -> BOOLEAN] /\ DOMAIN l \subseteq Guests
      BY <2>2, <3>1, ListFacts
    <3>3. [l EXCEPT ![g] = ~@] \in [DOMAIN l -> BOOLEAN]
      BY <3>2
    <3> QED
      BY <3>1, <3>2, <3>3 DEF Toggled, GuestLists
  <2>4. participants' \in GuestLists /\ participants' # Nil
    BY <2>1, <2>2, <2>3, NilFacts
  <2>5. ~guestsMuddled => participants' = Toggled(c) /\ Tells(Toggled(c)) /\ \A b \in GuestCalls' : b.op # "flag"
    BY <1>2, <1>3, <1>5, <2>1 DEF IsGuestCall, EvInv, GuestsInv
  <2>6. ~guestsMuddled => Tells(participants)'
    BY <1>2, <2>5 DEF Tells
  <2>7. \A b \in GuestCalls' : IsGuestCall(b)'
    BY <1>1, <1>2, <1>5, <2>2, <2>4, <2>5 DEF IsGuestCall
  <2>8. GuestsInv'
    BY <1>1, <1>2, <2>1, <2>4, <2>6, <2>7 DEF EvInv, GuestsInv
  <2> QED
    BY <1>2, <1>4, <2>8 DEF EvInv
<1> QED
  BY <1>6, <1>7

LEMMA EvNextKeeps == EvInv /\ [EvNext]_evVars => EvInv'
<1> SUFFICES ASSUME EvInv, [EvNext]_evVars PROVE EvInv'
  OBVIOUS
<1>1. CASE UNCHANGED evVars
  <2>1. UNCHANGED evCalls /\ UNCHANGED eventVars /\ UNCHANGED guestVars
    BY <1>1 DEF evVars, eventVars, guestVars, evDraft, status, guestList
  <2>2. EventInv'
    BY <2>1, EventStays DEF EvInv, Updates
  <2>3. GuestsInv'
    BY <2>1, GuestsStay DEF EvInv, GuestCalls
  <2> QED
    BY <2>1, <2>2, <2>3 DEF EvInv, IsEvCall
<1>2. CASE HandleSave \/ Publish \/ Reopen \/ End \/ AskToEnd \/ ConfirmTimesOut
  BY <1>2, EvSubmits DEF Publish, Reopen, End, Statuses
<1> QED
  BY <1>1, <1>2, EvEdits, EvToggles, EvServesUpdate, EvServesEvent, EvServesGuests, EvServesFlag,
     EvLosesCall, EvShows, EvUpdateArrives, EvGuestsArrive DEF EvNext

----------------------------------------------------------------------------

(***************************************************************************)
(* CredentialPage                                                          *)
(***************************************************************************)
Drafts == [art : Artworks, position : Positions]

DraftIsStored == credential.position = position /\ artwork \in {Nil, credential.art}

IsCrCall(c) ==
    /\ c = [op |-> c.op, data |-> c.data, at |-> c.at] /\ c.at \in {"sent", "answered", "failed"}
    /\ c.op = "upload" => c.data \in Artworks \ {Nil}
    /\ c.op = "save" =>
        /\ c.data \in Drafts
        /\ ~crMuddled /\ c.at = "sent" => c.data = [art |-> artwork, position |-> position]
        /\ ~crMuddled /\ c.at = "answered" => DraftIsStored

CrFlags ==
    /\ crShown \in BOOLEAN /\ crLoadError \in BOOLEAN /\ crError \in BOOLEAN
    /\ crSaving \in BOOLEAN /\ crSaved \in BOOLEAN /\ crMuddled \in BOOLEAN

CrDraftInv ==
    /\ credential \in [art : Artworks, position : Positions \union {Nil}]
    /\ artwork \in Artworks /\ position \in Positions /\ crClicks \in 0 .. MaxCrClicks
    /\ crSaved /\ ~crMuddled => DraftIsStored

\* Only the download of the artwork shown may still put its image on the canvas.
CrImageInv ==
    /\ image \in Artworks
    /\ \A d \in downloads : /\ d = [url |-> d.url, live |-> d.live]
                            /\ d.url \in Artworks \ {Nil} /\ d.live \in BOOLEAN
                            /\ d.live => d.url = artwork
    /\ (\A d \in downloads : ~d.live) => image \in {artwork, Nil}

CrCallsInv ==
    /\ \A c \in crCalls : IsCrCall(c)
    /\ \A c, d \in crCalls : c.op = d.op /\ c.op \in {"get", "save"} => c = d
    /\ crSaving <=> \E c \in crCalls : c.op = "save"
    /\ (\E c \in crCalls : c.op = "get") => ~crShown
    /\ ~crShown => /\ ~crSaving /\ ~crSaved /\ artwork = Nil /\ image = Nil /\ downloads = {}
                   /\ \A c \in crCalls : c.op = "get"

CrInv == CrFlags /\ CrDraftInv /\ CrImageInv /\ CrCallsInv

LEMMA CrInvIsEnough ==
    CrInv => CrTypeOK /\ CanvasShowsArtwork /\ SavedCredentialIsStored
<1> SUFFICES ASSUME CrInv PROVE CrTypeOK /\ CanvasShowsArtwork /\ SavedCredentialIsStored
  OBVIOUS
<1>1. {crShown, crLoadError, crError, crSaving, crSaved, crMuddled} \subseteq BOOLEAN
  BY Zenon DEF CrInv, CrFlags
<1>2. /\ credential \in [art : Artworks, position : Positions \union {Nil}]
      /\ artwork \in Artworks /\ position \in Positions /\ image \in Artworks
      /\ crSaving <=> \E c \in crCalls : c.op = "save"
  BY DEF CrInv, CrDraftInv, CrImageInv, CrCallsInv
<1>3. \A d \in downloads : d.url \in Artworks \ {Nil} /\ d.live \in BOOLEAN
  BY Zenon DEF CrInv, CrImageInv
<1>4. CrTypeOK
  BY <1>1, <1>2, <1>3, Zenon DEF CrTypeOK
<1>5. CanvasShowsArtwork
  BY DEF CanvasShowsArtwork, CrInv, CrImageInv
<1>6. SavedCredentialIsStored
  BY DEF SavedCredentialIsStored, CrInv, CrDraftInv, DraftIsStored
<1> QED
  BY <1>4, <1>5, <1>6

LEMMA CrInitInv == CrInit => CrInv
<1> SUFFICES ASSUME CrInit PROVE CrInv
  OBVIOUS
<1>1. CrFlags
  BY Zenon DEF CrInit, CrFlags
<1>2. 0 \in Artworks /\ Nil \in Artworks /\ 0 \in Percents /\ 50 \in Percents /\ FirstStyle \in Styles
  BY CrBounds, FirstStyleIsOne DEF Artworks, Percents
<1>3. /\ ~crShown /\ artwork = Nil /\ position = [at |-> 50, style |-> FirstStyle] /\ image = Nil
      /\ downloads = {} /\ ~crSaving /\ ~crSaved /\ crClicks = 0
      /\ crCalls = {[op |-> "get", data |-> Nil, at |-> "sent"]}
  BY DEF CrInit, DEFAULT_POSITION
<1>4. CrDraftInv
  <2>1. PICK a \in {0, Nil}, p \in {Nil, [at |-> 0, style |-> FirstStyle]} : credential = [art |-> a, position |-> p]
    BY DEF CrInit
  <2>2. p \in Positions \union {Nil} /\ a \in Artworks
    BY <1>2 DEF Positions
  <2>3. position \in Positions
    BY <1>2, <1>3 DEF Positions
  <2> QED
    BY <1>2, <1>3, <2>1, <2>2, <2>3, CrBounds DEF CrDraftInv
<1>5. CrImageInv
  BY <1>2, <1>3 DEF CrImageInv
<1>6. CrCallsInv
  BY <1>3 DEF CrCallsInv, IsCrCall
<1> QED
  BY <1>1, <1>4, <1>5, <1>6 DEF CrInv

\* setArtworkUrl: what was being fetched no longer counts.
LEMMA SetArtworkImage ==
    ASSUME CrImageInv, NEW a \in Artworks, SetArtwork(a), image' \in Artworks,
           a = Nil => image' = Nil
    PROVE  CrImageInv'
<1>1. /\ artwork' = a
      /\ downloads' = {[d EXCEPT !.live = FALSE] : d \in downloads} \union
                      (IF a = Nil THEN {} ELSE {[url |-> a, live |-> TRUE]})
  BY DEF SetArtwork
<1>2. ASSUME NEW d \in downloads
      PROVE  [d EXCEPT !.live = FALSE] = [url |-> d.url, live |-> FALSE] /\ d.url \in Artworks \ {Nil}
  <2>1. PICK u, v : d = [url |-> u, live |-> v]
    BY DEF CrImageInv
  <2>2. \A no : [d EXCEPT !.live = no] = [url |-> u, live |-> no]
    BY <2>1
  <2>3. [d EXCEPT !.live = FALSE] = [url |-> u, live |-> FALSE]
    BY <2>2, Zenon
  <2>4. d.url = u
    BY <2>1
  <2> QED
    BY <2>3, <2>4 DEF CrImageInv
<1>3. ASSUME NEW d \in downloads'
      PROVE  /\ d = [url |-> d.url, live |-> d.live] /\ d.url \in Artworks \ {Nil}
             /\ d.live \in BOOLEAN /\ (d.live => d.url = a)
  <2>1. CASE \E e \in downloads : d = [e EXCEPT !.live = FALSE]
    <3>1. PICK u \in Artworks \ {Nil} : d = [url |-> u, live |-> FALSE]
      BY <1>2, <2>1
    <3> QED
      BY <3>1
  <2>2. CASE a # Nil /\ d = [url |-> a, live |-> TRUE]
    BY <2>2
  <2> QED
    BY <1>1, <2>1, <2>2
<1>4. a # Nil => \E d \in downloads' : d.live
  <2>1. PICK e : e = [url |-> a, live |-> TRUE]
    OBVIOUS
  <2>2. e.live
    BY <2>1
  <2>3. a # Nil => e \in downloads'
    BY <1>1, <2>1
  <2> QED
    BY <2>2, <2>3
<1> QED
  BY <1>1, <1>3, <1>4 DEF CrImageInv

LEMMA CrEdits ==
    ASSUME CrInv,
           \/ RemoveArtwork
           \/ \E x \in Drops : DragEnd(x)
           \/ \E s \in Styles : UpdatePosition(s)
    PROVE  CrInv'
<1>1. position \in Positions
  BY DEF CrInv, CrDraftInv
<1>2. ASSUME NEW p \in Positions, EditPosition(p) PROVE CrInv'
  <2>1. /\ crShown /\ crClicks < MaxCrClicks /\ crClicks' = crClicks + 1 /\ position' = p
        /\ crSaved' = FALSE /\ crMuddled' = (crMuddled \/ crSaving)
        /\ UNCHANGED <<credential, crShown, crLoadError, artwork, image, downloads, crError, crSaving, crCalls>>
    BY <1>2 DEF EditPosition, CrClick, CrStored, crCanvas
  <2>2. crSaved' \in BOOLEAN /\ crMuddled' \in BOOLEAN
    BY <2>1, Zenon
  <2>3. CrFlags' /\ CrDraftInv'
    BY <2>1, <2>2, CrBounds DEF CrInv, CrFlags, CrDraftInv
  <2>4. CrImageInv'
    BY <2>1 DEF CrInv, CrImageInv
  <2>5. CrCallsInv'
    BY <2>1 DEF CrInv, CrCallsInv, IsCrCall
  <2> QED
    BY <2>3, <2>4, <2>5 DEF CrInv
<1>3. ASSUME NEW x \in Drops, DragEnd(x) PROVE CrInv'
  <2>1. PICK k : k = clampPct(x)
    OBVIOUS
  <2>2. k \in Percents
    BY <2>1, DropsArePercents DEF clampPct, Percents
  <2>3. [position EXCEPT !.at = k] \in Positions
    BY <1>1, <2>2 DEF Positions
  <2> QED
    BY <1>2, <1>3, <2>1, <2>3 DEF DragEnd
<1>4. ASSUME NEW s \in Styles, UpdatePosition(s) PROVE CrInv'
  <2>1. [position EXCEPT !.style = s] \in Positions
    BY <1>1 DEF Positions
  <2> QED
    BY <1>2, <1>4, <2>1 DEF UpdatePosition
<1>5. CASE RemoveArtwork
  <2>1. /\ crShown /\ crClicks < MaxCrClicks /\ crClicks' = crClicks + 1
        /\ SetArtwork(Nil) /\ image' = Nil
        /\ crSaved' = FALSE /\ crMuddled' = (crMuddled \/ crSaving)
        /\ UNCHANGED <<credential, crShown, crLoadError, position, crError, crSaving, crCalls>>
    BY <1>5 DEF RemoveArtwork, CrClick, CrStored
  <2>2. crSaved' \in BOOLEAN /\ crMuddled' \in BOOLEAN
    BY <2>1, Zenon
  <2>3. artwork' = Nil /\ Nil \in Artworks
    BY <2>1 DEF SetArtwork, Artworks
  <2>4. CrFlags' /\ CrDraftInv'
    BY <2>1, <2>2, <2>3, CrBounds DEF CrInv, CrFlags, CrDraftInv
  <2>5. CrImageInv'
    BY <2>1, <2>3, SetArtworkImage DEF CrInv
  <2>6. CrCallsInv'
    BY <2>1 DEF CrInv, CrCallsInv, IsCrCall
  <2> QED
    BY <2>4, <2>5, <2>6 DEF CrInv
<1> QED
  BY <1>3, <1>4, <1>5

LEMMA CrSends ==
    ASSUME CrInv, UploadArtwork \/ HandleSaveCredential
    PROVE  CrInv'
<1>1. /\ crShown /\ crClicks < MaxCrClicks /\ crClicks' = crClicks + 1
      /\ UNCHANGED <<credential, crShown, crLoadError, artwork, position, image, downloads, crSaved, crMuddled>>
  BY DEF UploadArtwork, HandleSaveCredential, CrClick, CrStored, crDraft, crCanvas
<1>2. crClicks + 1 \in Artworks \ {Nil} /\ crClicks' \in 0 .. MaxCrClicks
  BY <1>1, CrBounds, NilIsNoArtwork DEF CrInv, CrDraftInv, Artworks
<1>3. CrDraftInv' /\ CrImageInv'
  BY <1>1, <1>2 DEF CrInv, CrDraftInv, CrImageInv, DraftIsStored
<1>4. \A c \in crCalls : IsCrCall(c)' /\ c.op # "get"
  BY <1>1 DEF CrInv, CrCallsInv, IsCrCall, DraftIsStored
<1>5. CASE UploadArtwork
  <2> PICK d : d = [op |-> "upload", data |-> crClicks + 1, at |-> "sent"]
    OBVIOUS
  <2>1. crCalls' = crCalls \union {d} /\ UNCHANGED <<crError, crSaving>>
    BY <1>5 DEF UploadArtwork
  <2>2. CrFlags'
    BY <1>1, <2>1 DEF CrInv, CrFlags
  <2>3. d.op = "upload" /\ IsCrCall(d)'
    BY <1>2 DEF IsCrCall
  <2>4. CrCallsInv'
    BY <1>1, <1>4, <2>1, <2>3 DEF CrInv, CrCallsInv
  <2> QED
    BY <1>3, <2>2, <2>4 DEF CrInv
<1>6. CASE HandleSaveCredential
  <2> PICK f : f = [art |-> artwork, position |-> position]
    OBVIOUS
  <2> PICK d : d = [op |-> "save", data |-> f, at |-> "sent"]
    OBVIOUS
  <2>1. crCalls' = crCalls \union {d} /\ ~crSaving /\ crSaving' = TRUE /\ crError' = FALSE
    BY <1>6 DEF HandleSaveCredential
  <2>2. crSaving' \in BOOLEAN /\ crError' \in BOOLEAN
    BY <2>1, Zenon
  <2>3. CrFlags'
    BY <1>1, <2>2 DEF CrInv, CrFlags
  <2>4. f \in Drafts /\ UNCHANGED f
    BY DEF CrInv, CrDraftInv, Drafts
  <2>5. d.op = "save" /\ IsCrCall(d)'
    BY <1>1, <2>4 DEF IsCrCall
  <2>6. CrCallsInv'
    BY <1>1, <1>4, <2>1, <2>5 DEF CrInv, CrCallsInv
  <2> QED
    BY <1>3, <2>3, <2>6 DEF CrInv
<1> QED
  BY <1>5, <1>6

LEMMA CrImages ==
    ASSUME CrInv, NEW d \in downloads, NEW ok \in BOOLEAN, ImageArrives(d, ok)
    PROVE  CrInv'
<1>1. /\ downloads' = downloads \ {d}
      /\ UNCHANGED <<credential, crShown, crLoadError, artwork, position, crSaving, crSaved, crCalls,
                     crMuddled, crClicks>>
      /\ IF d.live THEN image' = (IF ok THEN d.url ELSE Nil) ELSE UNCHANGED image
  BY DEF ImageArrives, CrStored, crDraft
<1>2. crError' \in BOOLEAN
  <2>1. crError \in BOOLEAN
    BY DEF CrInv, CrFlags
  <2> QED
    BY <2>1, Zenon DEF ImageArrives
<1>3. CrFlags' /\ CrDraftInv'
  BY <1>1, <1>2 DEF CrInv, CrFlags, CrDraftInv, DraftIsStored
<1>4. /\ image \in Artworks /\ Nil \in Artworks /\ d.url \in Artworks /\ (d.live => d.url = artwork)
  BY DEF CrInv, CrImageInv, Artworks
<1>5. CrImageInv'
  BY <1>1, <1>4 DEF CrInv, CrImageInv
<1>6. crShown
  BY DEF CrInv, CrCallsInv
<1>7. CrCallsInv'
  BY <1>1, <1>6 DEF CrInv, CrCallsInv, IsCrCall, DraftIsStored
<1> QED
  BY <1>3, <1>5, <1>7 DEF CrInv

LEMMA CrServes ==
    ASSUME CrInv, NEW c \in crCalls, ServeUpdateCredential(c) \/ LoseCrCall(c)
    PROVE  CrInv'
<1>1. UNCHANGED <<crShown, crLoadError, artwork, position, image, downloads, crError, crSaving, crSaved,
                  crMuddled, crClicks>>
  BY DEF ServeUpdateCredential, LoseCrCall, crDraft, crCanvas
<1>2. CrFlags' /\ CrImageInv'
  BY <1>1 DEF CrInv, CrFlags, CrImageInv
<1>3. IsCrCall(c) /\ CrDraftInv
  BY DEF CrInv, CrCallsInv
<1>4. CASE LoseCrCall(c)
  <2> PICK d : d = [op |-> c.op, data |-> c.data, at |-> "failed"]
    OBVIOUS
  <2>1. crCalls' = (crCalls \ {c}) \union {d} /\ UNCHANGED credential
    BY <1>3, <1>4 DEF LoseCrCall, IsCrCall
  <2>2. d.op = c.op /\ IsCrCall(d)'
    BY <1>1, <1>3, <2>1 DEF IsCrCall
  <2>3. \A e \in crCalls : IsCrCall(e)'
    BY <1>1, <2>1 DEF CrInv, CrCallsInv, IsCrCall, DraftIsStored
  <2>4. CrCallsInv'
    BY <1>1, <2>1, <2>2, <2>3 DEF CrInv, CrCallsInv
  <2>5. CrDraftInv'
    BY <1>1, <2>1 DEF CrInv, CrDraftInv, DraftIsStored
  <2> QED
    BY <1>2, <2>4, <2>5 DEF CrInv
<1>5. CASE ServeUpdateCredential(c)
  <2> PICK d : d = [op |-> c.op, data |-> c.data, at |-> "answered"]
    OBVIOUS
  <2> PICK a : a = IF c.data.art = Nil THEN credential.art ELSE c.data.art
    OBVIOUS
  <2> PICK p : p = c.data.position
    OBVIOUS
  <2>1. crCalls' = (crCalls \ {c}) \union {d} /\ credential' = [art |-> a, position |-> p]
        /\ c.op = "save" /\ c.at = "sent"
    BY <1>3, <1>5 DEF ServeUpdateCredential, IsCrCall
  <2>2. a \in Artworks /\ p \in Positions
    BY <1>3, <2>1 DEF IsCrCall, Drafts, CrDraftInv
  <2>3. ~crMuddled => DraftIsStored'
    <3>1. ASSUME ~crMuddled PROVE c.data.art = artwork /\ c.data.position = position
      BY <1>3, <2>1, <3>1 DEF IsCrCall
    <3> QED
      BY <1>1, <2>1, <3>1 DEF DraftIsStored
  <2>4. CrDraftInv'
    BY <1>1, <1>3, <2>1, <2>2, <2>3 DEF CrDraftInv
  <2>5. d.op = "save" /\ IsCrCall(d)'
    BY <1>1, <1>3, <2>1, <2>3 DEF IsCrCall
  <2>6. \A e \in crCalls \ {c} : IsCrCall(e)'
    BY <1>1, <2>1 DEF CrInv, CrCallsInv, IsCrCall
  <2>7. CrCallsInv'
    BY <1>1, <2>1, <2>5, <2>6 DEF CrInv, CrCallsInv
  <2> QED
    BY <1>2, <2>4, <2>7 DEF CrInv
<1> QED
  BY <1>4, <1>5

LEMMA CrArrives ==
    ASSUME CrInv, NEW c \in crCalls,
           CredentialArrives(c) \/ ArtworkArrives(c) \/ SavedCredentialArrives(c)
    PROVE  CrInv'
<1>1. crCalls' = crCalls \ {c} /\ UNCHANGED <<credential, crClicks>>
  BY DEF CredentialArrives, ArtworkArrives, SavedCredentialArrives, CrArrive
<1>2. IsCrCall(c) /\ (c.op = "get" => ~crShown) /\ (c.op # "get" => crShown)
      /\ (~crShown => ~crSaving /\ ~crSaved /\ artwork = Nil /\ image = Nil /\ downloads = {}
                      /\ \A b \in crCalls : b = c)
  BY DEF CrInv, CrCallsInv
<1>3. CASE CredentialArrives(c)
  <2>1. c.op = "get" /\ UNCHANGED <<image, crError, crSaving, crSaved, crMuddled>> /\ crCalls' = {}
    BY <1>1, <1>2, <1>3 DEF CredentialArrives
  <2>2. CrCallsInv'
    <3>1. CASE c.at = "failed"
      BY <1>2, <1>3, <2>1, <3>1 DEF CredentialArrives, crDraft, CrCallsInv
    <3>2. CASE c.at # "failed"
      BY <1>2, <1>3, <2>1, <3>2 DEF CredentialArrives, CrCallsInv
    <3> QED
      BY <3>1, <3>2
  <2>3. crLoadError' \in BOOLEAN /\ crShown' \in BOOLEAN
    <3>1. crLoadError \in BOOLEAN /\ crShown \in BOOLEAN
      BY DEF CrInv, CrFlags
    <3> QED
      BY <1>3, <3>1, Zenon DEF CredentialArrives
  <2>4. CrFlags'
    BY <2>1, <2>3 DEF CrInv, CrFlags
  <2>5. CASE c.at = "failed"
    <3>1. UNCHANGED <<artwork, position, downloads>>
      BY <1>3, <2>5 DEF CredentialArrives, crDraft
    <3>2. CrDraftInv' /\ CrImageInv'
      BY <1>1, <2>1, <3>1 DEF CrInv, CrDraftInv, DraftIsStored, CrImageInv
    <3> QED
      BY <2>2, <2>4, <3>2 DEF CrInv
  <2>6. CASE c.at # "failed"
    <3>1. /\ SetArtwork(credential.art)
          /\ position' = IF credential.position = Nil THEN DEFAULT_POSITION ELSE credential.position
      BY <1>3, <2>6 DEF CredentialArrives
    <3>2. credential.art \in Artworks /\ credential.position \in Positions \union {Nil}
      BY DEF CrInv, CrDraftInv
    <3>3. DEFAULT_POSITION \in Positions
      BY FirstStyleIsOne DEF DEFAULT_POSITION, Positions, Percents
    <3>4. CrDraftInv'
      BY <1>1, <1>2, <2>1, <3>1, <3>2, <3>3 DEF SetArtwork, CrInv, CrDraftInv
    <3>5. image' = Nil /\ Nil \in Artworks
      BY <1>2, <2>1 DEF Artworks
    <3>6. CrImageInv'
      BY <3>1, <3>2, <3>5, SetArtworkImage DEF CrInv
    <3> QED
      BY <2>2, <2>4, <3>4, <3>6 DEF CrInv
  <2> QED
    BY <2>5, <2>6
<1>4. CASE ArtworkArrives(c)
  <2>1. c.op = "upload" /\ UNCHANGED <<crShown, crLoadError, position, image, crSaving>>
    BY <1>4 DEF ArtworkArrives
  <2>2. crShown /\ c.data \in Artworks \ {Nil}
    BY <1>2, <2>1 DEF IsCrCall
  <2>3. CASE c.at = "failed"
    <3>1. UNCHANGED <<artwork, downloads, crError, crSaved, crMuddled>>
      BY <1>4, <2>3 DEF ArtworkArrives
    <3>2. CrFlags' /\ CrDraftInv' /\ CrImageInv'
      BY <1>1, <2>1, <3>1 DEF CrInv, CrFlags, CrDraftInv, DraftIsStored, CrImageInv
    <3>3. CrCallsInv'
      BY <1>1, <2>1, <2>2, <3>1 DEF CrInv, CrCallsInv, IsCrCall, DraftIsStored
    <3> QED
      BY <3>2, <3>3 DEF CrInv
  <2>4. CASE c.at # "failed"
    <3>1. /\ SetArtwork(c.data) /\ crError' = FALSE /\ crSaved' = FALSE
          /\ crMuddled' = (crMuddled \/ crSaving)
      BY <1>4, <2>4 DEF ArtworkArrives
    <3>2. crError' \in BOOLEAN /\ crSaved' \in BOOLEAN /\ crMuddled' \in BOOLEAN
      BY <3>1, Zenon
    <3>3. CrFlags' /\ CrDraftInv'
      BY <1>1, <2>1, <2>2, <3>1, <3>2 DEF CrInv, CrFlags, CrDraftInv, SetArtwork
    <3>4. CrImageInv'
      <4>1. CrImageInv /\ image' \in Artworks
        BY <2>1 DEF CrInv, CrImageInv
      <4> QED
        BY <2>2, <3>1, <4>1, SetArtworkImage
    <3>5. \A b \in crCalls : IsCrCall(b)'
      BY <1>1, <2>1, <3>1 DEF CrInv, CrCallsInv, IsCrCall
    <3>6. CrCallsInv'
      BY <1>1, <2>1, <2>2, <3>1, <3>5 DEF CrInv, CrCallsInv
    <3> QED
      BY <3>3, <3>4, <3>6 DEF CrInv
  <2> QED
    BY <2>3, <2>4
<1>5. CASE SavedCredentialArrives(c)
  <2>1. /\ c.op = "save" /\ c.at # "sent" /\ crSaving' = FALSE
        /\ UNCHANGED <<crShown, crLoadError, artwork, position, image, downloads, crMuddled>>
        /\ crSaved' => crSaved \/ c.at # "failed"
    BY <1>5 DEF SavedCredentialArrives, crDraft, crCanvas
  <2>2. crSaving' \in BOOLEAN /\ crSaved' \in BOOLEAN /\ crError' \in BOOLEAN
    <3>1. crError \in BOOLEAN /\ crSaved \in BOOLEAN
      BY DEF CrInv, CrFlags
    <3> QED
      BY <1>5, <3>1, Zenon DEF SavedCredentialArrives
  <2>3. CrFlags' /\ CrImageInv'
    BY <2>1, <2>2 DEF CrInv, CrFlags, CrImageInv
  <2>4. CrDraftInv'
    BY <1>1, <1>2, <2>1 DEF CrInv, CrDraftInv, IsCrCall, DraftIsStored
  <2>5. CrCallsInv'
    BY <1>1, <1>2, <2>1 DEF CrInv, CrCallsInv, IsCrCall, DraftIsStored
  <2> QED
    BY <2>3, <2>4, <2>5 DEF CrInv
<1> QED
  BY <1>3, <1>4, <1>5

LEMMA CrNextKeeps == CrInv /\ [CrNext]_crVars => CrInv'
<1> SUFFICES ASSUME CrInv, [CrNext]_crVars PROVE CrInv'
  OBVIOUS
<1>1. CASE UNCHANGED crVars
  <2>1. UNCHANGED <<credential, crShown, crLoadError, artwork, position, image, downloads, crError,
                    crSaving, crSaved, crCalls, crMuddled, crClicks>>
    BY <1>1 DEF crVars, crDraft, crCanvas
  <2> QED
    BY <2>1 DEF CrInv, CrFlags, CrDraftInv, CrImageInv, CrCallsInv, IsCrCall, DraftIsStored
<1> QED
  BY <1>1, CrEdits, CrSends, CrImages, CrServes, CrArrives DEF CrNext

----------------------------------------------------------------------------
(***************************************************************************)
(* CertificatePage                                                         *)
(***************************************************************************)
SettingsType == [template : Templates, mode : Modes, delay : (0 .. 720) \union {Nil},
                 dispatched : BOOLEAN]
CeFormType == [template : Templates, mode : Modes, delay : Hours \union (0 .. 720) \union {Nil}]

OnItsWay == sentAt \union jobs \union dropped

CeIsStored(f) ==
    /\ settings.mode = f.mode /\ settings.delay = ToHours(f.delay)
    /\ f.template \in {Nil, settings.template}

IsCeCall(c) ==
    /\ c = [op |-> c.op, data |-> c.data, no |-> c.no, at |-> c.at, got |-> c.got]
    /\ c.op = "get" /\ c.got # Nil => c.got \in SettingsType
    /\ c.op = "list" /\ c.got # Nil => c.got \subseteq OnItsWay
    /\ c.op = "one" => c.data \in Attendees /\ (c.got # Nil => c.data \in OnItsWay)
    /\ c.op = "upload" => c.data \in Templates /\ (c.got # Nil => c.got \in Templates)
    /\ c.op = "save" =>
        /\ c.data \in CeFormType
        /\ ~ceTouched => c.data = ceForm /\ (c.got # Nil => CeIsStored(ceForm))

Asks(op) == \E c \in ceCalls : c.op = op

CeStoreInv == settings \in SettingsType /\ OnItsWay \subseteq Attendees /\ ceClicks \in 0 .. MaxCeClicks

CeFormInv ==
    /\ ceForm \in CeFormType
    /\ ceShown \in BOOLEAN /\ ceLoadError \in BOOLEAN /\ ceError \in BOOLEAN
    /\ ceSaved \in BOOLEAN /\ ceTouched \in BOOLEAN /\ ceSaving \in BOOLEAN
    /\ ceSaved => ~ceSaving /\ (~ceTouched => CeIsStored(ceForm))

CeListInv ==
    /\ roster # Nil => roster \subseteq OnItsWay
    /\ sendingId \in Attendees \union {Nil} /\ rosterError \in BOOLEAN /\ sendingAll \in BOOLEAN

\* Of these there is one call at most, and the page knows it is there.
CeCallsInv ==
    /\ \A c \in ceCalls : IsCeCall(c)
    /\ \A c, d \in ceCalls : c.op = d.op /\ c.op \in {"get", "save", "all"} => c = d
    /\ ceSaving <=> Asks("save")
    /\ sendingAll <=> Asks("all")
    /\ Asks("get") => ~ceShown /\ ~ceSaved /\ ~ceSaving

CeInv == CeStoreInv /\ CeFormInv /\ CeListInv /\ CeCallsInv

LEMMA CeInvIsEnough ==
    CeInv => CeTypeOK /\ ShownSentIsOnItsWay /\ SavedSettingsAreStored
<1> SUFFICES ASSUME CeInv PROVE CeTypeOK /\ ShownSentIsOnItsWay /\ SavedSettingsAreStored
  OBVIOUS
<1>1. /\ {ceShown, ceLoadError, ceError, ceSaved, ceTouched, ceSaving} \subseteq BOOLEAN
      /\ {rosterError, sendingAll} \subseteq BOOLEAN
  BY Zenon DEF CeInv, CeFormInv, CeListInv
<1>2. (ceSaving <=> Asks("save")) /\ (sendingAll <=> Asks("all"))
  BY Zenon DEF CeInv, CeCallsInv
<1>4. /\ settings \in SettingsType /\ ceForm \in CeFormType /\ OnItsWay \subseteq Attendees
      /\ roster # Nil => roster \subseteq OnItsWay
      /\ sendingId \in Attendees \union {Nil}
  BY DEF CeInv, CeStoreInv, CeFormInv, CeListInv
<1>5. CeTypeOK
  <2>1. roster # Nil => roster \subseteq Attendees
    BY <1>4
  <2>2. settings \in [template : Templates, mode : Modes, delay : (0 .. 720) \union {Nil},
                     dispatched : BOOLEAN]
    BY <1>4 DEF SettingsType
  <2>5. ceForm \in [template : Templates, mode : Modes, delay : Hours \union (0 .. 720) \union {Nil}]
    BY <1>4 DEF CeFormType
  <2>6. sentAt \union jobs \union dropped \subseteq Attendees
    BY <1>4 DEF OnItsWay
  <2>3. /\ ceSaving <=> \E c \in ceCalls : c.op = "save"
        /\ sendingAll <=> \E c \in ceCalls : c.op = "all"
    BY <1>2, Zenon DEF Asks
  <2>4. sendingId \in Attendees \union {Nil}
    BY <1>4
  <2> QED
    BY <1>1, <2>1, <2>2, <2>3, <2>4, <2>5, <2>6, PTL DEF CeTypeOK
<1>6. ShownSentIsOnItsWay
  BY <1>4 DEF ShownSentIsOnItsWay, OnItsWay
<1>7. SavedSettingsAreStored
  BY DEF CeInv, CeFormInv, CeIsStored, SavedSettingsAreStored
<1> QED
  BY <1>5, <1>6, <1>7

LEMMA CeInitInv == CeInit => CeInv
<1> SUFFICES ASSUME CeInit PROVE CeInv
  OBVIOUS
<1>1. CeStoreInv
  <2>1. settings \in SettingsType
    <3>1. 0 \in Templates /\ Nil \in Templates
      BY CeBounds DEF Templates
    <3>2. PICK t \in {0, Nil} : settings = [template |-> t, mode |-> "MANUAL", delay |-> Nil, dispatched |-> FALSE]
      BY DEF CeInit
    <3> QED
      BY <3>1, <3>2 DEF SettingsType, Modes
  <2>2. OnItsWay = {} /\ ceClicks = 0
    BY DEF CeInit, OnItsWay
  <2> QED
    BY <2>1, <2>2, CeBounds DEF CeStoreInv
<1>2. CeFormInv
  <2>1. /\ ceShown \in BOOLEAN /\ ceLoadError \in BOOLEAN /\ ceError \in BOOLEAN
        /\ ceSaved \in BOOLEAN /\ ceTouched \in BOOLEAN /\ ceSaving \in BOOLEAN
    BY Zenon DEF CeInit
  <2>2. ceForm = [template |-> Nil, mode |-> "MANUAL", delay |-> 24] /\ ~ceSaved
    BY DEF CeInit, DEFAULT_DELAY
  <2> QED
    BY <2>1, <2>2 DEF CeFormInv, CeFormType, Templates, Modes
<1>3. CeListInv
  <2>1. rosterError \in BOOLEAN /\ sendingAll \in BOOLEAN
    BY Zenon DEF CeInit
  <2> QED
    BY <2>1 DEF CeInit, CeListInv
<1>4. CeCallsInv
  <2>1. \A c \in ceCalls : /\ c = [op |-> c.op, data |-> Nil, no |-> 0, at |-> "sent", got |-> Nil]
                           /\ c.op \in {"get", "list"}
    BY DEF CeInit
  <2>2. ~ceShown /\ ~ceSaved /\ ~ceSaving /\ ~sendingAll
    BY DEF CeInit
  <2>3. \A c \in ceCalls : IsCeCall(c)
    BY <2>1 DEF IsCeCall
  <2>4. \A c, d \in ceCalls : c.op = d.op => c = d
    BY <2>1
  <2> QED
    BY <2>1, <2>2, <2>3, <2>4 DEF CeCallsInv, Asks
<1> QED
  BY <1>1, <1>2, <1>3, <1>4 DEF CeInv

LEMMA CeCallStays ==
    ASSUME NEW c, IsCeCall(c), OnItsWay \subseteq OnItsWay',
           c.op = "save" =>
               ceTouched' \/ (UNCHANGED <<ceForm, ceTouched>> /\ (CeIsStored(ceForm) => CeIsStored(ceForm)'))
    PROVE  IsCeCall(c)'
  BY DEF IsCeCall

\* The stored settings are what they were, but for `dispatched'.
CeKeepsSettings ==
    /\ settings'.mode = settings.mode /\ settings'.delay = settings.delay
    /\ settings'.template = settings.template

LEMMA CeStoredStays ==
    ASSUME CeKeepsSettings, NEW f
    PROVE  CeIsStored(f)' <=> CeIsStored(f)
  BY DEF CeKeepsSettings, CeIsStored

\* A click that sends something, or none.
LEMMA CeClicks ==
    ASSUME CeInv, CeClick, CeStored, CeFormInv', sendingId' \in Attendees \union {Nil},
           UNCHANGED <<roster, rosterError>>,
           ceTouched' \/ UNCHANGED <<ceForm, ceTouched>> \/ ~ceSaving,
           ceSaved' => ceSaved,
           \/ UNCHANGED <<ceCalls, ceSaving, sendingAll>>
           \/ \E op \in {"upload", "one", "all", "save"} : \E data :
                /\ CeSend(op, data)
                /\ op = "upload" => data \in Templates
                /\ op = "one" => data \in Attendees
                /\ IF op = "save" THEN ~ceSaving /\ ceSaving' = TRUE /\ data = ceForm /\ UNCHANGED ceForm
                                  ELSE UNCHANGED ceSaving
                /\ IF op = "all" THEN ~sendingAll /\ sendingAll' = TRUE ELSE UNCHANGED sendingAll
    PROVE  CeInv'
<1>1. /\ UNCHANGED <<settings, sentAt, jobs, dropped, ceShown, ceLoadError>>
      /\ ceClicks < MaxCeClicks /\ ceClicks' = ceClicks + 1 /\ ceShown
  BY DEF CeStored, CeClick, queue
<1>2. CeStoreInv' /\ UNCHANGED OnItsWay
  BY <1>1, CeBounds DEF CeInv, CeStoreInv, OnItsWay
<1>3. ~Asks("get")
  BY <1>1 DEF CeInv, CeCallsInv
<1>4. \A c \in ceCalls : IsCeCall(c)'
  <2>1. ASSUME NEW c \in ceCalls PROVE IsCeCall(c)'
    <3>1. IsCeCall(c)
      BY DEF CeInv, CeCallsInv
    <3>2. c.op = "save" => ceSaving
      BY DEF CeInv, CeCallsInv, Asks
    <3>3. CeIsStored(ceForm) /\ UNCHANGED ceForm => CeIsStored(ceForm)'
      BY <1>1 DEF CeIsStored
    <3> QED
      BY <1>2, <3>1, <3>2, <3>3, CeCallStays
  <2> QED
    BY <2>1
<1>5. CASE UNCHANGED <<ceCalls, ceSaving, sendingAll>>
  <2>1. CeCallsInv'
    BY <1>1, <1>3, <1>4, <1>5 DEF CeInv, CeCallsInv, Asks
  <2>2. CeListInv'
    BY <1>2, <1>5 DEF CeInv, CeListInv
  <2> QED
    BY <1>2, <2>1, <2>2 DEF CeInv
<1>6. ASSUME NEW op \in {"upload", "one", "all", "save"}, NEW data, CeSend(op, data),
             op = "upload" => data \in Templates,
             op = "one" => data \in Attendees,
             IF op = "save" THEN ~ceSaving /\ ceSaving' = TRUE /\ data = ceForm /\ UNCHANGED ceForm
                            ELSE UNCHANGED ceSaving,
             IF op = "all" THEN ~sendingAll /\ sendingAll' = TRUE ELSE UNCHANGED sendingAll
      PROVE  CeInv'
  <2> PICK d : d = [op |-> op, data |-> data, no |-> ceClicks + 1, at |-> "sent", got |-> Nil]
    OBVIOUS
  <2>1. ceCalls' = ceCalls \union {d}
    BY <1>6 DEF CeSend
  <2>2. IsCeCall(d)'
    BY <1>6 DEF IsCeCall, CeInv, CeFormInv
  <2>3. sendingAll' \in BOOLEAN
    BY <1>6, Zenon DEF CeInv, CeListInv
  <2>4. CeListInv'
    BY <1>2, <2>3 DEF CeInv, CeListInv
  <2>5. \A b, c \in ceCalls' : b.op = c.op /\ b.op \in {"get", "save", "all"} => b = c
    BY <1>6, <2>1 DEF CeInv, CeCallsInv, Asks
  <2>6. /\ Asks("save")' <=> Asks("save") \/ op = "save"
        /\ Asks("all")' <=> Asks("all") \/ op = "all"
        /\ ~Asks("get")'
    BY <1>3, <1>6, <2>1 DEF Asks
  <2>7. CeCallsInv'
    BY <1>4, <1>6, <2>1, <2>2, <2>5, <2>6 DEF CeInv, CeCallsInv
  <2> QED
    BY <1>2, <2>4, <2>7 DEF CeInv
<1> QED
  BY <1>5, <1>6

LEMMA CeEdits ==
    ASSUME CeInv,
           \/ UploadTemplate \/ RemoveTemplate \/ HandleSaveSettings \/ ClickSendAll
           \/ \E m \in Modes : SelectMode(m)
           \/ \E h \in Hours \union {Nil} : TypeDelay(h)
           \/ \E p \in Attendees : ClickSendOne(p)
    PROVE  CeInv'
<1>1. ASSUME CeStored, UNCHANGED ceSettings PROVE CeFormInv' /\ UNCHANGED <<ceForm, ceTouched, ceSaving, ceSaved>>
  BY <1>1 DEF CeStored, ceSettings, queue, CeInv, CeFormInv, CeIsStored
<1>2. CASE UploadTemplate
  <2>1. /\ CeClick /\ CeStored /\ CeSend("upload", ceClicks + 1)
        /\ UNCHANGED ceSettings /\ UNCHANGED <<roster, rosterError, sendingId, sendingAll>>
    BY <1>2 DEF UploadTemplate, ceList
  <2>2. ceClicks + 1 \in Templates
    BY <2>1, CeBounds DEF CeClick, Templates, CeInv, CeStoreInv
  <2>3. CeFormInv' /\ UNCHANGED <<ceForm, ceTouched, ceSaving, ceSaved>>
    BY <1>1, <2>1
  <2>4. sendingId' \in Attendees \union {Nil}
    BY <2>1 DEF CeInv, CeListInv
  <2> QED
    BY <2>1, <2>2, <2>3, <2>4, CeClicks
<1>3. CASE ClickSendAll
  <2>1. /\ CeClick /\ CeStored /\ CeSend("all", Nil) /\ ~sendingAll /\ sendingAll' = TRUE
        /\ UNCHANGED ceSettings /\ UNCHANGED <<roster, rosterError, sendingId>>
    BY <1>3 DEF ClickSendAll
  <2>2. CeFormInv' /\ UNCHANGED <<ceForm, ceTouched, ceSaving, ceSaved>>
    BY <1>1, <2>1
  <2>3. sendingId' \in Attendees \union {Nil}
    BY <2>1 DEF CeInv, CeListInv
  <2> QED
    BY <2>1, <2>2, <2>3, CeClicks
<1>4. ASSUME NEW p \in Attendees, ClickSendOne(p) PROVE CeInv'
  <2>1. /\ CeClick /\ CeStored /\ CeSend("one", p) /\ sendingId' = p
        /\ UNCHANGED ceSettings /\ UNCHANGED <<roster, rosterError, sendingAll>>
    BY <1>4 DEF ClickSendOne
  <2>2. CeFormInv' /\ UNCHANGED <<ceForm, ceTouched, ceSaving, ceSaved>>
    BY <1>1, <2>1
  <2> QED
    BY <1>4, <2>1, <2>2, CeClicks
<1>5. CASE HandleSaveSettings
  <2>1. /\ CeClick /\ CeStored /\ CeSend("save", ceForm) /\ ~ceSaving
        /\ ceSaving' = TRUE /\ ceSaved' = FALSE /\ ceError' = FALSE /\ ceTouched' = FALSE
        /\ UNCHANGED ceForm /\ UNCHANGED <<roster, rosterError, sendingId, sendingAll>>
    BY <1>5 DEF HandleSaveSettings, ceList
  <2>2. CeFormInv'
    BY <2>1 DEF CeInv, CeFormInv, CeStored
  <2> QED
    BY <2>1, <2>2, CeClicks DEF CeInv, CeListInv
<1>6. ASSUME NEW f \in {"template", "mode", "delay"}, NEW v, EditSettings(f, v),
             [ceForm EXCEPT ![f] = v] \in CeFormType
      PROVE  CeInv'
  <2>1. /\ CeClick /\ CeStored /\ ceForm' = [ceForm EXCEPT ![f] = v]
        /\ ceSaved' = (ceSaved /\ f # "template") /\ ceTouched' = TRUE
        /\ UNCHANGED <<ceError, ceSaving, ceCalls>> /\ UNCHANGED <<roster, rosterError, sendingId, sendingAll>>
    BY <1>6 DEF EditSettings, ceList
  <2>2. ceSaved' => ceSaved
    BY <2>1
  <2>3. ceSaved' \in BOOLEAN
    BY <2>1, Zenon
  <2>4. CeFormInv'
    BY <1>6, <2>1, <2>2, <2>3 DEF CeInv, CeFormInv, CeStored
  <2> QED
    BY <2>1, <2>2, <2>4, CeClicks DEF CeInv, CeListInv
<1>7. ceForm \in CeFormType
  BY DEF CeInv, CeFormInv
<1>8. CASE RemoveTemplate
  <2>1. [ceForm EXCEPT !["template"] = Nil] \in CeFormType
    BY <1>7 DEF CeFormType, Templates
  <2> QED
    BY <1>6, <1>8, <2>1 DEF RemoveTemplate
<1>9. ASSUME NEW m \in Modes, SelectMode(m) PROVE CeInv'
  <2>1. [ceForm EXCEPT !["mode"] = m] \in CeFormType
    BY <1>7 DEF CeFormType
  <2> QED
    BY <1>6, <1>9, <2>1 DEF SelectMode
<1>10. ASSUME NEW h \in Hours \union {Nil}, TypeDelay(h) PROVE CeInv'
  <2>1. [ceForm EXCEPT !["delay"] = h] \in CeFormType
    BY <1>7 DEF CeFormType
  <2> QED
    BY <1>6, <1>10, <2>1 DEF TypeDelay
<1> QED
  BY <1>2, <1>3, <1>4, <1>5, <1>8, <1>9, <1>10

\* A call gets its answer, or loses it.
LEMMA CeCallAnswered ==
    ASSUME CeInv, NEW c \in ceCalls, NEW got,
           ceCalls' = (ceCalls \ {c}) \union {[c EXCEPT !.at = "answered", !.got = got]},
           UNCHANGED <<ceShown, ceLoadError, ceSettings, ceList>>,
           CeStoreInv', OnItsWay \subseteq OnItsWay', c.op = "save" \/ CeKeepsSettings,
           c.op = "get" /\ got # Nil => got \in SettingsType,
           c.op = "list" /\ got # Nil => got \subseteq OnItsWay',
           c.op = "one" /\ got # Nil => c.data \in OnItsWay',
           c.op = "upload" /\ got # Nil => got \in Templates,
           c.op = "save" /\ got # Nil /\ ~ceTouched => CeIsStored(ceForm)'
    PROVE  CeInv'
<1> PICK d : d = [op |-> c.op, data |-> c.data, no |-> c.no, at |-> "answered", got |-> got]
  OBVIOUS
<1>1. IsCeCall(c) /\ ceCalls' = (ceCalls \ {c}) \union {d}
  <2>1. IsCeCall(c)
    BY DEF CeInv, CeCallsInv
  <2>2. PICK o, v, n, t, g : c = [op |-> o, data |-> v, no |-> n, at |-> t, got |-> g]
    BY <2>1 DEF IsCeCall
  <2>3. PICK e : e = [c EXCEPT !.at = "answered"]
    OBVIOUS
  <2>4. e = [op |-> o, data |-> v, no |-> n, at |-> "answered", got |-> g]
    BY <2>2, <2>3
  <2>5. [c EXCEPT !.at = "answered", !.got = got] = [e EXCEPT !.got = got]
    BY <2>3
  <2>6. [e EXCEPT !.got = got] = d
    BY <2>2, <2>4
  <2> QED
    BY <2>1, <2>5, <2>6
<1>2. /\ UNCHANGED <<ceShown, ceLoadError, ceForm, ceError, ceSaving, ceSaved, ceTouched>>
      /\ UNCHANGED <<roster, rosterError, sendingId, sendingAll>>
  BY DEF ceSettings, ceList
<1>3. c.op = "save" => ceSaving /\ ~ceSaved
  BY DEF CeInv, CeCallsInv, CeFormInv, Asks
<1>4. CeFormInv' /\ CeListInv'
  BY <1>2, <1>3, CeStoredStays DEF CeInv, CeFormInv, CeListInv
<1>5. IsCeCall(d)'
  BY <1>1, <1>2 DEF IsCeCall
<1>6. ASSUME NEW b \in ceCalls \ {c} PROVE IsCeCall(b)'
  <2>1. IsCeCall(b) /\ (b.op = "save" => c.op # "save")
    BY <1>6 DEF CeInv, CeCallsInv
  <2>2. b.op = "save" => (CeIsStored(ceForm) => CeIsStored(ceForm)')
    BY <1>2, <2>1 DEF CeKeepsSettings, CeIsStored
  <2> QED
    BY <1>2, <2>1, <2>2, CeCallStays
<1>7. \A op : Asks(op)' <=> Asks(op)
  BY <1>1 DEF Asks
<1>8. \A a, b \in ceCalls' : a.op = b.op /\ a.op \in {"get", "save", "all"} => a = b
  BY <1>1 DEF CeInv, CeCallsInv
<1>9. CeCallsInv'
  BY <1>1, <1>2, <1>5, <1>6, <1>7, <1>8 DEF CeInv, CeCallsInv
<1> QED
  BY <1>4, <1>9 DEF CeInv

LEMMA CeServes ==
    ASSUME CeInv, NEW c \in ceCalls,
           \/ ServeSettings(c) \/ ServeRoster(c) \/ ServeTemplate(c) \/ ServeSaveSettings(c)
           \/ RefuseSettings(c) \/ ServeSendOne(c) \/ ServeSendAll(c) \/ LoseCeCall(c)
    PROVE  CeInv'
<1>1. IsCeCall(c) /\ CeStoreInv
  BY DEF CeInv, CeCallsInv
<1>2. ASSUME UNCHANGED <<settings, queue, ceClicks>>
      PROVE  CeStoreInv' /\ OnItsWay' = OnItsWay /\ CeKeepsSettings
  BY <1>1, <1>2 DEF queue, CeStoreInv, OnItsWay, CeKeepsSettings
<1>3. ASSUME NEW got, CeAnswer(c, got)
      PROVE  /\ ceCalls' = (ceCalls \ {c}) \union {[c EXCEPT !.at = "answered", !.got = got]}
             /\ UNCHANGED <<ceShown, ceLoadError, ceSettings, ceList, ceClicks>>
  BY <1>3 DEF CeAnswer
<1>4. CASE ServeSettings(c)
  <2>1. c.op = "get" /\ CeAnswer(c, settings) /\ UNCHANGED <<settings, queue>> /\ settings \in SettingsType
    BY <1>1, <1>4 DEF ServeSettings, CeStoreInv
  <2> QED
    BY <1>2, <1>3, <2>1, CeCallAnswered
<1>5. CASE ServeRoster(c)
  <2>1. c.op = "list" /\ CeAnswer(c, sentAt) /\ UNCHANGED <<settings, queue>> /\ sentAt \subseteq OnItsWay
    BY <1>5 DEF ServeRoster, OnItsWay
  <2> QED
    BY <1>2, <1>3, <2>1, CeCallAnswered
<1>6. CASE ServeTemplate(c)
  <2>1. c.op = "upload" /\ CeAnswer(c, c.data) /\ UNCHANGED <<settings, queue>> /\ c.data \in Templates
    BY <1>1, <1>6 DEF ServeTemplate, IsCeCall
  <2> QED
    BY <1>2, <1>3, <2>1, CeCallAnswered
<1>7. CASE RefuseSettings(c)
  <2>1. c.op = "save" /\ CeAnswer(c, Nil) /\ UNCHANGED <<settings, queue>>
    BY <1>7 DEF RefuseSettings
  <2> QED
    BY <1>2, <1>3, <2>1, CeCallAnswered
<1>8. CASE ServeSaveSettings(c)
  <2> DEFINE s == [template |-> IF c.data.template = Nil THEN settings.template ELSE c.data.template,
                   mode |-> c.data.mode, delay |-> ToHours(c.data.delay), dispatched |-> FALSE]
  <2>1. c.op = "save" /\ CeAnswer(c, TRUE) /\ settings' = s /\ UNCHANGED queue /\ AcceptsSettings(c.data)
    BY <1>8 DEF ServeSaveSettings
  <2>2. c.data \in CeFormType /\ (~ceTouched => c.data = ceForm)
    BY <1>1, <2>1 DEF IsCeCall
  <2>3. s \in SettingsType
    <3> PICK t, m, h : t = s.template /\ m = s.mode /\ h = s.delay
      OBVIOUS
    <3>1. settings.template \in Templates /\ c.data.template \in Templates /\ c.data.mode \in Modes
      BY <1>1, <2>2 DEF CeFormType, SettingsType, CeStoreInv
    <3>2. t \in Templates /\ m \in Modes
      BY <3>1
    <3>3. h \in 0 .. 720
      BY <2>1 DEF AcceptsSettings
    <3>4. s = [template |-> t, mode |-> m, delay |-> h, dispatched |-> FALSE]
      OBVIOUS
    <3> QED
      BY <3>2, <3>3, <3>4 DEF SettingsType
  <2>4. CeStoreInv' /\ OnItsWay' = OnItsWay /\ UNCHANGED <<ceForm, ceTouched>>
    BY <1>1, <1>3, <2>1, <2>3 DEF queue, CeStoreInv, OnItsWay, ceSettings
  <2>5. ~ceTouched => CeIsStored(ceForm)'
    <3>1. ASSUME ~ceTouched PROVE CeIsStored(ceForm)'
      <4>1. PICK f : f = ceForm
        OBVIOUS
      <4>2. c.data = f /\ ceForm' = f
        BY <2>2, <2>4, <3>1, <4>1
      <4> QED
        BY <2>1, <4>2 DEF CeIsStored
    <3> QED
      BY <3>1
  <2> HIDE DEF s
  <2> QED
    BY <1>3, <2>1, <2>4, <2>5, CeCallAnswered
<1>9. CASE ServeSendOne(c)
  <2>1. /\ c.op = "one" /\ CeAnswer(c, TRUE) /\ jobs' = jobs \union {c.data}
        /\ UNCHANGED <<settings, sentAt, dropped>> /\ c.data \in Attendees
    BY <1>1, <1>9 DEF ServeSendOne, IsCeCall
  <2>2. CeStoreInv' /\ OnItsWay \subseteq OnItsWay' /\ CeKeepsSettings /\ c.data \in OnItsWay'
    BY <1>1, <1>3, <2>1 DEF CeStoreInv, OnItsWay, CeKeepsSettings
  <2> QED
    BY <1>3, <2>1, <2>2, CeCallAnswered
<1>10. CASE ServeSendAll(c)
  <2>1. /\ c.op = "all" /\ CeAnswer(c, TRUE) /\ jobs' = jobs \union Unsent
        /\ UNCHANGED <<settings, sentAt, dropped>>
    BY <1>10 DEF ServeSendAll
  <2>2. CeStoreInv' /\ OnItsWay \subseteq OnItsWay' /\ CeKeepsSettings
    BY <1>1, <1>3, <2>1 DEF CeStoreInv, OnItsWay, CeKeepsSettings, Unsent
  <2> QED
    BY <1>3, <2>1, <2>2, CeCallAnswered
<1>11. CASE LoseCeCall(c)
  <2>1. /\ ceCalls' = (ceCalls \ {c}) \union {[c EXCEPT !.at = "answered", !.got = Nil]}
        /\ UNCHANGED <<ceShown, ceLoadError, ceSettings, ceList>>
        /\ UNCHANGED <<settings, queue, ceClicks>>
    BY <1>11 DEF LoseCeCall
  <2> QED
    BY <1>2, <2>1, CeCallAnswered
<1> QED
  BY <1>4, <1>5, <1>6, <1>7, <1>8, <1>9, <1>10, <1>11

LEMMA CeWorks ==
    ASSUME CeInv, SweepDispatches \/ \E p \in Attendees : WorkerSends(p) \/ WorkerFails(p)
    PROVE  CeInv'
<1>1. /\ UNCHANGED <<ceShown, ceLoadError, ceForm, ceError, ceSaving, ceSaved, ceTouched>>
      /\ UNCHANGED <<roster, rosterError, sendingId, sendingAll, ceCalls, ceClicks>>
  BY DEF SweepDispatches, WorkerSends, WorkerFails, PageStays, ceSettings, ceList
<1>2. OnItsWay \subseteq OnItsWay' /\ OnItsWay' \subseteq Attendees
  <2>1. OnItsWay \subseteq Attendees
    BY DEF CeInv, CeStoreInv
  <2> QED
    BY <2>1 DEF SweepDispatches, WorkerSends, WorkerFails, OnItsWay, Unsent
<1>3. settings' \in SettingsType /\ CeKeepsSettings
  <2>1. settings \in SettingsType
    BY DEF CeInv, CeStoreInv
  <2>2. CASE SweepDispatches
    <3>1. settings' = [settings EXCEPT !.dispatched = TRUE]
      BY <2>2 DEF SweepDispatches
    <3>2. PICK t \in Templates, m \in Modes, h \in (0 .. 720) \union {Nil}, b \in BOOLEAN :
              settings = [template |-> t, mode |-> m, delay |-> h, dispatched |-> b]
      BY <2>1 DEF SettingsType
    <3>3. settings' = [template |-> t, mode |-> m, delay |-> h, dispatched |-> TRUE]
      BY <3>1, <3>2
    <3> QED
      BY <3>2, <3>3 DEF SettingsType, CeKeepsSettings
  <2>3. ASSUME NEW p, WorkerSends(p) \/ WorkerFails(p) PROVE UNCHANGED settings
    BY <2>3 DEF WorkerSends, WorkerFails
  <2> QED
    BY <2>1, <2>2, <2>3 DEF CeKeepsSettings
<1>4. CeStoreInv' /\ CeFormInv' /\ CeListInv'
  BY <1>1, <1>2, <1>3, CeStoredStays DEF CeInv, CeStoreInv, CeFormInv, CeListInv
<1>5. ASSUME NEW c \in ceCalls PROVE IsCeCall(c)'
  <2>1. CeIsStored(ceForm) => CeIsStored(ceForm)'
    BY <1>1, <1>3 DEF CeIsStored, CeKeepsSettings
  <2>2. IsCeCall(c)
    BY DEF CeInv, CeCallsInv
  <2> QED
    BY <1>1, <1>2, <2>1, <2>2, CeCallStays
<1>6. CeCallsInv'
  BY <1>1, <1>5 DEF CeInv, CeCallsInv, Asks
<1> QED
  BY <1>4, <1>6 DEF CeInv

\* An answer arrives: its call goes, and at most the list is asked for again.
LEMMA CeCallArrives ==
    ASSUME CeInv, CeFormInv', CeListInv', NEW c \in ceCalls, NEW E,
           ceCalls' = (ceCalls \ {c}) \union E,
           \A e \in E : IsCeCall(e)' /\ e.op = "list",
           UNCHANGED <<settings, sentAt, jobs, dropped, ceClicks>>,
           ceTouched' \/ UNCHANGED <<ceForm, ceTouched>> \/ ~ceSaving,
           c.op = "get" \/ (UNCHANGED ceShown /\ (ceSaved' => ceSaved \/ ceSaving)),
           ceSaving' <=> ceSaving /\ c.op # "save",
           sendingAll' <=> sendingAll /\ c.op # "all"
    PROVE  CeInv'
<1>1. CeStoreInv' /\ UNCHANGED OnItsWay
  BY DEF CeInv, CeStoreInv, OnItsWay
<1>2. ASSUME NEW b \in ceCalls PROVE IsCeCall(b)'
  <2>1. IsCeCall(b) /\ (b.op = "save" => ceSaving)
    BY DEF CeInv, CeCallsInv, Asks
  <2>2. UNCHANGED ceForm => (CeIsStored(ceForm) => CeIsStored(ceForm)')
    BY DEF CeIsStored
  <2> QED
    BY <1>1, <2>1, <2>2, CeCallStays
<1>3. \A op \in {"get", "save", "all"} : Asks(op)' <=> Asks(op) /\ c.op # op
  BY DEF CeInv, CeCallsInv, Asks
<1>4. \A a, b \in ceCalls' : a.op = b.op /\ a.op \in {"get", "save", "all"} => a = b
  BY DEF CeInv, CeCallsInv
<1>5. Asks("get")' => ~ceShown' /\ ~ceSaved' /\ ~ceSaving'
  BY <1>3 DEF CeInv, CeCallsInv
<1>6. (ceSaving' <=> Asks("save")') /\ (sendingAll' <=> Asks("all")')
  BY <1>3 DEF CeInv, CeCallsInv
<1>7. \A b \in ceCalls' : IsCeCall(b)'
  BY <1>2
<1>8. CeCallsInv'
  BY <1>4, <1>5, <1>6, <1>7 DEF CeCallsInv
<1> QED
  BY <1>1, <1>8 DEF CeInv

LEMMA CeCallEnds ==
    ASSUME CeInv, CeFormInv', CeListInv', NEW c \in ceCalls,
           ceCalls' = ceCalls \ {c},
           UNCHANGED <<settings, sentAt, jobs, dropped, ceClicks>>,
           ceTouched' \/ UNCHANGED <<ceForm, ceTouched>> \/ ~ceSaving,
           c.op = "get" \/ (UNCHANGED ceShown /\ (ceSaved' => ceSaved \/ ceSaving)),
           ceSaving' <=> ceSaving /\ c.op # "save",
           sendingAll' <=> sendingAll /\ c.op # "all"
    PROVE  CeInv'
<1> PICK E : E = {}
  OBVIOUS
<1>1. ceCalls' = (ceCalls \ {c}) \union E /\ \A e \in E : IsCeCall(e)' /\ e.op = "list"
  OBVIOUS
<1> QED
  BY <1>1, CeCallArrives

LEMMA CeFormStays ==
    ASSUME CeInv, UNCHANGED <<settings, ceShown, ceForm, ceError, ceSaving, ceSaved, ceTouched>>,
           ceLoadError' \in BOOLEAN
    PROVE  CeFormInv'
  BY DEF CeInv, CeFormInv, CeIsStored

LEMMA CeShows ==
    ASSUME CeInv, NEW c \in ceCalls, SettingsArrive(c) \/ TemplateArrives(c) \/ SavedSettingsArrive(c)
    PROVE  CeInv'
<1>1. /\ ceCalls' = ceCalls \ {c}
      /\ UNCHANGED <<settings, sentAt, jobs, dropped, ceClicks>>
      /\ UNCHANGED <<roster, rosterError, sendingId, sendingAll>>
  BY DEF SettingsArrive, TemplateArrives, SavedSettingsArrive, CeDone, CeArrive, queue, ceList
<1>2. CeListInv'
  BY <1>1 DEF CeInv, CeListInv, OnItsWay
<1>3. /\ IsCeCall(c) /\ CeFormInv
      /\ c.op = "get" => ~ceShown /\ ~ceSaved /\ ~ceSaving
      /\ c.op = "save" => ceSaving
      /\ c.op = "all" => sendingAll
  BY DEF CeInv, CeCallsInv, Asks
<1>4. CASE SettingsArrive(c)
  <2>1. c.op = "get" /\ UNCHANGED <<ceError, ceSaving, ceSaved, ceTouched>>
    BY <1>4 DEF SettingsArrive
  <2>2. ceForm' \in CeFormType /\ ceShown' \in BOOLEAN /\ ceLoadError' \in BOOLEAN
    <3>1. CASE c.got = Nil
      <4>1. ceLoadError' \in BOOLEAN
        BY <1>4, <3>1, Zenon DEF SettingsArrive
      <4> QED
        BY <1>3, <1>4, <3>1, <4>1 DEF SettingsArrive, CeFormInv
    <3>2. CASE c.got # Nil
      <4>1. c.got \in SettingsType
        BY <1>3, <2>1, <3>2 DEF IsCeCall
      <4>2. ceShown' \in BOOLEAN
        BY <1>4, <3>2, Zenon DEF SettingsArrive
      <4>3. ceForm' = [template |-> c.got.template, mode |-> c.got.mode,
                       delay |-> IF c.got.delay = Nil THEN DEFAULT_DELAY ELSE c.got.delay]
            /\ UNCHANGED ceLoadError
        BY <1>4, <3>2 DEF SettingsArrive
      <4>4. ceForm' \in CeFormType
        BY <4>1, <4>3 DEF CeFormType, SettingsType, DEFAULT_DELAY
      <4> QED
        BY <1>3, <4>2, <4>3, <4>4 DEF CeFormInv
    <3> QED
      BY <3>1, <3>2
  <2>3. CeFormInv'
    BY <1>3, <2>1, <2>2 DEF CeFormInv
  <2> QED
    BY <1>1, <1>2, <1>3, <2>1, <2>3, CeCallEnds
<1>5. CASE TemplateArrives(c)
  <2>1. c.op = "upload" /\ UNCHANGED <<ceShown, ceLoadError>>
    BY <1>5 DEF TemplateArrives
  <2>2. CASE c.got = Nil
    <3>1. UNCHANGED <<ceForm, ceError, ceSaving, ceSaved, ceTouched>>
      BY <1>5, <2>2 DEF TemplateArrives, ceSettings
    <3>2. CeFormInv'
      BY <1>1, <1>3, <2>1, <3>1, CeFormStays DEF CeFormInv
    <3> QED
      BY <1>1, <1>2, <2>1, <3>1, <3>2, CeCallEnds
  <2>3. CASE c.got # Nil
    <3>1. /\ ceForm' = [ceForm EXCEPT !.template = c.got] /\ c.got \in Templates
          /\ ceSaved' = FALSE /\ ceTouched' = TRUE /\ UNCHANGED <<ceError, ceSaving>>
      BY <1>3, <1>5, <2>1, <2>3 DEF TemplateArrives, IsCeCall
    <3>2. ceForm' \in CeFormType
      BY <1>3, <3>1 DEF CeFormInv, CeFormType
    <3>3. CeFormInv'
      BY <1>3, <2>1, <3>1, <3>2 DEF CeFormInv
    <3> QED
      BY <1>1, <1>2, <2>1, <3>1, <3>3, CeCallEnds
  <2> QED
    BY <2>2, <2>3
<1>6. CASE SavedSettingsArrive(c)
  <2>1. /\ c.op = "save" /\ ceSaving' = FALSE /\ (ceSaved' <=> c.got # Nil)
        /\ UNCHANGED <<ceShown, ceLoadError, ceForm, ceTouched>>
    BY <1>6 DEF SavedSettingsArrive
  <2>2. ceSaved' \in BOOLEAN /\ ceError' \in BOOLEAN
    BY <1>6, Zenon DEF SavedSettingsArrive
  <2>3. c.got # Nil /\ ~ceTouched => CeIsStored(ceForm)'
    BY <1>1, <1>3, <2>1 DEF IsCeCall, CeIsStored
  <2>4. CeFormInv'
    BY <1>3, <2>1, <2>2, <2>3 DEF CeFormInv
  <2> QED
    BY <1>1, <1>2, <1>3, <2>1, <2>4, CeCallEnds
<1> QED
  BY <1>4, <1>5, <1>6

LEMMA CeLists ==
    ASSUME CeInv, NEW c \in ceCalls, RosterArrives(c) \/ SentOneArrives(c) \/ SentAllArrives(c)
    PROVE  CeInv'
<1>1. /\ UNCHANGED <<settings, sentAt, jobs, dropped, ceClicks, ceShown, ceLoadError>>
      /\ UNCHANGED <<ceForm, ceError, ceSaving, ceSaved, ceTouched>>
  BY DEF RosterArrives, SentOneArrives, SentAllArrives, CeDone, CeArrive, queue, ceSettings
<1>2. CeFormInv' /\ UNCHANGED OnItsWay
  <2>1. ceLoadError \in BOOLEAN
    BY DEF CeInv, CeFormInv
  <2> QED
    BY <1>1, <2>1, CeFormStays DEF OnItsWay
<1>3. IsCeCall(c) /\ CeListInv /\ (c.op = "all" => sendingAll) /\ (c.op = "save" => ceSaving)
  BY DEF CeInv, CeCallsInv, Asks
<1>4. rosterError' \in BOOLEAN
  <2>1. rosterError \in BOOLEAN
    BY <1>3 DEF CeListInv
  <2> QED
    BY <2>1, Zenon DEF RosterArrives, SentOneArrives, SentAllArrives
<1>5. CASE RosterArrives(c)
  <2>1. /\ c.op = "list" /\ ceCalls' = ceCalls \ {c} /\ UNCHANGED <<sendingId, sendingAll>>
        /\ roster' = roster \/ (c.got # Nil /\ roster' = c.got)
    BY <1>5 DEF RosterArrives, CeDone
  <2>2. CeListInv'
    BY <1>2, <1>3, <1>4, <2>1 DEF IsCeCall, CeListInv
  <2> QED
    BY <1>1, <1>2, <2>1, <2>2, CeCallEnds
<1>6. CASE SentOneArrives(c)
  <2>1. /\ c.op = "one" /\ ceCalls' = ceCalls \ {c} /\ sendingId' = Nil /\ UNCHANGED sendingAll
        /\ roster' = roster \/ (c.got # Nil /\ roster # Nil /\ roster' = roster \union {c.data})
    BY <1>6 DEF SentOneArrives, CeDone
  <2>2. CeListInv'
    BY <1>2, <1>3, <1>4, <2>1 DEF IsCeCall, CeListInv
  <2> QED
    BY <1>1, <1>2, <2>1, <2>2, CeCallEnds
<1>7. CASE SentAllArrives(c)
  <2> DEFINE E == IF c.got = Nil THEN {} ELSE {[c EXCEPT !.op = "list", !.at = "sent", !.got = Nil]}
  <2>1. /\ c.op = "all" /\ ceCalls' = (ceCalls \ {c}) \union E /\ sendingAll' = FALSE
        /\ UNCHANGED <<roster, sendingId>>
    BY <1>7 DEF SentAllArrives
  <2>2. CeListInv'
    <3>1. sendingAll' \in BOOLEAN
      BY <2>1, Zenon
    <3> QED
      BY <1>2, <1>3, <1>4, <2>1, <3>1 DEF CeListInv
  <2>3. ASSUME NEW e \in E PROVE IsCeCall(e)' /\ e.op = "list"
    <3>1. PICK o, v, n, t, g : c = [op |-> o, data |-> v, no |-> n, at |-> t, got |-> g]
      BY <1>3 DEF IsCeCall
    <3>2. PICK a : a = [c EXCEPT !.op = "list"]
      OBVIOUS
    <3>3. a = [op |-> "list", data |-> v, no |-> n, at |-> t, got |-> g]
      BY <3>1, <3>2
    <3>4. PICK b : b = [a EXCEPT !.at = "sent"]
      OBVIOUS
    <3>5. b = [op |-> "list", data |-> v, no |-> n, at |-> "sent", got |-> g]
      BY <3>3, <3>4
    <3>6. e = [b EXCEPT !.got = Nil]
      BY <2>3, <3>2, <3>4
    <3>7. e = [op |-> "list", data |-> v, no |-> n, at |-> "sent", got |-> Nil]
      BY <3>5, <3>6
    <3> QED
      BY <3>7 DEF IsCeCall
  <2> HIDE DEF E
  <2> QED
    BY <1>1, <1>2, <1>3, <2>1, <2>2, <2>3, CeCallArrives
<1> QED
  BY <1>5, <1>6, <1>7

LEMMA CeNextKeeps == CeInv /\ [CeNext]_ceVars => CeInv'
<1> SUFFICES ASSUME CeInv, [CeNext]_ceVars PROVE CeInv'
  OBVIOUS
<1>1. CASE UNCHANGED ceVars
  <2>1. /\ UNCHANGED <<settings, sentAt, jobs, dropped, ceShown, ceLoadError>>
        /\ UNCHANGED <<ceForm, ceError, ceSaving, ceSaved, ceTouched>>
        /\ UNCHANGED <<roster, rosterError, sendingId, sendingAll, ceCalls, ceClicks>>
    BY <1>1 DEF ceVars, queue, ceSettings, ceList
  <2> QED
    BY <2>1 DEF CeInv, CeStoreInv, CeFormInv, CeListInv, CeCallsInv, Asks, IsCeCall, CeIsStored, OnItsWay
<1>2. CASE \/ UploadTemplate \/ RemoveTemplate \/ HandleSaveSettings \/ ClickSendAll
           \/ \E m \in Modes : SelectMode(m)
           \/ \E h \in Hours \union {Nil} : TypeDelay(h)
           \/ \E p \in Attendees : ClickSendOne(p)
  BY <1>2, CeEdits
<1>3. CASE SweepDispatches \/ \E p \in Attendees : WorkerSends(p) \/ WorkerFails(p)
  BY <1>3, CeWorks
<1> QED
  BY <1>1, <1>2, <1>3, CeServes, CeShows, CeLists DEF CeNext
=============================================================================
