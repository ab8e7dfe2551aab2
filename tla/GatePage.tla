------------------------------ MODULE GatePage ------------------------------
(***************************************************************************)
(* The check-in page of one event: app/dashboard/events/[id]/check-in/     *)
(* page.tsx with components/checkin/qr-scanner.tsx.                        *)
(*                                                                         *)
(* The page loads its event, then shows either the camera or the search    *)
(* list for the selected day.  Effects run again when what they close over *)
(* changes: picking a day re-arms the debounce and restarts the scanner.   *)
(* What an earlier run of an effect, a click or a search started goes on   *)
(* with the day and query it closed over.  The queue behind submitScan is  *)
(* module OfflineQueue, the counters above the list module LiveSummary.    *)
(***************************************************************************)
EXTENDS Integers, FiniteSets, Values

CONSTANTS
    Days,         \* the event's days
    FirstDay,     \* eventDays[0]
    Capable,      \* 'BarcodeDetector' in window
    Queries,      \* what staff type
    NoQuery,        \* the empty query
    MaxPicks,     \* bound: days and modes picked, queries typed
    MaxSearches,  \* bound: searches asked
    MaxStarts,    \* bound: times the scanner's effect runs
    MaxFrames,    \* bound: frames the detector works on at once
    MaxMarks      \* bound: clicks on 'Marcar presença' waiting at once

ASSUME FirstIsADay == FirstDay \in Days /\ IsFiniteSet(Days)
ASSUME NoQueryIsAQuery == NoQuery \in Queries
ASSUME CapableIsBoolean == Capable \in BOOLEAN
ASSUME GateBounds == {MaxPicks, MaxSearches, MaxStarts, MaxFrames, MaxMarks} \subseteq Nat
ASSUME NilIsNoDay == Nil \notin Days

VARIABLES
    load,         \* "loading", then "shown" or "failed"
    day,          \* selectedDayId
    mode,         \* "qr" or "search"
    query,
    timer,        \* a debounce timer is running
    asked,        \* searches asked so far
    flying,       \* those not answered yet
    list,         \* the search whose answer is shown
    searchError,
    marks,        \* clicks that wait for the store: what they closed over
    mounted,      \* mounts of QrScanner so far; the last one is on screen or none
    scanError,    \* its error state
    started,      \* runs of its effect so far
    run,          \* the state of each run
    frames,       \* frames handed to the detector
    scans,        \* history: the QR scans submitted
    picks

screen == <<load, mode>>
search == <<timer, asked, flying, list, searchError>>
scanner == <<mounted, scanError, started, run>>
gateVars == <<screen, day, query, search, marks, scanner, frames, scans, picks>>

----------------------------------------------------------------------------
Runs == 1 .. MaxStarts
Idle == [day |-> Nil, mount |-> 0, at |-> "none", cancelled |-> FALSE, stream |-> FALSE]

\* What the page renders: the camera, or the list with its text field.
Scanning(m) == load = "shown" /\ m = "qr" /\ Capable
Searching == load = "shown" /\ mode = "search"
\* The two toggles are offered only where there is something to choose.
OffersDays == load = "shown" /\ Cardinality(Days) > 1
OffersModes == load = "shown" /\ Cardinality(Days) >= 2 /\ Capable

\* The run whose cleanup has not been called.
Current(g) == g \in 1 .. started /\ ~run[g].cancelled
OnScreen(g) == Scanning(mode) /\ run[g].mount = mounted

GateInit ==
    /\ load = "loading"
    /\ day = Nil
    /\ mode = "search"
    /\ query = NoQuery
    /\ timer = TRUE
    /\ asked = 0
    /\ flying = {}
    /\ list = Nil
    /\ searchError = FALSE
    /\ marks = {}
    /\ mounted = 0
    /\ scanError = FALSE
    /\ started = 0
    /\ run = [g \in Runs |-> Idle]
    /\ frames = {}
    /\ scans = {}
    /\ picks = 0

\* A plausible slip, not part of GateNext: the cleanup clears the interval only.
CleanedUpStreaming ==
    [g \in Runs |->
        IF Current(g)
        THEN [run[g] EXCEPT !.cancelled = TRUE,
                            !.at = IF @ = "decoding" THEN "ended" ELSE @]
        ELSE run[g]]

\* The effect's cleanup, for the run it belongs to if there is one.
CleanedUp ==
    [g \in Runs |->
        IF Current(g)
        THEN [run[g] EXCEPT !.cancelled = TRUE, !.stream = FALSE,
                            !.at = IF @ = "decoding" THEN "ended" ELSE @]
        ELSE run[g]]

\* The effect runs: getUserMedia is asked, with d in the closure of onDetect.
StartScanner(before, d, mount) ==
    /\ started < MaxStarts
    /\ started' = started + 1
    /\ run' = [before EXCEPT ![started + 1] =
                  [day |-> d, mount |-> mount, at |-> "asking",
                   cancelled |-> FALSE, stream |-> FALSE]]

MountScanner(d) ==
    /\ mounted' = mounted + 1
    /\ scanError' = FALSE
    /\ StartScanner(run, d, mounted + 1)

\* runSearch(q) of the render that showed day d; without a day it returns.
RunSearch(d, q, by) ==
    IF d = Nil
    THEN UNCHANGED <<asked, flying, searchError>>
    ELSE /\ asked < MaxSearches
         /\ asked' = asked + 1
         /\ flying' = flying \union {[no |-> asked + 1, day |-> d, query |-> q, by |-> by]}
         /\ searchError' = FALSE

Pick ==
    /\ picks < MaxPicks
    /\ picks' = picks + 1

(***************************************************************************)
(* Plausible slips; none is part of GateNext.                                  *)
(***************************************************************************)

\* runSearch is missing from the dependencies of the debounce effect.
PickDayKeepsTimer(d) ==
    /\ OffersDays /\ d # day
    /\ Pick
    /\ day' = d
    /\ IF Scanning(mode)
       THEN StartScanner(CleanedUp, d, mounted) /\ UNCHANGED <<mounted, scanError>>
       ELSE UNCHANGED scanner
    /\ UNCHANGED <<screen, query, search, marks, frames, scans>>

\* onDetect is missing from the dependencies of the scanner's effect.
PickDayKeepsScanner(d) ==
    /\ OffersDays /\ d # day
    /\ Pick
    /\ day' = d
    /\ timer' = TRUE
    /\ UNCHANGED <<screen, query, asked, flying, list, searchError, marks,
                   scanner, frames, scans>>

(***************************************************************************)
(* Loading and picking                                                     *)
(***************************************************************************)

\* eventsApi.get answered: events of several days start on the camera.
LoadEvent ==
    /\ load = "loading"
    /\ load' = "shown"
    /\ day' = FirstDay
    /\ mode' = IF Cardinality(Days) >= 2 THEN "qr" ELSE "search"
    /\ timer' = TRUE
    /\ IF Cardinality(Days) >= 2 /\ Capable THEN MountScanner(FirstDay) ELSE UNCHANGED scanner
    /\ UNCHANGED <<query, asked, flying, list, searchError, marks, frames, scans, picks>>

LoadFails ==
    /\ load = "loading"
    /\ load' = "failed"
    /\ UNCHANGED <<mode, day, query, search, marks, scanner, frames, scans, picks>>

\* A new day gives runSearch and onDetect a new identity: both effects run.
PickDay(d) ==
    /\ OffersDays /\ d # day
    /\ Pick
    /\ day' = d
    /\ timer' = TRUE
    /\ IF Scanning(mode)
       THEN StartScanner(CleanedUp, d, mounted) /\ UNCHANGED <<mounted, scanError>>
       ELSE UNCHANGED scanner
    /\ UNCHANGED <<screen, query, asked, flying, list, searchError, marks, frames, scans>>

PickCamera ==
    /\ OffersModes /\ mode = "search"
    /\ Pick
    /\ mode' = "qr"
    /\ MountScanner(day)
    /\ UNCHANGED <<load, day, query, search, marks, frames, scans>>

PickSearch ==
    /\ OffersModes /\ mode = "qr"
    /\ Pick
    /\ mode' = "search"
    /\ run' = CleanedUp
    /\ UNCHANGED <<load, day, query, search, marks, mounted, scanError, started, frames, scans>>

(***************************************************************************)
(* Searching                                                               *)
(***************************************************************************)

Type(q) ==
    /\ Searching /\ q # query
    /\ Pick
    /\ query' = q
    /\ timer' = TRUE
    /\ UNCHANGED <<screen, day, asked, flying, list, searchError, marks, scanner, frames, scans>>

\* 250 ms without a change.  The effect is of the page: it runs in either mode.
Debounce ==
    /\ timer
    /\ timer' = FALSE
    /\ RunSearch(day, query, "typing")
    /\ UNCHANGED <<screen, day, query, list, marks, scanner, frames, scans, picks>>

\* Answers are taken in the order they arrive.
SearchAnswered(s) ==
    /\ s \in flying
    /\ flying' = flying \ {s}
    /\ list' = s
    /\ UNCHANGED <<screen, day, query, timer, asked, searchError, marks, scanner, frames, scans, picks>>

SearchFails(s) ==
    /\ s \in flying
    /\ flying' = flying \ {s}
    /\ searchError' = TRUE
    /\ UNCHANGED <<screen, day, query, timer, asked, list, marks, scanner, frames, scans, picks>>

\* A click on a row of the list; submitScan waits for the store.
MarkPresent ==
    /\ Searching /\ list # Nil
    /\ Cardinality(marks) < MaxMarks
    /\ marks' = marks \union {[day |-> day, query |-> query]}
    /\ UNCHANGED <<screen, day, query, search, scanner, frames, scans, picks>>

\* Then the list is asked for again, as of the click.
MarkQueued(m) ==
    /\ m \in marks
    /\ marks' = marks \ {m}
    /\ RunSearch(m.day, m.query, "mark")
    /\ UNCHANGED <<screen, day, query, timer, list, scanner, frames, scans, picks>>

(***************************************************************************)
(* The scanner                                                             *)
(***************************************************************************)

Stay(g, at) == run' = [run EXCEPT ![g].at = at]

\* setError, of no effect once its mount has left the screen.
ShowError(g) == scanError' = (scanError \/ OnScreen(g))

\* getUserMedia resolves.  A cancelled run returns at once and leaves the
\* stream open; without a video element the run throws.
CameraOpens(g) ==
    /\ run[g].at = "asking"
    /\ run' = [run EXCEPT ![g].stream = TRUE,
                          ![g].at = IF run[g].cancelled THEN "late"
                                    ELSE IF scanError THEN "failed" ELSE "starting"]
    /\ UNCHANGED <<screen, day, query, search, marks, mounted, scanError, started, frames, scans, picks>>

\* getUserMedia or video.play() rejects.
CameraFails(g) ==
    /\ run[g].at \in {"asking", "starting"}
    /\ Stay(g, "failed")
    /\ ShowError(g)
    /\ UNCHANGED <<screen, day, query, search, marks, mounted, started, frames, scans, picks>>

\* video.play() resolves and the interval is set, cancelled or not.
StartDecoding(g) ==
    /\ run[g].at = "starting"
    /\ Stay(g, "decoding")
    /\ UNCHANGED <<screen, day, query, search, marks, mounted, scanError, started, frames, scans, picks>>

\* The interval ticks while some run shows a picture in the same video.
DrawFrame(g) ==
    /\ run[g].at = "decoding"
    /\ \E h \in Runs : run[h].mount = run[g].mount /\ run[h].stream
                       /\ run[h].at \in {"starting", "decoding"}
    /\ Cardinality(frames) < MaxFrames
    /\ frames' = frames \union {[run |-> g, shown |-> day]}
    /\ UNCHANGED <<screen, day, query, search, marks, scanner, scans, picks>>

\* The detector finds a code of this event: onDetect submits it for the day
\* in its closure.
Detect(f) ==
    /\ f \in frames
    /\ frames' = frames \ {f}
    /\ scans' = scans \union {f}
    /\ UNCHANGED <<screen, day, query, search, marks, scanner, picks>>

\* It finds nothing, or a code onDetect refuses.
DetectNothing(f) ==
    /\ f \in frames
    /\ frames' = frames \ {f}
    /\ UNCHANGED <<screen, day, query, search, marks, scanner, scans, picks>>

----------------------------------------------------------------------------
GateStaff ==
    \/ \E d \in Days : PickDay(d)
    \/ PickCamera \/ PickSearch
    \/ \E q \in Queries : Type(q)
    \/ MarkPresent

Browser ==
    \/ Debounce
    \/ \E m \in marks : MarkQueued(m)
    \/ \E g \in Runs : CameraOpens(g) \/ CameraFails(g) \/ StartDecoding(g) \/ DrawFrame(g)
    \/ \E f \in frames : Detect(f) \/ DetectNothing(f)

Network ==
    \/ LoadEvent \/ LoadFails
    \/ \E s \in flying : SearchAnswered(s) \/ SearchFails(s)

GateNext == GateStaff \/ Browser \/ Network

GateSpec == GateInit /\ [][GateNext]_gateVars

----------------------------------------------------------------------------
(***************************************************************************)
(* Properties                                                              *)
(***************************************************************************)

Searches == [no : 1 .. MaxSearches, day : Days, query : Queries, by : {"typing", "mark"}]

\* Every variable has the shape the code gives it; at most one run of the
\* scanner's effect is without its cleanup, and it is the last one.
GateTypeOK ==
    /\ load \in {"loading", "shown", "failed"}
    /\ day \in Days \union {Nil}
    /\ load = "shown" <=> day # Nil
    /\ mode \in {"qr", "search"}
    /\ query \in Queries
    /\ timer \in BOOLEAN /\ searchError \in BOOLEAN /\ scanError \in BOOLEAN
    /\ asked \in 0 .. MaxSearches
    /\ flying \subseteq Searches
    /\ list \in Searches \union {Nil}
    /\ marks \subseteq [day : Days, query : Queries]
    /\ mounted \in 0 .. MaxStarts
    /\ started \in 0 .. MaxStarts
    /\ run \in [Runs -> [day : Days \union {Nil}, mount : 0 .. MaxStarts,
                         at : {"none", "asking", "starting", "decoding", "late", "failed", "ended"},
                         cancelled : BOOLEAN, stream : BOOLEAN]]
    /\ frames \subseteq [run : Runs, shown : Days]
    /\ scans \subseteq [run : Runs, shown : Days]
    /\ picks \in 0 .. MaxPicks
    /\ \A g \in Runs : Current(g) <=> g = started /\ Scanning(mode)

\* When nothing is under way, the list is for the query and the day on
\* screen: whatever is typed and picked while searches are in flight, the last
\* search asked is for what is shown.  Two things break it and are excepted: an
\* older answer overtaken by a newer one, and the repeat after a click, which
\* asks for what was shown at the click.
SearchCatchesUp ==
    (load = "shown" /\ ~timer /\ flying = {} /\ marks = {} /\ ~searchError
        /\ list # Nil /\ list.no = asked /\ list.by = "typing")
    => list.day = day /\ list.query = query

\* A camera is open only for the run of the effect on screen, unless the
\* permission was given after that run had been cancelled: every other way
\* out, a day or the mode picked while the video starts or decodes, closes it.
CameraReleased ==
    \A g \in Runs : run[g].stream => Current(g) \/ run[g].at = "late"

\* A code is submitted for the day that was on screen when its frame was
\* drawn, whatever day is picked before the detector answers; unless its run
\* was cancelled while the video was starting, whose interval nobody clears.
ScannedForDayShown ==
    \A s \in scans : s.shown # run[s.run].day => run[s.run].cancelled /\ run[s.run].at = "decoding"
=============================================================================
