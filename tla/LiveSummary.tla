----------------------------- MODULE LiveSummary -----------------------------
(***************************************************************************)
(* The live counters: components/checkin/attendance-summary.tsx over       *)
(* lib/socket.ts, and the AttendanceGateway that pushes to it.             *)
(*                                                                         *)
(* For the selected day the card asks for a summary and opens a socket     *)
(* that joins the event's room; the answer and the updates replace each    *)
(* other in the order they arrive.  A check-in counts with INCR and        *)
(* broadcasts afterwards, so two of them may cross.  The counters are warm *)
(* and Redis keeps them: filling them is module CheckIn.                   *)
(***************************************************************************)
EXTENDS Integers, Sequences

CONSTANTS
    Days,         \* the event's days
    FirstDay,     \* the day selected first
    MaxCheckIns,  \* bound: check-ins per day
    MaxPicks,     \* bound: days picked
    MaxDrops,     \* bound: lost connections, lost calls and failed joins
    Nil

ASSUME FirstIsADay == FirstDay \in Days
ASSUME LiveBounds == {MaxCheckIns, MaxPicks, MaxDrops} \subseteq Nat
ASSUME NilIsNoDay == Nil \notin Days /\ Nil \notin Int

VARIABLES
    counted,      \* Redis: attendance:present of each day
    uncast,       \* check-ins between their INCR and their broadcast
    signedIn,     \* the page's access_token cookie is still valid
    day,          \* the selected day
    effect,       \* runs of the card's effect so far; the last one is active
    asks,         \* summary requests under way
    askFailed,    \* the one of the active run was refused or lost
    socket,       \* the active run's socket
    wire,         \* updates on their way to it
    card,         \* what is shown, Nil for the skeleton
    lastCast,     \* history: the last count broadcast for each day
    heard,        \* history: days whose last broadcast went to the active socket
    picks, drops

server == <<counted, uncast, lastCast>>
requests == <<asks, askFailed>>
link == <<socket, wire, heard>>
vars == <<server, signedIn, day, effect, requests, link, card, picks, drops>>

----------------------------------------------------------------------------
\* The effect runs for day d: the summary is asked for and a socket opened.
\* What was on its way to the socket of the run before is not delivered.
RunEffect(d, n, before) ==
    /\ effect' = n
    /\ asks' = before \union {[effect |-> n, day |-> d, present |-> Nil]}
    /\ askFailed' = FALSE
    /\ socket' = "connecting"
    /\ wire' = <<>>
    /\ heard' = {}

Asking == \E a \in asks : a.effect = effect

Init ==
    /\ counted = [d \in Days |-> 0]
    /\ uncast = {}
    /\ signedIn = TRUE
    /\ day = FirstDay
    /\ effect = 1
    /\ asks = {[effect |-> 1, day |-> FirstDay, present |-> Nil]}
    /\ askFailed = FALSE
    /\ socket = "connecting"
    /\ wire = <<>>
    /\ card = Nil
    /\ lastCast = [d \in Days |-> 0]
    /\ heard = {}
    /\ picks = 0
    /\ drops = 0

(***************************************************************************)
(* Plausible slips; none is part of Next.                                  *)
(***************************************************************************)

\* The effect has no active flag.
SummaryAnsweredLate(a) ==
    /\ a \in asks /\ a.present # Nil
    /\ asks' = asks \ {a}
    /\ card' = [day |-> a.day, present |-> a.present, via |-> "summary"]
    /\ UNCHANGED <<server, signedIn, day, effect, askFailed, link, picks, drops>>

\* An update is taken only while nothing newer than a summary is shown.
ShowUpdateOnce ==
    /\ wire # <<>>
    /\ wire' = Tail(wire)
    /\ card' = IF Head(wire).day = day /\ (card = Nil \/ card.via = "summary")
               THEN [day |-> day, present |-> Head(wire).present, via |-> "update"]
               ELSE card
    /\ UNCHANGED <<server, signedIn, day, effect, requests, socket, heard, picks, drops>>

\* 'join' is emitted when the page opens, not on every 'connect': after a lost
\* connection nothing brings the socket back into the room.
ConnectJoinsOnce ==
    /\ socket = "connecting" /\ drops = 0
    /\ socket' = IF signedIn THEN "joining" ELSE "refused"
    /\ UNCHANGED <<server, signedIn, day, effect, requests, wire, heard, card, picks, drops>>

\* A socket that is lost keeps what its room was sent.
DropSocketKeepsRoom ==
    /\ socket \in {"joining", "joined", "outside"}
    /\ drops < MaxDrops
    /\ drops' = drops + 1
    /\ socket' = "connecting"
    /\ UNCHANGED <<server, signedIn, day, effect, requests, wire, heard, card, picks>>

(***************************************************************************)
(* Check-ins                                                               *)
(***************************************************************************)

CountCheckIn(d) ==
    /\ counted[d] < MaxCheckIns
    /\ counted' = [counted EXCEPT ![d] = @ + 1]
    /\ uncast' = uncast \union {[day |-> d, present |-> counted[d] + 1]}
    /\ UNCHANGED <<lastCast, signedIn, day, effect, requests, link, card, picks, drops>>

\* broadcastSummary: to the sockets that are in the room now.
Broadcast(u) ==
    /\ u \in uncast
    /\ uncast' = uncast \ {u}
    /\ lastCast' = [lastCast EXCEPT ![u.day] = u.present]
    /\ wire' = IF socket = "joined" THEN Append(wire, u) ELSE wire
    /\ heard' = IF socket = "joined" THEN heard \union {u.day} ELSE heard \ {u.day}
    /\ UNCHANGED <<counted, signedIn, day, effect, requests, socket, card, picks, drops>>

(***************************************************************************)
(* The card                                                                *)
(***************************************************************************)

\* The summary of the day before stays on screen until something replaces it.
PickDay(d) ==
    /\ d # day
    /\ picks < MaxPicks
    /\ picks' = picks + 1
    /\ day' = d
    /\ RunEffect(d, effect + 1, asks)
    /\ UNCHANGED <<server, signedIn, card, drops>>

\* getSummary reads the counters of the day.
ReadSummary(a) ==
    /\ a \in asks /\ a.present = Nil
    /\ signedIn
    /\ asks' = (asks \ {a}) \union {[a EXCEPT !.present = counted[a.day]]}
    /\ UNCHANGED <<server, signedIn, day, effect, askFailed, link, card, picks, drops>>

\* The answer is shown, whatever the socket has shown meanwhile, unless its
\* effect is no longer active.
SummaryAnswered(a) ==
    /\ a \in asks /\ a.present # Nil
    /\ asks' = asks \ {a}
    /\ card' = IF a.effect = effect
               THEN [day |-> a.day, present |-> a.present, via |-> "summary"]
               ELSE card
    /\ UNCHANGED <<server, signedIn, day, effect, askFailed, link, picks, drops>>

\* The cookie has expired, or the call is lost: the card stays as it is.
SummaryFails(a) ==
    /\ a \in asks
    /\ ~signedIn \/ drops < MaxDrops
    /\ drops' = IF signedIn THEN drops + 1 ELSE drops
    /\ asks' = asks \ {a}
    /\ askFailed' = (askFailed \/ a.effect = effect)
    /\ UNCHANGED <<server, signedIn, day, effect, link, card, picks>>

ShowUpdate ==
    /\ wire # <<>>
    /\ wire' = Tail(wire)
    /\ card' = IF Head(wire).day = day
               THEN [day |-> day, present |-> Head(wire).present, via |-> "update"]
               ELSE card
    /\ UNCHANGED <<server, signedIn, day, effect, requests, socket, heard, picks, drops>>

(***************************************************************************)
(* Sockets                                                                 *)
(***************************************************************************)

\* handleConnection verifies the cookie; the client then emits 'join'.
Connect ==
    /\ socket = "connecting"
    /\ socket' = IF signedIn THEN "joining" ELSE "refused"
    /\ UNCHANGED <<server, signedIn, day, effect, requests, wire, heard, card, picks, drops>>

\* handleJoin finds the event in the token's tenant.
Join ==
    /\ socket = "joining"
    /\ socket' = "joined"
    /\ UNCHANGED <<server, signedIn, day, effect, requests, wire, heard, card, picks, drops>>

\* handleJoin throws at its read, or finds no such event: the connection stays
\* up outside the room.  The page hears nothing of it and does not ask again.
FailJoin ==
    /\ socket = "joining"
    /\ drops < MaxDrops
    /\ drops' = drops + 1
    /\ socket' = "outside"
    /\ UNCHANGED <<server, signedIn, day, effect, requests, wire, heard, card, picks>>

\* The connection is lost with what it carried; socket.io connects again.
DropSocket ==
    /\ socket \in {"joining", "joined", "outside"}
    /\ drops < MaxDrops
    /\ drops' = drops + 1
    /\ socket' = "connecting"
    /\ wire' = <<>>
    /\ heard' = {}
    /\ UNCHANGED <<server, signedIn, day, effect, requests, card, picks>>

TokenExpires ==
    /\ signedIn
    /\ signedIn' = FALSE
    /\ UNCHANGED <<server, day, effect, requests, link, card, picks, drops>>

----------------------------------------------------------------------------
Next ==
    \/ \E d \in Days : CountCheckIn(d) \/ PickDay(d)
    \/ \E u \in uncast : Broadcast(u)
    \/ \E a \in asks : ReadSummary(a) \/ SummaryAnswered(a) \/ SummaryFails(a)
    \/ ShowUpdate \/ Connect \/ Join \/ FailJoin \/ DropSocket \/ TokenExpires

Spec == Init /\ [][Next]_vars

\* socket.io keeps reconnecting, and a join that is not lost with its connection
\* or failed by its read is served.
FairSpec == Spec /\ WF_vars(Connect) /\ WF_vars(Join)

----------------------------------------------------------------------------
(***************************************************************************)
(* Properties                                                              *)
(***************************************************************************)

Counts == 0 .. MaxCheckIns
Updates == [day : Days, present : Counts]

\* Every variable has the shape the code gives it; updates are under way only
\* to a socket that is in the room.
TypeOK ==
    /\ counted \in [Days -> Counts] /\ lastCast \in [Days -> Counts]
    /\ uncast \subseteq Updates
    /\ signedIn \in BOOLEAN /\ askFailed \in BOOLEAN
    /\ day \in Days
    /\ effect \in 1 .. MaxPicks + 1
    /\ asks \subseteq [effect : 1 .. effect, day : Days, present : Counts \union {Nil}]
    /\ socket \in {"connecting", "joining", "joined", "outside", "refused"}
    /\ wire \in Seq(Updates)
    /\ card \in [day : Days, present : Counts, via : {"summary", "update"}] \union {Nil}
    /\ heard \subseteq Days
    /\ picks \in 0 .. MaxPicks /\ drops \in 0 .. MaxDrops
    /\ socket # "joined" => wire = <<>> /\ heard = {}

\* The numbers are those of the day on screen once its summary is answered,
\* however late the answers for the days before arrive; only while it is
\* asked for, or when it failed, may they be another day's.
CardOfDayShown == card # Nil => card.day = day \/ Asking \/ askFailed

\* When the last broadcast of the day went to the socket of the page and nothing
\* is on its way, a card that shows an update shows that broadcast: picked
\* days, lost connections and late answers cost an update only where the page
\* had not joined.  It is the count of the database unless two check-ins have
\* broadcast in the other order; and a summary answered after an update takes
\* its place.  In both cases the card stays behind until the next check-in.
CardShowsLastCast ==
    (card # Nil /\ card.via = "update" /\ card.day = day /\ wire = <<>> /\ day \in heard)
    => card.present = lastCast[day]

\* After every pick of a day and every lost connection the page asks for the
\* room of its event again, and is in it unless its cookie is no longer valid
\* or the server failed that very join: then it stays outside, connected, until
\* a day is picked or the connection lost, for nothing repeats the join.
KeepsListening ==
    socket \in {"connecting", "joining"} ~> socket \in {"joined", "outside", "refused"}
=============================================================================
