-------------------------- MODULE LiveSummaryProofs --------------------------
(* Theorems about LiveSummary, for any days and any number of check-ins,    *)
(* picks and lost connections.                                              *)
EXTENDS LiveSummary, SequenceTheorems, TLAPS

USE DEF server, requests, link

----------------------------------------------------------------------------
\* Every pick of a day starts one run of the effect: what bounds the runs.
TypeInv == TypeOK /\ effect = picks + 1

LEMMA TypeInit == Init => TypeInv
<1> SUFFICES ASSUME Init PROVE TypeInv
  OBVIOUS
<1>1. effect \in 1 .. MaxPicks + 1 /\ picks \in 0 .. MaxPicks /\ drops \in 0 .. MaxDrops
  BY LiveBounds DEF Init
<1>2. counted \in [Days -> Counts] /\ lastCast \in [Days -> Counts]
  BY LiveBounds DEF Init, Counts
<1>3. asks \subseteq [effect : 1 .. effect, day : Days, present : Counts \union {Nil}]
  BY FirstIsADay DEF Init
<1>4. wire \in Seq(Updates) /\ wire = <<>>
  BY DEF Init
<1>5. uncast \subseteq Updates /\ heard \subseteq Days /\ effect = picks + 1
  BY DEF Init
<1>6. /\ signedIn \in BOOLEAN /\ askFailed \in BOOLEAN
      /\ day \in Days
      /\ socket \in {"connecting", "joining", "joined", "outside", "refused"}
      /\ card \in [day : Days, present : Counts, via : {"summary", "update"}] \union {Nil}
      /\ socket # "joined" => wire = <<>> /\ heard = {}
  BY FirstIsADay DEF Init
<1> QED
  BY <1>1, <1>2, <1>3, <1>4, <1>5, <1>6 DEF TypeOK, TypeInv

LEMMA TypeStep == TypeInv /\ [Next]_vars => TypeInv'
<1> SUFFICES ASSUME TypeInv, [Next]_vars PROVE TypeInv'
  OBVIOUS
<1> USE LiveBounds, FirstIsADay DEF TypeOK, TypeInv
<1>1. ASSUME NEW d \in Days, CountCheckIn(d) PROVE TypeInv'
  <2>1. counted[d] \in Counts /\ counted[d] + 1 \in Counts
    BY <1>1, SMTT(30) DEF CountCheckIn, Counts
  <2>2. counted' \in [Days -> Counts]
    BY <1>1, <2>1 DEF CountCheckIn
  <2>3. uncast' \subseteq Updates
    BY <1>1, <2>1 DEF CountCheckIn, Updates
  <2> QED
    BY <1>1, <2>2, <2>3 DEF CountCheckIn
<1>2. ASSUME NEW d \in Days, PickDay(d) PROVE TypeInv'
  <2>1. effect' = effect + 1 /\ picks' = picks + 1 /\ picks \in Nat /\ picks < MaxPicks
    BY <1>2 DEF PickDay, RunEffect
  <2>2. asks' = asks \union {[effect |-> effect + 1, day |-> d, present |-> Nil]}
    BY <1>2 DEF PickDay, RunEffect
  <2>3. picks' \in 0 .. MaxPicks /\ effect' \in 1 .. MaxPicks + 1 /\ effect' = picks' + 1
    BY <2>1
  <2>4. asks' \subseteq [effect : 1 .. effect', day : Days, present : Counts \union {Nil}]
    BY <2>1, <2>2
  <2>5. /\ day' \in Days /\ askFailed' = FALSE /\ socket' = "connecting"
        /\ wire' = <<>> /\ wire' \in Seq(Updates) /\ heard' = {}
        /\ UNCHANGED <<counted, uncast, lastCast, signedIn, card, drops>>
    BY <1>2 DEF PickDay, RunEffect
  <2> QED
    BY <2>3, <2>4, <2>5
<1>3. ASSUME NEW u \in uncast, Broadcast(u) PROVE TypeInv'
  <2>1. u \in Updates /\ u.day \in Days /\ u.present \in Counts
    BY DEF Updates
  <2>2. wire' \in Seq(Updates)
    BY <1>3, <2>1 DEF Broadcast
  <2> QED
    BY <1>3, <2>1, <2>2 DEF Broadcast
<1>4. ASSUME NEW a \in asks, ReadSummary(a) PROVE TypeInv'
  <2>1. asks' = (asks \ {a}) \union {[a EXCEPT !.present = counted[a.day]]}
    BY <1>4 DEF ReadSummary
  <2>2. counted[a.day] \in Counts
    OBVIOUS
  <2> QED
    BY <1>4, <2>1, <2>2 DEF ReadSummary
<1>5. ASSUME NEW a \in asks, SummaryAnswered(a) PROVE TypeInv'
  <2>1. a.day \in Days /\ a.present \in Counts
    BY <1>5 DEF SummaryAnswered
  <2> QED
    BY <1>5, <2>1 DEF SummaryAnswered
<1>6. ASSUME NEW a \in asks, SummaryFails(a) PROVE TypeInv'
  <2>1. asks' \subseteq asks /\ askFailed' \in BOOLEAN /\ drops' \in 0 .. MaxDrops
    BY <1>6 DEF SummaryFails
  <2> QED
    BY <1>6, <2>1 DEF SummaryFails
<1>7. CASE ShowUpdate
  <2>1. Head(wire) \in Updates /\ wire' \in Seq(Updates)
    BY <1>7 DEF ShowUpdate
  <2> QED
    BY <1>7, <2>1 DEF ShowUpdate, Updates
<1>8. CASE Connect \/ Join
  BY <1>8 DEF Connect, Join
<1>9. CASE FailJoin
  <2>1. drops' \in 0 .. MaxDrops
    BY <1>9 DEF FailJoin
  <2> QED
    BY <1>9, <2>1 DEF FailJoin
<1>10. CASE DropSocket
  <2>1. drops' \in 0 .. MaxDrops
    BY <1>10 DEF DropSocket
  <2> QED
    BY <1>10, <2>1 DEF DropSocket
<1>11. CASE TokenExpires
  BY <1>11 DEF TokenExpires
<1>12. CASE UNCHANGED vars
  BY <1>12 DEF vars
<1> QED
  BY <1>1, <1>2, <1>3, <1>4, <1>5, <1>6, <1>7, <1>8, <1>9, <1>10, <1>11, <1>12 DEF Next

\* The card, its socket and its requests keep their shape, and nothing is on the
\* wire of a socket that is not in the room (attendance-summary.tsx:14-34).
THEOREM TypeCorrect == Spec => []TypeOK
  <1>1. TypeInv => TypeOK
  BY DEF TypeInv
<1> QED
  BY <1>1, TypeInit, TypeStep, PTL DEF Spec

----------------------------------------------------------------------------
(* Whose day the card shows *)

\* The request of the active run is for the selected day.
AskedForDay == \A a \in asks : a.effect = effect => a.day = day

DayInv == AskedForDay /\ CardOfDayShown

LEMMA DayInit == Init => DayInv
  BY DEF Init, DayInv, AskedForDay, CardOfDayShown

LEMMA DayStep == TypeInv /\ DayInv /\ [Next]_vars => DayInv'
<1> SUFFICES ASSUME TypeInv, DayInv, [Next]_vars PROVE DayInv'
  OBVIOUS
<1> USE DEF DayInv, AskedForDay, CardOfDayShown, Asking
<1>1. ASSUME NEW d \in Days, CountCheckIn(d) PROVE DayInv'
  BY <1>1 DEF CountCheckIn
<1>2. ASSUME NEW d \in Days, PickDay(d) PROVE DayInv'
  <2>1. /\ effect' = effect + 1 /\ day' = d
        /\ asks' = asks \union {[effect |-> effect + 1, day |-> d, present |-> Nil]}
    BY <1>2 DEF PickDay, RunEffect
  <2>2. \A a \in asks : a.effect # effect + 1
    BY LiveBounds DEF TypeInv, TypeOK
  <2>3. AskedForDay'
    BY <2>1, <2>2
  <2> DEFINE new == [effect |-> effect + 1, day |-> d, present |-> Nil]
  <2>4. new \in asks' /\ new.effect = effect'
    BY <2>1
  <2>5. Asking'
    BY <2>4
  <2> QED
    BY <2>3, <2>5
<1>3. ASSUME NEW u \in uncast, Broadcast(u) PROVE DayInv'
  BY <1>3 DEF Broadcast
<1>4. ASSUME NEW a \in asks, ReadSummary(a) PROVE DayInv'
  <2> DEFINE b == [a EXCEPT !.present = counted[a.day]]
  <2>1. b.effect = a.effect /\ b.day = a.day
    BY DEF TypeInv, TypeOK
  <2>2. asks' = (asks \ {a}) \union {b} /\ UNCHANGED <<effect, day, card, askFailed>>
    BY <1>4 DEF ReadSummary
  <2> HIDE DEF b
  <2>3. AskedForDay'
    BY <2>1, <2>2
  <2>4. Asking => Asking'
    BY <2>1, <2>2
  <2> QED
    BY <2>2, <2>3, <2>4
<1>5. ASSUME NEW a \in asks, SummaryAnswered(a) PROVE DayInv'
  <2>1. asks' = asks \ {a} /\ UNCHANGED <<effect, day, askFailed>>
    BY <1>5 DEF SummaryAnswered
  <2>2. CASE a.effect = effect
    <3>1. card'.day = day
      BY <1>5, <2>2 DEF SummaryAnswered
    <3> QED
      BY <2>1, <3>1
  <2>3. CASE a.effect # effect
    <3>1. card' = card
      BY <1>5, <2>3 DEF SummaryAnswered
    <3>2. Asking => Asking'
      BY <2>1, <2>3
    <3> QED
      BY <2>1, <3>1, <3>2
  <2> QED
    BY <2>2, <2>3
<1>6. ASSUME NEW a \in asks, SummaryFails(a) PROVE DayInv'
  <2>1. /\ asks' = asks \ {a} /\ askFailed' = (askFailed \/ a.effect = effect)
        /\ UNCHANGED <<effect, day, card>>
    BY <1>6 DEF SummaryFails
  <2>2. Asking => Asking' \/ a.effect = effect
    BY <2>1
  <2> QED
    BY <2>1, <2>2
<1>7. CASE ShowUpdate
  BY <1>7 DEF ShowUpdate
<1>8. CASE Connect \/ Join \/ FailJoin \/ DropSocket \/ TokenExpires
  BY <1>8 DEF Connect, Join, FailJoin, DropSocket, TokenExpires
<1>9. CASE UNCHANGED vars
  BY <1>9 DEF vars
<1> QED
  BY <1>1, <1>2, <1>3, <1>4, <1>5, <1>6, <1>7, <1>8, <1>9 DEF Next

\* Once the summary of the selected day is answered, no answer for a day picked
\* before takes the card back: the active flag of each run of the effect
\* (attendance-summary.tsx:20-33) is enough, however many are under way.
THEOREM CardIsOfDay == Spec => []CardOfDayShown
<1>1. DayInv => CardOfDayShown
  BY DEF DayInv
<1> QED
  BY <1>1, TypeInit, TypeStep, DayInit, DayStep, PTL DEF Spec

----------------------------------------------------------------------------
(* What an update leaves on the card *)

NoneLeft(d, w) == \A i \in 1 .. Len(w) : w[i].day # d

\* The last update under way for a day that was heard is its last broadcast.
LastUpdate ==
    \A d \in heard : \A i \in 1 .. Len(wire) :
        wire[i].day = d /\ (\A j \in i + 1 .. Len(wire) : wire[j].day # d)
        => wire[i].present = lastCast[d]

\* CardShowsLastCast with only the updates of the selected day taken in.
CardLatest ==
    (day \in heard /\ NoneLeft(day, wire) /\ card # Nil /\ card.via = "update" /\ card.day = day)
    => card.present = lastCast[day]

CastInv == LastUpdate /\ CardLatest

LEMMA CastInit == Init => CastInv
  BY DEF Init, CastInv, LastUpdate, CardLatest

\* A day picked or a connection lost: nothing was heard yet.
LEMMA NothingHeard == heard' = {} => CastInv'
  BY DEF CastInv, LastUpdate, CardLatest

LEMMA CastBroadcast ==
    ASSUME TypeInv, CastInv, NEW u \in uncast, Broadcast(u)
    PROVE  CastInv'
<1>1. CASE socket # "joined"
  BY <1>1, NothingHeard DEF Broadcast, TypeInv, TypeOK
<1>2. CASE socket = "joined"
  <2>1. wire \in Seq(Updates) /\ u \in Updates /\ u.day \in Days /\ lastCast \in [Days -> Counts]
    BY DEF TypeInv, TypeOK, Updates
  <2>2. /\ wire' = Append(wire, u) /\ heard' = heard \union {u.day}
        /\ lastCast' = [lastCast EXCEPT ![u.day] = u.present]
        /\ UNCHANGED <<day, card>>
    BY <1>2 DEF Broadcast
  <2>3. /\ Len(wire') = Len(wire) + 1 /\ Len(wire) \in Nat
        /\ wire'[Len(wire) + 1] = u
        /\ \A i \in 1 .. Len(wire) : wire'[i] = wire[i]
    BY <2>1, <2>2
  <2>4. lastCast'[u.day] = u.present /\ \A d \in Days \ {u.day} : lastCast'[d] = lastCast[d]
    BY <2>1, <2>2
  <2>5. ASSUME NEW d \in heard', NEW i \in 1 .. Len(wire'), wire'[i].day = d,
               \A j \in i + 1 .. Len(wire') : wire'[j].day # d
        PROVE  wire'[i].present = lastCast'[d]
    <3>1. CASE i = Len(wire) + 1
      BY <2>3, <2>4, <2>5, <3>1
    <3>2. CASE i # Len(wire) + 1
      <4>1. i \in 1 .. Len(wire) /\ Len(wire) + 1 \in i + 1 .. Len(wire')
        BY <2>3, <3>2
      <4>2. d # u.day /\ d \in heard /\ d \in Days
        BY <2>2, <2>3, <2>5, <4>1 DEF TypeInv, TypeOK
      <4>3. \A j \in i + 1 .. Len(wire) : wire[j].day # d
        BY <2>3, <2>5, <4>1
      <4>4. wire[i].present = lastCast[d]
        BY <2>3, <2>5, <4>1, <4>2, <4>3 DEF CastInv, LastUpdate
      <4> QED
        BY <2>3, <2>4, <4>1, <4>2, <4>4
    <3> QED
      BY <3>1, <3>2
  <2>6. CardLatest'
    <3>1. NoneLeft(day, wire') => day # u.day /\ NoneLeft(day, wire)
      BY <2>3 DEF NoneLeft
    <3> QED
      BY <2>2, <2>4, <3>1 DEF CastInv, CardLatest, TypeInv, TypeOK
  <2> QED
    BY <2>5, <2>6 DEF CastInv, LastUpdate
<1> QED
  BY <1>1, <1>2

LEMMA CastShow ==
    ASSUME TypeInv, CastInv, ShowUpdate
    PROVE  CastInv'
<1>1. wire \in Seq(Updates) /\ wire # <<>>
  BY DEF TypeInv, TypeOK, ShowUpdate
<1>2. wire' = Tail(wire) /\ UNCHANGED <<day, heard, lastCast>>
  BY DEF ShowUpdate
<1>3. /\ Len(wire) \in Nat \ {0} /\ Len(wire') = Len(wire) - 1
      /\ Head(wire) = wire[1]
      /\ \A i \in 1 .. Len(wire') : wire'[i] = wire[i + 1]
  BY <1>1, <1>2
<1>4. ASSUME NEW d \in heard, NEW i \in 1 .. Len(wire'), wire'[i].day = d,
             \A j \in i + 1 .. Len(wire') : wire'[j].day # d
      PROVE  wire'[i].present = lastCast[d]
  <2>1. i + 1 \in 1 .. Len(wire) /\ wire'[i] = wire[i + 1]
    BY <1>3
  <2>2. ASSUME NEW j \in i + 2 .. Len(wire) PROVE wire[j].day # d
    <3>1. j - 1 \in i + 1 .. Len(wire') /\ j - 1 \in 1 .. Len(wire') /\ (j - 1) + 1 = j
      BY <1>3
    <3>2. wire'[j - 1] = wire[j]
      BY <1>3, <3>1
    <3> QED
      BY <1>4, <3>1, <3>2
  <2> QED
    BY <1>4, <2>1, <2>2 DEF CastInv, LastUpdate
<1>5. NoneLeft(day, wire') => \A j \in 2 .. Len(wire) : wire[j].day # day
  <2> SUFFICES ASSUME NoneLeft(day, wire'), NEW j \in 2 .. Len(wire) PROVE wire[j].day # day
    OBVIOUS
  <2>1. j - 1 \in 1 .. Len(wire') /\ (j - 1) + 1 = j
    BY <1>3
  <2>2. wire'[j - 1] = wire[j]
    BY <1>3, <2>1
  <2> QED
    BY <2>1, <2>2 DEF NoneLeft
<1>6. CardLatest'
  <2>1. CASE wire[1].day = day
    <3>1. card'.present = wire[1].present
      BY <1>3, <2>1 DEF ShowUpdate
    <3>2. day \in heard /\ NoneLeft(day, wire') => wire[1].present = lastCast[day]
      BY <1>3, <1>5, <2>1 DEF CastInv, LastUpdate
    <3> QED
      BY <1>2, <3>1, <3>2 DEF CardLatest
  <2>2. CASE wire[1].day # day
    <3>1. card' = card
      BY <1>3, <2>2 DEF ShowUpdate
    <3>2. NoneLeft(day, wire') => NoneLeft(day, wire)
      BY <1>3, <1>5, <2>2 DEF NoneLeft
    <3> QED
      BY <1>2, <3>1, <3>2 DEF CastInv, CardLatest
  <2> QED
    BY <2>1, <2>2
<1> QED
  BY <1>2, <1>4, <1>6 DEF CastInv, LastUpdate

LEMMA CastStep == TypeInv /\ CastInv /\ [Next]_vars => CastInv'
<1> SUFFICES ASSUME TypeInv, CastInv, [Next]_vars PROVE CastInv'
  OBVIOUS
<1> USE DEF CastInv, LastUpdate, CardLatest
<1>1. ASSUME NEW d \in Days, CountCheckIn(d) PROVE CastInv'
  BY <1>1 DEF CountCheckIn
<1>2. ASSUME NEW d \in Days, PickDay(d) PROVE CastInv'
  BY <1>2, NothingHeard DEF PickDay, RunEffect
<1>3. ASSUME NEW u \in uncast, Broadcast(u) PROVE CastInv'
  BY <1>3, CastBroadcast
<1>4. ASSUME NEW a \in asks, ReadSummary(a) PROVE CastInv'
  BY <1>4 DEF ReadSummary
<1>5. ASSUME NEW a \in asks, SummaryAnswered(a) PROVE CastInv'
  <2>1. UNCHANGED <<wire, heard, lastCast, day>>
    BY <1>5 DEF SummaryAnswered
  <2>2. card' = card \/ card'.via = "summary"
    BY <1>5 DEF SummaryAnswered
  <2> QED
    BY <2>1, <2>2
<1>6. ASSUME NEW a \in asks, SummaryFails(a) PROVE CastInv'
  BY <1>6 DEF SummaryFails
<1>7. CASE ShowUpdate
  BY <1>7, CastShow
<1>8. CASE Connect \/ Join \/ FailJoin \/ TokenExpires
  BY <1>8 DEF Connect, Join, FailJoin, TokenExpires
<1>9. CASE DropSocket
  BY <1>9, NothingHeard DEF DropSocket
<1>10. CASE UNCHANGED vars
  BY <1>10 DEF vars
<1> QED
  BY <1>1, <1>2, <1>3, <1>4, <1>5, <1>6, <1>7, <1>8, <1>9, <1>10 DEF Next

\* A card that shows an update, with the last broadcast of its day sent to its
\* socket and nothing under way, shows that broadcast, for any number of
\* check-ins, picked days and lost connections (attendance-summary.tsx:26-29,
\* attendance.gateway.ts: broadcastSummary).
THEOREM CardIsLastCast == Spec => []CardShowsLastCast
<1>1. TypeInv /\ CastInv => CardShowsLastCast
  BY DEF CastInv, CardLatest, CardShowsLastCast, NoneLeft, TypeInv, TypeOK
<1> QED
  BY <1>1, TypeInit, TypeStep, CastInit, CastStep, PTL DEF Spec
=============================================================================
