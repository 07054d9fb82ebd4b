-------------------------- MODULE ClientScreens_proofs --------------------------
(***************************************************************************)
(* Proofs about Client: what a page shows once its calls are answered, and *)
(* of what types its state is.  For each page, what it knows to agree with *)
(* the server while a call is on its way, what its rows and calls hold,    *)
(* and that every step keeps both so.                                      *)
(***************************************************************************)
EXTENDS Client_proofs

-----------------------------------------------------------------------------
(* The events of a month: what the calendar shows.                         *)

LEMMA EmptyTable == ASSUME NEW S PROVE <<>> \in [{} -> S] /\ DOMAIN <<>> = {}
  OBVIOUS

LEMMA EventTables ==
    \A f : f \in Calendar!Tables <=>
        /\ DOMAIN f \subseteq EventIds /\ f = [i \in DOMAIN f |-> f[i]]
        /\ \A i \in DOMAIN f : f[i] \in BOOLEAN
<1>1. ASSUME NEW f, f \in Calendar!Tables
      PROVE  /\ DOMAIN f \subseteq EventIds /\ f = [i \in DOMAIN f |-> f[i]]
             /\ \A i \in DOMAIN f : f[i] \in BOOLEAN
  BY <1>1 DEF Calendar!Tables
<1>2. ASSUME NEW f, DOMAIN f \subseteq EventIds, f = [i \in DOMAIN f |-> f[i]],
             \A i \in DOMAIN f : f[i] \in BOOLEAN
      PROVE  f \in Calendar!Tables
  <2>1. f \in [DOMAIN f -> BOOLEAN]
    BY <1>2
  <2> QED
    BY <1>2, <2>1 DEF Calendar!Tables
<1> QED
  BY <1>1, <1>2

CalendarRead == [month : EventMonths \cup {Calendar!Closed}, phase : {"none", "sent", "ok"}, found : Calendar!Tables]

\* The month that is read, or shown, is the one in the address.
MonthKnown ==
    /\ p3 \in CalendarRead
    /\ p3.phase = "none" => p3 = Calendar!NoRead
    /\ p3 # Calendar!NoRead => p3.month = p2
    /\ p3 = Calendar!NoRead /\ Calendar!Ready => p4.month = p2
    /\ p4.failed => p6 = Calendar!Closed

CalendarTyped == Calendar!TypeOK /\ MonthKnown /\ p6 \in DOMAIN p5 \cup {Calendar!New, Calendar!Closed}

LEMMA NoEvents == <<>> \in Calendar!Tables
  BY EventTables, EmptyTable

LEMMA EventPut ==
    ASSUME NEW f \in Calendar!Tables, NEW id \in EventIds, NEW v \in BOOLEAN
    PROVE  Calendar!Put(f, id, v) \in Calendar!Tables
BY EventTables DEF Calendar!Put

LEMMA EventDrop ==
    ASSUME NEW f \in Calendar!Tables, NEW S
    PROVE  Calendar!Restrict(f, DOMAIN f \ S) \in Calendar!Tables
BY EventTables DEF Calendar!Restrict

CalendarData == [month : EventMonths \cup {Calendar!Closed}, events : Calendar!Tables, failed : BOOLEAN]

CalendarCalls == [kind : {"create", "edit", "delete"}, id : EventIds, text : BOOLEAN,
                  mounted : BOOLEAN, phase : {"sent", "ok"}]

CalendarFlat ==
    /\ p1 \in Calendar!Tables /\ p5 \in Calendar!Tables
    /\ p2 \in EventMonths /\ p4 \in CalendarData
    /\ p3 \in CalendarRead
    /\ p3.phase = "none" => p3 = Calendar!NoRead
    /\ p3 # Calendar!NoRead => p3.month = p2
    /\ p3 = Calendar!NoRead /\ p4.failed = FALSE /\ p4.month # Calendar!Closed => p4.month = p2
    /\ p4.failed = TRUE => p6 = Calendar!Closed
    /\ p6 \in EventIds \cup {Calendar!New, Calendar!Closed}
    /\ p6 \in DOMAIN p5 \cup {Calendar!New, Calendar!Closed}
    /\ p7 \in EventIds \cup {Calendar!Closed}
    /\ p8 \in BOOLEAN /\ p9 \in BOOLEAN
    /\ p10 \subseteq CalendarCalls
    /\ doubt \subseteq EventIds /\ acts \in Nat /\ faults \in Nat

LEMMA CalendarIs == CalendarTyped <=> CalendarFlat
<1>1. p3 \in CalendarRead => p3.found \in Calendar!Tables
  BY DEF CalendarRead
<1>2. p4 \in CalendarData => p4.failed \in BOOLEAN
  BY DEF CalendarData
<1> QED
  BY <1>1, <1>2 DEF CalendarTyped, Calendar!TypeOK, MonthKnown, Calendar!Ready, Calendar!View, CalendarFlat,
     CalendarCalls, CalendarData

LEMMA CalendarIsNext == CalendarTyped' <=> CalendarFlat'
  BY CalendarIs, PTL

LEMMA CalendarTypedStart == Calendar!Init => CalendarTyped
<1> SUFFICES ASSUME Calendar!Init PROVE CalendarFlat
  BY CalendarIs
<1>1. p1 \in Calendar!Tables /\ p5 = <<>> /\ p5 \in Calendar!Tables
  BY NoEvents DEF Calendar!Init
<1>2. p3 \in CalendarRead /\ p3.phase # "none" /\ p3.month = p2 /\ p2 \in EventMonths
  BY NoEvents DEF Calendar!Init, CalendarRead
<1>3. acts \in Nat /\ faults \in Nat
  BY BoundsAssumption DEF Calendar!Init
<1>4. p4 \in CalendarData /\ p4.failed = FALSE
  BY NoEvents DEF Calendar!Init, CalendarData, Calendar!NoData
<1>5. p3 # Calendar!NoRead
  BY <1>2 DEF Calendar!NoRead
<1> QED
  BY <1>1, <1>2, <1>3, <1>4, <1>5 DEF Calendar!Init, CalendarFlat

LEMMA CalendarTypedMoves == CalendarTyped /\ Calendar!Next => CalendarTyped'
<1> SUFFICES ASSUME CalendarFlat, Calendar!Next PROVE CalendarFlat'
  BY CalendarIs, CalendarIsNext
<1> USE DEF CalendarFlat, Calendar!Ready, Calendar!View
<1>0. /\ p4.month \in EventMonths \cup {Calendar!Closed} /\ p4.events \in Calendar!Tables
      /\ p4.failed \in BOOLEAN
  BY DEF CalendarData
<1>1. CASE Calendar!UserActs
  <2>0. acts' \in Nat
    BY <1>1 DEF Calendar!UserActs
  <2>1. ASSUME NEW m \in EventMonths, Calendar!GotoMonth(m) PROVE CalendarFlat'
    <3>1. [month |-> m, phase |-> "sent", found |-> <<>>] \in CalendarRead
      BY NoEvents DEF CalendarRead
    <3>2. doubt' \subseteq EventIds
      BY <2>1 DEF Calendar!GotoMonth, Calendar!Stale, CalendarCalls
    <3>3. p4' \in CalendarData /\ p4'.failed = FALSE
      BY <2>1 DEF Calendar!GotoMonth, CalendarData
    <3>4. p5' \in Calendar!Tables /\ p6' \in DOMAIN p5' \cup {Calendar!New, Calendar!Closed}
      BY <1>0, <2>1 DEF Calendar!GotoMonth
    <3> QED
      BY <2>0, <2>1, <3>1, <3>2, <3>3, <3>4 DEF Calendar!GotoMonth, Calendar!NoRead
  <2>2. ASSUME NEW id \in EventIds \cup {Calendar!New}, Calendar!OpenForm(id) PROVE CalendarFlat'
    BY <2>0, <2>2 DEF Calendar!OpenForm
  <2>3. ASSUME NEW id \in EventIds, Calendar!AskDelete(id) PROVE CalendarFlat'
    BY <2>0, <2>3 DEF Calendar!AskDelete
  <2>4. ASSUME Calendar!CloseForm \/ Calendar!CancelDelete PROVE CalendarFlat'
    BY <2>0, <2>4 DEF Calendar!CloseForm, Calendar!CancelDelete
  <2>5. ASSUME NEW k \in {"create", "edit", "delete"}, NEW id \in EventIds, NEW t \in BOOLEAN,
               Calendar!Send(k, id, t), p8' \in BOOLEAN, p9' \in BOOLEAN
        PROVE  CalendarFlat'
    <3>1. p10' \subseteq CalendarCalls
      <4>1. [kind |-> k, id |-> id, text |-> t, mounted |-> TRUE, phase |-> "sent"] \in CalendarCalls
        BY <2>5 DEF CalendarCalls
      <4> QED
        BY <2>5, <4>1 DEF Calendar!Send
    <3>2. doubt' \subseteq EventIds
      BY <2>5 DEF Calendar!Send
    <3> QED
      BY <2>0, <2>5, <3>1, <3>2 DEF Calendar!Send
  <2>6. ASSUME NEW id \in EventIds, Calendar!HandleSaveEvent(id) PROVE CalendarFlat'
    <3> DEFINE k == IF p6 = Calendar!New THEN "create" ELSE "edit"
               t == IF p6 = Calendar!New THEN FALSE ELSE ~p5[id]
    <3>1. t \in BOOLEAN /\ k \in {"create", "edit", "delete"}
      OBVIOUS
    <3>2. \/ Calendar!Send(k, id, t) /\ p9' = TRUE /\ p8' = p8
          \/ Calendar!Send(k, id, t) /\ p8' = TRUE /\ p9' = p9
      BY <2>6 DEF Calendar!HandleSaveEvent
    <3> HIDE DEF k, t
    <3> QED
      BY <2>5, <3>1, <3>2
  <2>7. ASSUME Calendar!HandleDeleteEvent PROVE CalendarFlat'
    <3>1. Calendar!Send("delete", p7, FALSE) /\ p7 \in EventIds /\ p8' \in BOOLEAN /\ p9' \in BOOLEAN
      BY <2>7 DEF Calendar!HandleDeleteEvent
    <3> QED
      BY <2>5, <3>1
  <2> QED
    BY <1>1, <2>1, <2>2, <2>3, <2>4, <2>6, <2>7, Zenon DEF Calendar!UserActs
<1>2. CASE Calendar!ServeRead
  <2>1. /\ p3' \in CalendarRead /\ p3'.month = p3.month /\ p3'.phase = "ok"
        /\ p3.phase = "sent"
    BY <1>2 DEF Calendar!ServeRead, CalendarRead
  <2>2. Calendar!NoRead.phase = "none"
    BY DEF Calendar!NoRead
  <2> QED
    BY <1>2, <2>1, <2>2 DEF Calendar!ServeRead
<1>3. ASSUME NEW c \in p10 PROVE [c EXCEPT !.mounted = FALSE] \in CalendarCalls /\ [c EXCEPT !.phase = "ok"] \in CalendarCalls
                                 /\ c.id \in EventIds /\ c.text \in BOOLEAN
  BY DEF CalendarCalls
<1>4. CASE Calendar!ReadAnswered
  <2>1. p3.found \in Calendar!Tables /\ p3.month \in EventMonths \cup {Calendar!Closed}
        /\ p3.month = p2 /\ p3' = Calendar!NoRead /\ Calendar!NoRead \in CalendarRead
    BY <1>4, NoEvents DEF Calendar!ReadAnswered, CalendarRead, Calendar!NoRead
  <2>4. /\ p4' = [month |-> p3.month, events |-> p3.found, failed |-> FALSE]
        /\ p4' \in CalendarData /\ p4'.month = p2 /\ p4'.failed = FALSE
    BY <1>4, <2>1 DEF Calendar!ReadAnswered, CalendarData
  <2>2. CASE p3.month = Calendar!View
    <3>1. UNCHANGED <<p1, p2, p5, p6, p7, p8, p9, p10, acts, faults>>
      BY <1>4, <2>2 DEF Calendar!ReadAnswered
    <3>2. doubt' \subseteq EventIds
      BY <1>4, <2>2 DEF Calendar!ReadAnswered
    <3> QED
      BY <2>1, <2>4, <3>1, <3>2
  <2>3. CASE p3.month # Calendar!View
    <3>1. /\ p5' = p3.found /\ p6' = Calendar!Closed /\ p7' = Calendar!Closed
          /\ p8' = FALSE /\ p9' = FALSE
          /\ p10' = {[c EXCEPT !.mounted = FALSE] : c \in p10}
          /\ doubt' = doubt \cup {c.id : c \in p10} /\ UNCHANGED <<p1, p2, acts, faults>>
      BY <1>4, <2>3, Zenon DEF Calendar!ReadAnswered
    <3>2. p10' \subseteq CalendarCalls
      BY <1>3, <3>1
    <3>3. doubt' \subseteq EventIds
      BY <1>3, <3>1
    <3> QED
      BY <2>1, <2>4, <3>1, <3>2, <3>3
  <2> QED
    BY <2>2, <2>3
<1>5. CASE Calendar!ReadFails
  <2>1. Calendar!NoRead \in CalendarRead
    BY NoEvents DEF CalendarRead, Calendar!NoRead
  <2>2. p10' \subseteq CalendarCalls
    BY <1>3, <1>5 DEF Calendar!ReadFails
  <2>3. faults' \in Nat
    BY <1>5 DEF Calendar!ReadFails
  <2>4. p4' \in CalendarData /\ p4'.failed = TRUE
    BY <1>5 DEF Calendar!ReadFails, CalendarData
  <2> QED
    BY <1>5, <2>1, <2>2, <2>3, <2>4, NoEvents DEF Calendar!ReadFails
<1>6. ASSUME NEW c \in p10, Calendar!Serve(c) PROVE CalendarFlat'
  <2>1. p1' \in Calendar!Tables
    BY <1>3, <1>6, EventPut, EventDrop DEF Calendar!Serve
  <2> QED
    BY <1>3, <1>6, <2>1 DEF Calendar!Serve
<1>7. ASSUME NEW c \in p10, Calendar!CallAnswered(c) PROVE CalendarFlat'
  <2>1. Calendar!After(c) \in Calendar!Tables
    BY <1>3, EventPut, EventDrop DEF Calendar!After
  <2>2. p6' \in DOMAIN p5' \cup {Calendar!New, Calendar!Closed}
    BY <1>7 DEF Calendar!CallAnswered, Calendar!After, Calendar!Put, Calendar!Restrict
  <2> QED
    BY <1>7, <2>1, <2>2 DEF Calendar!CallAnswered
<1>8. ASSUME NEW c \in p10, Calendar!CallFails(c) PROVE CalendarFlat'
  <2>1. p8' \in BOOLEAN /\ p9' \in BOOLEAN
    BY <1>8, Zenon DEF Calendar!CallFails, Calendar!Idle
  <2>2. faults' \in Nat
    BY <1>8 DEF Calendar!CallFails
  <2> QED
    BY <1>3, <1>8, <2>1, <2>2 DEF Calendar!CallFails
<1> QED
  BY <1>1, <1>2, <1>4, <1>5, <1>6, <1>7, <1>8, Zenon DEF Calendar!Next, Calendar!Moves

\* What is shown of an event is what the server holds.
SameEvent(t, id) ==
    /\ id \in DOMAIN t <=> id \in DOMAIN p1
    /\ id \in DOMAIN t => t[id] = p1[id]

\* An event whose call is on its way: the page has it as it was before the call,
\* and the server as it was, or as the call leaves it.
EventUnderway(c) ==
    IF c.phase = "sent" THEN SameEvent(p5, c.id)
    ELSE IF c.kind = "delete" THEN c.id \notin DOMAIN p1
    ELSE c.id \in DOMAIN p1 /\ p1[c.id] = c.text /\ (c.kind = "create" \/ c.id \in DOMAIN p5)

\* Events nobody has to doubt: one call about each, of the view on screen, and
\* none while a month is being read.
EventsKnown ==
    /\ \A c, d \in p10 : c.id = d.id => c = d \/ c.id \in doubt
    /\ p3 # Calendar!NoRead => \A c \in p10 : c.id \in doubt
    /\ Calendar!Ready => \A c \in p10 : c.id \in doubt \/ (c.mounted = TRUE /\ EventUnderway(c))
    /\ Calendar!Ready => \A id \in EventIds \ doubt : (\A c \in p10 : c.id # id) => SameEvent(p5, id)
    /\ p3.phase = "ok" => \A id \in EventIds \ doubt : SameEvent(p3.found, id)

LEMMA EventsStart == Calendar!Init => EventsKnown
  BY DEF Calendar!Init, EventsKnown, Calendar!Ready, Calendar!View, Calendar!NoData

LEMMA EventSent ==
    ASSUME CalendarFlat, EventsKnown, NEW k \in {"create", "edit", "delete"}, NEW id \in EventIds,
           NEW t, Calendar!Send(k, id, t)
    PROVE  EventsKnown'
<1> USE DEF Calendar!Ready, Calendar!View
<1> DEFINE e == [kind |-> k, id |-> id, text |-> t, mounted |-> TRUE, phase |-> "sent"]
<1>1. /\ p10' = p10 \cup {e} /\ UNCHANGED <<p1, p3, p4, p5>>
      /\ doubt' = IF p3 # Calendar!NoRead \/ \E c \in p10 : c.id = id THEN doubt \cup {id} ELSE doubt
  BY DEF Calendar!Send
<1>2. e.id = id /\ e.mounted = TRUE /\ e.phase = "sent"
  OBVIOUS
<1> HIDE DEF e
<1>3. CASE doubt' = doubt \cup {id}
  BY <1>1, <1>2, <1>3 DEF EventsKnown, EventUnderway, SameEvent
<1>4. CASE doubt' = doubt /\ p3 = Calendar!NoRead /\ \A c \in p10 : c.id # id
  <2>1. p3.phase # "ok"
    BY <1>4 DEF Calendar!NoRead
  <2> QED
    BY <1>1, <1>2, <1>4, <2>1 DEF EventsKnown, EventUnderway, SameEvent
<1> QED
  BY <1>1, <1>3, <1>4

LEMMA EventsMove == CalendarTyped /\ EventsKnown /\ Calendar!Next => EventsKnown'
<1> SUFFICES ASSUME CalendarFlat, EventsKnown, Calendar!Next PROVE EventsKnown'
  BY CalendarIs
<1> USE DEF Calendar!Ready, Calendar!View
<1> DEFINE Page == <<p1, p3, p4, p5, p10, doubt>>
<1>0. ASSUME UNCHANGED Page PROVE EventsKnown'
  BY <1>0 DEF EventsKnown, EventUnderway, SameEvent
<1>1. CASE Calendar!UserActs
  <2>1. ASSUME NEW m \in EventMonths, Calendar!GotoMonth(m) PROVE EventsKnown'
    <3>1. /\ p3' = [month |-> m, phase |-> "sent", found |-> <<>>]
          /\ doubt \cup {c.id : c \in p10} \subseteq doubt'
          /\ UNCHANGED <<p1, p10>>
      BY <2>1 DEF Calendar!GotoMonth
    <3>2. p3'.phase # "ok"
      BY <3>1
    <3>3. \A c \in p10' : c.id \in doubt'
      BY <3>1
    <3>4. ASSUME Calendar!Ready', NEW id \in EventIds \ doubt' PROVE SameEvent(p5, id)'
      <4>1. p4.month # Calendar!Closed
        BY <2>1, <3>4 DEF Calendar!GotoMonth, CalendarFlat, CalendarData
      <4>2. CASE p4.failed
        <5>1. p5' = p4.events /\ id \notin Calendar!Stale(p4.events)
          BY <2>1, <3>4, <4>1, <4>2 DEF Calendar!GotoMonth
        <5> QED
          BY <3>1, <3>4, <5>1 DEF Calendar!Stale, SameEvent
      <4>3. CASE ~p4.failed
        <5>1. Calendar!Ready /\ p5' = p5 /\ id \notin doubt /\ \A c \in p10 : c.id # id
          BY <2>1, <3>1, <3>4, <4>1, <4>3 DEF Calendar!GotoMonth
        <5>2. SameEvent(p5, id)
          BY <3>4, <5>1 DEF EventsKnown
        <5> QED
          BY <3>1, <5>1, <5>2 DEF SameEvent
      <4> QED
        BY <4>2, <4>3
    <3> QED
      BY <3>2, <3>3, <3>4 DEF EventsKnown
  <2>2. ASSUME NEW id, Calendar!OpenForm(id) \/ Calendar!AskDelete(id) PROVE EventsKnown'
    BY <1>0, <2>2 DEF Calendar!OpenForm, Calendar!AskDelete
  <2>3. ASSUME Calendar!CloseForm \/ Calendar!CancelDelete PROVE EventsKnown'
    BY <1>0, <2>3 DEF Calendar!CloseForm, Calendar!CancelDelete
  <2>4. ASSUME NEW id \in EventIds, Calendar!HandleSaveEvent(id) PROVE EventsKnown'
    <3>1. PICK k \in {"create", "edit", "delete"} : \E t : Calendar!Send(k, id, t)
      BY <2>4 DEF Calendar!HandleSaveEvent
    <3> QED
      BY <3>1, EventSent
  <2>5. ASSUME Calendar!HandleDeleteEvent PROVE EventsKnown'
    <3>1. Calendar!Send("delete", p7, FALSE) /\ p7 \in EventIds
      BY <2>5 DEF Calendar!HandleDeleteEvent, CalendarFlat
    <3> QED
      BY <3>1, EventSent
  <2> QED
    BY <1>1, <2>1, <2>2, <2>3, <2>4, <2>5, Zenon DEF Calendar!UserActs
<1>2. CASE Calendar!ServeRead
  <2>1. /\ p3'.phase = "ok" /\ p3'.found = p1 /\ p3 # Calendar!NoRead
        /\ UNCHANGED <<p1, p4, p5, p10, doubt>>
    BY <1>2 DEF Calendar!ServeRead, CalendarFlat, CalendarRead, Calendar!NoRead
  <2> QED
    BY <2>1 DEF EventsKnown, EventUnderway, SameEvent
<1>3. ASSUME NEW c \in p10, NEW d, d = [c EXCEPT !.mounted = FALSE] \/ d = [c EXCEPT !.phase = "ok"]
      PROVE  /\ d.id = c.id /\ d.kind = c.kind /\ d.text = c.text
             /\ d = [c EXCEPT !.phase = "ok"] => d.phase = "ok" /\ d.mounted = c.mounted
  BY <1>3 DEF CalendarFlat, CalendarCalls
<1>4. CASE Calendar!ReadAnswered
  <2>1. /\ p3.phase = "ok" /\ p3' = Calendar!NoRead /\ p3'.phase # "ok" /\ p1' = p1 /\ p3 # Calendar!NoRead
    BY <1>4 DEF Calendar!ReadAnswered, Calendar!NoRead
  <2>2. CASE p3.month = Calendar!View
    <3>1. doubt \subseteq doubt' /\ UNCHANGED <<p5, p10>>
      BY <1>4, <2>2 DEF Calendar!ReadAnswered
    <3>2. Calendar!Ready' => Calendar!Ready
      BY <1>4, <2>2 DEF Calendar!ReadAnswered
    <3> QED
      BY <2>1, <3>1, <3>2 DEF EventsKnown, EventUnderway, SameEvent
  <2>3. CASE p3.month # Calendar!View
    <3>1. /\ p5' = p3.found
          /\ p10' = {[c EXCEPT !.mounted = FALSE] : c \in p10}
          /\ doubt' = doubt \cup {c.id : c \in p10}
      BY <1>4, <2>3, Zenon DEF Calendar!ReadAnswered
    <3>2. \A c \in p10' : c.id \in doubt'
      BY <1>3, <3>1
    <3> QED
      BY <2>1, <3>1, <3>2 DEF EventsKnown, SameEvent
  <2> QED
    BY <2>2, <2>3
<1>5. CASE Calendar!ReadFails
  <2>1. /\ p3' = Calendar!NoRead /\ p3'.phase # "ok" /\ p3 # Calendar!NoRead
        /\ ~Calendar!Ready' /\ doubt' = doubt /\ p10' = {[c EXCEPT !.mounted = FALSE] : c \in p10}
    BY <1>5 DEF Calendar!ReadFails, Calendar!NoRead, CalendarFlat, CalendarData
  <2>2. \A c \in p10' : c.id \in doubt'
    BY <1>3, <2>1 DEF EventsKnown
  <2> QED
    BY <2>1, <2>2 DEF EventsKnown
<1>6. ASSUME NEW c \in p10, Calendar!Serve(c) PROVE EventsKnown'
  <2> DEFINE d == [c EXCEPT !.phase = "ok"]
  <2>1. /\ p10' = (p10 \ {c}) \cup {d} /\ UNCHANGED <<p3, p4, p5, doubt>>
        /\ c.phase = "sent" /\ (c.kind = "create" \/ c.id \in DOMAIN p1)
        /\ p1' = IF c.kind = "delete" THEN Calendar!Restrict(p1, DOMAIN p1 \ {c.id})
                 ELSE Calendar!Put(p1, c.id, c.text)
    BY <1>6 DEF Calendar!Serve
  <2>2. d.id = c.id /\ d.kind = c.kind /\ d.text = c.text /\ d.phase = "ok" /\ d.mounted = c.mounted
    BY <1>3
  <2> HIDE DEF d
  <2>3. \A t, id : id # c.id => (SameEvent(t, id) <=> SameEvent(t, id)')
    BY <2>1 DEF SameEvent, Calendar!Put, Calendar!Restrict
  <2>4. /\ c.kind = "delete" => c.id \notin DOMAIN p1'
        /\ c.kind # "delete" => c.id \in DOMAIN p1' /\ p1'[c.id] = c.text
    BY <2>1 DEF Calendar!Put, Calendar!Restrict
  <2>5. EventUnderway(c) => EventUnderway(d)'
    BY <2>1, <2>2, <2>4 DEF EventUnderway, SameEvent
  <2>6. \A e \in p10 \ {c} : e.id # c.id /\ EventUnderway(e) => EventUnderway(e)'
    <3> SUFFICES ASSUME NEW e \in p10 \ {c}, e.id # c.id, EventUnderway(e) PROVE EventUnderway(e)'
      OBVIOUS
    <3>1. /\ e.id \in DOMAIN p1 <=> e.id \in DOMAIN p1'
          /\ e.id \in DOMAIN p1 => p1[e.id] = p1'[e.id]
      BY <2>1 DEF Calendar!Put, Calendar!Restrict
    <3> QED
      BY <2>1, <3>1 DEF EventUnderway, SameEvent
  <2>7. ASSUME NEW x \in p10', NEW y \in p10', x.id = y.id PROVE x = y \/ x.id \in doubt'
    BY <2>1, <2>2, <2>7 DEF EventsKnown
  <2>8. ASSUME Calendar!Ready', NEW x \in p10', x.id \notin doubt'
        PROVE  x.mounted = TRUE /\ EventUnderway(x)'
    <3>1. CASE x = d
      BY <2>1, <2>2, <2>5, <2>8, <3>1 DEF EventsKnown
    <3>2. CASE x # d
      BY <2>1, <2>6, <2>8, <3>2 DEF EventsKnown
    <3> QED
      BY <3>1, <3>2
  <2>9. ASSUME Calendar!Ready', NEW id \in EventIds \ doubt', \A x \in p10' : x.id # id
        PROVE  SameEvent(p5, id)'
    BY <2>1, <2>2, <2>3, <2>9 DEF EventsKnown
  <2>10. ASSUME p3'.phase = "ok", NEW id \in EventIds \ doubt' PROVE SameEvent(p3.found, id)'
    <3>1. id # c.id
      BY <2>1, <2>10 DEF EventsKnown, Calendar!NoRead
    <3> QED
      BY <2>1, <2>3, <2>10, <3>1 DEF EventsKnown
  <2>11. p3' # Calendar!NoRead => \A x \in p10' : x.id \in doubt'
    BY <2>1, <2>2 DEF EventsKnown
  <2> QED
    BY <2>7, <2>8, <2>9, <2>10, <2>11 DEF EventsKnown
<1>7. ASSUME NEW c \in p10, Calendar!CallAnswered(c) PROVE EventsKnown'
  <2>1. c.phase = "ok" /\ p10' = p10 \ {c} /\ UNCHANGED <<p1, p3, p4, doubt>>
        /\ p5' = IF c.mounted THEN Calendar!After(c) ELSE p5
    BY <1>7 DEF Calendar!CallAnswered
  <2>2. \A id : id # c.id => /\ id \in DOMAIN p5' <=> id \in DOMAIN p5
                             /\ id \in DOMAIN p5 => p5'[id] = p5[id]
    BY <2>1 DEF Calendar!After, Calendar!Put, Calendar!Restrict
  <2>3. c.mounted = TRUE /\ EventUnderway(c) => SameEvent(p5, c.id)'
    <3> SUFFICES ASSUME c.mounted = TRUE, EventUnderway(c) PROVE SameEvent(p5, c.id)'
      OBVIOUS
    <3>1. p5' = Calendar!After(c)
      BY <2>1
    <3> QED
      BY <2>1, <3>1 DEF EventUnderway, SameEvent, Calendar!After, Calendar!Put, Calendar!Restrict
  <2>4. \A id : id # c.id /\ SameEvent(p5, id) => SameEvent(p5, id)'
    BY <2>1, <2>2 DEF SameEvent
  <2>5. \A e \in p10 : e.id # c.id /\ EventUnderway(e) => EventUnderway(e)'
    BY <2>1, <2>2, <2>4 DEF EventUnderway
  <2>6. \A t, id : SameEvent(t, id) => SameEvent(t, id)' \/ t # p3.found
    BY <2>1 DEF SameEvent
  <2> QED
    BY <2>1, <2>3, <2>4, <2>5, <2>6 DEF EventsKnown
<1>8. ASSUME NEW c \in p10, Calendar!CallFails(c) PROVE EventsKnown'
  <2>1. p10' = p10 \ {c} /\ doubt' = doubt \cup {c.id} /\ UNCHANGED <<p1, p3, p4, p5>>
    BY <1>8 DEF Calendar!CallFails
  <2> QED
    BY <2>1 DEF EventsKnown, EventUnderway, SameEvent
<1> QED
  BY <1>1, <1>2, <1>4, <1>5, <1>6, <1>7, <1>8, Zenon DEF Calendar!Next, Calendar!Moves

LEMMA EventsSettle ==
    CalendarTyped /\ EventsKnown => Calendar!EventsSettle /\ Calendar!ViewIsOfTheMonth
<1> SUFFICES ASSUME CalendarFlat, EventsKnown PROVE Calendar!EventsSettle /\ Calendar!ViewIsOfTheMonth
  BY CalendarIs
<1> QED
  BY DEF CalendarFlat, CalendarData, EventsKnown, SameEvent, Calendar!EventsSettle, Calendar!ViewIsOfTheMonth,
     Calendar!Ready, Calendar!View

-----------------------------------------------------------------------------
(* The files of a task: what the list shows.                               *)

FileCalls == [kind : Files!Kinds, file : FileIds \cup {Files!Broken}, no : Nat,
              base : SUBSET (FileIds \cup {Files!Broken}), mounted : BOOLEAN,
              phase : {"sent", "erased", "ok", "refused"}, found : SUBSET FileIds]

FilesFlat ==
    /\ p1 \subseteq FileIds /\ p2 \subseteq FileIds /\ p7 \subseteq FileIds
    /\ p4 \subseteq FileIds \cup {Files!Broken}
    /\ p3 \in BOOLEAN /\ p5 \in BOOLEAN /\ doubt \in BOOLEAN /\ acts \in Nat /\ faults \in Nat
    /\ p6 \subseteq FileCalls
    /\ \A c \in p6 : c.kind \in Files!Steps => c.file \in FileIds
    /\ \A c \in p6 : c.phase = "erased" => c.kind = "remove"

\* An upload is of a file, in each of its steps; only a removal erases.
FilesTyped ==
    /\ Files!TypeOK
    /\ \A c \in p6 : c.kind \in Files!Steps => c.file \in FileIds
    /\ \A c \in p6 : c.phase = "erased" => c.kind = "remove"

LEMMA FilesIs == FilesTyped <=> FilesFlat
  BY DEF FilesTyped, Files!TypeOK, FilesFlat, FileCalls

LEMMA FilesIsNext == FilesTyped' <=> FilesFlat'
  BY FilesIs, PTL

\* A call of the modal on screen: the list the page will show is the server's.
FileUnderway(c) ==
    CASE c.kind = "list"   -> c.phase = "ok" => c.found = p1
      [] c.kind = "remove" -> p1 = IF c.phase = "ok" THEN c.base \ {c.file} ELSE c.base
      [] OTHER -> p1 = IF c.kind = "attach" /\ c.phase = "ok" THEN c.base \cup {c.file} ELSE c.base

\* With nothing to doubt there is one call at most, of the modal on screen.
FilesKnown ==
    p3 = TRUE /\ doubt = FALSE =>
        /\ \A c, d \in p6 : c = d
        /\ \A c \in p6 : c.mounted = TRUE /\ FileUnderway(c)
        /\ p6 = {} => p4 = p1

LEMMA FilesKnownStart == Files!Init => FilesTyped /\ FilesKnown
<1> SUFFICES ASSUME Files!Init PROVE FilesFlat /\ FilesKnown
  BY FilesIs
<1>1. acts \in Nat /\ faults \in Nat
  BY BoundsAssumption DEF Files!Init
<1> QED
  BY <1>1 DEF Files!Init, FilesFlat, FilesKnown

\* A handler sends its call with the list it has.
LEMMA FileSent ==
    ASSUME FilesFlat, FilesKnown, p3 = TRUE,
           NEW k \in Files!Kinds, NEW f \in FileIds \cup {Files!Broken}, k \in Files!Steps => f \in FileIds,
           Files!Add(Files!Call(k, f, p4)),
           doubt' = (doubt \/ p6 # {}), p5' \in BOOLEAN, acts' \in Nat, p7' \subseteq FileIds,
           UNCHANGED <<p1, p2, p3, p4, faults>>
    PROVE  FilesFlat' /\ FilesKnown'
<1> PICK c : c = Files!Call(k, f, p4)
  OBVIOUS
<1>1. c \in FileCalls /\ c.kind = k /\ c.file = f /\ c.base = p4 /\ c.mounted = TRUE /\ c.phase = "sent"
  BY DEF Files!Call, FileCalls, FilesFlat
<1>2. p6' = p6 \cup {c}
  BY DEF Files!Add
<1>3. doubt' \in BOOLEAN /\ (doubt' = FALSE => doubt = FALSE /\ p6 = {})
  BY Zenon DEF FilesFlat
<1>4. p3' = TRUE /\ doubt' = FALSE => FileUnderway(c)'
  BY <1>1, <1>3 DEF FilesKnown, FileUnderway
<1>5. FilesKnown'
  BY <1>1, <1>2, <1>3, <1>4 DEF FilesKnown
<1>6. FilesFlat'
  BY <1>1, <1>2, <1>3 DEF FilesFlat
<1> QED
  BY <1>5, <1>6

LEMMA FilesKnownMoves == FilesTyped /\ FilesKnown /\ Files!Next => FilesTyped' /\ FilesKnown'
<1> SUFFICES ASSUME FilesFlat, FilesKnown, Files!Next PROVE FilesFlat' /\ FilesKnown'
  BY FilesIs, FilesIsNext
<1>0. ASSUME NEW c \in p6, NEW d, NEW m \in BOOLEAN, NEW ph \in {"sent", "erased", "ok", "refused"}, NEW k \in Files!Kinds,
             NEW fs \in SUBSET FileIds,
             \/ d = [c EXCEPT !.mounted = m]
             \/ d = [c EXCEPT !.phase = ph]
             \/ d = [c EXCEPT !.phase = ph, !.found = fs]
             \/ d = [c EXCEPT !.kind = k, !.phase = ph]
      PROVE  d \in FileCalls
  BY <1>0 DEF FilesFlat, FileCalls
<1>1. CASE Files!UserActs
  <2>0. acts' \in Nat
    BY <1>1 DEF Files!UserActs, FilesFlat
  <2>1. CASE Files!OpenModal
    <3> PICK c : c = Files!Call("list", Files!Broken, {})
      OBVIOUS
    <3>1. c \in FileCalls /\ c.kind = "list" /\ c.kind \notin Files!Steps /\ c.mounted = TRUE /\ c.phase = "sent"
      BY DEF Files!Call, FileCalls, Files!Kinds, Files!Steps, FilesFlat
    <3>2. /\ p6' = p6 \cup {c} /\ p4' = {} /\ p5' = FALSE /\ p3' = TRUE
          /\ UNCHANGED <<p1, p2, p7, faults>>
      BY <2>1 DEF Files!OpenModal, Files!Add
    <3>3. doubt' \in BOOLEAN /\ (doubt' = FALSE => p6 = {})
      BY <2>1, Zenon DEF Files!OpenModal
    <3>4. FileUnderway(c)'
      BY <3>1 DEF FileUnderway
    <3> QED
      BY <2>0, <3>1, <3>2, <3>3, <3>4 DEF FilesFlat, FilesKnown
  <2>2. CASE Files!CloseModal
    <3>1. p6' = {[c EXCEPT !.mounted = FALSE] : c \in p6} /\ p3' = FALSE
          /\ UNCHANGED <<p1, p2, p4, p5, p7, doubt, faults>>
      BY <2>2 DEF Files!CloseModal
    <3>2. \A c \in p6 : /\ [c EXCEPT !.mounted = FALSE] \in FileCalls
                      /\ [c EXCEPT !.mounted = FALSE].kind = c.kind
                      /\ [c EXCEPT !.mounted = FALSE].file = c.file
                      /\ [c EXCEPT !.mounted = FALSE].phase = c.phase
      BY DEF FilesFlat, FileCalls
    <3>3. p6' \subseteq FileCalls
      BY <3>1, <3>2
    <3>4. \A d \in p6' : \E c \in p6 : d.kind = c.kind /\ d.file = c.file /\ d.phase = c.phase
      BY <3>1, <3>2
    <3> QED
      BY <2>0, <3>1, <3>3, <3>4 DEF FilesFlat, FilesKnown
  <2>3. CASE Files!RereadFiles
    <3>1. "list" \in Files!Kinds /\ "list" \notin Files!Steps
      BY DEF Files!Kinds, Files!Steps
    <3> QED
      BY <2>0, <2>3, <3>1, FileSent DEF Files!RereadFiles, FilesFlat
  <2>4. ASSUME NEW f \in FileIds, Files!HandleFileUpload(f) PROVE FilesFlat' /\ FilesKnown'
    <3>1. "presign" \in Files!Kinds
      BY DEF Files!Kinds, Files!Steps
    <3> QED
      BY <2>0, <2>4, <3>1, FileSent DEF Files!HandleFileUpload, FilesFlat
  <2>5. ASSUME NEW f \in FileIds, Files!HandleDeleteAttachment(f) PROVE FilesFlat' /\ FilesKnown'
    <3>1. "remove" \in Files!Kinds
      BY DEF Files!Kinds, Files!Steps
    <3> QED
      BY <2>0, <2>5, <3>1, FileSent DEF Files!HandleDeleteAttachment, FilesFlat
  <2> QED
    BY <1>1, <2>1, <2>2, <2>3, <2>4, <2>5, Zenon DEF Files!UserActs
<1>2. ASSUME NEW c \in p6, Files!Serve(c) PROVE FilesFlat' /\ FilesKnown'
  <2> PICK d : d = [c EXCEPT !.phase = "ok", !.found = p1]
    OBVIOUS
  <2>1. d \in FileCalls /\ d.kind = c.kind /\ d.base = c.base /\ d.mounted = c.mounted
        /\ d.file = c.file /\ d.phase = "ok" /\ d.found = p1 /\ c \in FileCalls
    BY <1>0 DEF FilesFlat, FileCalls
  <2>2. /\ p6' = (p6 \ {c}) \cup {d} /\ c.phase = (IF c.kind = "remove" THEN "erased" ELSE "sent")
        /\ UNCHANGED <<p3, p4, p5, p7, doubt, acts, faults>>
    BY <1>2 DEF Files!Serve
  <2>3. /\ p1' = CASE c.kind = "attach" -> p1 \cup {c.file}
                   [] c.kind = "remove" -> p1 \ {c.file}
                   [] OTHER -> p1
        /\ p2' = IF c.kind = "put" THEN p2 \cup {c.file} ELSE p2
    BY <1>2 DEF Files!Serve
  <2>4. FileUnderway(c) => FileUnderway(d)'
    <3>1. CASE c.kind = "list"
      BY <2>1, <2>2, <2>3, <3>1 DEF FileUnderway
    <3>2. CASE c.kind = "remove"
      BY <2>1, <2>2, <2>3, <3>2 DEF FileUnderway
    <3>3. CASE c.kind = "attach"
      BY <2>1, <2>2, <2>3, <3>3 DEF FileUnderway
    <3>4. CASE c.kind \notin {"list", "remove", "attach"}
      BY <2>1, <2>2, <2>3, <3>4 DEF FileUnderway
    <3> QED
      BY <3>1, <3>2, <3>3, <3>4
  <2>5. FilesKnown'
    BY <2>1, <2>2, <2>4 DEF FilesKnown
  <2>6. FilesFlat'
    <3>1. CASE c.kind = "attach"
      BY <2>1, <2>2, <2>3, <3>1 DEF FilesFlat, Files!Steps
    <3>2. CASE c.kind = "put"
      BY <2>1, <2>2, <2>3, <3>2 DEF FilesFlat, Files!Steps
    <3>3. CASE c.kind \notin {"attach", "put"}
      BY <2>1, <2>2, <2>3, <3>3 DEF FilesFlat
    <3> QED
      BY <3>1, <3>2, <3>3
  <2> QED
    BY <2>5, <2>6
<1>3. ASSUME NEW c \in p6, Files!Refuse(c) PROVE FilesFlat' /\ FilesKnown'
  <2> DEFINE d == [c EXCEPT !.phase = "refused"]
  <2>1. d \in FileCalls /\ d.kind = c.kind /\ d.base = c.base /\ d.mounted = c.mounted
        /\ d.phase = "refused" /\ d.file = c.file
    BY <1>0 DEF FilesFlat, FileCalls
  <2>2. p6' = (p6 \ {c}) \cup {d} /\ c.phase # "ok" /\ UNCHANGED <<p1, p2, p3, p4, p5, p7, doubt, acts>>
        /\ faults' \in Nat
    BY <1>3 DEF Files!Refuse, FilesFlat
  <2> HIDE DEF d
  <2>3. FileUnderway(c) => FileUnderway(d)'
    BY <2>1, <2>2 DEF FileUnderway
  <2> QED
    BY <2>1, <2>2, <2>3 DEF FilesFlat, FilesKnown
<1>4. ASSUME NEW c \in p6, Files!UploadGoesOn(c) PROVE FilesFlat' /\ FilesKnown'
  <2>1. PICK k \in {"put", "attach"} :
          /\ p6' = (p6 \ {c}) \cup {[c EXCEPT !.kind = k, !.phase = "sent"]}
          /\ c.kind \in {"presign", "put"}
          /\ UNCHANGED <<p1, p2, p3, p4, p5, p7, doubt, acts, faults>>
    BY <1>4 DEF Files!UploadGoesOn
  <2> PICK d : d = [c EXCEPT !.kind = k, !.phase = "sent"]
    OBVIOUS
  <2>2. k \in Files!Kinds /\ c.kind \in Files!Steps
    BY <2>1 DEF Files!Kinds, Files!Steps
  <2>3. d \in FileCalls /\ d.kind = k /\ d.base = c.base /\ d.mounted = c.mounted /\ d.phase = "sent"
        /\ d.file = c.file /\ c.file \in FileIds
    BY <1>0, <2>2 DEF FilesFlat, FileCalls
  <2>4. FileUnderway(c) => FileUnderway(d)'
    BY <2>1, <2>3 DEF FileUnderway
  <2>5. FilesFlat'
    BY <2>1, <2>3 DEF FilesFlat
  <2>6. FilesKnown'
    BY <2>1, <2>3, <2>4 DEF FilesKnown
  <2> QED
    BY <2>5, <2>6
<1>5. ASSUME NEW c \in p6, p6' = p6 \ {c}, UNCHANGED <<p1, p2, p3, p7, acts>>, p4' \subseteq FileIds \cup {Files!Broken},
             p5' \in BOOLEAN, faults' \in Nat, doubt' \in BOOLEAN,
             doubt' = FALSE => doubt = FALSE /\ (p3 = TRUE => p4' = p1)
      PROVE  FilesFlat' /\ FilesKnown'
  BY <1>5 DEF FilesFlat, FilesKnown
<1>6. ASSUME NEW c \in p6, Files!UploadEnds(c) PROVE FilesFlat' /\ FilesKnown'
  <2>1. c \in FileCalls
    BY DEF FilesFlat
  <2>2. p5' \in BOOLEAN
    BY <1>6, Zenon DEF Files!UploadEnds, Files!Idle
  <2>3. doubt' \in BOOLEAN /\ (doubt' = FALSE => doubt = FALSE /\ ~(c.mounted /\ c.phase = "refused"))
    BY <1>6, Zenon DEF Files!UploadEnds, FilesFlat
  <2>4. /\ p6' = p6 \ {c} /\ c.kind = "attach" /\ c.phase # "sent" /\ UNCHANGED <<p1, p2, p3, p7, acts, faults>>
        /\ p4' = IF c.mounted THEN c.base \cup {IF c.phase = "ok" THEN c.file ELSE Files!Broken} ELSE p4
    BY <1>6 DEF Files!UploadEnds, Files!Show
  <2>5. p4' \subseteq FileIds \cup {Files!Broken}
    BY <2>1, <2>4 DEF FilesFlat, FileCalls
  <2>6. doubt' = FALSE /\ p3 = TRUE => p4' = p1
    <3> SUFFICES ASSUME doubt' = FALSE, p3 = TRUE PROVE p4' = p1
      OBVIOUS
    <3>1. c.mounted = TRUE /\ FileUnderway(c)
      BY <2>3 DEF FilesKnown
    <3>2. c.phase = "ok"
      BY <2>1, <2>3, <2>4, <3>1 DEF FileCalls, FilesFlat
    <3> QED
      BY <2>4, <3>1, <3>2 DEF FileUnderway
  <2> QED
    BY <1>5, <2>2, <2>3, <2>4, <2>5, <2>6 DEF FilesFlat
<1>7. ASSUME NEW c \in p6, Files!ListAnswered(c) PROVE FilesFlat' /\ FilesKnown'
  <2>1. c \in FileCalls
    BY DEF FilesFlat
  <2>2. /\ p6' = p6 \ {c} /\ c.phase = "ok" /\ UNCHANGED <<p1, p2, p3, p5, p7, acts, faults, doubt>>
        /\ \/ c.kind = "list" /\ p4' = IF c.mounted THEN c.found ELSE p4
           \/ c.kind = "remove" /\ p4' = IF c.mounted THEN c.base \ {c.file} ELSE p4
    BY <1>7 DEF Files!ListAnswered, Files!Show
  <2>3. p4' \subseteq FileIds \cup {Files!Broken}
    BY <2>1, <2>2 DEF FilesFlat, FileCalls
  <2>4. doubt' = FALSE /\ p3 = TRUE => p4' = p1
    BY <2>2 DEF FilesKnown, FileUnderway
  <2> QED
    BY <1>5, <2>2, <2>3, <2>4 DEF FilesFlat
<1>8. ASSUME NEW c \in p6, Files!CallFails(c) PROVE FilesFlat' /\ FilesKnown'
  <2>1. p5' \in BOOLEAN
    BY <1>8, Zenon DEF Files!CallFails, Files!Idle
  <2>2. doubt' \in BOOLEAN /\ (doubt' = FALSE => doubt = FALSE /\ c.mounted # TRUE)
    BY <1>8, Zenon DEF Files!CallFails, FilesFlat
  <2>3. /\ p6' = p6 \ {c} /\ UNCHANGED <<p1, p2, p3, p4, p7, acts>> /\ faults' \in Nat
    BY <1>8 DEF Files!CallFails, FilesFlat
  <2>4. doubt' = FALSE /\ p3 = TRUE => FALSE
    BY <2>2 DEF FilesKnown
  <2> QED
    BY <1>5, <2>1, <2>2, <2>3, <2>4 DEF FilesFlat
<1>9. ASSUME NEW c \in p6, Files!Erase(c) PROVE FilesFlat' /\ FilesKnown'
  <2> DEFINE d == [c EXCEPT !.phase = "erased"]
  <2>1. d \in FileCalls /\ d.kind = c.kind /\ d.base = c.base /\ d.mounted = c.mounted
        /\ d.phase = "erased" /\ d.file = c.file
    BY <1>0 DEF FilesFlat, FileCalls
  <2>2. /\ p6' = (p6 \ {c}) \cup {d} /\ c.phase = "sent" /\ c.kind = "remove" /\ p2' \subseteq p2
        /\ UNCHANGED <<p1, p3, p4, p5, p7, doubt, acts, faults>>
    BY <1>9 DEF Files!Erase
  <2> HIDE DEF d
  <2>3. FileUnderway(c) => FileUnderway(d)'
    BY <2>1, <2>2 DEF FileUnderway
  <2>4. FilesFlat'
    BY <2>1, <2>2 DEF FilesFlat
  <2>5. FilesKnown'
    BY <2>1, <2>2, <2>3 DEF FilesKnown
  <2> QED
    BY <2>4, <2>5
<1> QED
  BY <1>1, <1>2, <1>3, <1>4, <1>6, <1>7, <1>8, <1>9, Zenon DEF Files!Next, Files!CallMoves, Files!Answer

LEMMA FilesAreSettled == FilesTyped /\ FilesKnown => Files!FilesSettle
  BY FilesIs DEF FilesFlat, FilesKnown, Files!FilesSettle

-----------------------------------------------------------------------------
(* The prompts: what the studio shows.                                     *)

PromptCalls == [kind : {"save", "archive"}, id : PromptIds \cup {0}, doc : Prompts!Doc,
                made : PromptIds \cup {0}, phase : {"sent", "ok"}]

LEMMA PromptTables ==
    \A f : f \in Prompts!Tables <=>
        /\ DOMAIN f \subseteq PromptIds /\ f = [i \in DOMAIN f |-> f[i]]
        /\ \A i \in DOMAIN f : f[i] \in Prompts!Doc
<1>1. ASSUME NEW f, f \in Prompts!Tables
      PROVE  /\ DOMAIN f \subseteq PromptIds /\ f = [i \in DOMAIN f |-> f[i]]
             /\ \A i \in DOMAIN f : f[i] \in Prompts!Doc
  BY <1>1 DEF Prompts!Tables
<1>2. ASSUME NEW f, DOMAIN f \subseteq PromptIds, f = [i \in DOMAIN f |-> f[i]],
             \A i \in DOMAIN f : f[i] \in Prompts!Doc
      PROVE  f \in Prompts!Tables
  <2>1. f \in [DOMAIN f -> Prompts!Doc]
    BY <1>2
  <2> QED
    BY <1>2, <2>1 DEF Prompts!Tables
<1> QED
  BY <1>1, <1>2

LEMMA PromptPut ==
    ASSUME NEW f \in Prompts!Tables, NEW id \in PromptIds, NEW d \in Prompts!Doc
    PROVE  Prompts!Put(f, id, d) \in Prompts!Tables /\ Prompts!Set(f, id, d) \in Prompts!Tables
BY PromptTables DEF Prompts!Put, Prompts!Set

LEMMA NoPrompts == [i \in {} |-> Prompts!Blank] \in Prompts!Tables /\ DOMAIN [i \in {} |-> Prompts!Blank] = {}
  BY PromptTables

\* What the page names exists on the server: the selection, what it lists, and
\* what its calls are about.
VaultFlat ==
    /\ p1 \in Prompts!Tables /\ p3 \in Prompts!Tables /\ DOMAIN p3 \subseteq DOMAIN p1
    /\ p2 \in BOOLEAN /\ p7 \in BOOLEAN
    /\ p4 \in DOMAIN p1 \cup {0}
    /\ p5 \in [of : PromptIds \cup {0}, text : Prompts!Texts]
    /\ p6 \subseteq PromptCalls
    /\ \A c \in p6 : /\ c.id \in DOMAIN p1 \cup {0}
                     /\ c.kind = "archive" => c.id # 0
                     /\ c.phase = "sent" => c.made = 0
                     /\ c.phase = "ok" => c.made \in DOMAIN p1 /\ (c.id # 0 => c.made = c.id)
    /\ p2 = TRUE => p6 = {}
    /\ doubt \subseteq PromptIds /\ acts \in Nat /\ faults \in Nat

SamePrompt(id) ==
    /\ id \in DOMAIN p3 <=> id \in DOMAIN p1
    /\ id \in DOMAIN p3 => p3[id] = p1[id]

\* A prompt whose call is on its way: as before the call, or as it leaves it.
PromptUnderway(c, id) ==
    IF c.phase = "sent" THEN SamePrompt(id)
    ELSE p1[id] = c.doc /\ (c.id # 0 => id \in DOMAIN p3)

\* Prompts nobody has to doubt: one call about each at most.
VaultKnown ==
    /\ \A c, d \in p6, id \in PromptIds \ doubt : id \in {c.id, c.made} /\ id \in {d.id, d.made} => c = d
    /\ p2 = FALSE => \A c \in p6, id \in PromptIds \ doubt : id \in {c.id, c.made} => PromptUnderway(c, id)
    /\ p2 = FALSE => \A id \in PromptIds \ doubt : (\A c \in p6 : id \notin {c.id, c.made}) => SamePrompt(id)

LEMMA BlankDoc == ASSUME NEW t \in Prompts!Texts, NEW a \in BOOLEAN
                  PROVE /\ Prompts!Blank \in Prompts!Doc
                        /\ [Prompts!Blank EXCEPT !.text = t] \in Prompts!Doc
                        /\ [Prompts!Blank EXCEPT !.archived = a] \in Prompts!Doc
  BY DEF Prompts!Blank, Prompts!Doc, Prompts!Texts

LEMMA DraftTyped ==
    ASSUME NEW id \in PromptIds \cup {0}, NEW d \in Prompts!Doc
    PROVE  Prompts!Draft(id, d) \in [of : PromptIds \cup {0}, text : Prompts!Texts]
  BY DEF Prompts!Draft, Prompts!Doc

LEMMA VaultStart == Prompts!Init => VaultFlat /\ VaultKnown
<1> SUFFICES ASSUME Prompts!Init PROVE VaultFlat /\ VaultKnown
  OBVIOUS
<1>1. acts \in Nat /\ faults \in Nat
  BY BoundsAssumption DEF Prompts!Init
<1>2. p5 \in [of : PromptIds \cup {0}, text : Prompts!Texts]
  <2>1. Prompts!Blank \in Prompts!Doc
    BY DEF Prompts!Blank, Prompts!Doc, Prompts!Texts
  <2> QED
    BY <2>1, DraftTyped DEF Prompts!Init, Prompts!None
<1> QED
  BY <1>1, <1>2, NoPrompts DEF Prompts!Init, Prompts!None, VaultFlat, VaultKnown

LEMMA PromptSent ==
    ASSUME VaultFlat, VaultKnown, p2 = FALSE, NEW k \in {"save", "archive"}, NEW doc \in Prompts!Doc,
           k = "archive" => p4 # 0, Prompts!Call(k, doc), UNCHANGED <<p2, faults>>, acts' \in Nat
    PROVE  VaultFlat' /\ VaultKnown'
<1> PICK c : c = [kind |-> k, id |-> p4, doc |-> doc, made |-> 0, phase |-> "sent"]
  OBVIOUS
<1>1. c \in PromptCalls /\ c.id = p4 /\ c.kind = k /\ c.made = 0 /\ c.phase = "sent"
  BY PromptTables DEF PromptCalls, VaultFlat
<1>2. p6' = p6 \cup {c} /\ UNCHANGED <<p1, p3, p4, p5, p7>>
  BY DEF Prompts!Call, Prompts!None
<1>3. doubt' = IF p4 # 0 /\ \E o \in p6 : p4 \in {o.id, o.made} THEN doubt \cup {p4} ELSE doubt
  BY DEF Prompts!Call, Prompts!None
<1>4. doubt \subseteq doubt' /\ doubt' \subseteq PromptIds
  BY <1>3, PromptTables DEF VaultFlat
<1>5. VaultFlat'
  BY <1>1, <1>2, <1>4 DEF VaultFlat
<1>6. ASSUME NEW id \in PromptIds \ doubt', id \in {c.id, c.made}
      PROVE  id = p4 /\ \A o \in p6 : id \notin {o.id, o.made}
  BY <1>1, <1>3, <1>6, PromptIdsAssumption
<1>7. VaultKnown'
  BY <1>1, <1>2, <1>4, <1>6 DEF VaultKnown, PromptUnderway, SamePrompt
<1> QED
  BY <1>5, <1>7

LEMMA VaultUser == VaultFlat /\ VaultKnown /\ Prompts!UserActs => VaultFlat' /\ VaultKnown'
<1> SUFFICES ASSUME VaultFlat, VaultKnown, Prompts!UserActs PROVE VaultFlat' /\ VaultKnown'
  OBVIOUS
<1>0. p2 = FALSE /\ acts' \in Nat /\ UNCHANGED <<p2, faults>>
  BY DEF Prompts!UserActs, VaultFlat
<1>1. ASSUME UNCHANGED <<p1, p3, p6, doubt>>, p4' \in DOMAIN p1 \cup {0}, p7' \in BOOLEAN,
             p5' \in [of : PromptIds \cup {0}, text : Prompts!Texts]
      PROVE  VaultFlat' /\ VaultKnown'
  BY <1>0, <1>1 DEF VaultFlat, VaultKnown, PromptUnderway, SamePrompt
<1>2. ASSUME NEW id \in PromptIds, Prompts!SelectPrompt(id) PROVE VaultFlat' /\ VaultKnown'
  BY <1>1, <1>2, DraftTyped, PromptTables DEF Prompts!SelectPrompt, VaultFlat
<1>3. CASE Prompts!StartNewPrompt
  <2>1. Prompts!Blank \in Prompts!Doc
    BY DEF Prompts!Blank, Prompts!Doc, Prompts!Texts
  <2> QED
    BY <1>1, <1>3, <2>1, DraftTyped DEF Prompts!StartNewPrompt, VaultFlat, Prompts!None
<1>4. CASE Prompts!Type
  <2>1. p5' = [p5 EXCEPT !.text = 1 - p5.text] /\ UNCHANGED <<p1, p3, p4, p6, p7, doubt>>
    BY <1>4 DEF Prompts!Type
  <2>2. p5' \in [of : PromptIds \cup {0}, text : Prompts!Texts]
    BY <2>1 DEF VaultFlat, Prompts!Texts
  <2> QED
    BY <1>1, <2>1, <2>2 DEF VaultFlat
<1>5. CASE Prompts!SavePrompt
  <2>1. [Prompts!Blank EXCEPT !.text = p5.text] \in Prompts!Doc
    BY BlankDoc DEF VaultFlat
  <2> QED
    BY <1>0, <1>5, <2>1, PromptSent DEF Prompts!SavePrompt
<1>6. CASE Prompts!TogglePromptArchive
  <2> PICK a \in BOOLEAN : a = ~Prompts!Shown.archived
    BY Zenon
  <2>1. [Prompts!Blank EXCEPT !.archived = a] \in Prompts!Doc
    BY DEF Prompts!Blank, Prompts!Doc, Prompts!Texts
  <2>2. Prompts!Call("archive", [Prompts!Blank EXCEPT !.archived = a]) /\ p4 # 0
    BY <1>6, Zenon DEF Prompts!TogglePromptArchive, Prompts!None
  <2> QED
    BY <1>0, <2>1, <2>2, PromptSent
<1> QED
  BY <1>2, <1>3, <1>4, <1>5, <1>6, Zenon DEF Prompts!UserActs

LEMMA VaultServed ==
    ASSUME VaultFlat, VaultKnown, NEW c \in p6, c.phase = "sent", NEW id \in PromptIds, NEW doc \in Prompts!Doc,
           c.id # 0 => id = c.id, c.id = 0 => id \notin DOMAIN p1,
           Prompts!Answered(c, id, doc), UNCHANGED <<p2, p3, p4, p5, p7, doubt, acts, faults>>
    PROVE  VaultFlat' /\ VaultKnown'
<1> PICK d : d = [c EXCEPT !.made = id, !.doc = doc, !.phase = "ok"]
  OBVIOUS
<1>1. /\ d \in PromptCalls /\ d.id = c.id /\ d.made = id /\ d.doc = doc /\ d.phase = "ok" /\ d.kind = c.kind
      /\ c.made = 0
  BY DEF VaultFlat, PromptCalls
<1>2. p1' = Prompts!Put(p1, id, doc) /\ p6' = (p6 \ {c}) \cup {d}
  BY DEF Prompts!Answered
<1>3. /\ p1' \in Prompts!Tables /\ DOMAIN p1' = DOMAIN p1 \cup {id} /\ p1'[id] = doc
      /\ \A i \in DOMAIN p1 : i # id => p1'[i] = p1[i]
  BY <1>2, PromptPut DEF VaultFlat, Prompts!Put
<1>4. VaultFlat'
  BY <1>1, <1>2, <1>3 DEF VaultFlat
<1>5. p2 = FALSE
  BY DEF VaultFlat
<1>6. \A i \in PromptIds : i # id => (SamePrompt(i) <=> SamePrompt(i)')
  BY <1>3 DEF SamePrompt, VaultFlat
<1>7. \A e \in p6 \ {c}, i \in PromptIds \ doubt : i \in {e.id, e.made} => i # id
  <2> SUFFICES ASSUME NEW e \in p6 \ {c}, id \in {e.id, e.made}, id \notin doubt PROVE FALSE
    OBVIOUS
  <2>1. CASE c.id = 0
    BY <2>1, PromptIdsAssumption DEF VaultFlat, PromptCalls
  <2>2. CASE c.id # 0
    BY <2>2 DEF VaultKnown
  <2> QED
    BY <2>1, <2>2
<1>8. \A e \in p6 \ {c}, i \in PromptIds \ doubt :
        i \in {e.id, e.made} /\ PromptUnderway(e, i) => PromptUnderway(e, i)'
  <2> SUFFICES ASSUME NEW e \in p6 \ {c}, NEW i \in PromptIds \ doubt, i \in {e.id, e.made}, PromptUnderway(e, i)
               PROVE  PromptUnderway(e, i)'
    OBVIOUS
  <2>1. i # id
    BY <1>7
  <2>2. e.phase # "sent" => i \in DOMAIN p1
    BY PromptIdsAssumption DEF VaultFlat, PromptCalls
  <2> QED
    BY <1>3, <1>6, <2>1, <2>2 DEF PromptUnderway
<1>9. id \in PromptIds \ doubt => PromptUnderway(d, id)'
  <2>1. c.id # 0 /\ id \notin doubt => SamePrompt(id)
    BY <1>5 DEF VaultKnown, PromptUnderway
  <2> QED
    BY <1>1, <1>3, <2>1 DEF PromptUnderway, SamePrompt, VaultFlat
<1>10. \A i \in PromptIds : i \in {d.id, d.made} <=> i = id
  BY <1>1, PromptIdsAssumption
<1>11. ASSUME NEW x \in p6', NEW y \in p6', NEW i \in PromptIds \ doubt', i \in {x.id, x.made}, i \in {y.id, y.made}
       PROVE  x = y
  BY <1>2, <1>7, <1>10, <1>11 DEF VaultKnown
<1>12. ASSUME NEW x \in p6', NEW i \in PromptIds \ doubt', i \in {x.id, x.made} PROVE PromptUnderway(x, i)'
  <2>1. CASE x = d
    BY <1>9, <1>10, <1>12, <2>1
  <2>2. CASE x # d
    BY <1>2, <1>5, <1>8, <1>12, <2>2 DEF VaultKnown
  <2> QED
    BY <2>1, <2>2
<1>13. ASSUME NEW i \in PromptIds \ doubt', \A x \in p6' : i \notin {x.id, x.made} PROVE SamePrompt(i)'
  <2>1. i # id /\ \A x \in p6 \ {c} : i \notin {x.id, x.made}
    BY <1>2, <1>10, <1>13
  <2>2. i \notin {c.id, c.made}
    BY <1>1, <2>1, PromptIdsAssumption
  <2> QED
    BY <1>5, <1>6, <2>1, <2>2 DEF VaultKnown
<1> QED
  BY <1>4, <1>11, <1>12, <1>13 DEF VaultKnown

LEMMA VaultMoves == VaultFlat /\ VaultKnown /\ Prompts!Moves => VaultFlat' /\ VaultKnown'
<1> SUFFICES ASSUME VaultFlat, VaultKnown, Prompts!Moves PROVE VaultFlat' /\ VaultKnown'
  OBVIOUS
<1>1. CASE Prompts!LoadServed
  <2>1. p2' = FALSE /\ p3' = p1 /\ p6 = {} /\ UNCHANGED <<p1, p6, p7, doubt, acts, faults>>
    BY <1>1 DEF Prompts!LoadServed, VaultFlat
  <2>2. p4' \in DOMAIN p1 \cup {0} /\ p5' \in [of : PromptIds \cup {0}, text : Prompts!Texts]
    <3>1. CASE DOMAIN p1 = {}
      BY <1>1, <3>1 DEF Prompts!LoadServed, VaultFlat
    <3>2. CASE DOMAIN p1 # {}
      <4>1. PICK id \in DOMAIN p1 : p4' = id /\ p5' = Prompts!Draft(id, p1[id])
        BY <1>1, <3>2 DEF Prompts!LoadServed
      <4> QED
        BY <4>1, PromptTables, DraftTyped DEF VaultFlat
    <3> QED
      BY <3>1, <3>2
  <2> QED
    BY <2>1, <2>2 DEF VaultFlat, VaultKnown, SamePrompt
<1>2. CASE Prompts!LoadFails
  <2>1. p2' = FALSE /\ p6 = {} /\ doubt' = PromptIds /\ faults' \in Nat /\ UNCHANGED <<p1, p3, p4, p5, p6, p7, acts>>
    BY <1>2 DEF Prompts!LoadFails, VaultFlat
  <2> QED
    BY <2>1 DEF VaultFlat, VaultKnown
<1>3. ASSUME NEW c \in p6, Prompts!Serve(c) PROVE VaultFlat' /\ VaultKnown'
  <2>0. c \in PromptCalls /\ c.id \in DOMAIN p1 \cup {0} /\ c.doc \in Prompts!Doc
    BY DEF VaultFlat, PromptCalls
  <2>1. PICK id \in PromptIds, doc \in Prompts!Doc :
           Prompts!Answered(c, id, doc) /\ (c.id # 0 => id = c.id) /\ (c.id = 0 => id \notin DOMAIN p1)
    <3>1. c.id # 0 => p1[c.id] \in Prompts!Doc /\ c.id \in PromptIds
      BY <2>0, PromptTables DEF VaultFlat
    <3>2. c.id # 0 => [p1[c.id] EXCEPT !.text = c.doc.text] \in Prompts!Doc
                      /\ [p1[c.id] EXCEPT !.archived = c.doc.archived] \in Prompts!Doc
      BY <2>0, <3>1 DEF Prompts!Doc
    <3>3. c.kind = "archive" => c.id # 0
      BY DEF VaultFlat
    <3> QED
      BY <1>3, <2>0, <3>1, <3>2, <3>3 DEF Prompts!Serve, Prompts!None
  <2>2. c.phase = "sent" /\ UNCHANGED <<p2, p3, p4, p5, p7, doubt, acts, faults>>
    BY <1>3 DEF Prompts!Serve
  <2> QED
    BY <2>1, <2>2, VaultServed
<1>4. ASSUME NEW c \in p6, Prompts!Answer(c) PROVE VaultFlat' /\ VaultKnown'
  <2>0. p6' = p6 \ {c} /\ UNCHANGED <<p1, p2, acts>> /\ p2 = FALSE
        /\ c \in PromptCalls /\ c.made \in PromptIds \cup {0} /\ c.doc \in Prompts!Doc
    BY <1>4 DEF Prompts!Answer, VaultFlat, PromptCalls
  <2>1. ASSUME c.phase = "ok", UNCHANGED <<doubt, faults>>, p7' \in BOOLEAN,
               \/ c.id # 0 /\ p3' = Prompts!Set(p3, c.made, c.doc)
               \/ c.id = 0 /\ p3' = Prompts!Put(p3, c.made, c.doc),
               p4' \in {p4, c.made}, p5' = Prompts!Draft(c.made, c.doc)
        PROVE  VaultFlat' /\ VaultKnown'
    <3>1. c.made \in DOMAIN p1 /\ c.made \in PromptIds /\ (c.id # 0 => c.made = c.id)
      BY <2>1, PromptTables DEF VaultFlat
    <3>2. p3' \in Prompts!Tables /\ DOMAIN p3' \subseteq DOMAIN p1
      BY <2>0, <2>1, <3>1, PromptPut DEF VaultFlat, Prompts!Set, Prompts!Put
    <3>3. p5' \in [of : PromptIds \cup {0}, text : Prompts!Texts]
      BY <2>0, <2>1, DraftTyped
    <3>4. VaultFlat'
      BY <2>0, <2>1, <3>1, <3>2, <3>3 DEF VaultFlat
    <3>5. \A i : i # c.made => /\ i \in DOMAIN p3' <=> i \in DOMAIN p3
                               /\ i \in DOMAIN p3 => p3'[i] = p3[i]
      BY <2>1 DEF Prompts!Set, Prompts!Put
    <3>6. \A i : i # c.made /\ SamePrompt(i) => SamePrompt(i)'
      BY <2>0, <3>5 DEF SamePrompt
    <3>7. c.made \notin doubt => SamePrompt(c.made)'
      <4> SUFFICES ASSUME c.made \notin doubt PROVE SamePrompt(c.made)'
        OBVIOUS
      <4>1. p1[c.made] = c.doc /\ (c.id # 0 => c.made \in DOMAIN p3)
        BY <2>0, <2>1, <3>1 DEF VaultKnown, PromptUnderway
      <4>2. c.made \in DOMAIN p3' => p3'[c.made] = c.doc
        BY <2>1 DEF Prompts!Set, Prompts!Put
      <4>3. c.made \in DOMAIN p3'
        <5>1. CASE c.id # 0
          BY <2>1, <4>1, <5>1 DEF Prompts!Set, Prompts!Put
        <5>2. CASE p3' = Prompts!Put(p3, c.made, c.doc)
          BY <5>2 DEF Prompts!Put
        <5> QED
          BY <2>1, <5>1, <5>2
      <4> QED
        BY <2>0, <3>1, <4>1, <4>2, <4>3 DEF SamePrompt
    <3>8. \A i \in PromptIds : i \in {c.id, c.made} <=> i = c.made
      BY <3>1, PromptIdsAssumption
    <3>9. \A e \in p6 \ {c}, i \in PromptIds \ doubt : i \in {e.id, e.made} => i # c.made
      BY <3>1 DEF VaultKnown
    <3>10. \A e \in p6 \ {c}, i \in PromptIds \ doubt :
             i \in {e.id, e.made} /\ PromptUnderway(e, i) => PromptUnderway(e, i)'
      BY <2>0, <3>5, <3>6, <3>9 DEF PromptUnderway
    <3> QED
      BY <2>0, <2>1, <3>4, <3>6, <3>7, <3>8, <3>10 DEF VaultKnown
  <2>2. CASE Prompts!SaveAnswered(c)
    BY <2>1, <2>2 DEF Prompts!SaveAnswered, Prompts!None
  <2>3. CASE Prompts!ArchiveAnswered(c)
    BY <2>1, <2>3 DEF Prompts!ArchiveAnswered, VaultFlat
  <2>4. CASE Prompts!Fails(c)
    <3>1. doubt' = doubt \cup ({c.id, c.made} \ {0}) /\ faults' \in Nat /\ UNCHANGED <<p3, p4, p5, p7>>
      BY <2>4 DEF Prompts!Fails, Prompts!None, VaultFlat
    <3>2. doubt' \subseteq PromptIds
      BY <2>0, <3>1 DEF VaultFlat, PromptCalls
    <3>3. VaultFlat'
      BY <2>0, <3>1, <3>2 DEF VaultFlat
    <3>4. doubt \subseteq doubt' /\ \A i \in PromptIds \ doubt' : i \notin {c.id, c.made}
      BY <3>1, PromptIdsAssumption
    <3>5. VaultKnown'
      BY <2>0, <3>1, <3>4 DEF VaultKnown, PromptUnderway, SamePrompt
    <3> QED
      BY <3>3, <3>5
  <2> QED
    BY <1>4, <2>2, <2>3, <2>4, Zenon DEF Prompts!Answer
<1> QED
  BY <1>1, <1>2, <1>3, <1>4, Zenon DEF Prompts!Moves

LEMMA VaultIsTyped == VaultFlat => Prompts!TypeOK
  BY PromptTables DEF VaultFlat, PromptCalls, Prompts!TypeOK, Prompts!None

LEMMA VaultIsSettled == VaultFlat /\ VaultKnown => Prompts!VaultSettles
  BY DEF VaultFlat, VaultKnown, SamePrompt, Prompts!VaultSettles

-----------------------------------------------------------------------------
(* The notes: what the viewer shows.                                       *)

NoteFetches == [path : {p \in Notes!Paths : Notes!Fetched(p)}, no : Nat, phase : {"sent", "parsing"}]

NotesFlat ==
    /\ {p1, p2, p3} \subseteq Notes!Paths \cup {Notes!None}
    /\ p4 \in BOOLEAN /\ p8 \in BOOLEAN /\ doubt \in BOOLEAN
    /\ p5 \subseteq NoteFetches
    /\ p6 \in {"none", "loading", "ready", "broken"}
    /\ p7 \in {"idle", "sharing", "copied", "failed"}
    /\ p9 \in Nat /\ p10 \in Nat /\ acts \in Nat /\ faults \in Nat

\* A path that was chosen while nothing was fetched has one fetch of its own,
\* or what that fetch brought.
NoteKnown ==
    p1 # Notes!None /\ doubt = FALSE =>
        /\ \A f, g \in p5 : f = g
        /\ \A f \in p5 : f.path = p1
        /\ Notes!Fetched(p1) /\ p5 = {} => {p2, p3} = {p1, Notes!None}
        /\ ~Notes!Fetched(p1) \/ p5 # {} => p2 = Notes!None /\ p3 = Notes!None

LEMMA NotesStart == Notes!Init => NotesFlat /\ NoteKnown
<1> SUFFICES ASSUME Notes!Init PROVE NotesFlat /\ NoteKnown
  OBVIOUS
<1>1. acts \in Nat /\ faults \in Nat
  BY BoundsAssumption DEF Notes!Init
<1> QED
  BY <1>1 DEF Notes!Init, NotesFlat, NoteKnown

LEMMA NoteEnds ==
    ASSUME NotesFlat, NoteKnown, NEW f \in p5, Notes!Ends(f), UNCHANGED <<p1, p6, p7, p8, p9, p10, doubt, acts>>,
           faults' \in Nat,
           \/ p2' = f.path /\ p3' = p3
           \/ p3' = f.path /\ p2' = p2
    PROVE  NotesFlat' /\ NoteKnown'
<1>1. f.path \in Notes!Paths /\ Notes!Fetched(f.path) /\ p5' = p5 \ {f} /\ p4' = FALSE
  BY DEF Notes!Ends, NotesFlat, NoteFetches
<1>2. NotesFlat'
  BY <1>1 DEF NotesFlat
<1>3. ASSUME p1' # Notes!None, doubt' = FALSE
      PROVE  f.path = p1 /\ p5' = {} /\ {p2', p3'} = {p1, Notes!None}
  BY <1>1, <1>3 DEF NoteKnown
<1>4. NoteKnown'
  BY <1>1, <1>3 DEF NoteKnown
<1> QED
  BY <1>2, <1>4

LEMMA NotesMoves == NotesFlat /\ NoteKnown /\ Notes!Next => NotesFlat' /\ NoteKnown'
<1> SUFFICES ASSUME NotesFlat, NoteKnown, Notes!Next PROVE NotesFlat' /\ NoteKnown'
  OBVIOUS
<1>0. ASSUME UNCHANGED <<p1, p2, p3, p5, doubt>>, p4' \in BOOLEAN, p8' \in BOOLEAN,
             p6' \in {"none", "loading", "ready", "broken"}, p7' \in {"idle", "sharing", "copied", "failed"},
             p9' \in Nat, p10' \in Nat, acts' \in Nat, faults' \in Nat
      PROVE  NotesFlat' /\ NoteKnown'
  BY <1>0 DEF NotesFlat, NoteKnown
<1>1. CASE Notes!UserActs
  <2>0. acts' \in Nat
    BY <1>1 DEF Notes!UserActs, NotesFlat
  <2>1. ASSUME NEW p \in Notes!Paths \cup {Notes!None}, Notes!SelectFetched(p) \/ Notes!SelectOther(p)
        PROVE  NotesFlat' /\ NoteKnown'
    <3> PICK f : f = [path |-> p, no |-> acts, phase |-> "sent"]
      OBVIOUS
    <3>0. Notes!Select(p)
      BY <2>1 DEF Notes!SelectFetched, Notes!SelectOther
    <3>1. /\ p1' = p /\ p2' = Notes!None /\ p3' = Notes!None
          /\ p5' = IF Notes!Fetched(p) THEN p5 \cup {f} ELSE p5
          /\ UNCHANGED <<p6, p7, p8, p9, p10, faults>>
      BY <2>1, <3>0 DEF Notes!Select, Notes!SelectFetched, Notes!SelectOther, Notes!shareVars
    <3>2. p4' \in BOOLEAN
      BY <2>1, Zenon DEF Notes!SelectFetched, Notes!SelectOther
    <3>3. doubt' \in BOOLEAN /\ (doubt' = FALSE => p5 = {})
      BY <3>0, Zenon DEF Notes!Select
    <3>4. f.path = p /\ (Notes!Fetched(p) => f \in NoteFetches)
      BY DEF NoteFetches, NotesFlat, Notes!Fetched
    <3>5. NotesFlat'
      BY <2>0, <3>1, <3>2, <3>3, <3>4 DEF NotesFlat
    <3>6. NoteKnown'
      <4> SUFFICES ASSUME p1' # Notes!None, doubt' = FALSE
                   PROVE  /\ \A g, h \in p5' : g = h
                          /\ \A g \in p5' : g.path = p1'
                          /\ Notes!Fetched(p1') /\ p5' = {} => {p2', p3'} = {p1', Notes!None}
                          /\ ~Notes!Fetched(p1') \/ p5' # {} => p2' = Notes!None /\ p3' = Notes!None
        BY DEF NoteKnown
      <4>1. p5 = {}
        BY <3>3
      <4>2. CASE Notes!Fetched(p)
        <5>1. p5' = {f}
          BY <3>1, <4>1, <4>2
        <5> QED
          BY <3>1, <3>4, <5>1
      <4>3. CASE ~Notes!Fetched(p)
        <5>1. p5' = {}
          BY <3>1, <4>1, <4>3
        <5> QED
          BY <3>1, <4>3, <5>1
      <4> QED
        BY <4>2, <4>3
    <3> QED
      BY <3>5, <3>6
  <2>2. CASE Notes!HandleShare \/ Notes!CancelShare \/ Notes!CreateShare
    <3>1. /\ UNCHANGED <<p1, p2, p3, p4, p5, p6, p9, doubt, faults>> /\ p8' \in BOOLEAN
          /\ \/ UNCHANGED <<p7, p10>>
             \/ p7' = "sharing" /\ p10' = p10 + 1
      BY <2>2 DEF Notes!HandleShare, Notes!CancelShare, Notes!CreateShare, Notes!viewVars
    <3> QED
      BY <1>0, <2>0, <3>1 DEF NotesFlat
  <2> QED
    BY <1>1, <2>1, <2>2, Zenon DEF Notes!UserActs
<1>2. CASE Notes!ScriptEnds
  BY <1>0, <1>2 DEF Notes!ScriptEnds, Notes!shareVars, NotesFlat
<1>3. CASE Notes!ShareAnswered \/ Notes!ShareTimer
  BY <1>0, <1>3 DEF Notes!ShareAnswered, Notes!ShareTimer, Notes!viewVars, NotesFlat
<1>4. ASSUME NEW f \in p5, Notes!TextArrives(f) \/ Notes!DocxParsed(f) \/ Notes!FetchFails(f)
      PROVE  NotesFlat' /\ NoteKnown'
  <2>1. /\ Notes!Ends(f) /\ UNCHANGED <<p1, p6, p7, p8, p9, p10, doubt, acts>> /\ faults' \in Nat
        /\ \/ p2' = f.path /\ p3' = p3
           \/ p3' = f.path /\ p2' = p2
    BY <1>4 DEF Notes!TextArrives, Notes!DocxParsed, Notes!FetchFails, Notes!shareVars, NotesFlat
  <2> QED
    BY <2>1, NoteEnds
<1>5. ASSUME NEW f \in p5, Notes!DocxArrives(f) PROVE NotesFlat' /\ NoteKnown'
  <2> PICK g : g = [f EXCEPT !.phase = "parsing"]
    OBVIOUS
  <2>1. g \in NoteFetches /\ g.path = f.path
    BY DEF NotesFlat, NoteFetches
  <2>2. /\ p5' = (p5 \ {f}) \cup {g} /\ UNCHANGED <<p1, p2, p3, p4, p7, p8, p9, p10, doubt, acts, faults>>
        /\ p6' \in {p6, "loading"}
    BY <1>5 DEF Notes!DocxArrives, Notes!shareVars
  <2>3. NotesFlat'
    BY <2>1, <2>2 DEF NotesFlat
  <2>4. NoteKnown'
    BY <2>1, <2>2 DEF NoteKnown
  <2> QED
    BY <2>3, <2>4
<1> QED
  BY <1>1, <1>2, <1>3, <1>4, <1>5, Zenon DEF Notes!Next, Notes!Moves

LEMMA NotesAreTyped == NotesFlat => Notes!TypeOK
  BY DEF NotesFlat, NoteFetches, Notes!TypeOK

LEMMA NotesAreSettled == NotesFlat /\ NoteKnown => Notes!ViewerSettles
  BY DEF NotesFlat, NoteKnown, Notes!ViewerSettles

-----------------------------------------------------------------------------
(* The tasks: what the lists show.                                         *)

TaskCalls == [kind : Tasks!Kinds, id : TaskIds, no : Nat, fields : SUBSET Tasks!Fields, row : Tasks!Row,
              phase : {"sent", "ok", "refused"}, status : BOOLEAN]
TaskModals == [id : TaskIds \cup {0}, opened : Tasks!Row, edited : Tasks!Row]
TaskStamps == [id : TaskIds \cup {0}, saving : BOOLEAN]

LEMMA TaskTables ==
    \A f : f \in Tasks!Tables <=>
        /\ DOMAIN f \subseteq TaskIds /\ f = [i \in DOMAIN f |-> f[i]]
        /\ \A i \in DOMAIN f : f[i] \in Tasks!Row
<1>1. ASSUME NEW f, f \in Tasks!Tables
      PROVE  /\ DOMAIN f \subseteq TaskIds /\ f = [i \in DOMAIN f |-> f[i]]
             /\ \A i \in DOMAIN f : f[i] \in Tasks!Row
  BY <1>1 DEF Tasks!Tables
<1>2. ASSUME NEW f, DOMAIN f \subseteq TaskIds, f = [i \in DOMAIN f |-> f[i]],
             \A i \in DOMAIN f : f[i] \in Tasks!Row
      PROVE  f \in Tasks!Tables
  <2>1. f \in [DOMAIN f -> Tasks!Row]
    BY <1>2
  <2> QED
    BY <1>2, <2>1 DEF Tasks!Tables
<1> QED
  BY <1>1, <1>2

LEMMA TaskChanged ==
    ASSUME NEW f \in Tasks!Tables, NEW id \in TaskIds, NEW r \in Tasks!Row
    PROVE  /\ Tasks!Put(f, id, r) \in Tasks!Tables
           /\ Tasks!Set(f, id, r) \in Tasks!Tables
           /\ Tasks!Drop(f, id) \in Tasks!Tables
<1>1. Tasks!Put(f, id, r) \in Tasks!Tables
  BY TaskTables DEF Tasks!Put
<1>2. Tasks!Drop(f, id) \in Tasks!Tables
  BY TaskTables DEF Tasks!Drop, Tasks!Restrict
<1> QED
  BY <1>1, <1>2 DEF Tasks!Set

TasksFlat ==
    /\ p2 \in Tasks!Tables /\ p3 \in Tasks!Tables
    /\ p4 \in TaskModals
    /\ p4 # Tasks!NoModal => p4.id \in TaskIds
    /\ p5 \in TaskStamps
    /\ p6 \subseteq TaskCalls
    /\ doubt \subseteq TaskIds

SameTask(id) ==
    /\ id \in DOMAIN p3 <=> id \in DOMAIN p2
    /\ id \in DOMAIN p3 => p3[id] = p2[id]

\* A task whose call is on its way: as before the call, or as it leaves it; the
\* check mark and the flags of a row show before they are sent.
TaskUnderway(c) ==
    /\ c.phase = "sent" => (c.id \in DOMAIN p3 <=> c.id \in DOMAIN p2) /\ (c.kind # "row" => SameTask(c.id))
    /\ c.phase = "ok" /\ c.kind \in {"deleteRow", "deleteModal"} => c.id \notin DOMAIN p2
    /\ c.phase = "ok" /\ c.kind \notin {"deleteRow", "deleteModal"} =>
          /\ c.id \in DOMAIN p2 /\ p2[c.id] = c.row
          /\ c.kind # "create" => c.id \in DOMAIN p3

\* Tasks nobody has to doubt: one call about each at most.
TaskKnown ==
    /\ \A c, d \in p6 : c.id = d.id => c = d \/ c.id \in doubt
    /\ \A c \in p6 : c.id \in doubt \/ TaskUnderway(c)
    /\ \A id \in TaskIds \ doubt : (\A c \in p6 : c.id # id) => SameTask(id)

LEMMA TasksTypedStart == Tasks!Init => TasksFlat /\ TaskKnown
<1> SUFFICES ASSUME Tasks!Init PROVE TasksFlat /\ TaskKnown
  OBVIOUS
<1>1. p2 \in Tasks!Tables /\ p3 = p2 /\ p4 = Tasks!NoModal /\ p5 = Tasks!NoStamp /\ p6 = {} /\ doubt = {}
  BY DEF Tasks!Init, Tasks!None
<1>2. Tasks!NoModal \in TaskModals /\ Tasks!NoStamp \in TaskStamps
  BY DEF Tasks!NoModal, TaskModals, Tasks!NoRow, Tasks!Row, Tasks!NoStamp, TaskStamps, Tasks!None
<1> QED
  BY <1>1, <1>2 DEF TasksFlat, TaskKnown, SameTask

LEMMA TaskSent ==
    ASSUME TasksFlat, TaskKnown, NEW k \in Tasks!Kinds, NEW id \in TaskIds, NEW fields \in SUBSET Tasks!Fields,
           NEW r \in Tasks!Row, Tasks!Send(k, id, fields, r),
           p3' = p3 \/ (k = "row" /\ p3' = Tasks!Set(p3, id, r)),
           p4' \in TaskModals, p4' # Tasks!NoModal => p4'.id \in TaskIds, p5' \in TaskStamps, acts \in Nat
    PROVE  TasksFlat' /\ TaskKnown'
<1> PICK c : c = Tasks!Call(k, id, fields, r)
  OBVIOUS
<1>1. c \in TaskCalls /\ c.id = id /\ c.kind = k /\ c.phase = "sent"
  <2>1. p4.opened.done \in BOOLEAN
    BY DEF TasksFlat, TaskModals, Tasks!Row
  <2> QED
    BY <2>1 DEF Tasks!Call, TaskCalls
<1>2. p6' = p6 \cup {c} /\ p2' = p2
      /\ doubt' = IF \E o \in p6 : o.id = id THEN doubt \cup {id} ELSE doubt
  BY DEF Tasks!Send
<1>3. p3' \in Tasks!Tables /\ DOMAIN p3' = DOMAIN p3 /\ \A i \in DOMAIN p3 : i # id => p3'[i] = p3[i]
  BY TaskChanged DEF TasksFlat, Tasks!Set, Tasks!Put
<1>4. TasksFlat'
  BY <1>1, <1>2, <1>3 DEF TasksFlat
<1>5. \A i : i # id => (SameTask(i) <=> SameTask(i)')
  BY <1>2, <1>3 DEF SameTask
<1>6. \A o \in p6 : o.id # id /\ TaskUnderway(o) => TaskUnderway(o)'
  BY <1>2, <1>3, <1>5 DEF TaskUnderway
<1>7. CASE doubt' = doubt \cup {id}
  <2>1. \A x, y \in p6' : x.id = y.id => x = y \/ x.id \in doubt'
    BY <1>1, <1>2, <1>7 DEF TaskKnown
  <2>2. \A x \in p6' : x.id \in doubt' \/ TaskUnderway(x)'
    BY <1>1, <1>2, <1>6, <1>7 DEF TaskKnown
  <2>3. \A i \in TaskIds \ doubt' : (\A x \in p6' : x.id # i) => SameTask(i)'
    BY <1>1, <1>2, <1>5, <1>7 DEF TaskKnown
  <2> QED
    BY <1>4, <2>1, <2>2, <2>3 DEF TaskKnown
<1>8. CASE doubt' = doubt /\ \A o \in p6 : o.id # id
  <2>1. id \notin doubt => SameTask(id)
    BY <1>8 DEF TaskKnown
  <2>2. id \notin doubt => TaskUnderway(c)'
    <3>1. k # "row" => p3' = p3
      OBVIOUS
    <3> QED
      BY <1>1, <1>2, <1>3, <2>1, <3>1 DEF TaskUnderway, SameTask
  <2> QED
    <3>1. \A x, y \in p6' : x.id = y.id => x = y \/ x.id \in doubt'
      BY <1>1, <1>2, <1>8 DEF TaskKnown
    <3>2. \A x \in p6' : x.id \in doubt' \/ TaskUnderway(x)'
      BY <1>1, <1>2, <1>6, <1>8, <2>2 DEF TaskKnown
    <3>3. \A i \in TaskIds \ doubt' : (\A x \in p6' : x.id # i) => SameTask(i)'
      BY <1>1, <1>2, <1>5, <1>8 DEF TaskKnown
    <3> QED
      BY <1>4, <3>1, <3>2, <3>3 DEF TaskKnown
<1> QED
  BY <1>2, <1>4, <1>7, <1>8

LEMMA TasksUser == TasksFlat /\ TaskKnown /\ acts \in Nat /\ Tasks!UserActs => TasksFlat' /\ TaskKnown'
<1> SUFFICES ASSUME TasksFlat, TaskKnown, acts \in Nat, Tasks!UserActs PROVE TasksFlat' /\ TaskKnown'
  OBVIOUS
<1>a. {"row", "save", "stamp", "restore", "deleteRow", "deleteModal", "create"} = Tasks!Kinds
      /\ {"status"} \in SUBSET Tasks!Fields /\ {"mark"} \in SUBSET Tasks!Fields /\ {"stamp"} \in SUBSET Tasks!Fields
      /\ Tasks!Fields \in SUBSET Tasks!Fields /\ {} \in SUBSET Tasks!Fields
  BY DEF Tasks!Kinds, Tasks!Fields
<1>b. /\ Tasks!NoRow \in Tasks!Row /\ [Tasks!NoRow EXCEPT !.stamp = TRUE] \in Tasks!Row
      /\ \A r \in Tasks!Row : /\ [r EXCEPT !.done = TRUE] \in Tasks!Row
                              /\ [r EXCEPT !.done = ~r.done] \in Tasks!Row
                              /\ [r EXCEPT !.mark = ~r.mark] \in Tasks!Row
  BY DEF Tasks!NoRow, Tasks!Row
<1>c. p4 \in TaskModals /\ (p4 # Tasks!NoModal => p4.id \in TaskIds)
      /\ p4.edited \in Tasks!Row /\ p4.opened \in Tasks!Row
      /\ p5 \in TaskStamps /\ p5.id \in TaskIds \cup {0}
      /\ \A x \in TaskIds, y \in BOOLEAN : /\ [p5 EXCEPT !.id = x] \in TaskStamps
                                          /\ [p5 EXCEPT !.saving = y] \in TaskStamps
      /\ \A id \in DOMAIN p3 : p3[id] \in Tasks!Row
  BY TaskTables DEF TasksFlat, TaskModals, TaskStamps
<1>d. ASSUME UNCHANGED <<p2, p3, p6, doubt>>, p4' \in TaskModals, p4' # Tasks!NoModal => p4'.id \in TaskIds,
             p5' \in TaskStamps
      PROVE  TasksFlat' /\ TaskKnown'
  BY <1>d DEF TasksFlat, TaskKnown, TaskUnderway, SameTask
<1>1. ASSUME NEW id \in TaskIds, Tasks!ToggleDone(id) PROVE TasksFlat' /\ TaskKnown'
  <2> PICK r : r = [p3[id] EXCEPT !.done = TRUE]
    OBVIOUS
  <2>1. /\ id \in DOMAIN p3 /\ Tasks!Send("row", id, {"status"}, r) /\ p3' = Tasks!Set(p3, id, r)
        /\ UNCHANGED <<p4, p5>>
    BY <1>1 DEF Tasks!ToggleDone, Tasks!Listed, Tasks!PatchRow
  <2>2. r \in Tasks!Row
    BY <1>b, <1>c, <2>1
  <2> QED
    BY <1>a, <1>c, <2>1, <2>2, TaskSent
<1>2. ASSUME NEW id \in TaskIds, Tasks!ToggleFlag(id) PROVE TasksFlat' /\ TaskKnown'
  <2> PICK r : r = [p3[id] EXCEPT !.mark = ~p3[id].mark]
    OBVIOUS
  <2>1. /\ id \in DOMAIN p3 /\ Tasks!Send("row", id, {"mark"}, r) /\ p3' = Tasks!Set(p3, id, r)
        /\ UNCHANGED <<p4, p5>>
    BY <1>2 DEF Tasks!ToggleFlag, Tasks!Listed, Tasks!PatchRow
  <2>2. r \in Tasks!Row
    BY <1>b, <1>c, <2>1
  <2> QED
    BY <1>a, <1>c, <2>1, <2>2, TaskSent
<1>3. ASSUME NEW id \in TaskIds, Tasks!DeleteRow(id) PROVE TasksFlat' /\ TaskKnown'
  BY <1>3, <1>a, <1>b, <1>c, TaskSent DEF Tasks!DeleteRow
<1>4. ASSUME NEW id \in TaskIds, Tasks!CreateTask(id) PROVE TasksFlat' /\ TaskKnown'
  BY <1>4, <1>a, <1>b, <1>c, TaskSent DEF Tasks!CreateTask
<1>5. ASSUME NEW id \in TaskIds, Tasks!RestoreTask(id) PROVE TasksFlat' /\ TaskKnown'
  BY <1>5, <1>a, <1>b, <1>c, TaskSent DEF Tasks!RestoreTask
<1>6. ASSUME NEW id \in TaskIds, Tasks!EditStamp(id) \/ Tasks!OpenTaskModal(id) PROVE TasksFlat' /\ TaskKnown'
  <2>1. CASE Tasks!EditStamp(id)
    BY <1>c, <1>d, <2>1 DEF Tasks!EditStamp
  <2>2. CASE Tasks!OpenTaskModal(id)
    <3>1. /\ p4' = [id |-> id, opened |-> p3[id], edited |-> p3[id]] /\ id \in DOMAIN p3
          /\ UNCHANGED <<p2, p3, p5, p6, doubt>>
      BY <2>2 DEF Tasks!OpenTaskModal
    <3>2. p4' \in TaskModals /\ p4'.id = id
      BY <1>c, <3>1 DEF TaskModals
    <3> QED
      BY <1>d, <3>1, <3>2 DEF TasksFlat
  <2> QED
    BY <1>6, <2>1, <2>2
<1>7. CASE Tasks!CloseStamp \/ Tasks!CloseTaskModal
  <2>1. Tasks!NoModal \in TaskModals
    BY <1>b DEF Tasks!NoModal, TaskModals, Tasks!None
  <2>2. CASE Tasks!CloseStamp
    BY <1>c, <1>d, <2>2 DEF Tasks!CloseStamp, Tasks!NoStamp, TaskStamps, Tasks!None
  <2>3. CASE Tasks!CloseTaskModal
    BY <1>d, <2>1, <2>3 DEF Tasks!CloseTaskModal, TasksFlat
  <2> QED
    BY <1>7, <2>2, <2>3
<1>8. CASE Tasks!SaveCompletedAt
  <2>1. p5.id \in TaskIds /\ p5' \in TaskStamps
    BY <1>8, <1>c DEF Tasks!SaveCompletedAt, Tasks!None
  <2> QED
    BY <1>8, <1>a, <1>b, <1>c, <2>1, TaskSent DEF Tasks!SaveCompletedAt
<1>9. ASSUME NEW r \in Tasks!Row, Tasks!SaveModal(r) PROVE TasksFlat' /\ TaskKnown'
  <2>1. p4.id \in TaskIds /\ p4' = [p4 EXCEPT !.edited = r] /\ Tasks!Send("save", p4.id, Tasks!Fields, r)
        /\ UNCHANGED <<p3, p5>>
    BY <1>9, <1>c DEF Tasks!SaveModal
  <2>2. p4' \in TaskModals /\ p4'.id = p4.id
    BY <1>c, <2>1 DEF TaskModals
  <2> QED
    BY <1>a, <1>c, <2>1, <2>2, TaskSent
<1>10. CASE Tasks!ChooseStatus \/ Tasks!ChooseMark
  <2>1. PICK r \in Tasks!Row : Tasks!SaveModal(r)
    BY <1>10, <1>b, <1>c, Zenon DEF Tasks!ChooseStatus, Tasks!ChooseMark
  <2> QED
    BY <1>9, <2>1
<1>11. CASE Tasks!DeleteInModal
  BY <1>11, <1>a, <1>b, <1>c, TaskSent DEF Tasks!DeleteInModal
<1> QED
  BY <1>1, <1>2, <1>3, <1>4, <1>5, <1>6, <1>7, <1>8, <1>10, <1>11, Zenon DEF Tasks!UserActs

LEMMA TasksServe == ASSUME TasksFlat, TaskKnown, NEW c \in p6, Tasks!Serve(c) PROVE TasksFlat' /\ TaskKnown'
<1>0. c \in TaskCalls /\ c.id \in TaskIds /\ c.row \in Tasks!Row /\ c.fields \in SUBSET Tasks!Fields
  BY DEF TasksFlat, TaskCalls
<1>1. PICK r \in Tasks!Row :
        /\ Tasks!Answered(c, "ok", r)
        /\ \/ c.kind \in {"deleteRow", "deleteModal"} /\ p2' = Tasks!Drop(p2, c.id)
           \/ c.kind \notin {"deleteRow", "deleteModal"} /\ p2' = Tasks!Put(p2, c.id, r)
        /\ c.kind = "create" \/ c.id \in DOMAIN p2
  <2>1. c.kind = "create" \/ c.id \in DOMAIN p2
    BY DEF Tasks!Serve, Tasks!Refused
  <2>2. CASE c.kind \in {"deleteRow", "deleteModal"}
    <3>1. p2' = Tasks!Drop(p2, c.id) /\ Tasks!Answered(c, "ok", c.row)
      BY <2>2 DEF Tasks!Serve
    <3> QED
      BY <1>0, <2>1, <2>2, <3>1
  <2>3. CASE c.kind = "create"
    <3>1. p2' = Tasks!Put(p2, c.id, Tasks!NoRow) /\ Tasks!Answered(c, "ok", Tasks!NoRow)
      BY <2>3 DEF Tasks!Serve
    <3>2. Tasks!NoRow \in Tasks!Row
      BY DEF Tasks!NoRow, Tasks!Row
    <3> QED
      BY <2>1, <2>3, <3>1, <3>2
  <2>4. CASE c.kind \notin {"deleteRow", "deleteModal", "create"}
    <3> PICK r : r = Tasks!Patched(p2[c.id], c)
      OBVIOUS
    <3>1. p2' = Tasks!Put(p2, c.id, r) /\ Tasks!Answered(c, "ok", r)
      BY <2>4 DEF Tasks!Serve
    <3>2. r \in Tasks!Row
      <4>1. p2[c.id] \in Tasks!Row
        BY <2>1, <2>4, TaskTables DEF TasksFlat
      <4> QED
        BY <1>0, <4>1 DEF Tasks!Patched, Tasks!Row
    <3> QED
      BY <2>1, <2>4, <3>1, <3>2
  <2> QED
    BY <2>2, <2>3, <2>4
<1> PICK d : d = [c EXCEPT !.phase = "ok", !.row = r]
  OBVIOUS
<1>2. d \in TaskCalls /\ d.id = c.id /\ d.kind = c.kind /\ d.phase = "ok" /\ d.row = r
  BY <1>0 DEF TaskCalls
<1>3. p6' = (p6 \ {c}) \cup {d} /\ c.phase = "sent" /\ UNCHANGED <<p3, p4, p5, doubt>>
  BY <1>1 DEF Tasks!Answered, Tasks!Serve
<1>4. p2' \in Tasks!Tables
  BY <1>0, <1>1, TaskChanged DEF TasksFlat
<1>5. TasksFlat'
  BY <1>2, <1>3, <1>4 DEF TasksFlat
<1>6. \A i : i # c.id => /\ i \in DOMAIN p2' <=> i \in DOMAIN p2
                         /\ i \in DOMAIN p2 => p2'[i] = p2[i]
  BY <1>1 DEF Tasks!Drop, Tasks!Restrict, Tasks!Put
<1>7. \A i : i # c.id /\ SameTask(i) => SameTask(i)'
  BY <1>3, <1>6 DEF SameTask
<1>8. \A e \in p6 : e.id # c.id /\ TaskUnderway(e) => TaskUnderway(e)'
  BY <1>3, <1>6, <1>7 DEF TaskUnderway
<1>9. TaskUnderway(c) => TaskUnderway(d)'
  <2>1. /\ c.kind \in {"deleteRow", "deleteModal"} => c.id \notin DOMAIN p2'
        /\ c.kind \notin {"deleteRow", "deleteModal"} => c.id \in DOMAIN p2' /\ p2'[c.id] = r
    BY <1>1 DEF Tasks!Drop, Tasks!Restrict, Tasks!Put
  <2> QED
    BY <1>1, <1>2, <1>3, <2>1 DEF TaskUnderway
<1>10. TaskKnown'
  <2>0. \A x \in p6' : x = d \/ x \in p6 \ {c}
    BY <1>3
  <2>1. ASSUME NEW x \in p6', NEW y \in p6', x.id = y.id, x.id \notin doubt' PROVE x = y
    <3>1. \A e \in p6 \ {c} : e.id # c.id \/ e.id \in doubt
      BY DEF TaskKnown
    <3>2. doubt' = doubt
      BY <1>3
    <3>3. CASE x = d \/ y = d
      BY <1>2, <2>0, <2>1, <3>1, <3>2, <3>3
    <3>4. CASE x \in p6 /\ y \in p6
      BY <2>1, <3>2, <3>4 DEF TaskKnown
    <3> QED
      BY <2>0, <3>3, <3>4
  <2>2. ASSUME NEW x \in p6', x.id \notin doubt' PROVE TaskUnderway(x)'
    <3>1. CASE x = d
      BY <1>2, <1>3, <1>9, <2>2, <3>1 DEF TaskKnown
    <3>2. CASE x \in p6 \ {c}
      <4>1. x.id # c.id /\ TaskUnderway(x)
        BY <1>3, <2>2, <3>2 DEF TaskKnown
      <4> QED
        BY <1>8, <3>2, <4>1
    <3> QED
      BY <1>3, <2>2, <3>1, <3>2
  <2>3. \A i \in TaskIds \ doubt' : (\A x \in p6' : x.id # i) => SameTask(i)'
    BY <1>2, <1>3, <1>7 DEF TaskKnown
  <2> QED
    BY <2>1, <2>2, <2>3 DEF TaskKnown
<1> QED
  BY <1>5, <1>10

\* An answer changes the row of its call alone, or leaves it in doubt.
LEMMA TaskEnds ==
    ASSUME TasksFlat, TaskKnown, NEW c \in p6, p6' = p6 \ {c}, p2' = p2, p3' \in Tasks!Tables,
           \A i : i # c.id => (i \in DOMAIN p3' <=> i \in DOMAIN p3) /\ (i \in DOMAIN p3 => p3'[i] = p3[i]),
           p4' \in TaskModals, p4' # Tasks!NoModal => p4'.id \in TaskIds, p5' \in TaskStamps,
           doubt' \in {doubt, doubt \cup {c.id}},
           c.id \notin doubt' => SameTask(c.id)'
    PROVE  TasksFlat' /\ TaskKnown'
<1>1. c.id \in TaskIds /\ doubt \subseteq doubt' /\ doubt' \subseteq TaskIds
  BY DEF TasksFlat, TaskCalls
<1>2. TasksFlat'
  BY <1>1 DEF TasksFlat
<1>3. \A i : i # c.id /\ SameTask(i) => SameTask(i)'
  BY DEF SameTask
<1>4. \A e \in p6 : e.id # c.id /\ TaskUnderway(e) => TaskUnderway(e)'
  BY <1>3 DEF TaskUnderway
<1>5. TaskKnown'
  BY <1>1, <1>3, <1>4 DEF TaskKnown
<1> QED
  BY <1>2, <1>5

LEMMA TasksAnswered == ASSUME TasksFlat, TaskKnown, NEW c \in p6, Tasks!Answer(c) PROVE TasksFlat' /\ TaskKnown'
<1>0. c \in TaskCalls /\ c.id \in TaskIds /\ c.row \in Tasks!Row /\ c.phase \in {"sent", "ok", "refused"}
      /\ (c.id \notin doubt => TaskUnderway(c))
      /\ p4 \in TaskModals /\ (p4 # Tasks!NoModal => p4.id \in TaskIds) /\ p5 \in TaskStamps
      /\ p3 \in Tasks!Tables
  BY DEF TasksFlat, TaskCalls, TaskKnown
<1>a. /\ Tasks!Set(p3, c.id, c.row) \in Tasks!Tables /\ Tasks!Put(p3, c.id, c.row) \in Tasks!Tables
      /\ Tasks!Drop(p3, c.id) \in Tasks!Tables
  BY <1>0, TaskChanged
<1>b. ASSUME p3' \in {p3, Tasks!Set(p3, c.id, c.row), Tasks!Put(p3, c.id, c.row), Tasks!Drop(p3, c.id)}
      PROVE  \A i : i # c.id => (i \in DOMAIN p3' <=> i \in DOMAIN p3) /\ (i \in DOMAIN p3 => p3'[i] = p3[i])
  BY <1>b DEF Tasks!Set, Tasks!Put, Tasks!Drop, Tasks!Restrict
<1>c. ASSUME c.phase = "ok", p2' = p2, c.id \notin doubt,
             \/ c.kind \notin {"create", "deleteRow", "deleteModal"} /\ p3' = Tasks!Set(p3, c.id, c.row)
             \/ c.kind = "create" /\ p3' = Tasks!Put(p3, c.id, c.row)
             \/ c.kind \in {"deleteRow", "deleteModal"} /\ p3' = Tasks!Drop(p3, c.id)
      PROVE  SameTask(c.id)'
  BY <1>0, <1>c DEF TaskUnderway, SameTask, Tasks!Set, Tasks!Put, Tasks!Drop, Tasks!Restrict
<1>1. CASE Tasks!PatchAnswered(c)
  <2>1. /\ c.phase = "ok" /\ c.kind \in {"row", "save"} /\ p3' = Tasks!Set(p3, c.id, c.row)
        /\ p6' = p6 \ {c} /\ UNCHANGED <<p2, p4, p5, doubt>>
    BY <1>1 DEF Tasks!PatchAnswered, Tasks!Settled
  <2> QED
    BY <1>0, <1>a, <1>b, <1>c, <2>1, TaskEnds
<1>2. CASE Tasks!CompletedAnswered(c)
  <2>1. /\ c.phase = "ok" /\ c.kind \in {"stamp", "restore"} /\ p3' = Tasks!Set(p3, c.id, c.row)
        /\ p6' = p6 \ {c} /\ UNCHANGED <<p2, doubt>>
        /\ p4' \in {p4, [id |-> c.id, opened |-> c.row, edited |-> c.row]}
    BY <1>2 DEF Tasks!CompletedAnswered, Tasks!Settled
  <2>2. [id |-> c.id, opened |-> c.row, edited |-> c.row] \in TaskModals
    BY <1>0 DEF TaskModals
  <2>3. p4' \in TaskModals /\ (p4' # Tasks!NoModal => p4'.id \in TaskIds)
    BY <1>0, <2>1, <2>2
  <2>4. p5' \in TaskStamps
    <3>1. p5' \in {p5, Tasks!NoStamp, [p5 EXCEPT !.id = 0]}
      BY <1>2 DEF Tasks!CompletedAnswered, Tasks!None
    <3>2. Tasks!NoStamp \in TaskStamps /\ [p5 EXCEPT !.id = 0] \in TaskStamps
      BY <1>0 DEF TaskStamps, Tasks!NoStamp, Tasks!None
    <3> QED
      BY <1>0, <3>1, <3>2
  <2> QED
    BY <1>0, <1>a, <1>b, <1>c, <2>1, <2>3, <2>4, TaskEnds
<1>3. CASE Tasks!CreateAnswered(c)
  <2>1. /\ c.phase = "ok" /\ c.kind = "create" /\ p3' = Tasks!Put(p3, c.id, c.row)
        /\ p6' = p6 \ {c} /\ UNCHANGED <<p2, p4, p5, doubt>>
    BY <1>3 DEF Tasks!CreateAnswered, Tasks!Settled
  <2> QED
    BY <1>0, <1>a, <1>b, <1>c, <2>1, TaskEnds
<1>4. CASE Tasks!DeleteAnswered(c)
  <2>1. /\ c.phase \in {"ok", "refused"} /\ c.kind \in {"deleteRow", "deleteModal"}
        /\ p3' = Tasks!Drop(p3, c.id) /\ p6' = p6 \ {c} /\ UNCHANGED <<p2, p5>>
        /\ p4' \in {p4, Tasks!NoModal}
        /\ doubt' = IF c.phase = "refused" THEN doubt \cup {c.id} ELSE doubt
    BY <1>0, <1>4 DEF Tasks!DeleteAnswered, Tasks!Settled
  <2>2. Tasks!NoModal \in TaskModals
    BY DEF Tasks!NoModal, TaskModals, Tasks!NoRow, Tasks!Row, Tasks!None
  <2>3. p4' \in TaskModals /\ (p4' # Tasks!NoModal => p4'.id \in TaskIds)
    BY <1>0, <2>1, <2>2
  <2>4. c.id \notin doubt' => SameTask(c.id)'
    BY <1>c, <2>1
  <2> QED
    BY <1>0, <1>a, <1>b, <2>1, <2>3, <2>4, TaskEnds
<1>5. CASE Tasks!CallFails(c)
  <2>1. /\ p3' = p3 /\ p6' = p6 \ {c} /\ UNCHANGED <<p2, p4>> /\ doubt' = doubt \cup {c.id}
        /\ p5' \in {p5, [p5 EXCEPT !.saving = FALSE]}
    BY <1>5 DEF Tasks!CallFails, Tasks!Settled
  <2>2. p5' \in TaskStamps
    BY <1>0, <2>1 DEF TaskStamps
  <2> QED
    BY <1>0, <2>1, <2>2, TaskEnds
<1> QED
  BY <1>1, <1>2, <1>3, <1>4, <1>5 DEF Tasks!Answer

LEMMA TasksKnownMoves == TasksFlat /\ TaskKnown /\ acts \in Nat /\ Tasks!Next => TasksFlat' /\ TaskKnown'
<1> SUFFICES ASSUME TasksFlat, TaskKnown, acts \in Nat, Tasks!Next PROVE TasksFlat' /\ TaskKnown'
  OBVIOUS
<1>1. ASSUME NEW c \in p6, Tasks!Refuse(c) PROVE TasksFlat' /\ TaskKnown'
  <2> PICK d : d = [c EXCEPT !.phase = "refused", !.row = c.row]
    OBVIOUS
  <2>1. d \in TaskCalls /\ d.id = c.id /\ d.phase = "refused"
    BY DEF TasksFlat, TaskCalls
  <2>2. p6' = (p6 \ {c}) \cup {d} /\ UNCHANGED <<p2, p3, p4, p5, doubt>>
    BY <1>1 DEF Tasks!Refuse, Tasks!Answered
  <2>3. TasksFlat'
    BY <2>1, <2>2 DEF TasksFlat
  <2>4. TaskKnown'
    <3>1. \A i : SameTask(i) <=> SameTask(i)'
      BY <2>2 DEF SameTask
    <3>2. \A e \in p6 : TaskUnderway(e) => TaskUnderway(e)'
      BY <2>2, <3>1 DEF TaskUnderway
    <3>3. TaskUnderway(d)'
      BY <2>1 DEF TaskUnderway
    <3>4. \A x, y \in p6' : x.id = y.id => x = y \/ x.id \in doubt'
      BY <2>1, <2>2 DEF TaskKnown
    <3>5. \A x \in p6' : x.id \in doubt' \/ TaskUnderway(x)'
      BY <2>2, <3>2, <3>3 DEF TaskKnown
    <3>6. \A i \in TaskIds \ doubt' : (\A x \in p6' : x.id # i) => SameTask(i)'
      BY <2>1, <2>2, <3>1 DEF TaskKnown
    <3> QED
      BY <3>4, <3>5, <3>6 DEF TaskKnown
  <2> QED
    BY <2>3, <2>4
<1>2. ASSUME UNCHANGED <<p2, p3, p4, p5, p6, doubt>> PROVE TasksFlat' /\ TaskKnown'
  BY <1>2 DEF TasksFlat, TaskKnown, TaskUnderway, SameTask
<1>3. CASE Tasks!NavMoves \/ \E r \in p8 : Tasks!NavFails(r)
  BY <1>2, <1>3 DEF Tasks!NavMoves, Tasks!NavTimer, Tasks!NavServed, Tasks!NavAnswered, Tasks!NavFails
<1> QED
  BY <1>1, <1>3, TasksUser, TasksServe, TasksAnswered, Zenon DEF Tasks!Next, Tasks!CallMoves

LEMMA TasksAreSettled == TaskKnown => Tasks!RowsSettle
  BY DEF TaskKnown, SameTask, Tasks!RowsSettle

-----------------------------------------------------------------------------
(* The tasks: the sidebar beside them.                                     *)

NavReads == [slot : 1..MaxCalls, count : Nat \cup {Tasks!Unread}]

SidebarTyped ==
    /\ p1 \in SUBSET Tasks!Parts
    /\ p7 \in Nat /\ p8 \subseteq NavReads
    /\ acts \in Nat /\ faults \in Nat

LEMMA TasksAreTyped == TasksFlat /\ SidebarTyped => Tasks!TypeOK
  BY DEF TasksFlat, SidebarTyped, Tasks!TypeOK, NavReads, TaskModals, TaskStamps, TaskCalls, Tasks!None

LEMMA NavAsked ==
    ASSUME Tasks!FreeSlots # {}
    PROVE  Tasks!FetchNav \subseteq NavReads
<1>1. (CHOOSE n \in Tasks!FreeSlots : TRUE) \in 1..MaxCalls
  BY DEF Tasks!FreeSlots
<1> QED
  BY <1>1 DEF Tasks!FetchNav, NavReads

LEMMA TasksTold == ASSUME SidebarTyped, Tasks!TaskUpdated PROVE p8' \subseteq NavReads
  BY NavAsked DEF SidebarTyped, Tasks!TaskUpdated

LEMMA SidebarTypedStart == Tasks!Init => SidebarTyped
<1> SUFFICES ASSUME Tasks!Init PROVE SidebarTyped
  OBVIOUS
<1>1. PICK v \in BoardVisits : p1 = v.parts /\ acts = v.acts /\ faults = v.faults
  BY DEF Tasks!Init
<1>2. v \in [parts : SUBSET Tasks!Parts, acts : Nat, faults : Nat]
  BY VisitsAssumption
<1>3. p7 = 0 /\ p8 = IF "sidebar" \in p1 THEN {[slot |-> 1, count |-> Tasks!Unread]} ELSE {}
  BY DEF Tasks!Init
<1>4. 1 \in 1..MaxCalls
  BY BoundsAssumption
<1>5. p8 \subseteq NavReads
  BY <1>3, <1>4 DEF NavReads
<1> QED
  BY <1>1, <1>2, <1>3, <1>5 DEF SidebarTyped

LEMMA SidebarUser == SidebarTyped /\ Tasks!UserActs => SidebarTyped'
<1> SUFFICES ASSUME SidebarTyped, Tasks!UserActs PROVE SidebarTyped'
  OBVIOUS
<1>a. acts' \in Nat
  BY DEF SidebarTyped, Tasks!UserActs
<1>b. ASSUME UNCHANGED <<p1, p7, faults>>, p8' = p8 \/ Tasks!TaskUpdated PROVE SidebarTyped'
  BY <1>a, <1>b, TasksTold DEF SidebarTyped
<1>c. \A k, id, fields, r : Tasks!Send(k, id, fields, r) => UNCHANGED <<p1, p7, faults>>
  BY DEF Tasks!Send
<1>1. ASSUME NEW id \in TaskIds, Tasks!ToggleDone(id) \/ Tasks!ToggleFlag(id) PROVE SidebarTyped'
  <2>1. UNCHANGED <<p1, p7, faults>>
    BY <1>1, <1>c, Zenon DEF Tasks!ToggleDone, Tasks!ToggleFlag
  <2>2. p8' = p8 \/ Tasks!TaskUpdated
    BY <1>1 DEF Tasks!ToggleDone, Tasks!ToggleFlag, Tasks!PatchRow
  <2> QED
    BY <1>b, <2>1, <2>2
<1>2. ASSUME NEW id \in TaskIds, Tasks!DeleteRow(id) \/ Tasks!CreateTask(id) \/ Tasks!RestoreTask(id)
      PROVE  SidebarTyped'
  BY <1>2, <1>b, <1>c DEF Tasks!DeleteRow, Tasks!CreateTask, Tasks!RestoreTask
<1>3. ASSUME NEW id \in TaskIds, Tasks!EditStamp(id) \/ Tasks!OpenTaskModal(id) PROVE SidebarTyped'
  BY <1>3, <1>b DEF Tasks!EditStamp, Tasks!OpenTaskModal
<1>4. CASE Tasks!CloseStamp \/ Tasks!CloseTaskModal
  BY <1>4, <1>b DEF Tasks!CloseStamp, Tasks!CloseTaskModal
<1>5. CASE Tasks!SaveCompletedAt \/ Tasks!DeleteInModal
  BY <1>5, <1>b, <1>c DEF Tasks!SaveCompletedAt, Tasks!DeleteInModal
<1>6. ASSUME NEW r, Tasks!SaveModal(r) PROVE SidebarTyped'
  BY <1>6, <1>b, <1>c DEF Tasks!SaveModal
<1>7. CASE Tasks!ChooseStatus \/ Tasks!ChooseMark
  BY <1>6, <1>7, Zenon DEF Tasks!ChooseStatus, Tasks!ChooseMark
<1> QED
  BY <1>1, <1>2, <1>3, <1>4, <1>5, <1>7, Zenon DEF Tasks!UserActs

LEMMA OpenTasks == ASSUME NEW t \in Tasks!Tables PROVE Tasks!Open(t) \in Nat
<1>1. {i \in DOMAIN t : ~t[i].done} \subseteq TaskIds
  BY TaskTables
<1>2. IsFiniteSet({i \in DOMAIN t : ~t[i].done})
  BY <1>1, TaskIdsAssumption, FS_Subset
<1> QED
  BY <1>2, FS_CardinalityType DEF Tasks!Open, Tasks!Cardinality, Cardinality

LEMMA SidebarNav ==
    ASSUME TasksFlat, SidebarTyped,
           Tasks!NavTimer \/ \E r \in p8 : Tasks!NavServed(r) \/ Tasks!NavAnswered(r) \/ Tasks!NavFails(r)
    PROVE  SidebarTyped'
<1>1. CASE Tasks!NavTimer
  <2>1. 1 \in Tasks!FreeSlots
    BY <1>1, BoundsAssumption DEF Tasks!NavTimer, Tasks!FreeSlots
  <2> QED
    BY <1>1, <2>1, NavAsked DEF Tasks!NavTimer, SidebarTyped
<1>2. ASSUME NEW r \in p8, Tasks!NavServed(r) PROVE SidebarTyped'
  <2>1. p8' = (p8 \ {r}) \cup {[r EXCEPT !.count = Tasks!Open(p2)]} /\ UNCHANGED <<p1, p7, acts, faults>>
    BY <1>2 DEF Tasks!NavServed
  <2>2. Tasks!Open(p2) \in Nat
    BY OpenTasks DEF TasksFlat
  <2>3. [r EXCEPT !.count = Tasks!Open(p2)] \in NavReads
    BY <2>2 DEF SidebarTyped, NavReads
  <2> QED
    BY <2>1, <2>3 DEF SidebarTyped
<1>3. ASSUME NEW r \in p8, Tasks!NavAnswered(r) PROVE SidebarTyped'
  <2>1. r.count \in Nat
    BY <1>3 DEF Tasks!NavAnswered, SidebarTyped, NavReads
  <2> QED
    BY <1>3, <2>1 DEF Tasks!NavAnswered, SidebarTyped
<1>4. ASSUME NEW r \in p8, Tasks!NavFails(r) PROVE SidebarTyped'
  BY <1>4 DEF Tasks!NavFails, SidebarTyped
<1> QED
  BY <1>1, <1>2, <1>3, <1>4

LEMMA SidebarCalls == ASSUME SidebarTyped, NEW c \in p6, Tasks!CallMoves(c) PROVE SidebarTyped'
<1>a. ASSUME UNCHANGED <<p1, p7, acts>>, faults' \in Nat, p8' = p8 \/ Tasks!TaskUpdated PROVE SidebarTyped'
  BY <1>a, TasksTold DEF SidebarTyped
<1>1. CASE Tasks!Serve(c) \/ Tasks!Refuse(c)
  BY <1>1, <1>a DEF Tasks!Serve, Tasks!Refuse, SidebarTyped
<1>2. CASE Tasks!PatchAnswered(c) \/ Tasks!CompletedAnswered(c)
  BY <1>2, <1>a DEF Tasks!PatchAnswered, Tasks!CompletedAnswered, Tasks!Settled, SidebarTyped
<1>3. CASE Tasks!CreateAnswered(c) \/ Tasks!DeleteAnswered(c)
  BY <1>3, <1>a DEF Tasks!CreateAnswered, Tasks!DeleteAnswered, Tasks!Settled, SidebarTyped
<1>4. CASE Tasks!CallFails(c)
  BY <1>4, <1>a DEF Tasks!CallFails, Tasks!Settled, SidebarTyped
<1> QED
  BY <1>1, <1>2, <1>3, <1>4, Zenon DEF Tasks!CallMoves, Tasks!Answer

LEMMA SidebarMoves == TasksFlat /\ SidebarTyped /\ Tasks!Next => SidebarTyped'
  BY SidebarUser, SidebarNav, SidebarCalls, Zenon DEF Tasks!Next, Tasks!NavMoves

-----------------------------------------------------------------------------
(* The projects: what the board shows, and the archive.                    *)

Sure(id)   == id \in ProjectIds /\ \A d \in doubt : d[1] # id
LiveOne(id) == id \in DOMAIN p2 /\ ~p2[id].archived
Busy(id)   == LiveOne(id) /\ p2[id].pending

ListIs(f, id) == /\ id \in DOMAIN f <=> LiveOne(id)
                 /\ id \in DOMAIN f => f[id] = p2[id].order
PendingIs(id)  == id \in p4 <=> Busy(id)
ArchivedIs(id) == id \in p6 => Away(id)
Agree(id)      == ListIs(p3, id) /\ PendingIs(id) /\ ArchivedIs(id)

\* What a call that is on its way has of a project it is about.
ProjectUnderway(c, id) ==
    CASE c.kind = "order"    -> /\ LiveOne(id) /\ id \in DOMAIN p3 /\ PendingIs(id) /\ ArchivedIs(id)
                                /\ c.phase = "sent" => p3[id] = c.order
                                /\ c.phase = "ok" => p3[id] = p2[id].order
      [] c.kind = "fetch"    -> /\ ArchivedIs(id) /\ c.phase \in {"sent", "tasks", "projects", "ok", "refused"}
                                /\ c.phase \in {"tasks", "ok"} => ListIs(c.list, id)
                                /\ c.phase \in {"projects", "ok"} => (id \in c.open <=> Busy(id))
      [] c.kind = "archived" -> Agree(id) /\ (c.phase = "ok" => (id \in c.open => Away(id)))
      [] c.kind = "create"   -> IF id # c.id THEN Agree(id) /\ ListIs(c.list, id)
                                ELSE /\ id \notin p4 /\ id \notin p6
                                     /\ c.phase = "sent" => id \notin DOMAIN p2
                                     /\ c.phase = "ok" => LiveOne(id) /\ ~Busy(id) /\ p2[id].order = c.order
      [] c.kind = "delete"   -> /\ ArchivedIs(id) /\ c.phase \in {"sent", "ok", "refused"}
                                /\ c.phase = "sent" => LiveOne(id)
                                /\ c.phase = "ok" => id \notin DOMAIN p2
      [] c.kind = "rename"   -> Agree(id) /\ (c.phase = "ok" => id \in DOMAIN p2 /\ c.order = p2[id].order)
      [] c.kind = "archive"  -> ArchivedIs(id) /\ (c.phase = "ok" => Away(id))
      [] c.kind = "task"     -> /\ ListIs(p3, id) /\ ArchivedIs(id)
                                /\ c.phase = "sent" => LiveOne(id)
                                /\ c.phase = "ok" => Busy(id)
      [] c.kind = "restore"  -> c.phase = "ok" => LiveOne(id) /\ c.order = p2[id].order
      [] c.kind = "tasks"    -> /\ ListIs(p3, id) /\ ArchivedIs(id) /\ LiveOne(id)
                                /\ c.phase = "ok" => (id \in c.open <=> Busy(id))
      [] OTHER -> FALSE

\* Projects nobody has to doubt, on a page that has not failed.
ProjectsKnown ==
    /\ \A c \in p10 : c.kind = "tasks" => c.open \subseteq {c.id}
    /\ ~p9 => \A id : Sure(id) =>
          /\ \A c \in p10 : id \in Projects!About(c) => ProjectUnderway(c, id)
          /\ (\A c \in p10 : id \notin Projects!About(c)) => Agree(id)

\* Nothing of a project changed.
Still(id) ==
    /\ id \in DOMAIN p2' <=> id \in DOMAIN p2
    /\ id \in DOMAIN p2 => p2'[id] = p2[id]
    /\ id \in DOMAIN p3' <=> id \in DOMAIN p3
    /\ id \in DOMAIN p3 => p3'[id] = p3[id]
    /\ id \in p4' <=> id \in p4
    /\ id \in p6' <=> id \in p6

LEMMA StillLive ==
    ASSUME NEW id, Still(id)
    PROVE  /\ LiveOne(id)' <=> LiveOne(id)
           /\ Busy(id)' <=> Busy(id)
           /\ Away(id)' <=> Away(id)
  BY DEF Still, LiveOne, Busy, Away

LEMMA StillAgrees ==
    ASSUME NEW id, Still(id)
    PROVE  /\ \A f : ListIs(f, id) => ListIs(f, id)'
           /\ PendingIs(id) <=> PendingIs(id)'
           /\ ArchivedIs(id) <=> ArchivedIs(id)'
           /\ ListIs(p3, id) <=> ListIs(p3, id)'
           /\ Agree(id) <=> Agree(id)'
<1>1. \A f : ListIs(f, id) => ListIs(f, id)'
  BY StillLive DEF Still, ListIs, LiveOne
<1>2. (PendingIs(id) <=> PendingIs(id)') /\ (ArchivedIs(id) <=> ArchivedIs(id)')
  BY StillLive DEF Still, PendingIs, ArchivedIs
<1>3. ListIs(p3, id) <=> ListIs(p3, id)'
  BY StillLive DEF Still, ListIs, LiveOne
<1> QED
  BY <1>1, <1>2, <1>3 DEF Agree

LEMMA StillUnderway ==
    ASSUME NEW id, Still(id), NEW c, ProjectUnderway(c, id)
    PROVE  ProjectUnderway(c, id)'
<1>1. /\ LiveOne(id)' <=> LiveOne(id)
      /\ Busy(id)' <=> Busy(id)
      /\ Away(id)' <=> Away(id)
      /\ ListIs(c.list, id) => ListIs(c.list, id)'
      /\ PendingIs(id) <=> PendingIs(id)'
      /\ ArchivedIs(id) <=> ArchivedIs(id)'
      /\ ListIs(p3, id) <=> ListIs(p3, id)'
      /\ Agree(id) <=> Agree(id)'
  BY StillLive, StillAgrees
<1>2. /\ LiveOne(id) => p2'[id] = p2[id]
      /\ id \in DOMAIN p2' <=> id \in DOMAIN p2
      /\ id \in DOMAIN p2 => p2'[id] = p2[id]
      /\ id \in DOMAIN p3' <=> id \in DOMAIN p3
      /\ id \in DOMAIN p3 => p3'[id] = p3[id]
      /\ id \in p4' <=> id \in p4
      /\ id \in p6' <=> id \in p6
  BY DEF Still, LiveOne
<1> QED
  BY <1>1, <1>2 DEF ProjectUnderway

LEMMA SureIsClean == \A id : Sure(id) => Clean(id)
  BY DEF Sure, Clean

LEMMA SureStays == doubt \subseteq doubt' => \A id : Sure(id)' => Sure(id)
  BY DEF Sure

LEMMA ProjectsKnownStart == Projects!Init => ProjectsKnown
<1> SUFFICES ASSUME Projects!Init PROVE ProjectsKnown
  OBVIOUS
<1> PICK c : c = Projects!Call("fetch", Projects!None, 0, <<>>)
  OBVIOUS
<1>1. p10 = {c} /\ p6 = {} /\ c.kind = "fetch" /\ c.phase = "sent"
  BY DEF Projects!Init, Projects!Call
<1>2. \A id : Sure(id) => id \in Projects!About(c) /\ ProjectUnderway(c, id)
  BY <1>1 DEF Sure, Projects!About, Projects!Whole, ProjectUnderway, ArchivedIs
<1> QED
  BY <1>1, <1>2 DEF ProjectsKnown

\* A call that became another about projects it was about, or that ended.
LEMMA ProjectsKept ==
    ASSUME ProjectsInv, ProjectsKnown, NEW c \in p10, NEW N, p10' = (p10 \ {c}) \cup N,
           doubt \subseteq doubt',
           ~p9' => ~p9,
           \A d \in N : /\ Projects!About(d) = Projects!About(c)
                        /\ d.kind = "tasks" => d.open \subseteq {d.id},
           ~p9' => \A id : Sure(id)' /\ id \notin Projects!About(c) => Still(id),
           ~p9' => \A id : Sure(id)' /\ id \in Projects!About(c) /\ ProjectUnderway(c, id) =>
               \/ N = {} /\ Agree(id)'
               \/ \E d \in N : N = {d} /\ ProjectUnderway(d, id)'
    PROVE  ProjectsKnown'
<1>1. \A e \in p10' : e.kind = "tasks" => e.open \subseteq {e.id}
  BY DEF ProjectsKnown
<1>2. ASSUME ~p9', NEW id, Sure(id)'
      PROVE  /\ \A e \in p10' : id \in Projects!About(e) => ProjectUnderway(e, id)'
             /\ (\A e \in p10' : id \notin Projects!About(e)) => Agree(id)'
  <2>1. Sure(id) /\ Clean(id) /\ id \in ProjectIds
    BY <1>2, SureStays, SureIsClean DEF Sure
  <2>2. CASE id \in Projects!About(c)
    <3>1. ProjectUnderway(c, id)
      BY <1>2, <2>1, <2>2 DEF ProjectsKnown
    <3>2. \A e \in p10 \ {c} : id \notin Projects!About(e)
      BY <2>1, <2>2 DEF ProjectsInv, Alone
    <3>3. CASE N = {} /\ Agree(id)'
      BY <3>2, <3>3
    <3>4. CASE \E d \in N : N = {d} /\ ProjectUnderway(d, id)'
      BY <2>2, <3>2, <3>4
    <3> QED
      BY <1>2, <2>2, <3>1, <3>3, <3>4
  <2>3. CASE id \notin Projects!About(c)
    <3>1. Still(id)
      BY <1>2, <2>3
    <3>2. \A e \in p10' : id \in Projects!About(e) => e \in p10
      BY <2>3
    <3>3. \A e \in p10 : id \in Projects!About(e) => ProjectUnderway(e, id)
      BY <1>2, <2>1 DEF ProjectsKnown
    <3>4. (\A e \in p10' : id \notin Projects!About(e)) => Agree(id)
      BY <1>2, <2>1, <2>3 DEF ProjectsKnown
    <3> QED
      BY <3>1, <3>2, <3>3, <3>4, StillUnderway, StillAgrees
  <2> QED
    BY <2>2, <2>3
<1> QED
  BY <1>1, <1>2 DEF ProjectsKnown

LEMMA ProjectsSend ==
    ASSUME ProjectsInv, ProjectsKnown, NEW new, Projects!Put2Wire(new, p10), ~p9, UNCHANGED <<p2, p4, p6>>,
           DOMAIN p3' = DOMAIN p3,
           \A id \in DOMAIN p3 : (\A c \in new : id \notin Projects!About(c)) => p3'[id] = p3[id],
           \A c \in new : c.kind # "tasks",
           \A c \in new, id \in ProjectIds : Agree(id) /\ id \in Projects!About(c) => ProjectUnderway(c, id)'
    PROVE  ProjectsKnown'
<1>1. p10' = p10 \cup new /\ doubt' = doubt \cup (Projects!Cross(new, p10) \X {"crossed"})
  BY DEF Projects!Put2Wire
<1>2. ASSUME NEW id, Sure(id)'
      PROVE  /\ \A e \in p10' : id \in Projects!About(e) => ProjectUnderway(e, id)'
             /\ (\A e \in p10' : id \notin Projects!About(e)) => Agree(id)'
  <2>1. Sure(id) /\ id \in ProjectIds /\ id \notin Projects!Cross(new, p10)
    <3>1. id \in Projects!Cross(new, p10) => <<id, "crossed">> \in doubt' /\ <<id, "crossed">>[1] = id
      BY <1>1
    <3> QED
      BY <1>1, <1>2, <3>1 DEF Sure
  <2>2. CASE \E c \in new : id \in Projects!About(c)
    <3>1. \A d \in p10 : id \notin Projects!About(d)
      BY <2>1, <2>2, Crossed
    <3>2. Agree(id)
      BY <2>1, <3>1 DEF ProjectsKnown
    <3> QED
      BY <1>1, <2>1, <2>2, <3>1, <3>2
  <2>3. CASE \A c \in new : id \notin Projects!About(c)
    <3>1. Still(id)
      BY <2>3 DEF Still
    <3>2. \A e \in p10' : id \in Projects!About(e) => e \in p10
      BY <1>1, <2>3
    <3>3. \A e \in p10 : id \in Projects!About(e) => ProjectUnderway(e, id)
      BY <2>1 DEF ProjectsKnown
    <3>4. (\A e \in p10' : id \notin Projects!About(e)) => Agree(id)
      BY <1>1, <2>1 DEF ProjectsKnown
    <3> QED
      BY <3>1, <3>2, <3>3, <3>4, StillUnderway, StillAgrees
  <2> QED
    BY <2>2, <2>3
<1>3. \A e \in p10' : e.kind = "tasks" => e.open \subseteq {e.id}
  BY <1>1 DEF ProjectsKnown
<1> QED
  BY <1>2, <1>3 DEF ProjectsKnown

LEMMA AgreedIsLive == \A id \in DOMAIN p3 : ListIs(p3, id) => LiveOne(id) /\ p3[id] = p2[id].order
  BY DEF ListIs

LEMMA ProjectsUserKnown ==
    ASSUME ProjectsInv, ProjectsKnown, Projects!UserActs
    PROVE  ProjectsKnown'
<1>1. ASSUME NEW from, NEW to, Projects!Reorder(from, to) PROVE ProjectsKnown'
  <2> DEFINE s       == Projects!Moved(Projects!Sorted(p3), from, to)
             next    == [id \in DOMAIN p3 |-> CHOOSE i \in 0..(Len(s) - 1) : s[i + 1] = id]
             changed == {id \in DOMAIN p3 : next[id] # p3[id]}
             new     == {Projects!Call("order", id, next[id], <<>>) : id \in changed}
  <2>1. p3' = next /\ Projects!Put2Wire(new, p10) /\ UNCHANGED <<p2, p4, p6, p9>> /\ ~p9
    BY <1>1, Zenon DEF Projects!Reorder, Projects!Ready
  <2>2. DOMAIN next = DOMAIN p3
    OBVIOUS
  <2> HIDE DEF next
  <2>a. \A id, n : LET c == Projects!Call("order", id, n, <<>>) IN
           c.id = id /\ c.kind = "order" /\ c.phase = "sent" /\ c.order = n
    BY DEF Projects!Call
  <2>3. \A c \in new : \E id \in changed :
           c.id = id /\ c.kind = "order" /\ c.phase = "sent" /\ c.order = next[id]
    BY <2>a
  <2>4. \A id \in changed : \E c \in new : c.id = id
    BY <2>a
  <2>5. \A id \in changed : next[id] # p3[id] /\ id \in DOMAIN p3
    OBVIOUS
  <2>6. \A id \in DOMAIN p3 \ changed : next[id] = p3[id]
    OBVIOUS
  <2> HIDE DEF new, changed
  <2>7. \A c \in new : Projects!About(c) = {c.id} /\ c.kind # "tasks"
    BY <2>3 DEF Projects!About, Projects!Whole
  <2>8. \A id \in DOMAIN p3 : (\A c \in new : id \notin Projects!About(c)) => p3'[id] = p3[id]
    BY <2>1, <2>4, <2>6, <2>7
  <2>9. ASSUME NEW c \in new, NEW id \in ProjectIds, Agree(id), id \in Projects!About(c)
        PROVE  ProjectUnderway(c, id)'
    <3>1. c.id = id /\ c.kind = "order" /\ c.phase = "sent" /\ c.order = next[id] /\ id \in DOMAIN p3
      BY <2>3, <2>5, <2>7, <2>9
    <3>2. LiveOne(id) /\ PendingIs(id) /\ ArchivedIs(id)
      BY <2>9, <3>1, AgreedIsLive DEF Agree
    <3>3. LiveOne(id)' /\ PendingIs(id)' /\ ArchivedIs(id)'
      BY <2>1, <3>2 DEF LiveOne, PendingIs, ArchivedIs, Busy, Away
    <3> QED
      BY <2>1, <2>2, <3>1, <3>3 DEF ProjectUnderway
  <2>10. DOMAIN p3' = DOMAIN p3
    BY <2>1, <2>2
  <2> QED
    BY <2>1, <2>7, <2>8, <2>9, <2>10, ProjectsSend
<1>2. ASSUME NEW kind, NEW id, NEW order, NEW list, NEW group,
             Projects!Send(group, {Projects!Call(kind, id, order, list)}), p6' = p6,
             \/ kind = "create" /\ id \in ProjectIds /\ list = p3 /\ id \notin DOMAIN p2
             \/ kind = "archived" \/ kind = "restore"
             \/ kind \in {"delete", "rename", "archive", "task"} /\ id \in DOMAIN p3
      PROVE  ProjectsKnown'
  <2> PICK c : c = Projects!Call(kind, id, order, list)
    OBVIOUS
  <2>1. c.kind = kind /\ c.id = id /\ c.list = list /\ c.phase = "sent"
    BY DEF Projects!Call
  <2>2. Projects!Put2Wire({c}, p10) /\ UNCHANGED <<p2, p3, p4, p6, p9>> /\ ~p9
    BY <1>2 DEF Projects!Send, Projects!Ready
  <2>3. ASSUME NEW i \in ProjectIds, Agree(i), i \in Projects!About(c) PROVE ProjectUnderway(c, i)'
    <3>1. Still(i)
      BY <2>2 DEF Still
    <3>2. Agree(i)' /\ ListIs(p3, i)' /\ PendingIs(i)' /\ ArchivedIs(i)'
      BY <2>3, <3>1, StillAgrees DEF Agree
    <3>3. CASE kind = "create"
      <4>1. i = id => i \notin p4' /\ i \notin p6' /\ i \notin DOMAIN p2'
        BY <1>2, <2>2, <2>3, <3>3 DEF Agree, PendingIs, ArchivedIs, Busy, LiveOne, Away
      <4>2. ListIs(c.list, i)'
        BY <1>2, <2>1, <2>2, <3>2, <3>3 DEF ListIs, LiveOne
      <4> QED
        BY <2>1, <3>2, <3>3, <4>1, <4>2 DEF ProjectUnderway
    <3>4. CASE kind = "archived" \/ kind = "restore"
      BY <2>1, <3>2, <3>4 DEF ProjectUnderway
    <3>5. CASE kind \in {"delete", "rename", "archive", "task"}
      <4>1. i = id /\ i \in DOMAIN p3
        BY <1>2, <2>1, <2>3, <3>5 DEF Projects!About, Projects!Whole
      <4>2. LiveOne(i)'
        BY <2>2, <2>3, <4>1 DEF Agree, ListIs, LiveOne
      <4> QED
        BY <2>1, <3>2, <3>5, <4>2 DEF ProjectUnderway
    <3> QED
      BY <1>2, <3>3, <3>4, <3>5
  <2> QED
    BY <1>2, <2>1, <2>2, <2>3, ProjectsSend
<1>3. ASSUME NEW id \in ProjectIds,
             \/ Projects!CreateProject(id) \/ Projects!DeleteProject(id) \/ Projects!RenameProject(id)
             \/ Projects!ArchiveProject(id) \/ Projects!CreateTask(id) \/ Projects!RestoreProject(id)
      PROVE  ProjectsKnown'
  BY <1>2, <1>3 DEF Projects!CreateProject, Projects!DeleteProject, Projects!RenameProject,
     Projects!ArchiveProject, Projects!CreateTask, Projects!RestoreProject
<1>4. CASE Projects!OpenArchive
  BY <1>2, <1>4 DEF Projects!OpenArchive
<1>5. CASE Projects!CloseArchive
  <2>1. UNCHANGED <<p2, p3, p4, p6, p9, p10, doubt>>
    BY <1>5 DEF Projects!CloseArchive
  <2>2. \A id : Still(id) /\ (Sure(id)' => Sure(id))
    BY <2>1, SureStays DEF Still
  <2> QED
    BY <2>1, <2>2, StillAgrees, StillUnderway DEF ProjectsKnown
<1> QED
  BY <1>1, <1>3, <1>4, <1>5, Zenon DEF Projects!UserActs

LEMMA ProjectServedAs ==
    ASSUME ProjectsInv, NEW c \in p10, Projects!Serve(c), NEW id \in ProjectIds, id \in Projects!About(c),
           ProjectUnderway(c, id), NEW d, d.kind = c.kind, d.id = c.id, d.list = c.list, d.phase = "ok",
           d.order = IF c.kind \in {"rename", "restore"} THEN p2'[c.id].order ELSE c.order
    PROVE  ProjectUnderway(d, id)'
<1>1. /\ c.phase = "sent" /\ ~Projects!Refused(c) /\ c.kind \notin Projects!Reads /\ UNCHANGED <<p3, p4, p6>>
      /\ p2' = Projects!Written(c)
  BY Zenon DEF Projects!Serve, Projects!Reply
<1>2. c.kind \in {"order", "delete", "rename", "archive", "task", "restore"} => id = c.id /\ c.id \in DOMAIN p2
  BY <1>1 DEF Projects!About, Projects!Whole, Projects!Refused, Projects!Reads
<1>3. id \in DOMAIN p2 => p2[id] \in [order : {p2[id].order}, archived : BOOLEAN, pending : BOOLEAN]
  BY DEF ProjectsInv, ProjectRows
<1>4. CASE c.kind = "order"
  <2>1. /\ DOMAIN p2' = DOMAIN p2 /\ p2'[id].order = c.order
        /\ p2'[id].archived = p2[id].archived /\ p2'[id].pending = p2[id].pending
    BY <1>1, <1>2, <1>3, <1>4 DEF Projects!Written
  <2>2. (LiveOne(id)' <=> LiveOne(id)) /\ (Busy(id)' <=> Busy(id)) /\ (Away(id)' <=> Away(id))
    BY <2>1 DEF LiveOne, Busy, Away
  <2> QED
    BY <1>1, <1>4, <2>1, <2>2 DEF ProjectUnderway, PendingIs, ArchivedIs
<1>5. CASE c.kind = "create"
  <2>1. CASE id # c.id
    <3>1. Still(id)
      BY <1>1, <2>1, ProjectWritten DEF Still
    <3> QED
      BY <1>5, <2>1, <3>1, StillAgrees DEF ProjectUnderway
  <2>2. CASE id = c.id
    <3>1. id \in DOMAIN p2' /\ p2'[id] = [order |-> c.order, archived |-> FALSE, pending |-> FALSE]
      BY <1>1, <1>5, <2>2 DEF Projects!Written, Projects!Put
    <3> QED
      BY <1>1, <1>5, <2>2, <3>1 DEF ProjectUnderway, LiveOne, Busy
  <2> QED
    BY <2>1, <2>2
<1>6. CASE c.kind = "delete"
  <2>1. id \notin DOMAIN p2' /\ id \notin p6
    BY <1>1, <1>2, <1>6 DEF Projects!Written, Projects!Drop, Projects!Restrict, ProjectUnderway, ArchivedIs, Away, LiveOne
  <2> QED
    BY <1>1, <1>6, <2>1 DEF ProjectUnderway, ArchivedIs
<1>7. CASE c.kind = "rename"
  <2>1. p2' = p2
    BY <1>1, <1>7 DEF Projects!Written
  <2>2. Still(id)
    BY <1>1, <2>1 DEF Still
  <2> QED
    BY <1>2, <1>7, <2>1, <2>2, StillAgrees DEF ProjectUnderway
<1>8. CASE c.kind = "archive"
  <2>1. Away(id)'
    BY <1>1, <1>2, <1>3, <1>8 DEF Projects!Written, Away
  <2> QED
    BY <1>8, <2>1 DEF ProjectUnderway, ArchivedIs
<1>9. CASE c.kind = "task"
  <2>1. /\ DOMAIN p2' = DOMAIN p2 /\ p2'[id].order = p2[id].order
        /\ p2'[id].archived = p2[id].archived /\ p2'[id].pending = TRUE
    BY <1>1, <1>2, <1>3, <1>9 DEF Projects!Written
  <2> QED
    BY <1>1, <1>9, <2>1 DEF ProjectUnderway, ListIs, ArchivedIs, LiveOne, Busy, Away
<1>10. CASE c.kind = "restore"
  <2>1. DOMAIN p2' = DOMAIN p2 /\ p2'[id].archived = FALSE
    BY <1>1, <1>2, <1>3, <1>10 DEF Projects!Written
  <2> QED
    BY <1>2, <1>10, <2>1 DEF ProjectUnderway, LiveOne
<1> QED
  BY <1>1, <1>4, <1>5, <1>6, <1>7, <1>8, <1>9, <1>10 DEF ProjectUnderway, Projects!Reads

LEMMA ProjectsServerKnown ==
    ASSUME ProjectsInv, ProjectsKnown, NEW c \in p10, Projects!Serve(c) \/ Projects!Refuse(c) \/ Projects!ServeRead(c)
    PROVE  ProjectsKnown'
<1>0. ProjectCall(c) /\ (c.kind = "tasks" => c.open \subseteq {c.id})
  BY DEF ProjectsInv, ProjectCalls, ProjectsKnown
<1>a. ASSUME NEW d, d.kind = c.kind, d.id = c.id PROVE Projects!About(d) = Projects!About(c)
  BY <1>a DEF Projects!About
<1>1. CASE Projects!Serve(c)
  <2> PICK d : d = [c EXCEPT !.phase = "ok",
                            !.order = IF c.kind \in {"rename", "restore"} THEN p2'[c.id].order
                                      ELSE c.order]
    OBVIOUS
  <2>1. /\ d.kind = c.kind /\ d.id = c.id /\ d.list = c.list /\ d.phase = "ok" /\ d.open = c.open
        /\ d.order = IF c.kind \in {"rename", "restore"} THEN p2'[c.id].order ELSE c.order
    BY <1>0 DEF ProjectCall
  <2>2. /\ p10' = (p10 \ {c}) \cup {d} /\ UNCHANGED <<p3, p4, p6, p9, doubt>>
    BY <1>1, Zenon DEF Projects!Serve, Projects!Reply
  <2>3. \A id \in ProjectIds : id \notin Projects!About(c) => Still(id)
    <3>1. \A id \in ProjectIds : id \notin Projects!About(c) => id # c.id
      BY DEF Projects!About
    <3> QED
      BY <1>1, <2>2, <3>1, ProjectWritten DEF Still
  <2>4. \A id \in ProjectIds : id \in Projects!About(c) /\ ProjectUnderway(c, id) => ProjectUnderway(d, id)'
    BY <1>1, <2>1, ProjectServedAs
  <2>5. \A id : Sure(id)' => id \in ProjectIds
    BY DEF Sure
  <2> DEFINE N == {d}
  <2>6. \A e \in N : Projects!About(e) = Projects!About(c) /\ (e.kind = "tasks" => e.open \subseteq {e.id})
    BY <1>0, <1>a, <2>1
  <2>7. p10' = (p10 \ {c}) \cup N /\ doubt \subseteq doubt' /\ (~p9' => ~p9)
    BY <2>2
  <2>8. d \in N /\ N = {d}
    OBVIOUS
  <2> HIDE DEF N
  <2> QED
    BY <2>3, <2>4, <2>5, <2>6, <2>7, <2>8, ProjectsKept
<1>b. ASSUME NEW d, d.kind = c.kind, d.id = c.id, d.kind = "tasks" => d.open \subseteq {d.id},
             p10' = (p10 \ {c}) \cup {d}, UNCHANGED <<p2, p3, p4, p6, p9, doubt>>,
             \A id \in Projects!About(c) : ProjectUnderway(c, id) => ProjectUnderway(d, id)
      PROVE  ProjectsKnown'
  <2>1. \A id : Still(id) /\ (Sure(id)' => id \in ProjectIds)
    BY <1>b DEF Still, Sure
  <2>2. Projects!About(d) = Projects!About(c)
    BY <1>a, <1>b
  <2>3. \A id \in Projects!About(c) : ProjectUnderway(c, id) => ProjectUnderway(d, id)'
    BY <1>b, <2>1, StillUnderway
  <2> DEFINE N == {d}
  <2>4. \A e \in N : Projects!About(e) = Projects!About(c) /\ (e.kind = "tasks" => e.open \subseteq {e.id})
    BY <1>b, <2>2
  <2>5. p10' = (p10 \ {c}) \cup N /\ doubt \subseteq doubt' /\ (~p9' => ~p9)
    BY <1>b
  <2>6. d \in N /\ N = {d}
    OBVIOUS
  <2> HIDE DEF N
  <2> QED
    BY <2>1, <2>3, <2>4, <2>5, <2>6, ProjectsKept
<1>2. CASE Projects!Refuse(c)
  <2> PICK d : d = [c EXCEPT !.phase = "refused", !.order = c.order]
    OBVIOUS
  <2>1. d.kind = c.kind /\ d.id = c.id /\ d.list = c.list /\ d.phase = "refused" /\ d.open = c.open /\ d.order = c.order
    BY <1>0 DEF ProjectCall
  <2>2. p10' = (p10 \ {c}) \cup {d} /\ UNCHANGED <<p2, p3, p4, p6, p9, doubt>>
    BY <1>2 DEF Projects!Refuse, Projects!Reply
  <2>3. \A id : ProjectUnderway(c, id) => ProjectUnderway(d, id)
    BY <2>1 DEF ProjectUnderway
  <2> QED
    BY <1>0, <1>b, <2>1, <2>2, <2>3
<1>3. CASE Projects!ServeRead(c)
  <2>1. PICK d \in Projects!Found(c) : p10' = (p10 \ {c}) \cup {d}
    BY <1>3 DEF Projects!ServeRead
  <2>2. UNCHANGED <<p2, p3, p4, p6, p9, doubt>> /\ c.kind \in {"fetch", "archived", "tasks"} /\ c.phase \notin {"ok", "refused"}
    BY <1>3 DEF Projects!ServeRead, Projects!Reads
  <2>3. \A id : /\ ListIs(Projects!Orders(p2), id)
                /\ id \in Projects!WithOpen(p2) <=> Busy(id)
                /\ id \in DOMAIN p2 \ Projects!Live(p2) <=> Away(id)
    BY DEF Projects!Orders, Projects!WithOpen, Projects!Live, ListIs, Busy, LiveOne, Away
  <2>4. CASE c.kind = "archived"
    <3>1. /\ d.kind = c.kind /\ d.id = c.id /\ d.phase = "ok" /\ d.open = DOMAIN p2 \ Projects!Live(p2)
      BY <1>0, <2>1, <2>4 DEF Projects!Found, ProjectCall
    <3>2. \A id : ProjectUnderway(c, id) => ProjectUnderway(d, id)
      BY <2>3, <2>4, <3>1 DEF ProjectUnderway
    <3> QED
      BY <1>b, <2>1, <2>2, <2>4, <3>1, <3>2
  <2>5. CASE c.kind = "tasks"
    <3>1. /\ d.kind = c.kind /\ d.id = c.id /\ d.phase = "ok"
          /\ d.open = {i \in DOMAIN p2 : i = c.id /\ p2[i].pending}
      BY <1>0, <2>1, <2>5 DEF Projects!Found, ProjectCall
    <3>2. \A id \in Projects!About(c) : id = c.id
      BY <2>5 DEF Projects!About, Projects!Whole
    <3>3. \A id \in Projects!About(c) : ProjectUnderway(c, id) => ProjectUnderway(d, id)
      BY <2>5, <3>1, <3>2 DEF ProjectUnderway, LiveOne, Busy
    <3> QED
      BY <1>b, <2>1, <2>2, <2>5, <3>1, <3>3
  <2>6. CASE c.kind = "fetch"
    <3>1. /\ d.kind = c.kind /\ d.id = c.id
          /\ \/ c.phase = "sent" /\ d.phase = "tasks" /\ d.list = Projects!Orders(p2)
             \/ c.phase = "sent" /\ d.phase = "projects" /\ d.open = Projects!WithOpen(p2)
             \/ c.phase = "tasks" /\ d.phase = "ok" /\ d.open = Projects!WithOpen(p2) /\ d.list = c.list
             \/ c.phase \notin {"sent", "tasks"} /\ d.phase = "ok" /\ d.list = Projects!Orders(p2) /\ d.open = c.open
      BY <1>0, <2>1, <2>6 DEF Projects!Found, ProjectCall
    <3>2. \A id : ProjectUnderway(c, id) => ProjectUnderway(d, id)
      BY <2>2, <2>3, <2>6, <3>1 DEF ProjectUnderway
    <3> QED
      BY <1>b, <2>1, <2>2, <2>6, <3>1, <3>2
  <2> QED
    BY <2>2, <2>4, <2>5, <2>6
<1> QED
  BY <1>1, <1>2, <1>3

LEMMA DropAt ==
    ASSUME NEW f, NEW id
    PROVE  /\ DOMAIN Projects!Drop(f, id) = DOMAIN f \ {id}
           /\ \A i \in DOMAIN f \ {id} : Projects!Drop(f, id)[i] = f[i]
  BY DEF Projects!Drop, Projects!Restrict

\* A call that ends.
LEMMA ProjectEnds ==
    ASSUME ProjectsInv, ProjectsKnown, NEW c \in p10, p10' = p10 \ {c}, doubt \subseteq doubt', ~p9' => ~p9,
           ~p9' => \A id : Sure(id)' /\ id \notin Projects!About(c) => Still(id),
           ~p9' => \A id : Sure(id)' /\ id \in Projects!About(c) /\ ProjectUnderway(c, id) => Agree(id)'
    PROVE  ProjectsKnown'
<1>1. p10' = (p10 \ {c}) \cup {} /\ \A d \in {} : Projects!About(d) = Projects!About(c) /\ (d.kind = "tasks" => d.open \subseteq {d.id})
  OBVIOUS
<1> DEFINE N == {}
<1>2. p10' = (p10 \ {c}) \cup N /\ N = {} /\ \A d \in N : Projects!About(d) = Projects!About(c) /\ (d.kind = "tasks" => d.open \subseteq {d.id})
  BY <1>1
<1> HIDE DEF N
<1> QED
  BY <1>2, ProjectsKept

LEMMA ProjectsAnswerKnown ==
    ASSUME ProjectsInv, ProjectsKnown, NEW c \in p10, Projects!Answer(c)
    PROVE  ProjectsKnown'
<1> USE DEF Projects!Done
<1>a. UNCHANGED p2 => \A id : (Away(id)' <=> Away(id)) /\ (LiveOne(id)' <=> LiveOne(id)) /\ (Busy(id)' <=> Busy(id))
  BY DEF Away, LiveOne, Busy
<1>b. UNCHANGED <<p2, p3, p4, p6>> => \A id : Still(id)
  BY DEF Still
<1>c. c.kind \notin Projects!Whole => \A id \in Projects!About(c) : id = c.id
  BY DEF Projects!About
<1>d. \A id : id \notin Projects!About(c) /\ id \in ProjectIds => id # c.id
  BY DEF Projects!About
<1>e. \A id : Sure(id)' => id \in ProjectIds
  BY DEF Sure
<1>1. CASE Projects!OrderAnswered(c) \/ Projects!StrayEnds(c)
  <2>1. p10' = p10 \ {c} /\ UNCHANGED <<p2, p3, p4, p6, p9, doubt>> /\ (c.kind = "stray" \/ (c.kind = "order" /\ c.phase = "ok"))
    BY <1>1 DEF Projects!OrderAnswered, Projects!StrayEnds
  <2>2. \A id : ProjectUnderway(c, id) => Agree(id)'
    BY <1>a, <2>1 DEF ProjectUnderway, Agree, ListIs, PendingIs, ArchivedIs
  <2> QED
    BY <1>b, <2>1, <2>2, ProjectEnds
<1>2. CASE Projects!FetchAnswered(c)
  <2>1. /\ p10' = p10 \ {c} /\ UNCHANGED <<p2, p6, p9, doubt>> /\ c.kind = "fetch" /\ c.phase = "ok"
        /\ p3' = c.list /\ p4' = c.open
    BY <1>2 DEF Projects!FetchAnswered
  <2>2. \A id : ProjectUnderway(c, id) => Agree(id)'
    BY <1>a, <2>1 DEF ProjectUnderway, Agree, ListIs, PendingIs, ArchivedIs
  <2>3. \A id : Sure(id)' => id \in Projects!About(c)
    BY <1>e, <2>1 DEF Projects!About, Projects!Whole
  <2> QED
    BY <2>1, <2>2, <2>3, ProjectEnds
<1>3. CASE Projects!FetchFails(c)
  <2>1. p10' = p10 \ {c} /\ UNCHANGED doubt /\ p9' = TRUE
    BY <1>3 DEF Projects!FetchFails
  <2> QED
    BY <2>1, ProjectEnds
<1>4. CASE Projects!CreateAnswered(c)
  <2>1. /\ p10' = p10 \ {c} /\ UNCHANGED <<p2, p4, p6, p9, doubt>> /\ c.kind = "create" /\ c.phase = "ok"
        /\ p3' = Projects!Put(c.list, c.id, c.order)
    BY <1>4 DEF Projects!CreateAnswered
  <2>2. ASSUME NEW id, ProjectUnderway(c, id) PROVE Agree(id)'
    <3>1. CASE id = c.id
      <4>1. LiveOne(id) /\ ~Busy(id) /\ p2[id].order = c.order /\ id \notin p4 /\ id \notin p6
        BY <2>1, <2>2, <3>1 DEF ProjectUnderway
      <4>2. id \in DOMAIN p3' /\ p3'[id] = c.order
        BY <2>1, <3>1 DEF Projects!Put
      <4> QED
        BY <1>a, <2>1, <4>1, <4>2 DEF Agree, ListIs, PendingIs, ArchivedIs
    <3>2. CASE id # c.id
      <4>1. Agree(id) /\ ListIs(c.list, id)
        BY <2>1, <2>2, <3>2 DEF ProjectUnderway
      <4>2. (id \in DOMAIN p3' <=> id \in DOMAIN c.list) /\ (id \in DOMAIN c.list => p3'[id] = c.list[id])
        BY <2>1, <3>2 DEF Projects!Put
      <4> QED
        BY <1>a, <2>1, <4>1, <4>2 DEF Agree, ListIs, PendingIs, ArchivedIs
    <3> QED
      BY <3>1, <3>2
  <2>3. \A id : Sure(id)' => id \in Projects!About(c)
    BY <1>e, <2>1 DEF Projects!About, Projects!Whole
  <2> QED
    BY <2>1, <2>2, <2>3, ProjectEnds
<1>5. CASE Projects!RenameAnswered(c)
  <2>1. /\ p10' = p10 \ {c} /\ UNCHANGED <<p2, p4, p6, p9, doubt>> /\ c.kind = "rename" /\ c.phase = "ok"
        /\ p3' = Projects!Set(p3, c.id, c.order)
    BY <1>5 DEF Projects!RenameAnswered
  <2>2. /\ DOMAIN p3' = DOMAIN p3
        /\ c.id \in DOMAIN p3 => p3'[c.id] = c.order
        /\ \A id \in DOMAIN p3 : id # c.id => p3'[id] = p3[id]
    BY <2>1 DEF Projects!Set, Projects!Put
  <2>3. \A id \in Projects!About(c) : ProjectUnderway(c, id) => Agree(id)'
    <3> SUFFICES ASSUME ProjectUnderway(c, c.id) PROVE Agree(c.id)'
      BY <1>c, <2>1 DEF Projects!Whole
    <3>1. Agree(c.id) /\ c.id \in DOMAIN p2 /\ c.order = p2[c.id].order
      BY <2>1 DEF ProjectUnderway
    <3> QED
      BY <1>a, <2>1, <2>2, <3>1 DEF Agree, ListIs, PendingIs, ArchivedIs
  <2>4. \A id : Sure(id)' /\ id \notin Projects!About(c) => Still(id)
    BY <1>d, <1>e, <2>1, <2>2 DEF Still
  <2> QED
    BY <2>1, <2>3, <2>4, ProjectEnds
<1>6. CASE Projects!TaskAnswered(c) \/ Projects!TasksAnswered(c)
  <2>1. /\ p10' = p10 \ {c} /\ UNCHANGED <<p2, p3, p6, p9, doubt>> /\ c.kind \in {"task", "tasks"} /\ c.phase = "ok"
        /\ \A id : id # c.id => (id \in p4' <=> id \in p4)
        /\ c.id \in p4' <=> (c.kind = "task" \/ c.id \in c.open)
    BY <1>6 DEF Projects!TaskAnswered, Projects!TasksAnswered, ProjectsKnown
  <2>2. \A id \in Projects!About(c) : ProjectUnderway(c, id) => Agree(id)'
    <3> SUFFICES ASSUME ProjectUnderway(c, c.id) PROVE Agree(c.id)'
      BY <1>c, <2>1 DEF Projects!Whole
    <3>1. ListIs(p3, c.id) /\ ArchivedIs(c.id) /\ (c.id \in p4' <=> Busy(c.id))
      BY <2>1 DEF ProjectUnderway
    <3> QED
      BY <1>a, <2>1, <3>1 DEF Agree, ListIs, PendingIs, ArchivedIs
  <2>3. \A id : Sure(id)' /\ id \notin Projects!About(c) => Still(id)
    BY <1>d, <1>e, <2>1 DEF Still
  <2> QED
    BY <2>1, <2>2, <2>3, ProjectEnds
<1>7. CASE Projects!GoneAnswered(c)
  <2>1. /\ p10' = p10 \ {c} /\ UNCHANGED <<p2, p6, p9>> /\ doubt \subseteq doubt'
        /\ \/ c.kind = "archive" /\ c.phase = "ok"
           \/ c.kind = "delete" /\ c.phase # "sent" /\ (c.phase = "refused" => <<c.id, "delete">> \in doubt')
        /\ p3' = Projects!Drop(p3, c.id) /\ p4' = p4 \ {c.id}
    BY <1>7 DEF Projects!GoneAnswered
  <2>2. DOMAIN p3' = DOMAIN p3 \ {c.id} /\ \A id \in DOMAIN p3 \ {c.id} : p3'[id] = p3[id]
    BY <2>1, DropAt
  <2>3. \A id \in Projects!About(c) : Sure(id)' /\ ProjectUnderway(c, id) => Agree(id)'
    <3> SUFFICES ASSUME ProjectUnderway(c, c.id), Sure(c.id)' PROVE Agree(c.id)'
      BY <1>c, <2>1 DEF Projects!Whole
    <3>1. c.phase = "ok"
      <4>1. <<c.id, "delete">>[1] = c.id
        OBVIOUS
      <4> QED
        BY <2>1, <4>1 DEF Sure, ProjectUnderway
    <3>2. ArchivedIs(c.id) /\ ~LiveOne(c.id)
      BY <2>1, <3>1 DEF ProjectUnderway, Away, LiveOne
    <3> QED
      BY <1>a, <2>1, <2>2, <3>2 DEF Agree, ListIs, PendingIs, ArchivedIs, Busy
  <2>4. \A id : Sure(id)' /\ id \notin Projects!About(c) => Still(id)
    BY <1>d, <1>e, <2>1, <2>2 DEF Still
  <2> QED
    BY <2>1, <2>3, <2>4, ProjectEnds
<1>8. CASE Projects!ArchivedAnswered(c)
  <2>1. /\ p10' = p10 \ {c} /\ UNCHANGED <<p2, p3, p4, p9, doubt>> /\ c.kind = "archived" /\ c.phase = "ok" /\ p6' = c.open
    BY <1>8 DEF Projects!ArchivedAnswered
  <2>2. \A id : ProjectUnderway(c, id) => Agree(id)'
    BY <1>a, <2>1 DEF ProjectUnderway, Agree, ListIs, PendingIs, ArchivedIs
  <2>3. \A id : Sure(id)' => id \in Projects!About(c)
    BY <1>e, <2>1 DEF Projects!About, Projects!Whole
  <2> QED
    BY <2>1, <2>2, <2>3, ProjectEnds
<1>9. CASE Projects!CallFails(c)
  <2>1. /\ p10' = p10 \ {c} /\ UNCHANGED <<p2, p3, p4, p6, p9>> /\ c.kind \notin {"order", "stray", "fetch"}
        /\ doubt' = doubt \cup {<<c.id, c.kind>>}
    BY <1>9 DEF Projects!CallFails
  <2>2. ASSUME NEW id \in Projects!About(c), Sure(id)', ProjectUnderway(c, id) PROVE Agree(id)'
    <3>1. id # c.id
      <4>1. <<c.id, c.kind>>[1] = c.id /\ <<c.id, c.kind>> \in doubt'
        BY <2>1
      <4> QED
        BY <2>2, <4>1 DEF Sure
    <3>2. c.kind \in {"create", "archived"}
      BY <1>c, <2>1, <3>1 DEF Projects!Whole
    <3>3. Agree(id)
      BY <2>2, <3>1, <3>2 DEF ProjectUnderway
    <3> QED
      BY <1>b, <2>1, <3>3, StillAgrees
  <2> QED
    BY <1>b, <2>1, <2>2, ProjectEnds
<1>10. CASE Projects!RestoreAnswered(c)
  <2> PICK new : new = Projects!Call("tasks", c.id, 0, <<>>)
    OBVIOUS
  <2>1. /\ p10' = (p10 \ {c}) \cup {new} /\ UNCHANGED <<p2, p4, p9, doubt>>
        /\ c.kind = "restore" /\ c.phase = "ok" /\ p3' = Projects!Put(p3, c.id, c.order) /\ p6' = p6 \ {c.id}
    BY <1>10 DEF Projects!RestoreAnswered
  <2>2. new.kind = "tasks" /\ new.id = c.id /\ new.open = {} /\ new.phase = "sent"
    BY DEF Projects!Call
  <2>3. Projects!About(new) = Projects!About(c)
    BY <2>1, <2>2 DEF Projects!About, Projects!Whole
  <2>4. /\ DOMAIN p3' = DOMAIN p3 \cup {c.id} /\ p3'[c.id] = c.order
        /\ \A id \in DOMAIN p3 : id # c.id => p3'[id] = p3[id]
    BY <2>1 DEF Projects!Put
  <2>5. \A id \in Projects!About(c) : ProjectUnderway(c, id) => ProjectUnderway(new, id)'
    <3> SUFFICES ASSUME ProjectUnderway(c, c.id) PROVE ProjectUnderway(new, c.id)'
      BY <1>c, <2>1 DEF Projects!Whole
    <3>1. LiveOne(c.id) /\ c.order = p2[c.id].order
      BY <2>1 DEF ProjectUnderway
    <3>2. ListIs(p3, c.id)' /\ ArchivedIs(c.id)' /\ LiveOne(c.id)'
      BY <1>a, <2>1, <2>4, <3>1 DEF ListIs, ArchivedIs
    <3> QED
      BY <2>2, <3>2 DEF ProjectUnderway
  <2>6. \A id : Sure(id)' /\ id \notin Projects!About(c) => Still(id)
    BY <1>d, <1>e, <2>1, <2>4 DEF Still
  <2> DEFINE N == {new}
  <2>7. \A d \in N : Projects!About(d) = Projects!About(c) /\ (d.kind = "tasks" => d.open \subseteq {d.id})
    BY <2>2, <2>3
  <2>8. N = {new} /\ new \in N /\ p10' = (p10 \ {c}) \cup N
    BY <2>1
  <2> HIDE DEF N
  <2> QED
    BY <2>1, <2>5, <2>6, <2>7, <2>8, ProjectsKept
<1>11. CASE Projects!OrderFails(c)
  <2> DEFINE Stray(d) == [d EXCEPT !.kind = IF d.kind = "order" THEN "stray" ELSE d.kind]
             new == Projects!Call("fetch", Projects!None, 0, <<>>)
  <2>1. /\ p10' = {Stray(d) : d \in p10 \ {c}} \cup {new} /\ UNCHANGED <<p2, p4, p6, p9>> /\ c.kind = "order"
        /\ doubt' = doubt \cup ((UNION {Projects!About(d) : d \in p10 \ {c}}) \X {"crossed"})
    BY <1>11 DEF Projects!OrderFails
  <2>2. new.kind = "fetch" /\ new.phase = "sent"
    BY DEF Projects!Call
  <2>3. ASSUME NEW d \in p10
        PROVE  /\ Stray(d).kind = IF d.kind = "order" THEN "stray" ELSE d.kind
               /\ Stray(d).id = d.id /\ Stray(d).open = d.open
    BY DEF ProjectsInv, ProjectCalls, ProjectCall
  <2> HIDE DEF Stray, new
  <2>4. \A e \in p10' : e.kind = "tasks" => e.open \subseteq {e.id}
    <3> SUFFICES ASSUME NEW e \in p10', e.kind = "tasks" PROVE e.open \subseteq {e.id}
      OBVIOUS
    <3>1. PICK d \in p10 : e = Stray(d)
      BY <2>1, <2>2
    <3>2. d.kind = "tasks" /\ e.id = d.id /\ e.open = d.open
      BY <2>3, <3>1
    <3> QED
      BY <3>2 DEF ProjectsKnown
  <2>5. ASSUME NEW id, Sure(id)', ~p9'
        PROVE  /\ ArchivedIs(id)
               /\ \A d \in p10 \ {c} : id \notin Projects!About(d)
    <3>1. Sure(id)
      BY <2>1, <2>5, SureStays
    <3>2. \A d \in p10 \ {c} : id \notin Projects!About(d)
      <4> SUFFICES ASSUME NEW d \in p10 \ {c}, id \in Projects!About(d) PROVE FALSE
        OBVIOUS
      <4>1. <<id, "crossed">> \in doubt' /\ <<id, "crossed">>[1] = id
        BY <2>1
      <4> QED
        BY <2>5, <4>1 DEF Sure
    <3>3. CASE id \in Projects!About(c)
      <4>1. ProjectUnderway(c, id)
        BY <2>1, <2>5, <3>1, <3>3 DEF ProjectsKnown
      <4> QED
        BY <2>1, <3>2, <4>1 DEF ProjectUnderway
    <3>4. CASE id \notin Projects!About(c)
      <4>1. Agree(id)
        BY <2>1, <2>5, <3>1, <3>2, <3>4 DEF ProjectsKnown
      <4> QED
        BY <3>2, <4>1 DEF Agree
    <3> QED
      BY <3>2, <3>3, <3>4
  <2>6. ASSUME NEW id, Sure(id)', ~p9', NEW e \in p10', id \in Projects!About(e)
        PROVE  ProjectUnderway(e, id)'
    <3>1. CASE e = new
      BY <1>a, <2>1, <2>2, <2>5, <2>6, <3>1 DEF ProjectUnderway, ArchivedIs
    <3>2. CASE e # new
      <4>1. PICK d \in p10 \ {c} : e = Stray(d)
        BY <2>1, <3>2
      <4>2. id \in Projects!About(d)
        BY <2>3, <2>6, <4>1 DEF Projects!About, Projects!Whole
      <4> QED
        BY <2>5, <2>6, <4>2
    <3> QED
      BY <3>1, <3>2
  <2>7. \A id : Sure(id)' => \E e \in p10' : id \in Projects!About(e)
    BY <1>e, <2>1, <2>2 DEF Projects!About, Projects!Whole
  <2> QED
    BY <2>4, <2>6, <2>7 DEF ProjectsKnown
<1> QED
  BY <1>1, <1>2, <1>3, <1>4, <1>5, <1>6, <1>7, <1>8, <1>9, <1>10, <1>11, Zenon DEF Projects!Answer

LEMMA ProjectsKnownMoves == ProjectsInv /\ ProjectsKnown /\ Projects!Next => ProjectsKnown'
  BY ProjectsUserKnown, ProjectsServerKnown, ProjectsAnswerKnown, Zenon DEF Projects!Next, Projects!CallMoves

-----------------------------------------------------------------------------
(* The projects: what their lists hold, and that a drag has an order.      *)

\* A list, or the table, of finitely many projects.
Listing(f, V) ==
    /\ IsFiniteSet(DOMAIN f) /\ DOMAIN f \subseteq ProjectIds
    /\ \A id \in DOMAIN f : f[id] \in V

LEMMA ListingChanged ==
    ASSUME NEW f, NEW V, Listing(f, V), NEW id \in ProjectIds, NEW v \in V
    PROVE  /\ Listing(Projects!Put(f, id, v), V)
           /\ Listing(Projects!Set(f, id, v), V)
           /\ Listing(Projects!Drop(f, id), V)
<1>1. Listing(Projects!Put(f, id, v), V)
  BY FS_AddElement DEF Listing, Projects!Put
<1>2. Listing(Projects!Drop(f, id), V)
  BY FS_RemoveElement DEF Listing, Projects!Drop, Projects!Restrict
<1> QED
  BY <1>1, <1>2 DEF Projects!Set

LEMMA NoListing == ASSUME NEW V PROVE Listing(<<>>, V)
  BY EmptyTable, FS_EmptySet DEF Listing

LEMMA CardinalityIs == \A S : Projects!Cardinality(S) = Cardinality(S)
  BY DEF Projects!Cardinality, Cardinality

\* A list of all of S, n long.
AllIn(s, n, S) == s \in [1..n -> S] /\ \A x \in S : \E i \in 1..n : s[i] = x

\* Whatever their order_index, the sections have an order, and all are in it.
LEMMA AllSorted ==
    ASSUME NEW f, Listing(f, Nat)
    PROVE  Cardinality(DOMAIN f) \in Nat /\ AllIn(Projects!Sorted(f), Cardinality(DOMAIN f), DOMAIN f)
<1> DEFINE S == DOMAIN f
           n == Cardinality(S)
           less(x, y) == f[x] < f[y] \/ (f[x] = f[y] /\ x < y)
           R == {p \in S \X S : less(p[1], p[2])}
           sorted(s) == s \in [1..n -> S] /\ \A i, j \in 1..n : i < j => less(s[i], s[j])
<1>1. IsFiniteSet(S) /\ n \in Nat /\ S \subseteq Nat /\ \A x \in S : f[x] \in Nat
  BY FS_CardinalityType, ProjectIdsAssumption DEF Listing
<1>2. \A x, y \in S : <<x, y>> \in R <=> less(x, y)
  OBVIOUS
<1>3. IsOrder(R, S)
  <2>1. \A x, y, z \in S : less(x, y) /\ less(y, z) => less(x, z)
    BY <1>1
  <2>2. \A x, y \in S : x # y => less(x, y) \/ less(y, x)
    BY <1>1
  <2>3. \A x \in S : ~less(x, x)
    BY <1>1
  <2> HIDE DEF R, less, S
  <2> QED
    BY <1>2, <2>1, <2>2, <2>3 DEF IsOrder
<1>4. \E s : sorted(s)
  <2>1. PICK s : IsListing(s, S, R)
    BY <1>1, <1>3, SetListed
  <2>2. sorted(s)
    <3> HIDE DEF R, less
    <3> QED
      BY <1>2, <2>1 DEF IsListing
  <2> QED
    BY <2>2
<1>5. Projects!Sorted(f) = CHOOSE s \in [1..n -> S] : \A i, j \in DOMAIN s : i < j => less(s[i], s[j])
  BY CardinalityIs DEF Projects!Sorted
<1>6. \E s \in [1..n -> S] : \A i, j \in DOMAIN s : i < j => less(s[i], s[j])
  BY <1>4
<1>7. sorted(Projects!Sorted(f))
  <2>1. PICK s : s = Projects!Sorted(f)
    OBVIOUS
  <2>2. s \in [1..n -> S] /\ \A i, j \in DOMAIN s : i < j => less(s[i], s[j])
    <3> HIDE DEF less, n, S
    <3> QED
      BY <1>5, <1>6, <2>1, Zenon
  <2> QED
    BY <2>1, <2>2
<1>8. \A i, j \in 1..n : i < j => Projects!Sorted(f)[i] # Projects!Sorted(f)[j]
  BY <1>1, <1>7
<1> QED
  <2> HIDE DEF less, R
  <2> QED
    BY <1>1, <1>7, <1>8, ListedOnce DEF AllIn

\* A drag moves one section and loses none.
LEMMA AllMoved ==
    ASSUME NEW S, NEW n \in Nat, NEW s, AllIn(s, n, S), NEW from \in 1..n, NEW to \in 1..n
    PROVE  AllIn(Projects!Moved(s, from, to), n, S)
<1> DEFINE rest == [i \in 1..(n - 1) |-> IF i < from THEN s[i] ELSE s[i + 1]]
           m == [i \in 1..n |-> IF i < to THEN rest[i] ELSE IF i = to THEN s[from] ELSE rest[i - 1]]
<1>1. s \in [1..n -> S] /\ (\A x \in S : \E i \in 1..n : s[i] = x) /\ s \in Seq(S) /\ Len(s) = n
  BY DEF AllIn
<1>2. Projects!Moved(s, from, to) = m
  BY <1>1 DEF Projects!Moved
<1>3. \A i \in 1..(n - 1) : rest[i] = (IF i < from THEN s[i] ELSE s[i + 1]) /\ rest[i] \in S
  BY <1>1
<1> HIDE DEF rest
<1>4. \A i \in 1..n : m[i] \in S
  <2> SUFFICES ASSUME NEW i \in 1..n PROVE m[i] \in S
    OBVIOUS
  <2>1. CASE i < to
    BY <1>3, <2>1
  <2>2. CASE i = to
    BY <1>1, <2>2
  <2>3. CASE i > to
    <3>1. i - 1 \in 1..(n - 1)
      BY <2>3
    <3> QED
      BY <1>3, <2>3, <3>1
  <2> QED
    BY <2>1, <2>2, <2>3
<1>5. m \in [1..n -> S]
  BY <1>4
<1>6. ASSUME NEW x \in S PROVE \E i \in 1..n : m[i] = x
  <2>1. PICK k \in 1..n : s[k] = x
    BY <1>1
  <2>2. CASE k = from
    <3>1. m[to] = s[from]
      OBVIOUS
    <3> QED
      BY <2>1, <2>2, <3>1
  <2>3. ASSUME NEW q \in 1..(n - 1), rest[q] = x PROVE \E i \in 1..n : m[i] = x
    <3>1. CASE q < to
      BY <2>3, <3>1
    <3>2. CASE q >= to
      <4>1. q + 1 \in 1..n /\ q + 1 > to /\ (q + 1) - 1 = q
        BY <3>2
      <4>2. m[q + 1] = rest[q]
        BY <4>1
      <4> QED
        BY <2>3, <4>1, <4>2
    <3> QED
      BY <3>1, <3>2
  <2>4. CASE k < from
    BY <1>3, <2>1, <2>3, <2>4
  <2>5. CASE k > from
    <3>1. k - 1 \in 1..(n - 1) /\ ~(k - 1 < from) /\ (k - 1) + 1 = k
      BY <2>5
    <3> QED
      BY <1>3, <2>1, <2>3, <3>1
  <2> QED
    BY <2>2, <2>4, <2>5
<1> HIDE DEF m
<1> QED
  BY <1>2, <1>5, <1>6 DEF AllIn


ProjectCallTyped(c) ==
    /\ ProjectCall(c) /\ c.kind \in Projects!Kinds
    /\ c.id \in ProjectIds \cup {0} /\ (c.kind \notin {"fetch", "archived"} => c.id \in ProjectIds)
    /\ c.order \in Nat /\ Listing(c.list, Nat) /\ c.open \subseteq ProjectIds

Doubts == (ProjectIds \cup {0}) \X (Projects!Kinds \cup {"crossed"})

ProjectsTyped ==
    /\ p1 \in SUBSET Projects!Groups
    /\ Listing(p2, Projects!Project) /\ Listing(p3, Nat)
    /\ p4 \subseteq ProjectIds /\ p6 \subseteq ProjectIds
    /\ p5 \in BOOLEAN /\ p8 \in BOOLEAN /\ p9 \in BOOLEAN
    /\ p7.active \in BOOLEAN /\ Listing(p7.prev, Nat)
    /\ \A c \in p10 : ProjectCallTyped(c)
    /\ doubt \subseteq Doubts /\ acts \in Nat /\ faults \in Nat

LEMMA ProjectsAreTyped == ProjectsTyped => Projects!TypeOK
  BY DEF ProjectsTyped, Projects!TypeOK, Listing, ProjectCallTyped, Doubts, Projects!None

LEMMA ProjectCallNew ==
    ASSUME NEW k \in Projects!Kinds, NEW id \in ProjectIds \cup {0}, k \notin {"fetch", "archived"} => id \in ProjectIds,
           NEW o \in Nat, NEW l, Listing(l, Nat)
    PROVE  ProjectCallTyped(Projects!Call(k, id, o, l))
  BY DEF ProjectCallTyped, ProjectCall, Projects!Call

LEMMA CrossedAre ==
    ASSUME NEW new, NEW old, \A c \in new \cup old : ProjectCallTyped(c)
    PROVE  Projects!Cross(new, old) \X {"crossed"} \subseteq Doubts
<1>1. \A c \in new \cup old : Projects!About(c) \subseteq ProjectIds \cup {0}
  BY DEF ProjectCallTyped, Projects!About
<1>2. Projects!Cross(new, old) \subseteq ProjectIds \cup {0}
  BY <1>1 DEF Projects!Cross
<1> QED
  BY <1>2 DEF Doubts

LEMMA ProjectsTypedStart == Projects!Init => ProjectsTyped
<1> SUFFICES ASSUME Projects!Init PROVE ProjectsTyped
  OBVIOUS
<1>1. PICK v \in ProjectVisits : p1 = v.groups /\ acts = v.acts /\ faults = v.faults
  BY DEF Projects!Init
<1>2. v \in [groups : SUBSET Projects!Groups, acts : Nat, faults : Nat]
  BY VisitsAssumption
<1>3. PICK n \in ProjectIds : \E a \in SUBSET (1..n) :
         p2 = [i \in 1..n |-> [order |-> i - 1, archived |-> i \in a, pending |-> FALSE]]
  BY Zenon DEF Projects!Init
<1>3a. PICK a \in SUBSET (1..n) :
         p2 = [i \in 1..n |-> [order |-> i - 1, archived |-> i \in a, pending |-> FALSE]]
  BY <1>3, Zenon
<1>4. Listing(p2, Projects!Project)
  <2>1. n \in Nat /\ 1..n \subseteq ProjectIds /\ IsFiniteSet(1..n)
    BY ProjectIdsAssumption, FS_Interval
  <2>2. \A i \in 1..n : (i \in a) \in BOOLEAN /\ i - 1 \in Nat
    BY <2>1
  <2>3. DOMAIN p2 = 1..n /\ \A i \in 1..n : p2[i] = [order |-> i - 1, archived |-> i \in a, pending |-> FALSE]
    BY <1>3a
  <2>4. \A i \in 1..n : p2[i] \in Projects!Project
    <3>1. \A o \in Nat, b \in BOOLEAN : [order |-> o, archived |-> b, pending |-> FALSE] \in Projects!Project
      BY DEF Projects!Project
    <3> QED
      BY <2>2, <2>3, <3>1, Zenon
  <2> QED
    BY <2>1, <2>3, <2>4 DEF Listing
<1>5. /\ p3 = <<>> /\ p4 = {} /\ p5 = FALSE /\ p6 = {} /\ p7 = Projects!Rest /\ p8 = TRUE /\ p9 = FALSE
      /\ p10 = {Projects!Call("fetch", 0, 0, <<>>)} /\ doubt = {}
  BY DEF Projects!Init, Projects!None
<1>6. \A c \in p10 : ProjectCallTyped(c)
  BY <1>5, ProjectCallNew, NoListing DEF Projects!Kinds
<1>7. p7.active = FALSE /\ p7.prev = <<>>
  BY <1>5 DEF Projects!Rest
<1> QED
  BY <1>1, <1>2, <1>4, <1>5, <1>6, <1>7, NoListing DEF ProjectsTyped

LEMMA ProjectsUserTyped == ProjectsTyped /\ Projects!UserActs => ProjectsTyped'
<1> SUFFICES ASSUME ProjectsTyped, Projects!UserActs PROVE ProjectsTyped'
  OBVIOUS
<1>a. acts' \in Nat
  BY DEF ProjectsTyped, Projects!UserActs
<1>b. ASSUME NEW new, \A c \in new : ProjectCallTyped(c), Projects!Put2Wire(new, p10)
      PROVE  (\A c \in p10' : ProjectCallTyped(c)) /\ doubt' \subseteq Doubts
  <2>1. Projects!Cross(new, p10) \X {"crossed"} \subseteq Doubts
    BY <1>b, CrossedAre DEF ProjectsTyped
  <2> QED
    BY <1>b, <2>1 DEF Projects!Put2Wire, ProjectsTyped
<1>c. ASSUME NEW group, NEW k, NEW id, NEW o, NEW l, ProjectCallTyped(Projects!Call(k, id, o, l)),
             Projects!Send(group, {Projects!Call(k, id, o, l)}), p5' \in BOOLEAN, p6' = p6
      PROVE  ProjectsTyped'
  <2>1. (\A c \in p10' : ProjectCallTyped(c)) /\ doubt' \subseteq Doubts /\ UNCHANGED <<p1, p2, p3, p4, p7, p8, p9, faults>>
    BY <1>b, <1>c DEF Projects!Send
  <2> QED
    BY <1>a, <1>c, <2>1 DEF ProjectsTyped
<1>1. ASSUME NEW from \in 1..Projects!Cardinality(DOMAIN p3), NEW to \in 1..Projects!Cardinality(DOMAIN p3),
             Projects!Reorder(from, to)
      PROVE  ProjectsTyped'
  <2> DEFINE n == Cardinality(DOMAIN p3)
             s == Projects!Moved(Projects!Sorted(p3), from, to)
             next == [id \in DOMAIN p3 |-> CHOOSE i \in 0..(Len(s) - 1) : s[i + 1] = id]
             changed == {id \in DOMAIN p3 : next[id] # p3[id]}
             sent == {Projects!Call("order", id, next[id], <<>>) : id \in changed}
  <2>1. Listing(p3, Nat) /\ n \in Nat /\ from \in 1..n /\ to \in 1..n
    BY AllSorted, CardinalityIs DEF ProjectsTyped
  <2>2. Len(s) = n /\ \A id \in DOMAIN p3 : \E i \in 0..(n - 1) : s[i + 1] = id
    <3>1. AllIn(s, n, DOMAIN p3)
      <4>1. PICK q : q = Projects!Sorted(p3)
        OBVIOUS
      <4>2. AllIn(q, n, DOMAIN p3)
        BY <2>1, <4>1, AllSorted
      <4>3. AllIn(Projects!Moved(q, from, to), n, DOMAIN p3)
        <5> HIDE DEF n
        <5> QED
          BY <2>1, <4>2, AllMoved
      <4> QED
        BY <4>1, <4>3
    <3> HIDE DEF s, n
    <3>2. Len(s) = n
      BY <2>1, <3>1 DEF AllIn
    <3>3. ASSUME NEW id \in DOMAIN p3 PROVE \E i \in 0..(n - 1) : s[i + 1] = id
      <4>1. PICK k \in 1..n : s[k] = id
        BY <3>1 DEF AllIn
      <4>2. k - 1 \in 0..(n - 1) /\ (k - 1) + 1 = k
        BY <2>1
      <4> QED
        BY <4>1, <4>2
    <3> QED
      BY <3>2, <3>3
  <2>3. /\ p3' = next /\ Projects!Put2Wire(sent, p10)
        /\ p7' = IF changed = {} THEN p7 ELSE [active |-> TRUE, prev |-> p3]
        /\ UNCHANGED <<p1, p2, p4, p5, p6, p8, p9, faults>>
    BY <1>1, Zenon DEF Projects!Reorder
  <2> HIDE DEF s, n
  <2>4. \A id \in DOMAIN p3 : next[id] \in Nat
    <3> SUFFICES ASSUME NEW id \in DOMAIN p3 PROVE next[id] \in Nat
      OBVIOUS
    <3>1. \E i \in 0..(Len(s) - 1) : s[i + 1] = id
      BY <2>2
    <3>2. next[id] = CHOOSE i \in 0..(Len(s) - 1) : s[i + 1] = id
      OBVIOUS
    <3>3. next[id] \in 0..(Len(s) - 1)
      <4> HIDE DEF next
      <4> QED
        BY <3>1, <3>2, Zenon
    <3> QED
      BY <3>3
  <2>5. DOMAIN next = DOMAIN p3
    OBVIOUS
  <2> HIDE DEF next
  <2>6. Listing(p3', Nat)
    BY <2>1, <2>3, <2>4, <2>5 DEF Listing
  <2>7. \A id \in DOMAIN p3 : ProjectCallTyped(Projects!Call("order", id, next[id], <<>>))
    BY <2>1, <2>4, ProjectCallNew, NoListing DEF Listing, Projects!Kinds, Projects!Groups
  <2>8. (\A c \in p10' : ProjectCallTyped(c)) /\ doubt' \subseteq Doubts
    <3>1. \A c \in sent : ProjectCallTyped(c)
      BY <2>7
    <3> HIDE DEF sent
    <3> QED
      BY <1>b, <2>3, <3>1
  <2>9. p7'.active \in BOOLEAN /\ Listing(p7'.prev, Nat)
    BY <2>1, <2>3 DEF ProjectsTyped
  <2> QED
    BY <1>a, <2>3, <2>6, <2>8, <2>9 DEF ProjectsTyped
<1>2. CASE Projects!CloseArchive
  BY <1>a, <1>2 DEF Projects!CloseArchive, ProjectsTyped
<1>3. CASE Projects!OpenArchive
  <2>1. ProjectCallTyped(Projects!Call("archived", 0, 0, <<>>))
    BY ProjectCallNew, NoListing DEF Projects!Kinds
  <2> QED
    BY <1>3, <1>c, <2>1 DEF Projects!OpenArchive, Projects!None
<1>4. ASSUME NEW id \in ProjectIds,
             \/ Projects!DeleteProject(id) \/ Projects!RenameProject(id)
             \/ Projects!ArchiveProject(id) \/ Projects!CreateTask(id) \/ Projects!RestoreProject(id)
      PROVE  ProjectsTyped'
  <2>1. \A k \in Projects!Groups : k # "create" => ProjectCallTyped(Projects!Call(k, id, 0, <<>>))
    BY ProjectCallNew, NoListing DEF Projects!Kinds, Projects!Groups
  <2>2. {"delete", "rename", "archive", "task", "restore"} \subseteq Projects!Groups
    BY DEF Projects!Groups
  <2>3. p5 \in BOOLEAN
    BY DEF ProjectsTyped
  <2> QED
    BY <1>4, <1>c, <2>1, <2>2, <2>3 DEF Projects!DeleteProject, Projects!RenameProject,
       Projects!ArchiveProject, Projects!CreateTask, Projects!RestoreProject
<1>5. ASSUME NEW id \in ProjectIds, Projects!CreateProject(id) PROVE ProjectsTyped'
  <2>1. Listing(p3, Nat) /\ Cardinality(DOMAIN p3) \in Nat /\ p5 \in BOOLEAN
    BY FS_CardinalityType DEF ProjectsTyped, Listing
  <2>2. ProjectCallTyped(Projects!Call("create", id, Cardinality(DOMAIN p3), p3))
    BY <2>1, ProjectCallNew DEF Projects!Kinds, Projects!Groups
  <2> QED
    BY <1>5, <1>c, <2>1, <2>2, CardinalityIs DEF Projects!CreateProject
<1> QED
  BY <1>1, <1>2, <1>3, <1>4, <1>5, Zenon DEF Projects!UserActs

LEMMA ProjectWrittenTyped ==
    ASSUME ProjectsTyped, NEW c \in p10, Projects!Serve(c)
    PROVE  /\ Listing(Projects!Written(c), Projects!Project)
           /\ c.kind \in {"rename", "restore"} => c.id \in DOMAIN Projects!Written(c)
<1> DEFINE w == Projects!Written(c)
<1>1. ProjectCallTyped(c) /\ Listing(p2, Projects!Project) /\ c.kind \notin Projects!Reads
      /\ (c.kind # "create" => c.id \in DOMAIN p2) /\ c.id \in ProjectIds
  BY DEF ProjectsTyped, Projects!Serve, Projects!Refused, ProjectCallTyped, Projects!Reads
<1>2. CASE c.kind = "create"
  <2>1. w = Projects!Put(p2, c.id, [order |-> c.order, archived |-> FALSE, pending |-> FALSE])
    BY <1>2 DEF Projects!Written
  <2>2. [order |-> c.order, archived |-> FALSE, pending |-> FALSE] \in Projects!Project
    BY <1>1 DEF Projects!Project, ProjectCallTyped
  <2> QED
    BY <1>1, <1>2, <2>1, <2>2, ListingChanged
<1>3. CASE c.kind = "delete"
  <2>1. w = Projects!Drop(p2, c.id)
    BY <1>3 DEF Projects!Written
  <2>2. p2[c.id] \in Projects!Project
    BY <1>1, <1>3 DEF Listing
  <2> QED
    BY <1>1, <1>3, <2>1, <2>2, ListingChanged
<1>4. CASE c.kind \notin {"create", "delete"}
  <2>1. /\ \/ w = [p2 EXCEPT ![c.id].order = c.order] \/ w = [p2 EXCEPT ![c.id].archived = TRUE]
           \/ w = [p2 EXCEPT ![c.id].archived = FALSE] \/ w = [p2 EXCEPT ![c.id].pending = TRUE] \/ w = p2
        /\ c.order \in Nat /\ c.id \in DOMAIN p2
    BY <1>1, <1>4 DEF Projects!Written, ProjectCallTyped
  <2>2. \A id \in DOMAIN p2 : p2[id] \in Projects!Project
    BY <1>1 DEF Listing
  <2>3. DOMAIN w = DOMAIN p2 /\ \A id \in DOMAIN p2 : w[id] \in Projects!Project
    BY <2>1, <2>2 DEF Projects!Project
  <2> QED
    BY <1>1, <2>1, <2>3 DEF Listing
<1> QED
  BY <1>2, <1>3, <1>4

LEMMA ProjectsServerTyped ==
    ASSUME ProjectsTyped, NEW c \in p10, Projects!Serve(c) \/ Projects!Refuse(c) \/ Projects!ServeRead(c)
    PROVE  ProjectsTyped'
<1>a. ProjectCallTyped(c) /\ Listing(p2, Projects!Project)
  BY DEF ProjectsTyped
<1>b. ASSUME NEW d, ProjectCallTyped(d), p10' = (p10 \ {c}) \cup {d}, Listing(p2', Projects!Project), faults' \in Nat,
             UNCHANGED <<p1, p3, p4, p5, p6, p7, p8, p9, doubt, acts>>
      PROVE  ProjectsTyped'
  BY <1>b DEF ProjectsTyped
<1>1. ASSUME NEW table, NEW phase, Projects!Reply(c, table, phase), Listing(table, Projects!Project), faults' \in Nat,
             phase = "ok" /\ c.kind \in {"rename", "restore"} => c.id \in DOMAIN table
      PROVE  ProjectsTyped'
  <2> PICK o : o = IF c.kind \in {"rename", "restore"} /\ phase = "ok" THEN table[c.id].order ELSE c.order
    OBVIOUS
  <2>1. o \in Nat
    BY <1>1, <1>a DEF Listing, Projects!Project, ProjectCallTyped
  <2> PICK d : d = [c EXCEPT !.phase = phase, !.order = o]
    OBVIOUS
  <2>2. ProjectCallTyped(d)
    BY <1>a, <2>1 DEF ProjectCallTyped, ProjectCall
  <2>3. /\ p10' = (p10 \ {c}) \cup {d} /\ p2' = table
        /\ UNCHANGED <<p1, p3, p4, p5, p6, p7, p8, p9, doubt, acts>>
    BY <1>1 DEF Projects!Reply
  <2> QED
    BY <1>1, <1>b, <2>2, <2>3
<1>2. CASE Projects!Serve(c)
  <2>1. Projects!Reply(c, Projects!Written(c), "ok") /\ faults' \in Nat
    BY <1>2 DEF Projects!Serve, ProjectsTyped
  <2> QED
    BY <1>1, <1>2, <2>1, ProjectWrittenTyped
<1>3. CASE Projects!Refuse(c)
  BY <1>1, <1>3, <1>a DEF Projects!Refuse, ProjectsTyped
<1>4. CASE Projects!ServeRead(c)
  <2>1. PICK d \in Projects!Found(c) : p10' = (p10 \ {c}) \cup {d}
    BY <1>4 DEF Projects!ServeRead
  <2>2. c.kind \in {"fetch", "archived", "tasks"} /\ UNCHANGED <<p1, p2, p3, p4, p5, p6, p7, p8, p9, doubt, acts, faults>>
    BY <1>4 DEF Projects!ServeRead, Projects!Reads
  <2>3. Listing(Projects!Orders(p2), Nat) /\ Projects!WithOpen(p2) \subseteq ProjectIds
    <3>1. Projects!Live(p2) \subseteq DOMAIN p2
      BY DEF Projects!Live
    <3>2. IsFiniteSet(Projects!Live(p2))
      BY <1>a, <3>1, FS_Subset DEF Listing
    <3>3. /\ DOMAIN Projects!Orders(p2) = Projects!Live(p2)
          /\ \A id \in Projects!Live(p2) : Projects!Orders(p2)[id] = p2[id].order
      BY DEF Projects!Orders
    <3>4. \A id \in DOMAIN p2 : p2[id].order \in Nat
      BY <1>a DEF Listing, Projects!Project
    <3> QED
      BY <1>a, <3>1, <3>2, <3>3, <3>4 DEF Listing, Projects!WithOpen
  <2>4. ProjectCallTyped(d)
    <3> PICK list : list = Projects!Orders(p2)
      OBVIOUS
    <3> PICK open : open = Projects!WithOpen(p2)
      OBVIOUS
    <3>1. CASE c.kind = "archived"
      <4>1. d = [c EXCEPT !.open = DOMAIN p2 \ Projects!Live(p2), !.phase = "ok"]
        BY <2>1, <3>1 DEF Projects!Found
      <4>2. DOMAIN p2 \ Projects!Live(p2) \subseteq ProjectIds
        BY <1>a DEF Listing
      <4> QED
        BY <1>a, <4>1, <4>2 DEF ProjectCallTyped, ProjectCall
    <3>2. CASE c.kind = "tasks"
      <4> PICK found : found = {i \in DOMAIN p2 : i = c.id /\ p2[i].pending}
        OBVIOUS
      <4>1. d = [c EXCEPT !.open = found, !.phase = "ok"]
        BY <2>1, <3>2 DEF Projects!Found
      <4>2. found \subseteq ProjectIds
        BY <1>a DEF Listing
      <4> QED
        BY <1>a, <4>1, <4>2 DEF ProjectCallTyped, ProjectCall
    <3>3. CASE c.kind = "fetch"
      <4>1. \E ph : d = [c EXCEPT !.list = list, !.phase = ph] \/ d = [c EXCEPT !.open = open, !.phase = ph]
        BY <2>1, <3>3, <1>a DEF Projects!Found, ProjectCallTyped, ProjectCall
      <4>2. Listing(list, Nat) /\ open \subseteq ProjectIds
        BY <2>3
      <4> QED
        BY <1>a, <4>1, <4>2 DEF ProjectCallTyped, ProjectCall
    <3> QED
      BY <2>2, <3>1, <3>2, <3>3
  <2> QED
    BY <1>a, <1>b, <2>1, <2>2, <2>4 DEF ProjectsTyped
<1> QED
  BY <1>2, <1>3, <1>4


LEMMA ProjectsAnswerTyped == ASSUME ProjectsTyped, NEW c \in p10, Projects!Answer(c) PROVE ProjectsTyped'
<1>a. /\ ProjectCallTyped(c) /\ Listing(p3, Nat) /\ faults' \in Nat
      /\ (c.kind \notin {"fetch", "archived"} => c.id \in ProjectIds)
  <2>1. faults' \in Nat
    BY DEF ProjectsTyped, Projects!Answer, Projects!OrderAnswered, Projects!OrderFails, Projects!StrayEnds,
       Projects!FetchAnswered, Projects!FetchFails, Projects!CreateAnswered, Projects!RenameAnswered,
       Projects!TaskAnswered, Projects!GoneAnswered, Projects!RestoreAnswered, Projects!TasksAnswered,
       Projects!ArchivedAnswered, Projects!CallFails, Projects!Failing
  <2> QED
    BY <2>1 DEF ProjectsTyped, ProjectCallTyped
<1>b. Projects!Rest.active = FALSE /\ Projects!Rest.prev = <<>>
  BY DEF Projects!Rest
<1>c. ASSUME Projects!Done(c), Listing(p3', Nat), p4' \subseteq ProjectIds, p6' \subseteq ProjectIds,
             p5' = p5, p8' \in BOOLEAN, p9' \in BOOLEAN, p7' \in {p7, Projects!Rest}, doubt' \subseteq Doubts
      PROVE  ProjectsTyped'
  <2>1. p10' = p10 \ {c} /\ UNCHANGED <<p1, p2, acts>>
    BY <1>c DEF Projects!Done
  <2>2. p7'.active \in BOOLEAN /\ Listing(p7'.prev, Nat)
    BY <1>b, <1>c, NoListing DEF ProjectsTyped
  <2> QED
    BY <1>a, <1>c, <2>1, <2>2 DEF ProjectsTyped
<1>1. CASE Projects!OrderAnswered(c)
  <2>1. Projects!Done(c) /\ p7' \in {p7, Projects!Rest} /\ UNCHANGED <<p3, p4, p5, p6, p8, p9, doubt>>
    BY <1>1 DEF Projects!OrderAnswered
  <2> QED
    BY <1>c, <2>1 DEF ProjectsTyped
<1>2. CASE Projects!OrderFails(c)
  <2> DEFINE Stray(d) == [d EXCEPT !.kind = IF d.kind = "order" THEN "stray" ELSE d.kind]
             new == Projects!Call("fetch", Projects!None, 0, <<>>)
             left == p10 \ {c}
             crossed == UNION {Projects!About(d) : d \in left}
  <2>1. /\ p3' = p7.prev /\ p10' = {Stray(d) : d \in left} \cup {new} /\ doubt' = doubt \cup (crossed \X {"crossed"})
        /\ UNCHANGED <<p1, p2, p4, p5, p6, p7, p8, p9, acts>>
    BY <1>2 DEF Projects!OrderFails
  <2>2. ProjectCallTyped(new)
    BY ProjectCallNew, NoListing DEF Projects!Kinds, Projects!None
  <2>3. \A d \in p10 : ProjectCallTyped(Stray(d))
    <3> SUFFICES ASSUME NEW d \in p10 PROVE ProjectCallTyped(Stray(d))
      OBVIOUS
    <3>1. ProjectCallTyped(d)
      BY DEF ProjectsTyped
    <3>2. "stray" \in Projects!Kinds
      BY DEF Projects!Kinds
    <3> QED
      BY <3>1, <3>2 DEF ProjectCallTyped, ProjectCall
  <2>4. \A d \in p10 : Projects!About(d) \subseteq ProjectIds \cup {0}
    BY DEF ProjectsTyped, ProjectCallTyped, Projects!About
  <2>5. crossed \X {"crossed"} \subseteq Doubts
    BY <2>4 DEF Doubts
  <2> HIDE DEF Stray, new, crossed
  <2>6. \A d \in p10' : ProjectCallTyped(d)
    BY <2>1, <2>2, <2>3
  <2> QED
    BY <1>a, <2>1, <2>5, <2>6 DEF ProjectsTyped
<1>3. CASE Projects!StrayEnds(c)
  BY <1>3, <1>c DEF Projects!StrayEnds, ProjectsTyped
<1>4. CASE Projects!FetchAnswered(c)
  BY <1>4, <1>a, <1>c DEF Projects!FetchAnswered, ProjectsTyped, ProjectCallTyped
<1>5. CASE Projects!FetchFails(c)
  BY <1>5, <1>a, <1>c DEF Projects!FetchFails, ProjectsTyped
<1>6. CASE Projects!CreateAnswered(c)
  <2>1. Listing(p3', Nat)
    BY <1>6, <1>a, ListingChanged DEF Projects!CreateAnswered, ProjectCallTyped
  <2> QED
    BY <1>6, <1>c, <2>1 DEF Projects!CreateAnswered, ProjectsTyped
<1>7. CASE Projects!RenameAnswered(c)
  <2>1. Listing(p3', Nat)
    BY <1>7, <1>a, ListingChanged DEF Projects!RenameAnswered, ProjectCallTyped
  <2> QED
    BY <1>7, <1>c, <2>1 DEF Projects!RenameAnswered, ProjectsTyped
<1>8. CASE Projects!TaskAnswered(c)
  <2>1. p4' \subseteq ProjectIds
    BY <1>8, <1>a DEF Projects!TaskAnswered, ProjectsTyped
  <2> QED
    BY <1>8, <1>c, <2>1 DEF Projects!TaskAnswered, ProjectsTyped
<1>9. CASE Projects!GoneAnswered(c)
  <2>1. c.kind \in {"archive", "delete"} /\ p3' = Projects!Drop(p3, c.id) /\ p4' \subseteq p4
        /\ doubt' \in {doubt, doubt \cup {<<c.id, "delete">>}} /\ Projects!Done(c) /\ UNCHANGED <<p5, p6, p7, p8, p9>>
    BY <1>9 DEF Projects!GoneAnswered
  <2>2. Listing(p3', Nat)
    BY <1>a, <2>1, ListingChanged
  <2>3. <<c.id, "delete">> \in Doubts
    BY <1>a, <2>1 DEF Doubts, Projects!Kinds, Projects!Groups
  <2> QED
    BY <1>c, <2>1, <2>2, <2>3 DEF ProjectsTyped
<1>10. CASE Projects!RestoreAnswered(c)
  <2>1. /\ c.kind = "restore" /\ p6' \subseteq p6 /\ p3' = Projects!Put(p3, c.id, c.order)
        /\ p10' = (p10 \ {c}) \cup {Projects!Call("tasks", c.id, 0, <<>>)}
        /\ UNCHANGED <<p1, p2, p4, p5, p7, p8, p9, doubt, acts, faults>>
    BY <1>10 DEF Projects!RestoreAnswered
  <2>2. Listing(p3', Nat)
    BY <1>a, <2>1, ListingChanged DEF ProjectCallTyped
  <2>3. ProjectCallTyped(Projects!Call("tasks", c.id, 0, <<>>))
    BY <1>a, <2>1, ProjectCallNew, NoListing DEF Projects!Kinds
  <2>4. \A d \in p10' : ProjectCallTyped(d)
    BY <2>1, <2>3 DEF ProjectsTyped
  <2> QED
    BY <2>1, <2>2, <2>4 DEF ProjectsTyped
<1>11. CASE Projects!TasksAnswered(c)
  BY <1>11, <1>a, <1>c DEF Projects!TasksAnswered, ProjectsTyped, ProjectCallTyped
<1>12. CASE Projects!ArchivedAnswered(c)
  BY <1>12, <1>a, <1>c DEF Projects!ArchivedAnswered, ProjectsTyped, ProjectCallTyped
<1>13. CASE Projects!CallFails(c)
  <2>1. <<c.id, c.kind>> \in Doubts
    BY <1>a DEF Doubts, ProjectCallTyped
  <2> QED
    BY <1>13, <1>c, <2>1 DEF Projects!CallFails, ProjectsTyped
<1> QED
  BY <1>1, <1>2, <1>3, <1>4, <1>5, <1>6, <1>7, <1>8, <1>9, <1>10, <1>11, <1>12, <1>13, Zenon DEF Projects!Answer

LEMMA ProjectsTypedMoves == ProjectsTyped /\ Projects!Next => ProjectsTyped'
  BY ProjectsUserTyped, ProjectsServerTyped, ProjectsAnswerTyped, Zenon DEF Projects!Next, Projects!CallMoves

LEMMA ProjectsAreSettled == ProjectsTyped /\ ProjectsKnown => Projects!ProjectsSettle /\ Projects!ArchiveIsApart
<1> SUFFICES ASSUME ProjectsTyped, ProjectsKnown, p10 = {}, ~p9
             PROVE  Projects!ProjectsSettle /\ (p6 \cap DOMAIN p3) \subseteq Projects!Doubted
  BY DEF Projects!ProjectsSettle, Projects!ArchiveIsApart
<1>1. \A id \in ProjectIds \ Projects!Doubted : Agree(id)
  BY DEF ProjectsKnown, Sure, Projects!Doubted
<1>2. Projects!ProjectsSettle
  BY <1>1 DEF Projects!ProjectsSettle, Agree, ListIs, PendingIs, LiveOne, Busy, Projects!Live
<1> QED
  BY <1>1, <1>2 DEF ProjectsTyped, Agree, ListIs, ArchivedIs, LiveOne, Away

-----------------------------------------------------------------------------
(* The settings of the wallet: what the rows show.                         *)

\* What a row is without what was typed in it.
Base(row) == IF row.orig # "none" THEN row.orig ELSE row.text

Present(r) == p2[r] = Settings!NoRow <=> p1[r] = Settings!Absent
Matches(r) == Present(r) /\ p2[r].pos = p1[r].pos /\ Base(p2[r]) = p1[r].text

Ours     == Waited \cup p7.saved \cup Todo
Finished == {c \in Ours : c.phase = "done"}

\* The calls of a save are of its kind, and of the drafts two of a row say the same.
SettingsCalls ==
    /\ p7.kind \in {"none", "template", "plain", "drafts", "reload", "sort", "load"}
    /\ \A c \in Ours : c.row \in Settings!Rows
    /\ \A c \in p7.saved : c.phase = "done"
    /\ \A c \in Todo : c.phase = "sent"
    /\ p7.kind = "plain"  => \A c \in Waited : c.kind = "patch" /\ c.row \notin Templates
    /\ p7.kind = "reload" => \A c \in Waited : c.kind \in {"delete", "add"}
    /\ p7.kind = "sort"   => \A c \in Waited : c.kind = "sort"
    /\ p7.kind = "drafts" => \A c, d \in Ours : c.row = d.row => c.text = d.text /\ c.pos = d.pos

\* Nothing was saved in the rows no call has been answered about.
OthersMatch == \A r \in Settings!Rows : (\A c \in Finished : c.row # r) => Matches(r)

PatchesKnown ==
    /\ \A c \in Ours : p2[c.row] # Settings!NoRow
    /\ \A c \in Finished : p1[c.row].text = c.text /\ p1[c.row].pos = c.pos
    /\ OthersMatch
ChangeKnown ==
    /\ \A c \in Ours : c.kind = "add" => p2[c.row] = Settings!NoRow
    /\ \A c \in Finished : c.kind = "delete" => p1[c.row] = Settings!Absent
    /\ OthersMatch
OrderKnown ==
    /\ \A r \in Templates :
          /\ Present(r) /\ Base(p2[r]) = p1[r].text
          /\ (\A c \in Waited : c.row = r => c.phase = "done") => p2[r].pos = p1[r].pos
    /\ \A c \in Waited : c.row \in Templates => c.pos = p2[c.row].pos
DraftsKnown == \A r \in Templates : Settings!HasDraft(p2[r]) /\ p1[r] # Settings!Absent => Matches(r)

\* What is known of the server when nothing crossed or was lost: between saves, when a
\* load is on its way, and while the calls of a save are answered.
SettingsFresh ==
    ~doubt =>
        /\ p7.kind = "none" /\ ~p4 => \A r \in Settings!Rows : Matches(r)
        /\ p7.kind \in {"none", "load"} => DraftsKnown
        /\ p7.kind = "load" => p4
        /\ p7.kind \in {"template", "plain", "drafts"} => PatchesKnown
        /\ p7.kind = "reload" => ChangeKnown
        /\ p7.kind = "sort" => OrderKnown

SettingsKnown == SettingsCalls /\ SettingsFresh

LEMMA SettingsAreSettled == SettingsInv /\ SettingsKnown => Settings!SettingsAreTheServers
<1> SUFFICES ASSUME SettingsInv, SettingsKnown, Settings!Idle, ~p4, ~doubt
             PROVE  \A r \in Settings!Rows :
                       /\ (p2[r] = Settings!NoRow) = (p1[r] = Settings!Absent)
                       /\ p2[r].pos = p1[r].pos
                       /\ (IF p2[r].orig # Settings!None THEN p2[r].orig ELSE p2[r].text) = p1[r].text
  BY DEF Settings!SettingsAreTheServers
<1>1. p7.kind = "none"
  BY DEF Settings!Idle, Settings!NoSave, Settings!None
<1>2. \A r \in Settings!Rows : Matches(r)
  BY <1>1 DEF SettingsKnown, SettingsFresh
<1> QED
  BY <1>2 DEF Matches, Present, Base, Settings!None

LEMMA SettingsKnownStart == Settings!Init => SettingsKnown
<1> SUFFICES ASSUME Settings!Init PROVE SettingsKnown
  OBVIOUS
<1>1. /\ p2 = [r \in Settings!Rows |-> Settings!NoRow] /\ p7 = Settings!NoSave /\ p8 = {} /\ p4 = TRUE
  BY DEF Settings!Init
<1>2. Ours = {} /\ p7.kind = "none"
  BY <1>1 DEF Ours, Waited, Todo, Settings!NoSave, Settings!None
<1>3. \A r \in Templates : ~Settings!HasDraft(p2[r])
  BY <1>1 DEF Settings!HasDraft, Settings!NoRow, Settings!Rows
<1>4. SettingsCalls
  BY <1>2 DEF SettingsCalls, Ours
<1> QED
  BY <1>1, <1>2, <1>3, <1>4 DEF SettingsKnown, SettingsFresh, DraftsKnown

\* The rows keep what they are without what is typed.
SameRow(r) ==
    /\ p2'[r] = Settings!NoRow <=> p2[r] = Settings!NoRow
    /\ p2'[r].pos = p2[r].pos
    /\ Base(p2'[r]) = Base(p2[r])

LEMMA SameOurs == UNCHANGED <<p7, p8>> => Waited' = Waited /\ Ours' = Ours /\ Finished' = Finished /\ Todo' = Todo
  BY DEF Waited, Ours, Finished, Todo

LEMMA SettingsQuiet ==
    ASSUME SettingsKnown, UNCHANGED <<p1, p7, p8, doubt>>, \A r \in Settings!Rows : SameRow(r),
           ~p4' => ~p4,
           \A r \in Templates : Settings!HasDraft(p2'[r]) => Settings!HasDraft(p2[r]) \/ ~p4
    PROVE  SettingsKnown'
<1>1. Waited' = Waited /\ Ours' = Ours /\ Finished' = Finished /\ Todo' = Todo
  BY SameOurs
<1>2. SettingsCalls'
  BY <1>1 DEF SettingsKnown, SettingsCalls
<1>3. \A r \in Settings!Rows : (Matches(r) => Matches(r)') /\ (Present(r) => Present(r)')
  BY DEF Matches, Present, SameRow
<1>4. Templates \subseteq Settings!Rows
  BY DEF Settings!Rows
<1>5. (OthersMatch => OthersMatch') /\ \A c \in Ours : c.row \in Settings!Rows
  BY <1>1, <1>3 DEF OthersMatch, SettingsKnown, SettingsCalls
<1>6. PatchesKnown => PatchesKnown'
  BY <1>1, <1>5 DEF PatchesKnown, SameRow
<1>7. ChangeKnown => ChangeKnown'
  BY <1>1, <1>5 DEF ChangeKnown, SameRow
<1>8. OrderKnown => OrderKnown'
  BY <1>1, <1>3, <1>4 DEF OrderKnown, SameRow
<1>9. ASSUME ~doubt, p7.kind \in {"none", "load"} PROVE DraftsKnown'
  <2>1. DraftsKnown /\ (~p4 => \A r \in Settings!Rows : Matches(r))
    BY <1>9 DEF SettingsKnown, SettingsFresh
  <2> QED
    BY <1>3, <1>4, <2>1 DEF DraftsKnown
<1>10. SettingsFresh'
  BY <1>3, <1>6, <1>7, <1>8, <1>9 DEF SettingsKnown, SettingsFresh
<1> QED
  BY <1>2, <1>10 DEF SettingsKnown

\* A handler starts to save.
LEMMA SettingsBegun ==
    ASSUME SettingsInv, SettingsKnown, NEW kind, NEW now, NEW later, Settings!Start(kind, now, later),
           \A c \in now : c.stray = FALSE
    PROVE  /\ Waited' = now /\ Todo' = {later[i] : i \in DOMAIN later} /\ Ours' = now \cup Todo'
           /\ p7'.kind = kind /\ p7'.saved = {} /\ p4' = p4 /\ doubt' = doubt
           /\ ~doubt => \A r \in Settings!Rows : Matches(r)
<1> DEFINE s == [kind |-> kind, merging |-> p3, todo |-> later, saved |-> {}]
<1>1. /\ p7 = Settings!NoSave /\ p7' = s /\ p8' = p8 \cup now /\ UNCHANGED <<p4, doubt>> /\ ~p4
  BY DEF Settings!Start, Settings!CanEdit, Settings!Idle
<1>2. s.kind = kind /\ s.todo = later /\ s.saved = {}
  OBVIOUS
<1> HIDE DEF s
<1>3. p7.kind = "none"
  BY <1>1 DEF Settings!NoSave, Settings!None
<1>4. Waited = {}
  BY <1>3 DEF SettingsInv, OneSave
<1>5. Waited' = now /\ Todo' = {later[i] : i \in DOMAIN later}
  BY <1>1, <1>2, <1>4 DEF Waited, Todo
<1>6. Ours' = now \cup Todo'
  BY <1>1, <1>2, <1>5 DEF Ours
<1>7. ~doubt => \A r \in Settings!Rows : Matches(r)
  BY <1>1, <1>3 DEF SettingsKnown, SettingsFresh
<1> QED
  BY <1>1, <1>2, <1>5, <1>6, <1>7

LEMMA SettingsBegin ==
    ASSUME SettingsInv, SettingsKnown, NEW kind \in {"template", "plain", "drafts", "reload"},
           NEW now, NEW later, Settings!Start(kind, now, later), UNCHANGED <<p1, p2>>,
           \A c \in now : c.row \in Settings!Rows /\ c.phase = "sent" /\ c.stray = FALSE,
           \A i \in DOMAIN later : later[i].row \in Settings!Rows /\ later[i].phase = "sent",
           kind = "plain"  => \A c \in now : c.kind = "patch" /\ c.row \notin Templates,
           kind = "reload" => \A c \in now : c.kind \in {"delete", "add"}
                                             /\ (c.kind = "add" => p2[c.row] = Settings!NoRow),
           kind = "reload" => DOMAIN later = {},
           kind = "drafts" => \E S : /\ now \subseteq S /\ \A i \in DOMAIN later : later[i] \in S
                                     /\ \A c, d \in S : c.row = d.row => c = d,
           kind # "reload" => /\ \A c \in now : p2[c.row] # Settings!NoRow
                              /\ \A i \in DOMAIN later : p2[later[i].row] # Settings!NoRow
    PROVE  SettingsKnown'
<1>1. /\ Waited' = now /\ Todo' = {later[i] : i \in DOMAIN later} /\ Ours' = now \cup Todo'
      /\ p7'.kind = kind /\ p7'.saved = {} /\ p4' = p4 /\ doubt' = doubt
      /\ ~doubt => \A r \in Settings!Rows : Matches(r)
  BY SettingsBegun
<1>2. /\ \A c \in Ours' : c.row \in Settings!Rows /\ c.phase = "sent" /\ (kind # "reload" => p2[c.row] # Settings!NoRow)
      /\ kind = "reload" => Ours' = now
      /\ kind = "drafts" => \A c, d \in Ours' : c.row = d.row => c = d
  BY <1>1
<1>3. Finished' = {}
  BY <1>2 DEF Finished
<1>4. SettingsCalls'
  BY <1>1, <1>2 DEF SettingsCalls
<1>5. ~doubt => OthersMatch'
  BY <1>1 DEF OthersMatch, Matches, Present
<1>6. SettingsFresh'
  <2>1. CASE kind = "reload"
    BY <1>1, <1>2, <1>3, <1>5, <2>1 DEF SettingsFresh, ChangeKnown
  <2>2. CASE kind \in {"template", "plain", "drafts"}
    BY <1>1, <1>2, <1>3, <1>5, <2>2 DEF SettingsFresh, PatchesKnown
  <2> QED
    BY <2>1, <2>2
<1> QED
  BY <1>4, <1>6 DEF SettingsKnown

LEMMA RevertedSame ==
    ASSUME NEW x, RowShaped(x), x # Settings!NoRow => x.text # "none"
    PROVE  /\ Settings!Reverted(x) = Settings!NoRow <=> x = Settings!NoRow
           /\ Settings!Reverted(x).pos = x.pos /\ Base(Settings!Reverted(x)) = Base(x)
<1>1. CASE x.orig = "none"
  BY <1>1 DEF Settings!Reverted, Settings!None
<1>2. CASE x.orig # "none"
  <2> PICK y : y = [x EXCEPT !.text = x.orig, !.orig = "none"]
    OBVIOUS
  <2>1. Settings!Reverted(x) = y
    BY <1>2 DEF Settings!Reverted, Settings!None
  <2>2. y.text = x.orig /\ y.orig = "none" /\ y.pos = x.pos
    BY DEF RowShaped
  <2>3. Settings!NoRow.text = "none" /\ Settings!NoRow.orig = "none"
    BY DEF Settings!NoRow, Settings!None
  <2> QED
    BY <1>2, <2>1, <2>2, <2>3 DEF Base
<1> QED
  BY <1>1, <1>2

LEMMA SettingsTypesKnown ==
    ASSUME SettingsInv, SettingsKnown, NEW r \in Settings!Rows,
           (\E t \in Settings!Texts : Settings!Edit(r, t)) \/ Settings!Revert(r)
    PROVE  SettingsKnown'
<1>1. /\ p2 = [q \in Settings!Rows |-> p2[q]]
      /\ \A q \in Settings!Rows : RowShaped(p2[q]) /\ (p2[q] # Settings!NoRow => p2[q].text # "none")
  BY DEF SettingsInv, SettingsShaped, SettingsSay
<1>2. UNCHANGED <<p1, p4, p7, p8, doubt>> /\ ~p4
  BY DEF Settings!Edit, Settings!Revert, Settings!CanEdit
<1>3. CASE \E t \in Settings!Texts : Settings!Edit(r, t)
  <2>1. PICK t \in Settings!Texts : Settings!Edit(r, t)
    BY <1>3
  <2> DEFINE o == IF p2[r].orig = "none" THEN p2[r].text ELSE p2[r].orig
             y == [p2[r] EXCEPT !.text = t, !.orig = o]
  <2>2. p2' = [p2 EXCEPT ![r].text = t, ![r].orig = IF @ = "none" THEN p2[r].text ELSE @] /\ p2[r] # Settings!NoRow
    BY <2>1 DEF Settings!Edit, Settings!None, Settings!Shown
  <2>3. t # "none" /\ p2[r].text # "none"
    BY <1>1, <2>2, TextsAssumption DEF Settings!Texts
  <2>4. y.text = t /\ y.orig = o /\ y.pos = p2[r].pos
    BY <1>1 DEF RowShaped
  <2>5. p2' = [q \in Settings!Rows |-> IF q = r THEN y ELSE p2[q]]
    BY <1>1, <2>2 DEF RowShaped
  <2> HIDE DEF y
  <2>6. SameRow(r)
    <3>1. p2'[r] = y /\ o # "none"
      BY <2>3, <2>5
    <3>2. Settings!NoRow.text = "none"
      BY DEF Settings!NoRow, Settings!None
    <3>3. Base(p2'[r]) = o /\ Base(p2[r]) = o
      BY <2>4, <3>1 DEF Base
    <3>4. p2'[r] # Settings!NoRow
      BY <2>3, <2>4, <3>1, <3>2
    <3> QED
      BY <2>2, <2>4, <3>1, <3>3, <3>4 DEF SameRow
  <2>7. \A q \in Settings!Rows : SameRow(q)
    BY <2>5, <2>6 DEF SameRow
  <2> QED
    BY <1>2, <2>7, SettingsQuiet
<1>4. CASE Settings!Revert(r)
  <2>1. p2' = [p2 EXCEPT ![r] = Settings!Reverted(p2[r])] /\ p2[r].orig # "none"
    BY <1>4 DEF Settings!Revert, Settings!None
  <2>2. SameRow(r)
    BY <1>1, <2>1, RevertedSame DEF SameRow
  <2>3. \A q \in Settings!Rows : SameRow(q)
    BY <1>1, <2>1, <2>2 DEF SameRow
  <2> QED
    BY <1>2, <2>3, SettingsQuiet
<1> QED
  BY <1>3, <1>4

LEMMA SettingsGoesKnown ==
    ASSUME SettingsInv, SettingsKnown,
           \/ Settings!EnterSettings \/ Settings!GoAway \/ Settings!Refresh
           \/ Settings!RequestLeave \/ Settings!CancelLeave
           \/ \E list \in Settings!Lists, t \in Settings!Texts : Settings!TypeForm(list, t)
    PROVE  SettingsKnown'
<1>1. \A q \in Settings!Rows : RowShaped(p2[q]) /\ (p2[q] # Settings!NoRow => p2[q].text # "none")
  BY DEF SettingsInv, SettingsShaped, SettingsSay
<1>2. CASE Settings!GoAway
  <2>1. /\ UNCHANGED <<p1, p7, p8, doubt>> /\ p4'
        /\ p2' = [r \in Settings!Rows |-> IF r \in Templates THEN Settings!Reverted(p2[r]) ELSE p2[r]]
    BY <1>2 DEF Settings!GoAway, Settings!Goto
  <2>2. \A r \in Settings!Rows : SameRow(r)
    BY <1>1, <2>1, RevertedSame DEF SameRow
  <2>3. \A r \in Templates : ~Settings!HasDraft(p2'[r])
    <3>1. \A r \in Templates : RowShaped(p2[r]) /\ p2'[r] = Settings!Reverted(p2[r])
      BY <1>1, <2>1 DEF Settings!Rows
    <3> QED
      BY <3>1 DEF Settings!HasDraft, Settings!Reverted, Settings!None, RowShaped
  <2> QED
    BY <2>1, <2>2, <2>3, SettingsQuiet
<1>3. ASSUME UNCHANGED <<p1, p2, p7, p8, doubt>>, ~p4' => ~p4 PROVE SettingsKnown'
  <2>1. \A r \in Settings!Rows : SameRow(r)
    BY <1>3 DEF SameRow
  <2> QED
    BY <1>3, <2>1, SettingsQuiet
<1>4. CASE Settings!EnterSettings \/ Settings!Refresh \/ Settings!RequestLeave \/ Settings!CancelLeave
  <2>1. UNCHANGED <<p1, p2, p7, p8, doubt>> /\ (p4' = TRUE \/ p4' = p4)
    BY <1>4 DEF Settings!EnterSettings, Settings!Refresh, Settings!RequestLeave, Settings!CancelLeave, Settings!Goto
  <2> QED
    BY <1>3, <2>1
<1>5. ASSUME NEW list \in Settings!Lists, NEW t \in Settings!Texts, Settings!TypeForm(list, t) PROVE SettingsKnown'
  BY <1>3, <1>5 DEF Settings!TypeForm
<1> QED
  BY <1>2, <1>4, <1>5

LEMMA SettingsSavesKnown ==
    ASSUME SettingsInv, SettingsKnown, NEW q \in Settings!Rows, Settings!SaveRow(q)
    PROVE  SettingsKnown'
<1> DEFINE c == Settings!Patch(q)
           now == {c}
<1>1. p2[q] # Settings!NoRow /\ UNCHANGED p2
  BY DEF Settings!SaveRow, Settings!Shown
<1>2. c.kind = "patch" /\ c.row = q /\ c.phase = "sent" /\ c.stray = FALSE
  BY DEF Settings!Patch, Settings!Call
<1>3. PICK kind \in {"template", "plain"} : Settings!Start(kind, now, <<>>) /\ (kind = "plain" => q \notin Templates)
  BY DEF Settings!SaveRow
<1>4. UNCHANGED p1 /\ DOMAIN <<>> = {}
  BY <1>3 DEF Settings!Start
<1> HIDE DEF c
<1>5. ASSUME NEW later, later = <<>>, Settings!Start(kind, now, later) PROVE SettingsKnown'
  <2>1. DOMAIN later = {}
    BY <1>4, <1>5
  <2>2. \A d \in now : d.row \in Settings!Rows /\ d.phase = "sent" /\ d.stray = FALSE /\ d.kind = "patch" /\ d.row = q
    BY <1>2
  <2> HIDE DEF now
  <2> QED
    BY <1>1, <1>3, <1>4, <1>5, <2>1, <2>2, SettingsBegin
<1> QED
  BY <1>3, <1>5

LEMMA SettingsChangesKnown ==
    ASSUME SettingsInv, SettingsKnown,
           \/ \E q \in Settings!Rows : Settings!DeleteRow(q)
           \/ \E list \in Settings!Lists : Settings!AddRow(list)
    PROVE  SettingsKnown'
<1>1. PICK c : /\ c.row \in Settings!Rows /\ c.phase = "sent" /\ c.stray = FALSE /\ c.kind \in {"delete", "add"}
               /\ c.kind = "add" => p2[c.row] = Settings!NoRow
               /\ Settings!Start("reload", {c}, <<>>) /\ p2' = p2
  <2>a. \A k, r, t, n : LET c == Settings!Call(k, r, t, n) IN c.kind = k /\ c.row = r /\ c.phase = "sent" /\ c.stray = FALSE
    BY DEF Settings!Call
  <2>1. CASE \E q \in Settings!Rows : Settings!DeleteRow(q)
    <3>1. PICK r \in Settings!Rows : Settings!DeleteRow(r)
      BY <2>1
    <3> PICK c : c = Settings!Call("delete", r, Settings!None, 0)
      OBVIOUS
    <3>2. Settings!Start("reload", {c}, <<>>) /\ p2' = p2
      BY <3>1 DEF Settings!DeleteRow
    <3>3. c.row = r /\ c.kind = "delete" /\ c.phase = "sent" /\ c.stray = FALSE
      BY <2>a
    <3> QED
      BY <3>2, <3>3
  <2>2. CASE \E list \in Settings!Lists : Settings!AddRow(list)
    <3>1. PICK list \in Settings!Lists : Settings!AddRow(list)
      BY <2>2
    <3>2. PICK r \in list : /\ p2[r] = Settings!NoRow
                            /\ Settings!Start("reload", {Settings!Call("add", r, p6[list],
                                                  Settings!Cardinality(Settings!Shown(list)) + 1)}, <<>>)
      BY <3>1, Zenon DEF Settings!AddRow
    <3>3. r \in Settings!Rows /\ p2' = p2
      BY <3>1 DEF Settings!AddRow, Settings!Lists, Settings!Rows
    <3> PICK c : c = Settings!Call("add", r, p6[list], Settings!Cardinality(Settings!Shown(list)) + 1)
      OBVIOUS
    <3>4. c.row = r /\ c.kind = "add" /\ c.phase = "sent" /\ c.stray = FALSE
      BY <2>a
    <3> QED
      BY <3>2, <3>3, <3>4
  <2> QED
    BY <2>1, <2>2
<1> DEFINE now == {c}
<1>2. UNCHANGED p1 /\ DOMAIN <<>> = {}
  BY <1>1 DEF Settings!Start
<1>3. ASSUME NEW later, later = <<>>, NEW kind, kind = "reload", Settings!Start(kind, now, later) PROVE SettingsKnown'
  <2>1. DOMAIN later = {}
    BY <1>2, <1>3
  <2>2. \A d \in now : d = c
    OBVIOUS
  <2> HIDE DEF now
  <2> QED
    BY <1>1, <1>2, <1>3, <2>1, <2>2, SettingsBegin
<1> QED
  BY <1>1, <1>3

LEMMA SettingsDraftsKnown ==
    ASSUME SettingsInv, SettingsKnown, Settings!SaveDrafts
    PROVE  SettingsKnown'
<1> DEFINE ds == Settings!Drafts(p2)
           n  == Settings!Cardinality(ds)
<1>2. /\ ds # {} /\ UNCHANGED p2
      /\ \E order \in [1..n -> ds] :
            Settings!Start("drafts", {Head([i \in DOMAIN order |-> Settings!Patch(order[i])])},
                           Tail([i \in DOMAIN order |-> Settings!Patch(order[i])]))
  BY DEF Settings!SaveDrafts, Settings!InOrder
<1>3. PICK order \in [1..n -> ds] :
            Settings!Start("drafts", {Head([i \in DOMAIN order |-> Settings!Patch(order[i])])},
                           Tail([i \in DOMAIN order |-> Settings!Patch(order[i])]))
  BY <1>2
<1> DEFINE queue == [i \in 1..n |-> Settings!Patch(order[i])]
           now   == {Head(queue)}
           later == Tail(queue)
<1>4. Settings!Start("drafts", now, later) /\ UNCHANGED p1
  BY <1>3 DEF Settings!Start
<1>5. n \in Nat \ {0}
  <2>1. ds \subseteq Templates
    BY DEF Settings!Drafts
  <2>2. IsFiniteSet(ds)
    BY <2>1, FS_Subset, SettingsRowsAssumption
  <2>3. n = Cardinality(ds)
    BY DEF Settings!Cardinality, Cardinality
  <2> QED
    BY <1>2, <2>2, <2>3, FS_CardinalityType, FS_EmptySet
<1>6. \A q \in ds : /\ q \in Settings!Rows /\ p2[q] # Settings!NoRow
                    /\ Settings!Patch(q).row = q /\ Settings!Patch(q).phase = "sent" /\ Settings!Patch(q).stray = FALSE
  BY DEF Settings!Drafts, Settings!Rows, Settings!HasDraft, Settings!NoRow, Settings!Patch, Settings!Call
<1> HIDE DEF ds, n
<1> DEFINE Calls == {Settings!Patch(q) : q \in ds}
<1>7. queue \in Seq(Calls) /\ queue # <<>> /\ DOMAIN queue = 1..n
  BY <1>5
<1>8. \A i \in DOMAIN queue : queue[i] \in Calls
  BY <1>7
<1>9. /\ \A c \in Calls : c.row \in Settings!Rows /\ c.phase = "sent" /\ c.stray = FALSE /\ p2[c.row] # Settings!NoRow
      /\ \A c, d \in Calls : c.row = d.row => c = d
  BY <1>6
<1> HIDE DEF queue, Calls
<1>10. Head(queue) \in Calls /\ \A i \in DOMAIN later : later[i] \in Calls
  BY <1>7, <1>8, TailOf DEF IsSeq
<1>11. now \subseteq Calls /\ \A i \in DOMAIN later : later[i] \in Calls
  BY <1>10
<1> HIDE DEF now, later
<1>12. ASSUME NEW kind, kind = "drafts", Settings!Start(kind, now, later) PROVE SettingsKnown'
  BY <1>2, <1>4, <1>9, <1>11, <1>12, SettingsBegin
<1> QED
  BY <1>4, <1>12

LEMMA RowPlaced ==
    ASSUME NEW x, RowShaped(x), NEW n
    PROVE  LET y == [x EXCEPT !.pos = n, !.orig = Settings!None]
           IN  y.text = x.text /\ y.pos = n /\ y.orig = "none"
  BY DEF RowShaped, Settings!None

LEMMA RevertedText ==
    ASSUME NEW x, RowShaped(x)
    PROVE  RowShaped(Settings!Reverted(x)) /\ Settings!Reverted(x).text = Base(x)
  BY DEF RowShaped, Settings!Reverted, Settings!None, Base

LEMMA SettingsReordersKnown ==
    ASSUME SettingsInv, SettingsKnown, NEW list \in Settings!Lists, NEW q \in list, NEW n, Settings!Reorder(list, q, n)
    PROVE  SettingsKnown'
<1>1. \A r \in Settings!Rows : RowShaped(p2[r]) /\ (p2[r] # Settings!NoRow => p2[r].text # "none")
  BY DEF SettingsInv, SettingsShaped, SettingsSay
<1>0. PICK others \in Settings!InOrder(Settings!Shown(list) \ {q}), dragged \in BOOLEAN :
         LET order    == Settings!InsertAt(others, n, q)
             Place(x) == 10 * CHOOSE m \in DOMAIN order : order[m] = x
         IN  /\ list = Templates => Settings!Drafts(p2) = {}
             /\ Settings!Start("sort", {Settings!Call("sort", x, Settings!None, Place(x)) :
                                           x \in Settings!Shown(list)}, <<>>)
             /\ p2' = [x \in Settings!Rows |->
                   IF x \notin Settings!Shown(list) THEN p2[x]
                   ELSE [(IF x = q /\ dragged THEN Settings!Reverted(p2[x]) ELSE p2[x])
                            EXCEPT !.pos = Place(x), !.orig = Settings!None]]
             /\ UNCHANGED p10
  BY Zenon DEF Settings!Reorder
<1> DEFINE order  == Settings!InsertAt(others, n, q)
           Place(x) == 10 * CHOOSE m \in DOMAIN order : order[m] = x
           now == {Settings!Call("sort", x, Settings!None, Place(x)) : x \in Settings!Shown(list)}
           Old(x) == IF x = q /\ dragged THEN Settings!Reverted(p2[x]) ELSE p2[x]
           Put(x) == [Old(x) EXCEPT !.pos = Place(x), !.orig = Settings!None]
<1>2. /\ list = Templates => Settings!Drafts(p2) = {}
      /\ Settings!Start("sort", now, <<>>)
      /\ p2' = [x \in Settings!Rows |-> IF x \notin Settings!Shown(list) THEN p2[x] ELSE Put(x)]
  BY <1>0
<1> HIDE DEF Place
<1>3. \A x \in Settings!Shown(list) : x \in list /\ p2[x] # Settings!NoRow
  BY DEF Settings!Shown
<1>4. list \subseteq Settings!Rows /\ Templates \subseteq Settings!Rows
  BY DEF Settings!Lists, Settings!Rows
<1>5. \A x \in Settings!Shown(list) :
         /\ Put(x).pos = Place(x) /\ Base(Put(x)) = Old(x).text
         /\ Put(x) # Settings!NoRow
         /\ Old(x).text = p2[x].text \/ Old(x).text = Base(p2[x])
  <2> TAKE x \in Settings!Shown(list)
  <2>1. RowShaped(p2[x]) /\ p2[x].text # "none"
    BY <1>1, <1>3, <1>4
  <2>2. RowShaped(Settings!Reverted(p2[x])) /\ Settings!Reverted(p2[x]).text = Base(p2[x]) /\ Base(p2[x]) # "none"
    BY <2>1, RevertedText DEF Base
  <2>3. RowShaped(Old(x)) /\ Old(x).text # "none" /\ (Old(x).text = p2[x].text \/ Old(x).text = Base(p2[x]))
    BY <2>1, <2>2
  <2> HIDE DEF Old
  <2>4. Put(x).pos = Place(x) /\ Put(x).text = Old(x).text /\ Put(x).orig = "none"
    BY <2>3, RowPlaced
  <2>5. Settings!NoRow.text = "none"
    BY DEF Settings!NoRow, Settings!None
  <2> HIDE DEF Put
  <2> QED
    BY <2>3, <2>4, <2>5 DEF Base
<1> HIDE DEF Put, Old
<1>6. /\ \A c \in now : /\ c.row \in Settings!Shown(list) /\ c.pos = Place(c.row)
                        /\ c.kind = "sort" /\ c.phase = "sent" /\ c.stray = FALSE
      /\ \A x \in Settings!Shown(list) : \E c \in now : c.row = x /\ c.phase = "sent"
  <2>1. \A x, y : LET c == Settings!Call("sort", x, Settings!None, y)
                  IN  c.kind = "sort" /\ c.row = x /\ c.pos = y /\ c.phase = "sent" /\ c.stray = FALSE
    BY DEF Settings!Call
  <2>2. ASSUME NEW c \in now
        PROVE  /\ c.row \in Settings!Shown(list) /\ c.pos = Place(c.row)
               /\ c.kind = "sort" /\ c.phase = "sent" /\ c.stray = FALSE
    <3>1. PICK x \in Settings!Shown(list) : c = Settings!Call("sort", x, Settings!None, Place(x))
      BY <2>2
    <3> QED
      BY <2>1, <3>1
  <2>3. ASSUME NEW x \in Settings!Shown(list) PROVE \E c \in now : c.row = x /\ c.phase = "sent"
    <3> PICK c : c = Settings!Call("sort", x, Settings!None, Place(x))
      OBVIOUS
    <3> QED
      BY <2>1
  <2> QED
    BY <2>2, <2>3
<1>7. UNCHANGED p1 /\ DOMAIN <<>> = {}
  BY <1>2 DEF Settings!Start
<1> HIDE DEF now
<1>8. /\ Waited' = now /\ Todo' = {} /\ Ours' = now
      /\ p7'.kind = "sort" /\ p7'.saved = {} /\ p4' = p4 /\ doubt' = doubt
      /\ ~doubt => \A r \in Settings!Rows : Matches(r)
  <2>1. ASSUME NEW later, later = <<>>, NEW kind, kind = "sort", Settings!Start(kind, now, later)
        PROVE  /\ Waited' = now /\ Todo' = {} /\ Ours' = now
               /\ p7'.kind = "sort" /\ p7'.saved = {} /\ p4' = p4 /\ doubt' = doubt
               /\ ~doubt => \A r \in Settings!Rows : Matches(r)
    <3>1. /\ Waited' = now /\ Todo' = {later[i] : i \in DOMAIN later} /\ Ours' = now \cup Todo'
          /\ p7'.kind = kind /\ p7'.saved = {} /\ p4' = p4 /\ doubt' = doubt
          /\ ~doubt => \A r \in Settings!Rows : Matches(r)
      <4>1. \A c \in now : c.stray = FALSE
        BY <1>6
      <4>2. Settings!Start(kind, now, later)
        BY <2>1
      <4> QED
        BY <4>1, <4>2, SettingsBegun
    <3> QED
      BY <1>7, <2>1, <3>1
  <2> QED
    BY <1>2, <2>1
<1>9. SettingsCalls'
  BY <1>3, <1>4, <1>6, <1>8 DEF SettingsCalls
<1>10. ASSUME ~doubt, NEW r \in Templates
       PROVE  /\ Present(r)' /\ Base(p2'[r]) = p1[r].text
              /\ (\A c \in now : c.row = r => c.phase = "done") => p2'[r].pos = p1[r].pos
  <2>1. Matches(r) /\ r \in Settings!Rows
    BY <1>4, <1>8, <1>10
  <2>2. CASE r \notin Settings!Shown(list)
    <3>1. p2'[r] = p2[r]
      BY <1>2, <2>1, <2>2
    <3> QED
      BY <1>7, <2>1, <3>1 DEF Matches, Present
  <2>3. CASE r \in Settings!Shown(list)
    <3>1. list = Templates
      BY <1>3, <2>3, SettingsRowsAssumption DEF Settings!Lists
    <3>2. ~Settings!HasDraft(p2[r])
      BY <1>2, <3>1 DEF Settings!Drafts
    <3>3. p2[r].text = Base(p2[r])
      BY <3>2 DEF Settings!HasDraft, Settings!None, Base
    <3>4. p2'[r] = Put(r)
      BY <1>2, <2>1, <2>3
    <3>5. \E c \in now : c.row = r /\ c.phase = "sent"
      BY <1>6, <2>3
    <3>6. p2'[r] # Settings!NoRow /\ Base(p2'[r]) = Base(p2[r]) /\ p2[r] # Settings!NoRow
      BY <1>3, <1>5, <2>3, <3>3, <3>4
    <3> QED
      BY <1>7, <2>1, <3>5, <3>6 DEF Matches, Present
  <2> QED
    BY <2>2, <2>3
<1>11. \A c \in now : c.row \in Templates => c.pos = p2'[c.row].pos
  BY <1>2, <1>4, <1>5, <1>6
<1>12. ~doubt => OrderKnown'
  BY <1>7, <1>8, <1>10, <1>11 DEF OrderKnown
<1>13. SettingsFresh'
  BY <1>8, <1>12 DEF SettingsFresh
<1> QED
  BY <1>9, <1>13 DEF SettingsKnown

LEMMA SettingsUserKnown == SettingsInv /\ SettingsKnown /\ Settings!UserActs => SettingsKnown'
<1> SUFFICES ASSUME SettingsInv, SettingsKnown, Settings!UserActs PROVE SettingsKnown'
  OBVIOUS
<1>1. ASSUME NEW r \in Settings!Rows,
             \/ \E t \in Settings!Texts : Settings!Edit(r, t)
             \/ Settings!Revert(r) \/ Settings!SaveRow(r) \/ Settings!DeleteRow(r)
      PROVE  SettingsKnown'
  BY <1>1, SettingsTypesKnown, SettingsSavesKnown, SettingsChangesKnown
<1>2. ASSUME NEW list \in Settings!Lists,
             \/ Settings!AddRow(list)
             \/ \E r \in list, i \in 1..Settings!Cardinality(list) : Settings!Reorder(list, r, i)
      PROVE  SettingsKnown'
  BY <1>2, SettingsChangesKnown, SettingsReordersKnown
<1>3. ASSUME \/ Settings!EnterSettings \/ Settings!GoAway \/ Settings!Refresh
             \/ Settings!RequestLeave \/ Settings!CancelLeave
             \/ \E list \in Settings!Lists, t \in Settings!Texts : Settings!TypeForm(list, t)
      PROVE  SettingsKnown'
  BY <1>3, SettingsGoesKnown
<1> QED
  BY <1>1, <1>2, <1>3, SettingsDraftsKnown, Zenon DEF Settings!UserActs

\* The server takes a call.
LEMMA SettingsServeKnown == ASSUME SettingsInv, SettingsKnown, NEW c \in p8, Settings!Serve(c) PROVE SettingsKnown'
<1> DEFINE d == [c EXCEPT !.phase = IF Settings!Refused(c) THEN "refused" ELSE "done"]
<1>1. /\ p8' = (p8 \ {c}) \cup {d} /\ UNCHANGED <<p2, p4, p7>> /\ c.phase = "sent" /\ doubt' = (doubt \/ c.stray)
      /\ p1' = IF Settings!Refused(c) THEN p1 ELSE [p1 EXCEPT ![c.row] =
            CASE c.kind \in {"patch", "add"} -> [text |-> c.text, pos |-> c.pos]
              [] c.kind = "sort"   -> [p1[c.row] EXCEPT !.pos = c.pos]
              [] c.kind = "delete" -> Settings!Absent]
  BY DEF Settings!Serve
<1>2. SettingCall(c)
  BY DEF SettingsInv, SettingsShaped
<1>3. /\ d.kind = c.kind /\ d.row = c.row /\ d.text = c.text /\ d.pos = c.pos /\ d.stray = c.stray
      /\ d.phase = IF Settings!Refused(c) THEN "refused" ELSE "done"
  BY <1>2 DEF SettingCall
<1> HIDE DEF d
<1>4. Todo' = Todo
  BY <1>1 DEF Todo
<1>5. CASE c.stray = TRUE
  <2>1. Waited' = Waited
    BY <1>1, <1>3, <1>5 DEF Waited
  <2>2. Ours' = Ours
    BY <1>1, <1>4, <2>1 DEF Ours
  <2>3. SettingsCalls'
    BY <1>1, <1>4, <2>1, <2>2 DEF SettingsKnown, SettingsCalls
  <2> QED
    BY <1>1, <1>5, <2>3 DEF SettingsKnown, SettingsFresh
<1>6. CASE c.stray = FALSE
  <2>1. c \in Waited /\ Waited' = (Waited \ {c}) \cup {d} /\ p7.kind \notin {"none", "load"}
    BY <1>1, <1>3, <1>6 DEF SettingsInv, OneSave, Waited
  <2>2. Ours' = (Waited \ {c}) \cup {d} \cup p7.saved \cup Todo /\ c \in Ours
    BY <1>1, <1>4, <1>6, <2>1 DEF Ours
  <2>3. c.row \in Settings!Rows
    BY <2>2 DEF SettingsKnown, SettingsCalls
  <2>4. \A e \in Ours' : \/ e \in Ours
                         \/ e.kind = c.kind /\ e.row = c.row /\ e.text = c.text /\ e.pos = c.pos
    BY <1>3, <2>2 DEF Ours
  <2>5. SettingsCalls'
    <3>1. /\ \A e \in Ours' : e.row \in Settings!Rows
          /\ \A e \in p7'.saved : e.phase = "done"
          /\ \A e \in Todo' : e.phase = "sent"
          /\ p7'.kind \in {"none", "template", "plain", "drafts", "reload", "sort", "load"}
      BY <1>1, <1>4, <2>3, <2>4 DEF SettingsKnown, SettingsCalls
    <3>2. /\ p7'.kind = "plain" => \A e \in Waited' : e.kind = "patch" /\ e.row \notin Templates
          /\ p7'.kind = "reload" => \A e \in Waited' : e.kind \in {"delete", "add"}
          /\ p7'.kind = "sort" => \A e \in Waited' : e.kind = "sort"
      BY <1>1, <1>3, <2>1 DEF SettingsKnown, SettingsCalls
    <3>3. p7'.kind = "drafts" => \A e, f \in Ours' : e.row = f.row => e.text = f.text /\ e.pos = f.pos
      <4> SUFFICES ASSUME p7.kind = "drafts", NEW e \in Ours', NEW f \in Ours', e.row = f.row
                   PROVE  e.text = f.text /\ e.pos = f.pos
        BY <1>1
      <4>1. PICK g \in Ours : g.row = e.row /\ g.text = e.text /\ g.pos = e.pos
        BY <2>2, <2>4
      <4>2. PICK h \in Ours : h.row = f.row /\ h.text = f.text /\ h.pos = f.pos
        BY <2>2, <2>4
      <4> QED
        BY <4>1, <4>2 DEF SettingsKnown, SettingsCalls
    <3> QED
      BY <3>1, <3>2, <3>3 DEF SettingsCalls
  <2>6. ~doubt' => ~doubt
    BY <1>1
  <2>7. CASE Settings!Refused(c)
    <3>1. p1' = p1 /\ d.phase = "refused"
      BY <1>1, <1>3, <2>7
    <3>2. Finished' = Finished
      BY <1>1, <2>2, <3>1 DEF Finished, Ours
    <3>3. \A r : (Matches(r) <=> Matches(r)') /\ (Present(r) <=> Present(r)')
      BY <1>1, <3>1 DEF Matches, Present
    <3>4. OthersMatch => OthersMatch'
      BY <3>2, <3>3 DEF OthersMatch
    <3>5. PatchesKnown => PatchesKnown'
      BY <1>1, <2>2, <2>4, <3>1, <3>2, <3>4 DEF PatchesKnown
    <3>6. ChangeKnown => ChangeKnown'
      BY <1>1, <2>2, <2>4, <3>1, <3>2, <3>4 DEF ChangeKnown
    <3>7. OrderKnown => OrderKnown'
      <4>1. \A r : (\A e \in Waited' : e.row = r => e.phase = "done") => (\A e \in Waited : e.row = r => e.phase = "done")
        BY <1>1, <1>3, <2>1, <3>1
      <4> QED
        BY <1>1, <1>3, <2>1, <3>1, <3>3, <4>1 DEF OrderKnown
    <3>8. SettingsFresh'
      BY <1>1, <2>1, <2>6, <3>5, <3>6, <3>7 DEF SettingsKnown, SettingsFresh
    <3> QED
      BY <2>5, <3>8 DEF SettingsKnown
  <2>8. CASE ~Settings!Refused(c)
    <3> DEFINE x == CASE c.kind \in {"patch", "add"} -> [text |-> c.text, pos |-> c.pos]
                      [] c.kind = "sort"   -> [p1[c.row] EXCEPT !.pos = c.pos]
                      [] c.kind = "delete" -> Settings!Absent
    <3>1. p1' = [p1 EXCEPT ![c.row] = x] /\ d.phase = "done"
      BY <1>1, <1>3, <2>8
    <3>2. /\ c.kind \in {"patch", "add"} => x.text = c.text /\ x.pos = c.pos
          /\ c.kind = "delete" => x = Settings!Absent
      OBVIOUS
    <3>3. c.kind = "sort" => x.text = p1[c.row].text /\ x.pos = c.pos /\ x # Settings!Absent /\ p1[c.row] # Settings!Absent
      <4> SUFFICES ASSUME c.kind = "sort"
                   PROVE  x.text = p1[c.row].text /\ x.pos = c.pos /\ x # Settings!Absent /\ p1[c.row] # Settings!Absent
        OBVIOUS
      <4>1. p1[c.row] \in [text : {p1[c.row].text}, pos : {p1[c.row].pos}]
            /\ p1[c.row] # Settings!Absent /\ p1[c.row].text # "none"
        BY <2>3, <2>8 DEF Settings!Refused, SettingsInv, SettingsShaped, SettingsSay
      <4>2. x = [p1[c.row] EXCEPT !.pos = c.pos]
        OBVIOUS
      <4>3. Settings!Absent.text = "none"
        BY DEF Settings!Absent, Settings!None
      <4> HIDE DEF x
      <4> QED
        BY <4>1, <4>2, <4>3
    <3> HIDE DEF x
    <3>4. p1'[c.row] = x /\ \A r \in Settings!Rows : r # c.row => p1'[r] = p1[r]
      BY <2>3, <3>1 DEF SettingsInv, SettingsShaped
    <3>5. \A r \in Settings!Rows : r # c.row => (Matches(r) <=> Matches(r)') /\ (Present(r) <=> Present(r)')
      BY <1>1, <3>4 DEF Matches, Present
    <3>6. Finished' = Finished \cup {d}
      BY <1>1, <2>2, <3>1 DEF Finished, Ours
    <3>7. OthersMatch => OthersMatch'
      BY <1>3, <3>5, <3>6 DEF OthersMatch
    <3>8. ASSUME p7.kind \in {"template", "plain", "drafts"}, PatchesKnown PROVE PatchesKnown'
      <4>1. c.kind = "patch"
        BY <2>1, <3>8 DEF SettingsKnown, SettingsCalls, SettingsInv, OneSave
      <4>2. ASSUME NEW e \in Finished' PROVE p1'[e.row].text = e.text /\ p1'[e.row].pos = e.pos
        <5>1. CASE e = d
          BY <1>3, <3>2, <3>4, <4>1, <5>1
        <5>2. CASE e # d
          <6>1. e \in Finished /\ e \in Ours /\ e.row \in Settings!Rows
            BY <3>6, <4>2, <5>2 DEF Finished, SettingsKnown, SettingsCalls
          <6>2. p1[e.row].text = e.text /\ p1[e.row].pos = e.pos
            BY <3>8, <6>1 DEF PatchesKnown
          <6>3. e.row = c.row => e.text = c.text /\ e.pos = c.pos
            <7>1. p7.kind = "drafts" \/ e = c
              <8>1. \A f \in Waited : f = c
                BY <2>1, <3>8 DEF SettingsInv, OneSave
              <8>2. p7.kind # "drafts" => p7.saved = {}
                BY <2>1 DEF SettingsInv, OneSave
              <8>3. e \notin Todo
                BY <6>1 DEF Finished, SettingsKnown, SettingsCalls
              <8> QED
                BY <6>1, <8>1, <8>2, <8>3 DEF Ours
            <7> QED
              BY <2>2, <6>1, <7>1 DEF SettingsKnown, SettingsCalls
          <6> QED
            BY <3>2, <3>4, <4>1, <6>1, <6>2, <6>3
        <5> QED
          BY <5>1, <5>2
      <4>3. \A e \in Ours' : p2'[e.row] # Settings!NoRow
        BY <1>1, <2>2, <2>4, <3>8 DEF PatchesKnown
      <4> QED
        BY <3>7, <3>8, <4>2, <4>3 DEF PatchesKnown
    <3>9. ASSUME p7.kind = "reload", ChangeKnown PROVE ChangeKnown'
      <4>1. c.kind \in {"delete", "add"} /\ \A f \in Waited : f = c
        BY <2>1, <3>9 DEF SettingsKnown, SettingsCalls, SettingsInv, OneSave
      <4>2. p7.saved = {} /\ \A e \in Todo : e.phase = "sent"
        BY <3>9 DEF SettingsKnown, SettingsCalls, SettingsInv, OneSave
      <4>3. \A e \in Finished' : e = d
        BY <1>1, <2>2, <4>1, <4>2 DEF Finished
      <4>4. \A e \in Ours' : e.kind = "add" => p2'[e.row] = Settings!NoRow
        BY <1>1, <2>2, <2>4, <3>9 DEF ChangeKnown
      <4> QED
        BY <1>3, <3>2, <3>4, <3>7, <3>9, <4>3, <4>4 DEF ChangeKnown
    <3>10. ASSUME p7.kind = "sort", OrderKnown PROVE OrderKnown'
      <4>1. c.kind = "sort"
        BY <2>1, <3>10 DEF SettingsKnown, SettingsCalls
      <4>2. ASSUME NEW r \in Templates
            PROVE  /\ Present(r)' /\ Base(p2'[r]) = p1'[r].text
                   /\ (\A e \in Waited' : e.row = r => e.phase = "done") => p2'[r].pos = p1'[r].pos
        <5>1. r \in Settings!Rows
          BY DEF Settings!Rows
        <5>2. CASE r = c.row
          BY <1>1, <2>1, <3>3, <3>4, <3>10, <4>1, <5>2 DEF OrderKnown, Present
        <5>3. CASE r # c.row
          <6>1. \A e \in Waited : e.row = r => e \in Waited'
            BY <2>1, <5>3
          <6> QED
            BY <1>1, <3>4, <3>5, <3>10, <5>1, <5>3, <6>1 DEF OrderKnown
        <5> QED
          BY <5>2, <5>3
      <4>3. \A e \in Waited' : e.row \in Templates => e.pos = p2'[e.row].pos
        BY <1>1, <1>3, <2>1, <3>10 DEF OrderKnown
      <4> QED
        BY <4>2, <4>3 DEF OrderKnown
    <3>11. SettingsFresh'
      BY <1>1, <2>1, <2>6, <3>8, <3>9, <3>10 DEF SettingsKnown, SettingsFresh
    <3> QED
      BY <2>5, <3>11 DEF SettingsKnown
  <2> QED
    BY <2>7, <2>8
<1> QED
  BY <1>2, <1>5, <1>6 DEF SettingCall

\* A row the answer of a save has taken the place of.
LEMMA MergedMatches ==
    ASSUME SettingsInv, NEW saved, NEW r \in Settings!Rows, p2[r] # Settings!NoRow,
           \E c \in saved : c.row = r,
           \A c \in saved : c.text # "none" /\ (c.row = r => p1[r].text = c.text /\ p1[r].pos = c.pos)
    PROVE  /\ Settings!Merged(saved)[r] # Settings!NoRow /\ p1[r] # Settings!Absent
           /\ Settings!Merged(saved)[r].pos = p1[r].pos /\ Base(Settings!Merged(saved)[r]) = p1[r].text
<1> DEFINE c == CHOOSE d \in saved : d.row = r
           y == [text |-> c.text, pos |-> c.pos, orig |-> Settings!None]
<1>1. c \in saved /\ c.row = r
  OBVIOUS
<1>2. Settings!Merged(saved)[r] = y
  BY DEF Settings!Merged
<1> HIDE DEF c
<1>3. y.text = c.text /\ y.pos = c.pos /\ y.orig = "none"
  BY DEF Settings!None
<1> HIDE DEF y
<1>4. Settings!NoRow.text = "none" /\ Settings!Absent.text = "none"
  BY DEF Settings!NoRow, Settings!Absent, Settings!None
<1> QED
  BY <1>1, <1>2, <1>3, <1>4 DEF Base

\* A save ends: what it saved takes the place of the rows.
LEMMA SettingsEnded ==
    ASSUME SettingsInv, SettingsKnown, NEW saved, Settings!EndsWith(saved), UNCHANGED p1, Waited' = {},
           \A c \in saved : c \in Ours /\ c.text # "none",
           p7.kind \in {"template", "plain", "drafts", "reload"}, p7.kind = "reload" => saved = {},
           ~doubt' => ~doubt /\ saved = Finished
    PROVE  SettingsKnown'
<1>1. p2' = Settings!Merged(saved) /\ p7' = Settings!NoSave /\ UNCHANGED p4
  BY DEF Settings!EndsWith
<1>2. p7'.kind = "none" /\ Ours' = {} /\ Todo' = {} /\ p7'.saved = {}
  BY <1>1 DEF Ours, Todo, Settings!NoSave, Settings!None
<1>3. SettingsCalls'
  BY <1>2 DEF SettingsCalls, Ours
<1>4. ASSUME ~doubt', NEW r \in Settings!Rows PROVE Matches(r)'
  <2>1. OthersMatch /\ saved = Finished
    BY <1>4 DEF SettingsKnown, SettingsFresh, PatchesKnown, ChangeKnown
  <2>2. CASE \A c \in saved : c.row # r
    <3>1. p2'[r] = p2[r]
      BY <1>1, <2>2, MergedRows
    <3> QED
      BY <2>1, <2>2, <3>1 DEF OthersMatch, Matches, Present
  <2>3. CASE \E c \in saved : c.row = r
    <3>1. PatchesKnown
      BY <1>4, <2>3 DEF SettingsKnown, SettingsFresh
    <3>2. p2[r] # Settings!NoRow /\ \A c \in saved : c.row = r => p1[r].text = c.text /\ p1[r].pos = c.pos
      BY <2>1, <2>3, <3>1 DEF PatchesKnown
    <3> QED
      BY <1>1, <2>3, <3>2, MergedMatches DEF Matches, Present
  <2> QED
    BY <2>2, <2>3
<1>5. SettingsFresh'
  <2>1. Templates \subseteq Settings!Rows
    BY DEF Settings!Rows
  <2>2. ~doubt' => DraftsKnown'
    BY <1>4, <2>1 DEF DraftsKnown
  <2> QED
    BY <1>2, <1>4, <2>2 DEF SettingsFresh
<1> QED
  BY <1>3, <1>5 DEF SettingsKnown

\* A save ends with a load of its own.
LEMMA SettingsReloadKnown ==
    ASSUME SettingsInv, SettingsKnown, NEW saved, Settings!Reload(saved), Waited' = {}, UNCHANGED p1,
           \A c \in saved : c.phase = "done" /\ c.row \in Settings!Rows,
           ~doubt' => DraftsKnown
    PROVE  SettingsKnown'
<1>1. p7' = [p7 EXCEPT !.kind = "load", !.saved = saved] /\ p4' = TRUE /\ UNCHANGED p2
  BY DEF Settings!Reload
<1>2. p7'.kind = "load" /\ p7'.todo = p7.todo /\ p7'.saved = saved
  BY <1>1 DEF SettingsInv, SettingsShaped
<1>3. Todo' = Todo /\ Ours' = saved \cup Todo
  BY <1>2 DEF Todo, Ours
<1>4. SettingsCalls'
  BY <1>2, <1>3 DEF SettingsKnown, SettingsCalls, Ours
<1>5. DraftsKnown => DraftsKnown'
  BY <1>1 DEF DraftsKnown, Matches, Present
<1> QED
  BY <1>1, <1>2, <1>4, <1>5 DEF SettingsKnown, SettingsFresh

LEMMA SettingsFailsKnown == ASSUME SettingsInv, SettingsKnown, NEW c \in p8, Settings!CallFails(c) PROVE SettingsKnown'
<1>1. /\ ~c.stray /\ p8' = {[d EXCEPT !.stray = TRUE] : d \in p8 \ {c}} /\ UNCHANGED p1
      /\ doubt' = (doubt \/ c.phase = "done" \/ p7.kind = "sort")
      /\ IF p7.kind = "sort" THEN Settings!Reload({}) ELSE Settings!EndsWith(p7.saved)
  BY DEF Settings!CallFails
<1>2. \A d \in p8 : SettingCall(d)
  BY DEF SettingsInv, SettingsShaped
<1>3. c \in Waited
  BY <1>1, <1>2 DEF Waited, SettingCall
<1>4. p7.kind \in {"template", "plain", "drafts", "reload", "sort"}
  BY <1>3 DEF SettingsInv, OneSave, SettingsKnown, SettingsCalls
<1>5. \A d : SettingCall(d) => [d EXCEPT !.stray = TRUE].stray = TRUE
  BY DEF SettingCall
<1>6. Waited' = {}
  BY <1>1, <1>2, <1>5 DEF Waited
<1>7. CASE p7.kind = "sort"
  BY <1>1, <1>6, <1>7, SettingsReloadKnown
<1>8. CASE p7.kind # "sort"
  <2>1. \A d \in p7.saved : d \in Ours /\ d.text # "none"
    BY <1>4 DEF SettingsInv, SettingsSay, Ours
  <2>2. p7.kind = "reload" => p7.saved = {}
    BY <1>4 DEF SettingsInv, OneSave
  <2>3. ASSUME ~doubt' PROVE ~doubt /\ p7.saved = Finished
    <3>1. ~doubt /\ c.phase # "done" /\ \A d \in Waited : d = c
      BY <1>1, <1>3, <1>8, <2>3 DEF SettingsInv, OneSave
    <3>2. (\A d \in p7.saved : d.phase = "done") /\ \A d \in Todo : d.phase # "done"
      BY DEF SettingsKnown, SettingsCalls
    <3> QED
      BY <3>1, <3>2 DEF Finished, Ours
  <2> QED
    BY <1>1, <1>4, <1>6, <1>8, <2>1, <2>2, <2>3, SettingsEnded
<1> QED
  BY <1>7, <1>8

\* What of a save is on its way is the same, or there is no save.
LEMMA SettingsCallsStay ==
    ASSUME SettingsInv, SettingsKnown, Waited' = Waited, p7' = p7 \/ (p7' = Settings!NoSave /\ Waited = {})
    PROVE  SettingsCalls' /\ Ours' = (IF p7' = p7 THEN Ours ELSE {})
<1>1. CASE p7' = p7
  <2>1. Todo' = Todo /\ Ours' = Ours
    BY <1>1 DEF Todo, Ours
  <2> QED
    BY <1>1, <2>1 DEF SettingsKnown, SettingsCalls
<1>2. CASE p7' # p7
  <2>1. p7'.kind = "none" /\ p7'.saved = {} /\ Todo' = {} /\ Waited' = {} /\ Ours' = {}
    BY <1>2 DEF Settings!NoSave, Settings!None, Todo, Ours
  <2> QED
    BY <1>2, <2>1 DEF SettingsCalls
<1> QED
  BY <1>1, <1>2

LEMMA SettingsStrayKnown == ASSUME SettingsInv, SettingsKnown, NEW c \in p8, Settings!StrayEnds(c) PROVE SettingsKnown'
<1>1. p8' = p8 \ {c} /\ c.stray /\ UNCHANGED <<p1, p2, p4, p7, doubt>>
  BY DEF Settings!StrayEnds
<1>2. Waited' = Waited
  BY <1>1 DEF Waited
<1>3. SettingsCalls' /\ Ours' = Ours
  BY <1>1, <1>2, SettingsCallsStay
<1>4. SettingsFresh' 
  BY <1>1, <1>2, <1>3 DEF SettingsKnown, SettingsFresh, PatchesKnown, ChangeKnown, OrderKnown, DraftsKnown,
     OthersMatch, Matches, Present, Finished
<1> QED
  BY <1>3, <1>4 DEF SettingsKnown

\* One of the calls of a save has succeeded.
LEMMA SettingsSucceedsKnown ==
    ASSUME SettingsInv, SettingsKnown, NEW c \in p8, Settings!CallSucceeds(c)
    PROVE  SettingsKnown'
<1> DEFINE left == p8 \ {c}
           got  == p7.saved \cup {c}
<1>1. /\ c.phase = "done" /\ ~c.stray /\ UNCHANGED <<p1, doubt>>
      /\ CASE p7.kind = "template" -> p8' = left /\ Settings!EndsWith({c})
           [] p7.kind = "drafts" /\ p7.todo = <<>> -> p8' = left /\ Settings!EndsWith(got)
           [] p7.kind = "drafts" /\ p7.todo # <<>> ->
                 /\ p8' = left \cup {Head(p7.todo)}
                 /\ p7' = [p7 EXCEPT !.todo = Tail(@), !.saved = got]
                 /\ UNCHANGED <<p2, p10, p5, p4, p9>>
           [] p7.kind = "sort" /\ \E d \in left : ~d.stray ->
                 p8' = left /\ UNCHANGED <<p7, p2, p10, p5, p4, p9>>
           [] OTHER -> p8' = left /\ Settings!Reload(IF p7.kind = "plain" THEN {c} ELSE {})
  BY DEF Settings!CallSucceeds
<1>2. SettingCall(c)
  BY DEF SettingsInv, SettingsShaped
<1>3. c \in Waited /\ c \in Ours /\ p7.kind \in {"template", "plain", "drafts", "reload", "sort"}
  BY <1>1, <1>2 DEF SettingsInv, OneSave, Waited, SettingCall, Ours, SettingsKnown, SettingsCalls
<1>4. p7.kind # "sort" => \A d \in Waited : d = c
  BY <1>3 DEF SettingsInv, OneSave
<1>5. (\A d \in p7.saved : d.phase = "done") /\ \A d \in Todo : d.phase = "sent"
  BY DEF SettingsKnown, SettingsCalls
<1>6. p7.kind # "sort" => Finished = got
  BY <1>1, <1>3, <1>4, <1>5 DEF Finished, Ours
<1>7. p7.kind # "drafts" => p7.saved = {}
  BY <1>3 DEF SettingsInv, OneSave
<1>8. /\ p7.kind \in {"template", "drafts"} => c.text # "none"
      /\ \A d \in p7.saved : d.text # "none"
  BY <1>2, <1>3 DEF SettingsInv, OneSave, SettingCall, SettingsSay
<1>9. \A d \in got : d \in Ours /\ (p7.kind \in {"template", "drafts"} => d.text # "none")
  BY <1>3, <1>8 DEF Ours
<1>10. p7.kind # "sort" /\ p8' = left => Waited' = {}
  BY <1>4 DEF Waited
<1> HIDE DEF got
<1>11. CASE p7.kind = "template"
  <2>1. p8' = left /\ Settings!EndsWith({c}) /\ got = {c}
    BY <1>1, <1>7, <1>11 DEF got
  <2>2. Settings!EndsWith(got)
    BY <2>1
  <2> QED
    BY <1>1, <1>6, <1>9, <1>10, <1>11, <2>1, <2>2, SettingsEnded
<1>12. CASE p7.kind = "drafts" /\ p7.todo = <<>>
  <2>1. p8' = left /\ Settings!EndsWith(got)
    BY <1>1, <1>12
  <2> QED
    BY <1>1, <1>6, <1>9, <1>10, <1>12, <2>1, SettingsEnded
<1>13. CASE p7.kind = "drafts" /\ p7.todo # <<>>
  <2> DEFINE h == Head(p7.todo)
  <2>1. p8' = left \cup {h} /\ p7' = [p7 EXCEPT !.todo = Tail(@), !.saved = got] /\ UNCHANGED <<p2, p4>>
    BY <1>1, <1>13
  <2>2. IsSeq(p7.todo)
    BY DEF SettingsInv, SettingsShaped
  <2>3. p7'.kind = "drafts" /\ p7'.todo = Tail(p7.todo) /\ p7'.saved = got
    BY <1>13, <2>1 DEF SettingsInv, SettingsShaped
  <2>4. h \in Todo /\ \A i \in DOMAIN Tail(p7.todo) : Tail(p7.todo)[i] \in Todo
    BY <1>13, <2>2, TailOf DEF Todo
  <2>5. Todo' \subseteq Todo
    BY <2>3, <2>4 DEF Todo
  <2>6. h.stray = FALSE
    BY <2>4 DEF SettingsInv, OneSave
  <2> HIDE DEF h
  <2>7. Waited' = {h}
    BY <1>4, <1>13, <2>1, <2>6 DEF Waited
  <2>8. Ours' = {h} \cup got \cup Todo' /\ Ours' \subseteq Ours
    BY <1>9, <2>3, <2>4, <2>5, <2>7 DEF Ours
  <2>9. \A d \in got : d.phase = "done"
    BY <1>1, <1>5 DEF got
  <2>10. Finished' = Finished
    BY <1>5, <1>6, <1>13, <2>4, <2>5, <2>8, <2>9 DEF Finished
  <2>11. SettingsCalls'
    <3>1. /\ \A d \in Ours' : d.row \in Settings!Rows
          /\ \A d, e \in Ours' : d.row = e.row => d.text = e.text /\ d.pos = e.pos
      BY <1>13, <2>8 DEF SettingsKnown, SettingsCalls
    <3>2. (\A d \in p7'.saved : d.phase = "done") /\ \A d \in Todo' : d.phase = "sent"
      BY <1>5, <2>3, <2>5, <2>9
    <3> QED
      BY <2>3, <3>1, <3>2 DEF SettingsCalls
  <2>12. PatchesKnown => PatchesKnown'
    BY <1>1, <2>1, <2>8, <2>10 DEF PatchesKnown, OthersMatch, Matches, Present
  <2>13. SettingsFresh'
    BY <1>1, <1>13, <2>1, <2>3, <2>12 DEF SettingsKnown, SettingsFresh
  <2> QED
    BY <2>11, <2>13 DEF SettingsKnown
<1>14. CASE p7.kind = "sort" /\ \E d \in left : ~d.stray
  <2>1. p8' = left /\ UNCHANGED <<p7, p2, p4>>
    BY <1>1, <1>14
  <2>2. Waited' = Waited \ {c} /\ Todo' = Todo
    BY <2>1 DEF Waited, Todo
  <2>3. Ours' \subseteq Ours
    BY <2>1, <2>2 DEF Ours
  <2>4. SettingsCalls'
    BY <1>14, <2>1, <2>2, <2>3 DEF SettingsKnown, SettingsCalls
  <2>5. OrderKnown => OrderKnown'
    BY <1>1, <2>1, <2>2 DEF OrderKnown, Present
  <2>6. SettingsFresh'
    BY <1>1, <1>14, <2>1, <2>5 DEF SettingsKnown, SettingsFresh
  <2> QED
    BY <2>4, <2>6 DEF SettingsKnown
<1>15. CASE p7.kind \notin {"template", "drafts"} /\ ~(p7.kind = "sort" /\ \E d \in left : ~d.stray)
  <2>1. p8' = left /\ Settings!Reload(IF p7.kind = "plain" THEN {c} ELSE {})
    BY <1>1, <1>15
  <2>4. \A d \in (IF p7.kind = "plain" THEN {c} ELSE {}) : d.phase = "done" /\ d.row \in Settings!Rows
    BY <1>1, <1>3 DEF SettingsKnown, SettingsCalls
  <2>2. Waited' = {} /\ \A d \in Waited : d = c
    BY <1>4, <1>15, <2>1 DEF Waited
  <2>3. ASSUME ~doubt' PROVE DraftsKnown
    <3> SUFFICES ASSUME NEW r \in Templates, Settings!HasDraft(p2[r]), p1[r] # Settings!Absent
                 PROVE  Matches(r)
      BY DEF DraftsKnown
    <3>1. r \in Settings!Rows /\ ~doubt /\ Settings!NoRow.orig = "none"
      BY <1>1, <2>3 DEF Settings!Rows, Settings!NoRow, Settings!None
    <3>2. CASE p7.kind = "plain"
      <4>1. c.row # r /\ Finished = {c}
        BY <1>3, <1>6, <1>7, <3>2 DEF got, SettingsKnown, SettingsCalls
      <4> QED
        BY <3>1, <3>2, <4>1 DEF SettingsKnown, SettingsFresh, PatchesKnown, OthersMatch
    <3>3. CASE p7.kind = "reload"
      <4>1. Finished = {c} /\ ChangeKnown /\ c.kind \in {"delete", "add"}
        BY <1>3, <1>6, <1>7, <3>1, <3>3 DEF got, SettingsKnown, SettingsCalls, SettingsFresh
      <4>2. c.row # r
        BY <1>3, <3>1, <4>1 DEF ChangeKnown, Settings!HasDraft, Settings!None
      <4> QED
        BY <3>1, <4>1, <4>2 DEF ChangeKnown, OthersMatch
    <3>4. CASE p7.kind = "sort"
      BY <1>1, <2>2, <3>1, <3>4 DEF SettingsKnown, SettingsFresh, OrderKnown, Matches
    <3> QED
      BY <1>3, <1>15, <3>2, <3>3, <3>4
  <2> QED
    BY <1>1, <2>1, <2>2, <2>3, <2>4, SettingsReloadKnown
<1> QED
  BY <1>11, <1>12, <1>13, <1>14, <1>15

LEMMA SettingsLoadsKnown ==
    ASSUME SettingsInv, SettingsKnown, NEW l \in p9, Settings!LoadAnswers(l) \/ Settings!LoadFails(l)
    PROVE  SettingsKnown'
<1>1. l.own \in BOOLEAN
  BY DEF SettingsInv, SettingsShaped
<1>2. UNCHANGED <<p1, p8>> /\ p7' = (IF l.own THEN Settings!NoSave ELSE p7)
  BY DEF Settings!LoadAnswers, Settings!LoadFails
<1>3. Waited' = Waited /\ (l.own = TRUE => Waited = {} /\ p7.kind = "load")
  BY <1>2 DEF Waited, SettingsInv, OneSave
<1>4. SettingsCalls'
  BY <1>1, <1>2, <1>3, SettingsCallsStay
<1>5. CASE Settings!LoadFails(l)
  BY <1>4, <1>5 DEF Settings!LoadFails, SettingsKnown, SettingsFresh
<1>6. CASE Settings!LoadAnswers(l)
  <2>1. PICK seen \in {l.seen, p1} :
           /\ p2' = [r \in Settings!Rows |-> Settings!Loaded(r, seen[r], l.merging)]
           /\ doubt' = \/ seen # p1 \/ (~l.own /\ ~Settings!Idle)
                       \/ doubt /\ l.merging /\ Settings!Drafts(p2) # {}
    BY <1>6, Zenon DEF Settings!LoadAnswers
  <2>2. ASSUME ~doubt'
        PROVE  /\ p7' = Settings!NoSave /\ p7.kind \in {"none", "load"} /\ seen = p1
               /\ l.merging /\ Settings!Drafts(p2) # {} => ~doubt
    <3>1. seen = p1 /\ (l.own \/ Settings!Idle) /\ ~(doubt /\ l.merging /\ Settings!Drafts(p2) # {})
      BY <2>1, <2>2
    <3>2. CASE l.own = TRUE
      BY <1>2, <1>3, <3>1, <3>2
    <3>3. CASE l.own = FALSE
      <4>1. p7 = Settings!NoSave /\ p7' = p7
        BY <1>2, <3>1, <3>3 DEF Settings!Idle
      <4>2. p7.kind = "none"
        BY <4>1 DEF Settings!NoSave, Settings!None
      <4> QED
        BY <3>1, <4>1, <4>2
    <3> QED
      BY <1>1, <3>2, <3>3
  <2>3. ASSUME ~doubt', NEW r \in Settings!Rows PROVE Matches(r)'
    <3>1. p2'[r] = Settings!Loaded(r, p1[r], l.merging) /\ UNCHANGED p1
      BY <1>2, <2>1, <2>2, <2>3
    <3>2. /\ Settings!NoRow.text = "none" /\ Settings!NoRow.pos = 0 /\ Settings!NoRow.orig = "none"
          /\ Settings!Absent.text = "none" /\ Settings!Absent.pos = 0
      BY DEF Settings!NoRow, Settings!Absent, Settings!None
    <3>3. CASE p1[r] = Settings!Absent
      <4>1. p2'[r] = Settings!NoRow
        BY <3>1, <3>3 DEF Settings!Loaded
      <4> QED
        BY <3>1, <3>2, <3>3, <4>1 DEF Matches, Present, Base
    <3>4. CASE p1[r] # Settings!Absent /\ l.merging /\ r \in Templates /\ Settings!HasDraft(p2[r])
      <4>1. p2'[r] = p2[r] /\ r \in Settings!Drafts(p2)
        BY <3>1, <3>4 DEF Settings!Loaded, Settings!Drafts
      <4>2. DraftsKnown
        BY <2>2, <2>3, <3>4, <4>1 DEF SettingsKnown, SettingsFresh
      <4> QED
        BY <3>1, <3>4, <4>1, <4>2 DEF DraftsKnown, Matches, Present
    <3>5. CASE p1[r] # Settings!Absent /\ ~(l.merging /\ r \in Templates /\ Settings!HasDraft(p2[r]))
      <4> DEFINE y == [text |-> p1[r].text, pos |-> p1[r].pos, orig |-> Settings!None]
      <4>1. p2'[r] = y
        BY <3>1, <3>5 DEF Settings!Loaded
      <4>2. y.text = p1[r].text /\ y.pos = p1[r].pos /\ y.orig = "none"
        BY DEF Settings!None
      <4>3. p1[r].text # "none"
        BY <3>5 DEF SettingsInv, SettingsSay
      <4> HIDE DEF y
      <4> QED
        BY <3>1, <3>2, <3>5, <4>1, <4>2, <4>3 DEF Matches, Present, Base
    <3> QED
      BY <3>3, <3>4, <3>5
  <2>4. SettingsFresh'
    <3>1. Templates \subseteq Settings!Rows
      BY DEF Settings!Rows
    <3>2. ~doubt' => DraftsKnown' /\ p7'.kind = "none"
      BY <2>2, <2>3, <3>1 DEF DraftsKnown, Settings!NoSave, Settings!None
    <3> QED
      BY <2>3, <3>2 DEF SettingsFresh
  <2> QED
    BY <1>4, <2>4 DEF SettingsKnown
<1> QED
  BY <1>5, <1>6

LEMMA SettingsKnownMoves == SettingsInv /\ SettingsKnown /\ Settings!Next => SettingsKnown'
<1> SUFFICES ASSUME SettingsInv, SettingsKnown, Settings!Next PROVE SettingsKnown'
  OBVIOUS
<1>1. ASSUME NEW c \in p8, \/ Settings!Serve(c) \/ Settings!CallSucceeds(c)
                           \/ Settings!CallFails(c) \/ Settings!StrayEnds(c)
      PROVE  SettingsKnown'
  BY <1>1, SettingsServeKnown, SettingsSucceedsKnown, SettingsFailsKnown, SettingsStrayKnown
<1>2. ASSUME NEW l \in p9, Settings!LoadAnswers(l) \/ Settings!LoadFails(l) PROVE SettingsKnown'
  BY <1>2, SettingsLoadsKnown
<1> QED
  BY <1>1, <1>2, SettingsUserKnown, Zenon DEF Settings!Next

-----------------------------------------------------------------------------
(* The pages together.                                                     *)

\* What every page knows to agree with the server, and of what shape it is.
PagesKnown ==
    /\ route \in {"gate", "dashboard", "tasks", "projects", "files", "prompts", "notes", "settings"}
    /\ route = "gate"      => GateTyped
    /\ route = "dashboard" => CalendarTyped /\ EventsKnown
    /\ route = "tasks"     => TasksFlat /\ SidebarTyped /\ TaskKnown
    /\ route = "projects"  => ProjectsTyped /\ ProjectsKnown
    /\ route = "files"     => FilesTyped /\ FilesKnown
    /\ route = "prompts"   => VaultFlat /\ VaultKnown
    /\ route = "notes"     => NotesFlat /\ NoteKnown
    /\ route = "settings"  => SettingsFit /\ SettingsCount /\ SettingsKnown

LEMMA PagesKnownStart == Init => PagesKnown
<1> SUFFICES ASSUME Init PROVE PagesKnown
  OBVIOUS
<1>1. /\ route = "gate"      => Gate!Init
      /\ route = "dashboard" => Calendar!Init
      /\ route = "tasks"     => Tasks!Init
      /\ route = "projects"  => Projects!Init
      /\ route = "files"     => Files!Init
      /\ route = "prompts"   => Prompts!Init
      /\ route = "notes"     => Notes!Init
      /\ route = "settings"  => Settings!Init
  BY DEF Init
<1>2. route \in {"gate", "dashboard", "tasks", "projects", "files", "prompts", "notes", "settings"}
  BY RoutesAssumption DEF Init
<1> QED
  BY <1>1, <1>2, GateTypedStart, CalendarTypedStart, EventsStart, TasksTypedStart, SidebarTypedStart,
     ProjectsTypedStart, ProjectsKnownStart, FilesKnownStart, VaultStart, NotesStart,
     SettingsFitStart, SettingsKnownStart DEF PagesKnown

LEMMA PagesKnownStay == IInv /\ PagesKnown /\ UNCHANGED vars => PagesKnown'
<1> SUFFICES ASSUME IInv, PagesKnown, UNCHANGED vars PROVE PagesKnown'
  OBVIOUS
<1>1. CASE route = "dashboard"
  <2>1. CalendarFlat /\ EventsKnown
    BY <1>1, CalendarIs DEF PagesKnown
  <2>2. CalendarFlat'
    BY <2>1 DEF vars, CalendarFlat
  <2>3. EventsKnown'
    BY <2>1 DEF vars, EventsKnown, EventUnderway, SameEvent, Calendar!Ready, Calendar!View
  <2> QED
    BY <1>1, <2>2, <2>3, CalendarIsNext DEF vars, PagesKnown
<1>2. CASE route = "tasks"
  <2>1. TasksFlat' /\ SidebarTyped' /\ TaskKnown'
    BY <1>2 DEF vars, PagesKnown, TasksFlat, SidebarTyped, TaskKnown, TaskUnderway, SameTask
  <2> QED
    BY <1>2, <2>1 DEF vars, PagesKnown
<1>3. CASE route = "projects"
  <2>1. ProjectsTyped'
    BY <1>3 DEF vars, PagesKnown, ProjectsTyped
  <2>2. /\ \A id : Sure(id)' <=> Sure(id)
        /\ \A id : Agree(id) <=> Agree(id)'
        /\ \A id : Still(id)
    BY DEF vars, Sure, Agree, ListIs, LiveOne, PendingIs, Busy, ArchivedIs, Away, Still
  <2>3. \A c, id : ProjectUnderway(c, id) => ProjectUnderway(c, id)'
    BY <2>2, StillUnderway
  <2>4. ProjectsKnown'
    BY <1>3, <2>2, <2>3 DEF vars, PagesKnown, ProjectsKnown
  <2> QED
    BY <1>3, <2>1, <2>4 DEF vars, PagesKnown
<1>4. CASE route = "files"
  <2>1. FilesFlat /\ FilesKnown
    BY <1>4, FilesIs DEF PagesKnown
  <2>2. FilesFlat' /\ FilesKnown'
    BY <2>1 DEF vars, FilesFlat, FilesKnown, FileUnderway
  <2> QED
    BY <1>4, <2>2, FilesIsNext DEF vars, PagesKnown
<1>5. CASE route = "prompts"
  <2>1. VaultFlat' /\ VaultKnown'
    BY <1>5 DEF vars, PagesKnown, VaultFlat, VaultKnown, PromptUnderway, SamePrompt
  <2> QED
    BY <1>5, <2>1 DEF vars, PagesKnown
<1>6. CASE route = "notes"
  <2>1. NotesFlat' /\ NoteKnown'
    BY <1>6 DEF vars, PagesKnown, NotesFlat, NoteKnown
  <2> QED
    BY <1>6, <2>1 DEF vars, PagesKnown
<1>7. CASE route = "settings"
  <2>1. SettingsKnown /\ UNCHANGED <<p1, p2, p4, p7, p8, doubt>>
    BY <1>7 DEF vars, PagesKnown
  <2>2. \A r \in Settings!Rows : SameRow(r)
    BY <2>1 DEF SameRow
  <2>3. SettingsKnown'
    BY <2>1, <2>2, SettingsQuiet
  <2>4. SettingsFit' /\ SettingsCount'
    BY <1>7 DEF vars, PagesKnown, SettingsFit, SettingsCount, Todo
  <2> QED
    BY <1>7, <2>3, <2>4 DEF vars, PagesKnown
<1>8. CASE route = "gate"
  <2>1. GateTyped'
    BY <1>8 DEF vars, PagesKnown, GateTyped
  <2> QED
    BY <1>8, <2>1 DEF vars, PagesKnown
<1> QED
  BY <1>1, <1>2, <1>3, <1>4, <1>5, <1>6, <1>7, <1>8 DEF PagesKnown

LEMMA PagesKnownMove == IInv /\ PagesKnown /\ [Next]_vars => PagesKnown'
<1> SUFFICES ASSUME IInv, PagesKnown, [Next]_vars PROVE PagesKnown'
  OBVIOUS
<1>1. CASE DashboardMoves
  BY <1>1, CalendarTypedMoves, EventsMove DEF DashboardMoves, PagesKnown
<1>2. CASE TasksMove
  BY <1>2, TasksKnownMoves, SidebarMoves DEF TasksMove, PagesKnown, SidebarTyped
<1>3. CASE ProjectsMove
  BY <1>3, ProjectsKnownMoves, ProjectsTypedMoves DEF ProjectsMove, PagesKnown, IInv
<1>4. CASE FilesMove
  BY <1>4, FilesKnownMoves DEF FilesMove, PagesKnown
<1>5. CASE NotesMove
  BY <1>5, NotesMoves DEF NotesMove, PagesKnown
<1>6. CASE GateMoves
  BY <1>6, GateTypedMoves DEF GateMoves, PagesKnown
<1>7. CASE PromptsMove
  BY <1>7, VaultUser, VaultMoves, Zenon DEF PromptsMove, PagesKnown, Prompts!Next
<1>8. CASE SettingsMove
  BY <1>8, SettingsKnownMoves, SettingsFitMoves, SettingsCountMoves DEF SettingsMove, PagesKnown, IInv
<1> QED
  BY <1>1, <1>2, <1>3, <1>4, <1>5, <1>6, <1>7, <1>8, PagesKnownStay, Zenon DEF Next

(* Whatever is sent, crosses, fails or comes late: what a page shows once   *)
(* no call is on its way is what the server holds, but for the rows whose   *)
(* calls crossed, failed or met another read of the page, and the events    *)
(* that a calendar come back from behind an error was out of date about.    *)
THEOREM ScreensSettled == Spec => []ScreensSettle
<1>1. IInv /\ PagesKnown => ScreensSettle
  BY EventsSettle, TasksAreSettled, ProjectsAreSettled, FilesAreSettled, VaultIsSettled, NotesAreSettled,
     SettingsAreSettled DEF IInv, PagesKnown, ScreensSettle
<1> QED
  BY <1>1, InitHolds, NextKeeps, PagesKnownStart, PagesKnownMove, PTL DEF Spec

(* Whatever is sent, crosses, fails or comes late: every page keeps its     *)
(* state within its types, so no answer brings a row, a place or a text     *)
(* that the page cannot show.                                               *)
THEOREM ClientTypeCorrect == Spec => []TypeOK
<1>1. IInv /\ PagesKnown => TypeOK
  BY GateIsTyped, TasksAreTyped, ProjectsAreTyped, VaultIsTyped, NotesAreTyped, SettingsAreTyped
  DEF IInv, PagesKnown, CalendarTyped, FilesTyped, TypeOK
<1> QED
  BY <1>1, InitHolds, NextKeeps, PagesKnownStart, PagesKnownMove, PTL DEF Spec
=================================================================================
