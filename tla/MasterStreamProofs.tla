------------------------- MODULE MasterStreamProofs -------------------------
(***************************************************************************)
(* Theorems about MasterStream, for any finite set of positions and any    *)
(* number of failed streams and of inserts without an answer.              *)
(***************************************************************************)
EXTENDS MasterStream, FiniteSetTheorems, TLAPS

\* Empty lists pass by on the socket only, and not twice: what applySnapshot is
\* made for.  One empty list by REST closes the only position there is.
PassingOnce == Glitches \subseteq {"websocket"} /\ MaxGlitches <= 1

Kinds == {"OPEN", "MODIFY", "CLOSE"}
Lists == [Ids -> 0..2]
Queues == [Ids -> Seq(Kinds)]
Reads == [at : {"reading"}, outdated : BOOLEAN, try : 1..2, list : Lists, served : BOOLEAN]

TypeOK ==
  /\ account \in [Ids -> 0..3]
  /\ tracked \in Lists
  /\ known \in BOOLEAN
  /\ held \in BOOLEAN
  /\ buffered \in Queues
  /\ read \in {NoRead, Down} \cup Reads
  /\ taken \in Queues
  /\ ending \in BOOLEAN
  /\ chain \in Queues
  /\ stored \subseteq Ids \X Kinds
  /\ copied \in Queues
  /\ glitches \in Nat /\ failures \in Nat /\ troubles \in Nat

\* An event is copied when its key is new, so none is copied twice.
CopiedOnce ==
  \A i \in Ids :
    /\ \A n \in DOMAIN copied[i] : <<i, copied[i][n]>> \in stored
    /\ \A m, n \in DOMAIN copied[i] : m < n => copied[i][m] # copied[i][n]

\* A list the source has, or waits for, shows positions that were opened.
Opened ==
  \A i \in Ids :
    /\ tracked[i] # 0 => account[i] # 0
    /\ read.at = "reading" /\ read.list[i] # 0 => account[i] # 0

\* A list on its way that will be applied.
Valid == read.at = "reading" /\ read.served /\ ~read.outdated

\* What list does not show any more is closed.
Confirms(list) == \A i \in Ids : tracked[i] # 0 /\ list[i] = 0 => account[i] = 3

ReadTrue == Valid => Confirms(read.list)

\* The first empty list was a true one, or the only one that was not.
HeldTrue == held => glitches >= MaxGlitches \/ Confirms(Nothing)

\* Events are dispatched in the order of the lists they are from.
Ordered ==
  /\ read.at # "reading" => taken = NoEvents
  /\ read.at = "reading" /\ ~read.outdated => buffered = NoEvents

\* Position i is closed, and no list will show it again.
Gone(i) == account[i] = 3 /\ tracked[i] = 0 /\ (Valid => read.list[i] = 0)

HasClose(q) == \E n \in DOMAIN q : q[n] = "CLOSE"
CloseLast(q) == \A n \in DOMAIN q : q[n] = "CLOSE" => n = Len(q)

\* The events c copied, h in the chain, t taken, b buffered, of a position that
\* is gone or not: nothing comes after a CLOSE.
Sealed(c, h, t, b, gone) ==
  /\ CloseLast(c) /\ CloseLast(h) /\ CloseLast(t) /\ CloseLast(b)
  /\ HasClose(c) => h = <<>> /\ t = <<>> /\ b = <<>> /\ gone
  /\ HasClose(h) => t = <<>> /\ b = <<>> /\ gone
  /\ HasClose(t) => b = <<>> /\ gone
  /\ HasClose(b) => gone

AllSealed == \A i \in Ids : Sealed(copied[i], chain[i], taken[i], buffered[i], Gone(i))

SInv == TypeOK /\ Opened /\ ReadTrue /\ HeldTrue /\ Ordered /\ AllSealed

-----------------------------------------------------------------------------
(* Queues of events                                                        *)

LEMMA JoinedQueues == ASSUME NEW a \in Queues, NEW b \in Queues
                      PROVE Joined(a, b) \in Queues /\ \A i \in Ids : Joined(a, b)[i] = a[i] \o b[i]
BY DEF Joined, Queues

LEMMA NoEventsQueues == NoEvents \in Queues /\ \A i \in Ids : NoEvents[i] = <<>>
BY DEF NoEvents, Queues

\* What applySnapshot says of position i: nothing, if it has not changed; a CLOSE,
\* if the list lacks it; and one event at most.
LEMMA ChangesQueues ==
  ASSUME TypeOK, NEW list \in Lists
  PROVE  /\ Changes(list) \in Queues
         /\ \A i \in Ids :
              /\ tracked[i] = list[i] => Changes(list)[i] = <<>>
              /\ tracked[i] # list[i] =>
                   \E e \in Kinds : Changes(list)[i] = <<e>> /\ (e = "CLOSE" <=> tracked[i] # 0 /\ list[i] = 0)
<1> DEFINE event(i) == CASE tracked[i] = list[i]          -> <<>>
                         [] tracked[i] = 0 /\ list[i] # 0 -> <<"OPEN">>
                         [] tracked[i] # 0 /\ list[i] = 0 -> <<"CLOSE">>
                         [] OTHER                         -> <<"MODIFY">>
<1>1. Changes(list) = [i \in Ids |-> event(i)]
  BY DEF Changes
<1>2. ASSUME NEW i \in Ids, tracked[i] = list[i]
      PROVE  event(i) = <<>>
  BY <1>2
<1>3. ASSUME NEW i \in Ids, tracked[i] # list[i]
      PROVE  \E e \in Kinds : event(i) = <<e>> /\ (e = "CLOSE" <=> tracked[i] # 0 /\ list[i] = 0)
  <2>1. CASE tracked[i] = 0
    <3>1. event(i) = <<"OPEN">>
      BY <1>3, <2>1
    <3> QED BY <3>1, <2>1 DEF Kinds
  <2>2. CASE tracked[i] # 0 /\ list[i] = 0
    <3>1. event(i) = <<"CLOSE">>
      BY <1>3, <2>2
    <3> QED BY <3>1, <2>2 DEF Kinds
  <2>3. CASE tracked[i] # 0 /\ list[i] # 0
    <3>1. event(i) = <<"MODIFY">>
      BY <1>3, <2>3
    <3> QED BY <3>1, <2>3 DEF Kinds
  <2> QED BY <2>1, <2>2, <2>3
<1>4. \A i \in Ids : event(i) \in Seq(Kinds)
  BY <1>2, <1>3
<1> HIDE DEF event
<1> QED BY <1>1, <1>2, <1>3, <1>4 DEF Queues

\* Two queues that follow each other.
LEMMA SealedJoin ==
  ASSUME NEW a \in Seq(Kinds), NEW b \in Seq(Kinds), CloseLast(a), CloseLast(b), HasClose(a) => b = <<>>
  PROVE  CloseLast(a \o b) /\ (HasClose(a \o b) <=> HasClose(a) \/ HasClose(b))
<1>1. \A n \in DOMAIN (a \o b) : n \in DOMAIN a \/ (n - Len(a) \in DOMAIN b /\ n > Len(a))
  OBVIOUS
<1>2. \A n \in DOMAIN a : n \in DOMAIN (a \o b) /\ (a \o b)[n] = a[n]
  OBVIOUS
<1>3. \A n \in DOMAIN b : Len(a) + n \in DOMAIN (a \o b) /\ (a \o b)[Len(a) + n] = b[n]
  OBVIOUS
<1>4. Len(a \o b) = Len(a) + Len(b)
  OBVIOUS
<1>5. HasClose(a \o b) <=> HasClose(a) \/ HasClose(b)
  <2>1. ASSUME HasClose(a \o b) PROVE HasClose(a) \/ HasClose(b)
    <3>1. PICK n \in DOMAIN (a \o b) : (a \o b)[n] = "CLOSE"
      BY <2>1 DEF HasClose
    <3>2. CASE n \in DOMAIN a
      BY <3>1, <3>2, <1>2 DEF HasClose
    <3>3. CASE n - Len(a) \in DOMAIN b
      <4>1. Len(a) + (n - Len(a)) = n
        BY <3>1
      <4> QED BY <3>1, <3>3, <4>1, <1>3 DEF HasClose
    <3> QED BY <3>1, <3>2, <3>3, <1>1
  <2> QED BY <2>1, <1>2, <1>3 DEF HasClose
<1>6. ASSUME NEW n \in DOMAIN (a \o b), (a \o b)[n] = "CLOSE"
      PROVE  n = Len(a \o b)
  <2>1. CASE n \in DOMAIN a
    <3>1. a[n] = "CLOSE" /\ HasClose(a)
      BY <2>1, <1>6, <1>2 DEF HasClose
    <3>2. n = Len(a) /\ b = <<>>
      BY <3>1, <2>1 DEF CloseLast
    <3> QED BY <3>2, <1>4
  <2>2. CASE n - Len(a) \in DOMAIN b
    <3>1. Len(a) + (n - Len(a)) = n
      BY <1>6
    <3>2. b[n - Len(a)] = "CLOSE"
      BY <2>2, <3>1, <1>3, <1>6
    <3>3. n - Len(a) = Len(b)
      BY <2>2, <3>2 DEF CloseLast
    <3> QED BY <3>3, <1>4, <1>6
  <2> QED BY <1>6, <1>1, <2>1, <2>2
<1> QED BY <1>5, <1>6 DEF CloseLast

LEMMA EmptySealed == CloseLast(<<>>) /\ ~HasClose(<<>>)
BY DEF CloseLast, HasClose

LEMMA OneSealed == ASSUME NEW e \in Kinds PROVE CloseLast(<<e>>) /\ (HasClose(<<e>>) <=> e = "CLOSE")
BY DEF CloseLast, HasClose

\* The first event of a queue, and what comes after it.
LEMMA HeadSealed ==
  ASSUME NEW q \in Seq(Kinds), q # <<>>, CloseLast(q)
  PROVE  /\ Head(q) \in Kinds /\ Tail(q) \in Seq(Kinds)
         /\ CloseLast(Tail(q))
         /\ HasClose(Tail(q)) => HasClose(q)
         /\ Head(q) = "CLOSE" => HasClose(q) /\ Tail(q) = <<>>
<1>1. Head(q) \in Kinds /\ Tail(q) \in Seq(Kinds) /\ Len(q) > 0 /\ Head(q) = q[1] /\ 1 \in DOMAIN q
  OBVIOUS
<1>2. Len(Tail(q)) = Len(q) - 1 /\ \A n \in DOMAIN Tail(q) : n + 1 \in DOMAIN q /\ Tail(q)[n] = q[n + 1]
  OBVIOUS
<1>3. CloseLast(Tail(q))
  <2>1. SUFFICES ASSUME NEW n \in DOMAIN Tail(q), Tail(q)[n] = "CLOSE"
                 PROVE  n = Len(Tail(q))
    BY DEF CloseLast
  <2>2. n + 1 = Len(q)
    BY <2>1, <1>2 DEF CloseLast
  <2> QED BY <2>1, <2>2, <1>1, <1>2
<1>4. HasClose(Tail(q)) => HasClose(q)
  BY <1>2 DEF HasClose
<1>5. ASSUME Head(q) = "CLOSE" PROVE HasClose(q) /\ Tail(q) = <<>>
  <2>1. 1 = Len(q)
    BY <1>5, <1>1 DEF CloseLast
  <2> QED BY <2>1, <1>1, <1>2, <1>5 DEF HasClose
<1> QED BY <1>1, <1>3, <1>4, <1>5

\* Events go on in their order: from the buffer into the step, ...
LEMMA SealedTake ==
  ASSUME NEW c, NEW h, NEW b, NEW gone, Sealed(c, h, <<>>, b, gone)
  PROVE  Sealed(c, h, b, <<>>, gone)
BY EmptySealed DEF Sealed

\* ... from the step into the chain, with the event e of the list it has read, ...
LEMMA SealedDispatch ==
  ASSUME NEW c \in Seq(Kinds), NEW h \in Seq(Kinds), NEW t \in Seq(Kinds), NEW b \in Seq(Kinds),
         NEW gone \in BOOLEAN, NEW then \in BOOLEAN, NEW e \in Seq(Kinds),
         Sealed(c, h, t, b, gone),
         gone => then /\ e = <<>>,
         CloseLast(e), HasClose(e) => then,
         e = <<>> \/ b = <<>>
  PROVE  Sealed(c, h \o (t \o e), <<>>, b, then)
<1>1. CloseLast(t \o e) /\ (HasClose(t \o e) <=> HasClose(t) \/ HasClose(e)) /\ t \o e \in Seq(Kinds)
  BY SealedJoin DEF Sealed
<1>2. HasClose(h) => t \o e = <<>>
  BY DEF Sealed
<1>3. CloseLast(h \o (t \o e)) /\ (HasClose(h \o (t \o e)) <=> HasClose(h) \/ HasClose(t \o e))
  BY <1>1, <1>2, SealedJoin DEF Sealed
<1>4. HasClose(c) => h \o (t \o e) = <<>>
  BY DEF Sealed
<1> QED BY <1>1, <1>3, <1>4, EmptySealed DEF Sealed

\* ... or there from the buffer; ...
LEMMA SealedForward ==
  ASSUME NEW c \in Seq(Kinds), NEW h \in Seq(Kinds), NEW b \in Seq(Kinds), NEW gone \in BOOLEAN,
         Sealed(c, h, <<>>, b, gone)
  PROVE  Sealed(c, h \o b, <<>>, <<>>, gone)
<1>1. Sealed(c, h, b, <<>>, gone)
  BY SealedTake
<1>2. Sealed(c, h \o (b \o <<>>), <<>>, <<>>, gone)
  <2>1. <<>> \in Seq(Kinds)
    OBVIOUS
  <2> QED BY <1>1, <2>1, EmptySealed, SealedDispatch
<1>3. b \o <<>> = b
  OBVIOUS
<1> QED BY <1>2, <1>3

\* ... the event e of a list by the socket into the buffer; ...
LEMMA SealedBuffer ==
  ASSUME NEW c \in Seq(Kinds), NEW h \in Seq(Kinds), NEW t \in Seq(Kinds), NEW b \in Seq(Kinds),
         NEW gone \in BOOLEAN, NEW then \in BOOLEAN, NEW e \in Seq(Kinds),
         Sealed(c, h, t, b, gone),
         gone => then /\ e = <<>>,
         CloseLast(e), HasClose(e) => then
  PROVE  Sealed(c, h, t, b \o e, then)
<1>1. CloseLast(b \o e) /\ (HasClose(b \o e) <=> HasClose(b) \/ HasClose(e))
  BY SealedJoin DEF Sealed
<1>2. b = <<>> /\ e = <<>> => b \o e = <<>>
  OBVIOUS
<1> QED BY <1>1, <1>2 DEF Sealed

\* ... and out of the chain, copied or not.
LEMMA SealedHead ==
  ASSUME NEW c \in Seq(Kinds), NEW h \in Seq(Kinds), NEW t, NEW b, NEW gone, h # <<>>, Sealed(c, h, t, b, gone)
  PROVE  Sealed(c, Tail(h), t, b, gone) /\ Sealed(Append(c, Head(h)), Tail(h), t, b, gone)
<1>1. /\ Head(h) \in Kinds /\ Tail(h) \in Seq(Kinds) /\ CloseLast(Tail(h))
      /\ HasClose(Tail(h)) => HasClose(h)
      /\ Head(h) = "CLOSE" => HasClose(h) /\ Tail(h) = <<>>
  BY HeadSealed DEF Sealed
<1>2. ~HasClose(c)
  BY DEF Sealed
<1>3. Append(c, Head(h)) = c \o <<Head(h)>> /\ <<Head(h)>> \in Seq(Kinds)
  BY <1>1
<1>4. /\ CloseLast(Append(c, Head(h)))
      /\ HasClose(Append(c, Head(h))) <=> Head(h) = "CLOSE"
  <2>1. CloseLast(<<Head(h)>>) /\ (HasClose(<<Head(h)>>) <=> Head(h) = "CLOSE")
    BY <1>1, OneSealed
  <2>2. CloseLast(c)
    BY DEF Sealed
  <2>3. CloseLast(c \o <<Head(h)>>) /\ (HasClose(c \o <<Head(h)>>) <=> HasClose(c) \/ HasClose(<<Head(h)>>))
    BY <1>2, <1>3, <2>1, <2>2, SealedJoin
  <2> QED BY <1>2, <1>3, <2>1, <2>3
<1> QED BY <1>1, <1>2, <1>4 DEF Sealed

\* A stream that ends loses what is not dispatched, a worker that dies its chains.
LEMMA SealedLost ==
  ASSUME NEW c, NEW h, NEW t, NEW b, NEW gone, Sealed(c, h, t, b, gone)
  PROVE  Sealed(c, h, <<>>, <<>>, gone) /\ Sealed(c, <<>>, <<>>, <<>>, gone)
BY EmptySealed DEF Sealed

\* More is known of the position: it is gone now, if it was not.
LEMMA SealedGone ==
  ASSUME NEW c, NEW h, NEW t, NEW b, NEW gone, NEW then, gone => then, Sealed(c, h, t, b, gone)
  PROVE  Sealed(c, h, t, b, then)
BY DEF Sealed

-----------------------------------------------------------------------------
(* Types                                                                   *)

\* What the broker shows: 0 for a position it has not opened or has closed.
LEMMA ListShows ==
  ASSUME TypeOK
  PROVE  /\ List \in Lists /\ Nothing \in Lists
         /\ \A i \in Ids : /\ List[i] = 0 <=> account[i] \in {0, 3}
                           /\ Nothing[i] = 0
<1>1. \A n \in 0..3 : n % 3 \in 0..2 /\ (n % 3 = 0 <=> n \in {0, 3})
  OBVIOUS
<1> QED BY <1>1 DEF List, Nothing, Lists, TypeOK

LEMMA ReadingIs ==
  ASSUME NEW n \in 1..2
  PROVE  /\ Reading(n) \in Reads
         /\ Reading(n).at = "reading" /\ ~Reading(n).served /\ ~Reading(n).outdated
         /\ \A i \in Ids : Reading(n).list[i] = 0
<1>1. Nothing \in Lists /\ \A i \in Ids : Nothing[i] = 0
  BY DEF Nothing, Lists
<1> QED BY <1>1 DEF Reading, Reads

LEMMA Idle == NoRead.at = "rest" /\ Down.at = "down" /\ NoRead # Down
<1>1. NoRead.at = "rest" /\ Down.at = "down"
  BY DEF NoRead, Down
<1> QED BY <1>1

LEMMA ReadIs == ASSUME TypeOK
                PROVE  /\ read.at = "reading" <=> read \in Reads
                       /\ read.at # "reading" => read \in {NoRead, Down}
<1>1. \A r \in Reads : r.at = "reading"
  BY DEF Reads
<1> QED BY <1>1, Idle DEF TypeOK

\* A list is the true one, or an empty one that counts as a glitch.
LEMMA DeliversIs ==
  ASSUME TypeOK, NEW list \in {List, Nothing}, NEW c, Delivers(c, list)
  PROVE  /\ list \in Lists
         /\ glitches' \in Nat /\ glitches' >= glitches
         /\ \/ list = List
            \/ list = Nothing /\ c \in Glitches /\ glitches' = glitches + 1 /\ glitches < MaxGlitches
<1>1. list \in Lists
  BY ListShows
<1>2. glitches' = glitches \/ glitches' = glitches + 1
  BY DEF Delivers
<1>3. glitches \in Nat
  BY DEF TypeOK
<1> QED BY <1>1, <1>2, <1>3 DEF Delivers

LEMMA ApplyType ==
  ASSUME TypeOK, NEW list \in Lists, NEW c, Apply(list, c)
  PROVE  tracked' \in Lists /\ held' \in BOOLEAN /\ known' \in BOOLEAN
BY DEF TypeOK, Apply

\* What a list by the socket does to a read in flight.
LEMMA OutdatesIs ==
  ASSUME TypeOK, Outdates
  PROVE  /\ read' \in {NoRead, Down} \cup Reads
         /\ read'.at = read.at
         /\ read.at = "reading" => read'.outdated /\ read'.list = read.list
<1>1. CASE read.at = "reading"
  <2>1. read \in Reads
    BY <1>1, ReadIs
  <2>2. read' = [read EXCEPT !.outdated = TRUE]
    BY <1>1 DEF Outdates
  <2> QED BY <2>1, <2>2 DEF Reads
<1>2. CASE read.at # "reading"
  BY <1>2 DEF Outdates, TypeOK
<1> QED BY <1>1, <1>2

\* The broker's answer to a read.
LEMMA ServedIs ==
  ASSUME TypeOK, read.at = "reading", NEW list \in Lists, read' = [read EXCEPT !.list = list, !.served = TRUE]
  PROVE  /\ read' \in Reads
         /\ read'.at = "reading" /\ read'.served /\ read'.list = list /\ read'.outdated = read.outdated
<1>1. read \in Reads
  BY ReadIs
<1> QED BY <1>1 DEF Reads

LEMMA DispatchIs ==
  ASSUME TypeOK, NEW events \in Queues, Dispatch(events)
  PROVE  chain' \in Queues /\ \A i \in Ids : chain'[i] = chain[i] \o events[i]
BY JoinedQueues DEF TypeOK, Dispatch

LEMMA FinishIs ==
  ASSUME TypeOK, NEW events \in Queues, Finish(events)
  PROVE  /\ chain' \in Queues /\ \A i \in Ids : chain'[i] = chain[i] \o (taken[i] \o events[i])
         /\ taken' = NoEvents /\ read' = NoRead
         /\ stored' = stored /\ copied' = copied
<1>1. Joined(taken, events) \in Queues /\ \A i \in Ids : Joined(taken, events)[i] = taken[i] \o events[i]
  BY JoinedQueues DEF TypeOK
<1> QED BY <1>1, DispatchIs DEF Finish, Dispatch

LEMMA ClosesIs ==
  ASSUME Closes
  PROVE  /\ tracked' \in Lists /\ (\A i \in Ids : tracked'[i] = 0)
         /\ known' = FALSE /\ held' = FALSE /\ ending' = FALSE
         /\ buffered' = NoEvents /\ taken' = NoEvents /\ read' = Down
BY DEF Closes, Nothing, Lists

LEMMA TradesType == ASSUME TypeOK, MasterTrades PROVE TypeOK'
<1>1. account' \in [Ids -> 0..3]
  BY DEF MasterTrades, TypeOK
<1> QED BY <1>1 DEF MasterTrades, TypeOK, source, step, engine, ghosts

LEMMA ExpireType == ASSUME TypeOK, Expire PROVE TypeOK'
BY DEF Expire, TypeOK, step, engine, ghosts

LEMMA SocketType == ASSUME TypeOK, SocketList PROVE TypeOK'
<1>1. PICK list \in {List, Nothing} :
        /\ Delivers("websocket", list)
        /\ Apply(list, "websocket")
        /\ IF HeldBack(list, "websocket")
           THEN UNCHANGED <<buffered, read>>
           ELSE buffered' = Joined(buffered, Changes(list)) /\ Outdates
  BY DEF SocketList
<1>2. list \in Lists /\ glitches' \in Nat
  BY <1>1, DeliversIs
<1>3. tracked' \in Lists /\ held' \in BOOLEAN /\ known' \in BOOLEAN
  BY <1>1, <1>2, ApplyType
<1>4. Changes(list) \in Queues /\ buffered \in Queues
  BY <1>2, ChangesQueues DEF TypeOK
<1>5. buffered' \in Queues /\ read' \in {NoRead, Down} \cup Reads
  <2>1. CASE HeldBack(list, "websocket")
    BY <1>1, <2>1 DEF TypeOK
  <2>2. CASE ~HeldBack(list, "websocket")
    BY <1>1, <1>4, <2>2, JoinedQueues, OutdatesIs
  <2> QED BY <2>1, <2>2
<1> QED BY <1>2, <1>3, <1>5 DEF SocketList, TypeOK, engine

LEMMA BeginType == ASSUME TypeOK, Begin PROVE TypeOK'
<1>1. buffered' \in Queues
  BY NoEventsQueues DEF Begin
<1>2. CASE read' = Reading(1) /\ taken' = buffered /\ UNCHANGED <<ending, engine>>
  <2>1. read' \in Reads /\ taken' \in Queues
    BY <1>2, ReadingIs DEF TypeOK
  <2> QED BY <1>1, <1>2, <2>1 DEF Begin, TypeOK, engine, ghosts
<1>3. CASE Dispatch(buffered) /\ UNCHANGED step
  <2>1. chain' \in Queues
    BY <1>3, DispatchIs DEF TypeOK
  <2> QED BY <1>1, <1>3, <2>1 DEF Begin, TypeOK, Dispatch, step, ghosts
<1> QED BY <1>2, <1>3 DEF Begin

LEMMA ServeType == ASSUME TypeOK, Serve PROVE TypeOK'
<1>1. PICK list \in {List, Nothing} :
        Delivers("rest", list) /\ read' = [read EXCEPT !.list = list, !.served = TRUE]
  BY DEF Serve
<1>2. list \in Lists /\ glitches' \in Nat
  BY <1>1, DeliversIs
<1>3. read' \in Reads
  BY <1>1, <1>2, ServedIs DEF Serve
<1> QED BY <1>2, <1>3 DEF Serve, TypeOK, source, engine

\* What a read does that is applied, held back or dropped.
LEMMA ArriveType == ASSUME TypeOK, Arrive PROVE TypeOK'
<1>1. read \in Reads
  BY ReadIs DEF Arrive
<1>2. read.list \in Lists /\ Changes(read.list) \in Queues
  BY <1>1, ChangesQueues DEF Reads
<1>3. ASSUME NEW events \in Queues, Finish(events)
      PROVE  chain' \in Queues /\ taken' \in Queues /\ read' = NoRead /\ UNCHANGED <<stored, copied>>
  BY <1>3, FinishIs, NoEventsQueues
<1>4. CASE Finish(NoEvents) /\ UNCHANGED source
  BY <1>3, <1>4, NoEventsQueues DEF Arrive, TypeOK, source, ghosts
<1>5. CASE Apply(read.list, "rest") /\ UNCHANGED buffered
  <2>1. tracked' \in Lists /\ held' \in BOOLEAN /\ known' \in BOOLEAN
    BY <1>2, <1>5, ApplyType
  <2>2. CASE read' = Reading(2) /\ UNCHANGED <<taken, engine>>
    BY <1>5, <2>1, <2>2, ReadingIs DEF Arrive, TypeOK, engine, ghosts
  <2>3. CASE \E events \in {NoEvents, Changes(read.list)} : Finish(events)
    <3>1. chain' \in Queues /\ taken' \in Queues /\ read' = NoRead /\ UNCHANGED <<stored, copied>>
      BY <2>3, <1>2, <1>3, NoEventsQueues
    <3> QED BY <1>5, <2>1, <3>1 DEF Arrive, TypeOK, ghosts
  <2> QED BY <1>5, <2>2, <2>3 DEF Arrive, Finish
<1> QED BY <1>4, <1>5 DEF Arrive

LEMMA PassOverType == ASSUME TypeOK, PassOver PROVE TypeOK'
<1>1. chain' \in Queues /\ taken' \in Queues /\ read' = NoRead /\ UNCHANGED <<stored, copied>>
  BY FinishIs, NoEventsQueues DEF PassOver
<1> QED BY <1>1 DEF PassOver, TypeOK, source, ghosts

\* The stream ends: reads have failed, it was stopped, or the worker died.
LEMMA ClosesType ==
  ASSUME TypeOK, ReadFails \/ StopRunning \/ Crash
  PROVE  TypeOK' /\ Closes /\ account' = account /\ copied' = copied /\ chain' \in {chain, NoEvents}
<1>1. Closes /\ account' = account /\ copied' = copied /\ chain' \in {chain, NoEvents} /\ stored' = stored
  BY DEF ReadFails, StopRunning, Crash, engine
<1>2. glitches' \in Nat /\ failures' \in Nat /\ troubles' \in Nat
  BY DEF ReadFails, StopRunning, Crash, Failure, TypeOK, ghosts
<1>3. chain' \in Queues /\ copied' \in Queues /\ stored' \subseteq Ids \X Kinds /\ account' \in [Ids -> 0..3]
  BY <1>1, NoEventsQueues DEF TypeOK
<1> QED BY <1>1, <1>2, <1>3, ClosesIs, NoEventsQueues DEF TypeOK

LEMMA ReopenType == ASSUME TypeOK, Reopen PROVE TypeOK'
BY DEF Reopen, TypeOK, source, engine, ghosts

\* The head of a chain that has one, and the chain without it.
LEMMA ChainIs ==
  ASSUME TypeOK, NEW i \in Ids, chain[i] # <<>>
  PROVE  /\ chain[i] \in Seq(Kinds) /\ Head(chain[i]) \in Kinds /\ Key(i) \in Ids \X Kinds
         /\ Taken(i) => /\ chain' \in Queues
                        /\ chain'[i] = Tail(chain[i])
                        /\ \A j \in Ids \ {i} : chain'[j] = chain[j]
<1>1. chain[i] \in Seq(Kinds)
  BY DEF TypeOK, Queues
<1>2. Head(chain[i]) \in Kinds /\ Tail(chain[i]) \in Seq(Kinds)
  BY <1>1
<1> QED BY <1>1, <1>2 DEF Key, Taken, TypeOK, Queues

LEMMA PersistType == ASSUME TypeOK, NEW i \in Ids, Persist(i) PROVE TypeOK'
<1>1. chain' \in Queues /\ Head(chain[i]) \in Kinds /\ Key(i) \in Ids \X Kinds
  BY ChainIs DEF Persist
<1>2. stored' \subseteq Ids \X Kinds
  BY <1>1 DEF Persist, TypeOK
<1>3. copied' \in Queues
  <2>1. copied[i] \in Seq(Kinds) /\ copied \in [Ids -> Seq(Kinds)]
    BY DEF TypeOK, Queues
  <2>2. Append(copied[i], Head(chain[i])) \in Seq(Kinds)
    BY <1>1, <2>1
  <2>3. copied' = copied \/ copied' = [copied EXCEPT ![i] = Append(copied[i], Head(chain[i]))]
    BY DEF Persist
  <2> QED BY <2>1, <2>2, <2>3 DEF Queues
<1> QED BY <1>1, <1>2, <1>3 DEF Persist, TypeOK, source, step, ghosts

LEMMA TroubleType == ASSUME TypeOK, NEW i \in Ids, Trouble(i) PROVE TypeOK'
<1>1. chain' \in Queues /\ Key(i) \in Ids \X Kinds
  BY ChainIs DEF Trouble
<1>2. stored' \subseteq Ids \X Kinds /\ troubles' \in Nat
  BY <1>1 DEF Trouble, TypeOK
<1>3. ending' \in BOOLEAN /\ failures' \in Nat
  <2>1. UNCHANGED <<ending, failures>> \/ Fatal
    BY DEF Trouble
  <2>2. ending \in BOOLEAN /\ failures \in Nat
    BY DEF TypeOK
  <2>3. CASE Failure /\ ending' = TRUE
    BY <2>2, <2>3 DEF Failure
  <2> QED BY <2>1, <2>2, <2>3 DEF Fatal
<1> QED BY <1>1, <1>2, <1>3 DEF Trouble, TypeOK, source

LEMMA TypeStep == TypeOK /\ [Next]_vars => TypeOK'
<1>1. ASSUME TypeOK, UNCHANGED vars PROVE TypeOK'
  BY <1>1 DEF vars, source, step, engine, ghosts, TypeOK
<1>2. ASSUME TypeOK, Next PROVE TypeOK'
  BY <1>2, TradesType, ExpireType, SocketType, BeginType, ServeType, ArriveType, PassOverType, ClosesType,
     ReopenType, PersistType, TroubleType DEF Next
<1> QED BY <1>1, <1>2

LEMMA TypeInit == Init => TypeOK
<1> SUFFICES ASSUME Init PROVE TypeOK
  OBVIOUS
<1>1. account \in [Ids -> 0..3] /\ tracked \in Lists
  BY DEF Init, Nothing, Lists
<1>2. buffered \in Queues /\ taken \in Queues /\ chain \in Queues /\ copied \in Queues
  BY NoEventsQueues DEF Init
<1>3. read = NoRead /\ stored = {}
  BY DEF Init
<1>4. known \in BOOLEAN /\ held \in BOOLEAN /\ ending \in BOOLEAN
  BY DEF Init
<1>5. glitches \in Nat /\ failures \in Nat /\ troubles \in Nat
  BY DEF Init
<1> QED BY <1>1, <1>2, <1>3, <1>4, <1>5 DEF TypeOK

\* Every variable keeps its type, whatever is lost, late or ends.
THEOREM StreamTypes == Spec => []TypeOK
BY TypeInit, TypeStep, PTL DEF Spec

-----------------------------------------------------------------------------
(* Each event once                                                         *)

LEMMA OnceInit == Init => CopiedOnce
BY NoEventsQueues DEF Init, CopiedOnce

LEMMA OnceStep == TypeOK /\ CopiedOnce /\ [Next]_vars => CopiedOnce'
<1>1. ASSUME CopiedOnce, copied' = copied, stored \subseteq stored'
      PROVE  CopiedOnce'
  BY <1>1 DEF CopiedOnce
<1>2. ASSUME TypeOK, CopiedOnce, NEW i \in Ids, Persist(i)
      PROVE  CopiedOnce'
  <2>1. CASE Stored(Key(i))
    BY <1>1, <1>2, <2>1 DEF Persist
  <2>2. CASE ~Stored(Key(i))
    <3> DEFINE e == Head(chain[i])
    <3>1. /\ stored' = stored \cup {<<i, e>>} /\ <<i, e>> \notin stored
          /\ copied' = [copied EXCEPT ![i] = Append(copied[i], e)]
      BY <1>2, <2>2 DEF Persist, Stored, Key
    <3>2. copied \in [Ids -> Seq(Kinds)] /\ copied[i] \in Seq(Kinds) /\ e \in Kinds
      BY <1>2, ChainIs DEF Persist, TypeOK, Queues
    <3> HIDE DEF e
    <3>3. /\ DOMAIN Append(copied[i], e) = DOMAIN copied[i] \cup {Len(copied[i]) + 1}
          /\ Append(copied[i], e)[Len(copied[i]) + 1] = e
          /\ \A n \in DOMAIN copied[i] : Append(copied[i], e)[n] = copied[i][n] /\ n \in 1..Len(copied[i])
          /\ Len(copied[i]) \in Nat
      BY <3>2
    <3>4. /\ copied'[i] = Append(copied[i], e)
          /\ \A j \in Ids \ {i} : copied'[j] = copied[j]
      BY <3>1, <3>2
    <3>5. \A n \in DOMAIN copied'[i] : <<i, copied'[i][n]>> \in stored'
      BY <1>2, <3>1, <3>3, <3>4 DEF CopiedOnce
    <3>6. ASSUME NEW m \in DOMAIN copied'[i], NEW n \in DOMAIN copied'[i], m < n
          PROVE  copied'[i][m] # copied'[i][n]
      <4>1. m \in DOMAIN copied[i]
        BY <3>3, <3>4, <3>6
      <4>2. CASE n \in DOMAIN copied[i]
        BY <1>2, <3>3, <3>4, <3>6, <4>1, <4>2 DEF CopiedOnce
      <4>3. CASE n = Len(copied[i]) + 1
        <5>1. <<i, copied[i][m]>> \in stored
          BY <1>2, <4>1 DEF CopiedOnce
        <5>2. copied[i][m] # e
          BY <3>1, <5>1
        <5> QED BY <3>3, <3>4, <4>1, <4>3, <5>2
      <4> QED BY <3>3, <3>4, <4>2, <4>3
    <3>7. ASSUME NEW j \in Ids, j # i
          PROVE  /\ \A n \in DOMAIN copied'[j] : <<j, copied'[j][n]>> \in stored'
                 /\ \A m, n \in DOMAIN copied'[j] : m < n => copied'[j][m] # copied'[j][n]
      BY <1>2, <3>1, <3>4, <3>7 DEF CopiedOnce
    <3> QED BY <3>5, <3>6, <3>7 DEF CopiedOnce
  <2> QED BY <2>1, <2>2
<1>3. ASSUME TypeOK, CopiedOnce, NEW i \in Ids, Trouble(i)
      PROVE  CopiedOnce'
  <2>1. copied' = copied /\ stored \subseteq stored'
    BY <1>3 DEF Trouble
  <2> QED BY <1>1, <1>3, <2>1
<1>4. ASSUME TypeOK, CopiedOnce, Next, ~\E i \in Ids : Persist(i) \/ Trouble(i)
      PROVE  CopiedOnce'
  <2>1. copied' = copied /\ stored' = stored
    BY <1>4, FinishIs DEF Next, MasterTrades, Expire, SocketList, Begin, Serve, Arrive, PassOver, ReadFails,
       StopRunning, Crash, Reopen, Dispatch, Finish, engine
  <2> QED BY <1>1, <1>4, <2>1
<1>5. ASSUME CopiedOnce, UNCHANGED vars
      PROVE  CopiedOnce'
  BY <1>1, <1>5 DEF vars, engine
<1> QED BY <1>2, <1>3, <1>4, <1>5 DEF Next

\* No event of a position is copied twice, whatever lists overtake each other and
\* however often a stream is opened again (the dedupe key of storeMasterEvent).
THEOREM StreamCopiesOnce == Spec => []CopiedOnce
<1>1. Init => TypeOK /\ CopiedOnce
  BY TypeInit, OnceInit
<1>2. TypeOK /\ CopiedOnce /\ [Next]_vars => (TypeOK /\ CopiedOnce)'
  BY TypeStep, OnceStep
<1> QED BY <1>1, <1>2, PTL DEF Spec

-----------------------------------------------------------------------------
(* The invariant                                                           *)

LEMMA StreamInit == Init => SInv
<1> SUFFICES ASSUME Init PROVE SInv
  OBVIOUS
<1>1. TypeOK
  BY TypeInit
<1>2. read.at = "rest" /\ taken = NoEvents /\ ~held
  BY Idle DEF Init
<1>3. \A i \in Ids : tracked[i] = 0
  BY DEF Init, Nothing
<1>4. AllSealed
  BY NoEventsQueues, EmptySealed DEF Init, AllSealed, Sealed
<1> QED BY <1>1, <1>2, <1>3, <1>4 DEF SInv, Opened, ReadTrue, Valid, HeldTrue, Ordered

LEMMA QueuesOf ==
  ASSUME TypeOK, NEW i \in Ids
  PROVE  /\ copied[i] \in Seq(Kinds) /\ chain[i] \in Seq(Kinds) /\ taken[i] \in Seq(Kinds)
         /\ buffered[i] \in Seq(Kinds) /\ Gone(i) \in BOOLEAN /\ Gone(i)' \in BOOLEAN
BY DEF TypeOK, Queues, Gone

\* What a list, applied or held back, does to the source.
LEMMA ApplyIs ==
  ASSUME TypeOK, NEW list \in Lists, NEW c, Apply(list, c)
  PROVE  /\ HeldBack(list, c) => /\ list = Nothing /\ tracked' = tracked
                                 /\ held' => held \/ list = Nothing
         /\ ~HeldBack(list, c) => tracked' = list /\ held' = FALSE
BY DEF Apply, HeldBack

\* The socket takes no position away on one empty list.
LEMMA SocketHolds ==
  ASSUME TypeOK, known, ~HeldBack(Nothing, "websocket"), NEW i \in Ids, tracked[i] # 0
  PROVE  held
<1>1. IsFiniteSet(Tracked) /\ Tracked # {}
  <2>1. Tracked \subseteq Ids /\ i \in Tracked
    BY DEF Tracked
  <2> QED BY <2>1, StreamAssumption, FS_Subset
<1>2. Cardinality(Tracked) \in Nat /\ Cardinality(Tracked) # 0
  BY <1>1, FS_CardinalityType, FS_EmptySet
<1>3. Cardinality(Tracked) = 1 \/ Cardinality(Tracked) >= 2
  BY <1>2
<1> QED BY <1>3 DEF HeldBack

\* What a list by the socket says is so when it is applied.
LEMMA SocketConfirms ==
  ASSUME PassingOnce, SInv, known, NEW list \in {List, Nothing}, Delivers("websocket", list),
         ~HeldBack(list, "websocket")
  PROVE  Confirms(list) /\ \A i \in Ids : list[i] # 0 => account[i] \in {1, 2}
<1>1. TypeOK /\ Opened /\ HeldTrue
  BY DEF SInv
<1>2. CASE list = List
  <2>1. \A i \in Ids : account[i] \in 0..3
    BY <1>1 DEF TypeOK
  <2> QED BY <1>1, <1>2, <2>1, ListShows DEF Confirms, Opened
<1>3. CASE list # List
  <2>1. list = Nothing /\ glitches < MaxGlitches
    BY <1>1, <1>3, DeliversIs
  <2>2. \A i \in Ids : list[i] = 0
    BY <1>1, <2>1, ListShows
  <2>3. ASSUME NEW i \in Ids, tracked[i] # 0 PROVE account[i] = 3
    <3>1. held
      BY <1>1, <2>1, <2>3, SocketHolds
    <3>2. Confirms(Nothing)
      BY <1>1, <2>1, <3>1, StreamAssumption DEF HeldTrue, TypeOK
    <3> QED BY <2>1, <2>2, <2>3, <3>2 DEF Confirms
  <2> QED BY <2>2, <2>3 DEF Confirms
<1> QED BY <1>2, <1>3

\* The events of a list that is so.
LEMMA ChangesAre ==
  ASSUME TypeOK, NEW list \in Lists, Confirms(list), NEW i \in Ids
  PROVE  /\ Changes(list)[i] \in Seq(Kinds)
         /\ tracked[i] = 0 /\ list[i] = 0 => Changes(list)[i] = <<>>
         /\ CloseLast(Changes(list)[i])
         /\ HasClose(Changes(list)[i]) => account[i] = 3 /\ list[i] = 0
<1>1. Changes(list)[i] \in Seq(Kinds)
  BY ChangesQueues DEF Queues
<1>2. CASE tracked[i] = list[i]
  BY <1>1, <1>2, ChangesQueues, EmptySealed
<1>3. CASE tracked[i] # list[i]
  <2>1. PICK e \in Kinds : Changes(list)[i] = <<e>> /\ (e = "CLOSE" <=> tracked[i] # 0 /\ list[i] = 0)
    BY <1>3, ChangesQueues
  <2> QED BY <1>1, <1>3, <2>1, OneSealed DEF Confirms
<1> QED BY <1>2, <1>3

\* What has to be shown of a step that dispatches events: a step of the pump ends.
LEMMA FinishSteps ==
  ASSUME SInv, TypeOK', account' = account, NEW events \in Queues, Finish(events), buffered' = buffered,
         \A i \in Ids :
           /\ Gone(i) => tracked'[i] = 0 /\ events[i] = <<>>
           /\ CloseLast(events[i])
           /\ HasClose(events[i]) => account[i] = 3 /\ tracked'[i] = 0
           /\ events[i] = <<>> \/ buffered[i] = <<>>
  PROVE  ReadTrue' /\ Ordered' /\ AllSealed'
<1>1. /\ TypeOK /\ AllSealed
  BY DEF SInv
<1>2. /\ \A i \in Ids : chain'[i] = chain[i] \o (taken[i] \o events[i])
      /\ taken' = NoEvents /\ read' = NoRead /\ copied' = copied
  BY <1>1, FinishIs
<1>3. read'.at = "rest"
  BY <1>2, Idle
<1>4. ASSUME NEW i \in Ids
      PROVE  Sealed(copied'[i], chain'[i], taken'[i], buffered'[i], Gone(i)')
  <2>1. Gone(i)' <=> account[i] = 3 /\ tracked'[i] = 0
    BY <1>3 DEF Gone, Valid
  <2>2. Gone(i) => Gone(i)' /\ events[i] = <<>>
    BY <2>1 DEF Gone
  <2>3. events[i] \in Seq(Kinds)
    BY DEF Queues
  <2>4. Sealed(copied[i], chain[i], taken[i], buffered[i], Gone(i))
    BY <1>1 DEF AllSealed
  <2> DEFINE then == Gone(i)'
  <2>5. then \in BOOLEAN /\ (Gone(i) => then) /\ (HasClose(events[i]) => then)
    BY <1>1, <2>1, <2>2, QueuesOf
  <2> HIDE DEF then
  <2>6. Sealed(copied[i], chain[i] \o (taken[i] \o events[i]), <<>>, buffered[i], then)
    BY SMTT(30), <1>1, <2>2, <2>3, <2>4, <2>5, QueuesOf, SealedDispatch
  <2>7. taken'[i] = <<>>
    BY <1>2, NoEventsQueues
  <2> QED BY <1>2, <2>6, <2>7 DEF then
<1> QED BY <1>2, <1>3, <1>4 DEF ReadTrue, Valid, Ordered, AllSealed

\* The parts of the invariant that are about one step, beside the types.
Rest == Opened /\ ReadTrue /\ HeldTrue /\ Ordered /\ AllSealed

\* A step of the source or of the pump that leaves the queues of a position as
\* they are only may let it be gone.
LEMMA SealedStay ==
  ASSUME SInv, UNCHANGED <<copied, chain, taken, buffered>>, \A i \in Ids : Gone(i) => Gone(i)'
  PROVE  AllSealed'
<1>1. ASSUME NEW i \in Ids
      PROVE  Sealed(copied[i], chain[i], taken[i], buffered[i], Gone(i)')
  <2> DEFINE then == Gone(i)'
  <2>1. Gone(i) => then
    OBVIOUS
  <2> HIDE DEF then
  <2>2. Sealed(copied[i], chain[i], taken[i], buffered[i], then)
    BY <2>1, SealedGone DEF SInv, AllSealed
  <2> QED BY <2>2 DEF then
<1> QED BY <1>1 DEF AllSealed

\* What was closed stays closed, and an id is not used again.
LEMMA TradesStep == ASSUME SInv, MasterTrades PROVE Rest'
<1>1. \A i \in Ids : (account[i] # 0 => account'[i] # 0) /\ (account[i] = 3 => account'[i] = 3)
  BY DEF MasterTrades, SInv, TypeOK
<1>2. /\ UNCHANGED <<tracked, held, read, taken, buffered, glitches>>
      /\ UNCHANGED <<copied, chain>>
  BY DEF MasterTrades, source, step, engine, ghosts
<1>3. \A i \in Ids : Gone(i) => Gone(i)'
  BY <1>1, <1>2 DEF Gone, Valid
<1>4. AllSealed'
  BY <1>2, <1>3, SealedStay
<1>5. Opened' /\ Ordered'
  BY <1>1, <1>2 DEF SInv, Opened, Ordered
<1>6. (Valid => Valid') /\ (Valid' => Valid)
  BY <1>2 DEF Valid
<1>7. Nothing' = Nothing
  BY DEF Nothing
<1>8. ReadTrue' /\ HeldTrue'
  BY <1>1, <1>2, <1>6, <1>7 DEF SInv, ReadTrue, HeldTrue, Confirms
<1> QED BY <1>4, <1>5, <1>8 DEF Rest

LEMMA ExpireStep == ASSUME SInv, Expire PROVE Rest'
<1>1. UNCHANGED <<account, tracked, read, taken, buffered, copied, chain>> /\ held' = FALSE
  BY DEF Expire, step, engine
<1>2. \A i \in Ids : Gone(i) => Gone(i)'
  BY <1>1 DEF Gone, Valid
<1>3. AllSealed'
  BY <1>1, <1>2, SealedStay
<1>4. Opened' /\ Ordered' /\ ReadTrue' /\ HeldTrue'
  BY <1>1 DEF SInv, Opened, Ordered, ReadTrue, Valid, Confirms, HeldTrue
<1> QED BY <1>3, <1>4 DEF Rest

\* An empty list that is held back is true, or it is the only one that is not.
LEMMA HeldSteps ==
  ASSUME SInv, account' = account, tracked' = tracked, glitches' \in Nat, glitches' >= glitches,
         held' => held \/ glitches' >= MaxGlitches \/ Confirms(Nothing)
  PROVE  HeldTrue'
<1>1. Nothing' = Nothing
  BY DEF Nothing
<1>2. glitches \in Nat /\ MaxGlitches \in Nat
  BY StreamAssumption DEF SInv, TypeOK
<1>3. Confirms(Nothing) => Confirms(Nothing)'
  BY <1>1 DEF Confirms
<1> QED BY <1>2, <1>3 DEF SInv, HeldTrue

LEMMA SocketStep == ASSUME PassingOnce, SInv, SocketList PROVE Rest'
<1>1. PICK list \in {List, Nothing} :
        /\ Delivers("websocket", list)
        /\ Apply(list, "websocket")
        /\ IF HeldBack(list, "websocket")
           THEN UNCHANGED <<buffered, read>>
           ELSE buffered' = Joined(buffered, Changes(list)) /\ Outdates
  BY DEF SocketList
<1>2. /\ TypeOK /\ Opened /\ HeldTrue /\ Ordered /\ ReadTrue
      /\ UNCHANGED <<account, taken, copied, chain>> /\ known
  BY DEF SInv, SocketList, engine
<1>3. /\ list \in Lists /\ glitches' \in Nat /\ glitches' >= glitches
      /\ list = List \/ (list = Nothing /\ glitches' = glitches + 1)
  BY <1>1, <1>2, DeliversIs
<1>4. /\ HeldBack(list, "websocket") => /\ list = Nothing /\ tracked' = tracked
                                        /\ held' => held \/ list = Nothing
      /\ ~HeldBack(list, "websocket") => tracked' = list /\ held' = FALSE
  BY <1>1, <1>2, <1>3, ApplyIs
<1>5. CASE HeldBack(list, "websocket")
  <2>1. UNCHANGED <<buffered, read, tracked>>
    BY <1>1, <1>4, <1>5
  <2>2. \A i \in Ids : Gone(i) => Gone(i)'
    BY <1>2, <2>1 DEF Gone, Valid
  <2>3. AllSealed'
    BY <1>2, <2>1, <2>2, SealedStay
  <2>4. Opened' /\ Ordered' /\ ReadTrue'
    BY <1>2, <2>1 DEF Opened, Ordered, ReadTrue, Valid, Confirms
  <2>5. list = List => Confirms(Nothing)
    <3>1. \A i \in Ids : account[i] \in 0..3 /\ (List[i] = 0 <=> account[i] \in {0, 3}) /\ Nothing[i] = 0
      BY <1>2, ListShows DEF TypeOK
    <3> QED BY <1>2, <1>4, <1>5, <3>1 DEF Confirms, Opened
  <2>6. list # List => glitches' >= MaxGlitches
    BY <1>2, <1>3, StreamAssumption DEF PassingOnce, TypeOK
  <2>7. HeldTrue'
    BY <1>2, <1>3, <2>1, <2>5, <2>6, HeldSteps
  <2> QED BY <2>3, <2>4, <2>7 DEF Rest
<1>6. CASE ~HeldBack(list, "websocket")
  <2>1. tracked' = list /\ held' = FALSE /\ buffered' = Joined(buffered, Changes(list)) /\ Outdates
    BY <1>1, <1>4, <1>6
  <2>2. Confirms(list) /\ \A i \in Ids : list[i] # 0 => account[i] \in {1, 2}
    BY <1>1, <1>2, <1>6, SocketConfirms
  <2>3. read'.at = read.at /\ (read.at = "reading" => read'.outdated /\ read'.list = read.list)
    BY <1>2, <2>1, OutdatesIs
  <2>4. ~Valid'
    BY <2>3 DEF Valid
  <2>5. Opened' /\ Ordered' /\ ReadTrue' /\ HeldTrue'
    BY <1>2, <2>1, <2>2, <2>3, <2>4 DEF Opened, Ordered, ReadTrue, HeldTrue
  <2>6. Changes(list) \in Queues /\ \A i \in Ids : buffered'[i] = buffered[i] \o Changes(list)[i]
    BY <1>2, <1>3, <2>1, ChangesQueues, JoinedQueues DEF TypeOK
  <2>7. ASSUME NEW i \in Ids
        PROVE  Sealed(copied[i], chain[i], taken[i], buffered'[i], Gone(i)')
    <3>1. /\ Changes(list)[i] \in Seq(Kinds)
          /\ tracked[i] = 0 /\ list[i] = 0 => Changes(list)[i] = <<>>
          /\ CloseLast(Changes(list)[i])
          /\ HasClose(Changes(list)[i]) => account[i] = 3 /\ list[i] = 0
      BY <1>2, <1>3, <2>2, ChangesAre
    <3>2. Gone(i)' <=> account[i] = 3 /\ list[i] = 0
      BY <1>2, <2>1, <2>4 DEF Gone
    <3>3. Gone(i) => Gone(i)' /\ Changes(list)[i] = <<>>
      BY <2>2, <3>1, <3>2 DEF Gone
    <3> DEFINE then == Gone(i)'
    <3>4. then \in BOOLEAN /\ (Gone(i) => then) /\ (HasClose(Changes(list)[i]) => then)
      BY <1>2, <3>1, <3>2, <3>3, QueuesOf
    <3> HIDE DEF then
    <3>5. Sealed(copied[i], chain[i], taken[i], buffered[i], Gone(i))
      BY DEF SInv, AllSealed
    <3>6. /\ copied[i] \in Seq(Kinds) /\ chain[i] \in Seq(Kinds) /\ taken[i] \in Seq(Kinds)
          /\ buffered[i] \in Seq(Kinds) /\ Gone(i) \in BOOLEAN
          /\ Gone(i) => then /\ Changes(list)[i] = <<>>
      BY <1>2, <3>3, <3>4, QueuesOf
    <3>7. Sealed(copied[i], chain[i], taken[i], buffered[i] \o Changes(list)[i], then)
      BY SMTT(30), <3>1, <3>4, <3>5, <3>6, SealedBuffer
    <3> QED BY <2>6, <3>7 DEF then
  <2> QED BY <1>2, <2>5, <2>7 DEF Rest, AllSealed
<1> QED BY <1>5, <1>6

LEMMA BeginStep == ASSUME SInv, Begin PROVE Rest'
<1>1. /\ TypeOK /\ Opened /\ HeldTrue /\ Ordered /\ ReadTrue
      /\ UNCHANGED <<account, tracked, held, glitches, copied>>
      /\ read = NoRead /\ buffered' = NoEvents /\ taken = NoEvents
  BY Idle DEF SInv, Begin, Ordered, Dispatch, ghosts, engine
<1>2. ~Valid
  BY <1>1, Idle DEF Valid
<1>3. HeldTrue'
  BY <1>1, HeldSteps DEF TypeOK
<1>4. CASE read' = Reading(1) /\ taken' = buffered /\ UNCHANGED <<ending, engine>>
  <2>1. /\ ~Valid' /\ read'.at = "reading" /\ chain' = chain
        /\ \A i \in Ids : read'.list[i] = 0
    BY <1>4, ReadingIs DEF Valid, engine
  <2>2. Opened' /\ Ordered' /\ ReadTrue'
    BY <1>1, <2>1 DEF Opened, Ordered, ReadTrue
  <2>3. ASSUME NEW i \in Ids
        PROVE  Sealed(copied[i], chain[i], buffered[i], <<>>, Gone(i)')
    <3>1. Sealed(copied[i], chain[i], <<>>, buffered[i], Gone(i))
      BY <1>1, NoEventsQueues DEF SInv, AllSealed
    <3>2. Sealed(copied[i], chain[i], buffered[i], <<>>, Gone(i))
      BY <3>1, SealedTake
    <3> DEFINE then == Gone(i)'
    <3>3. Gone(i) => then
      BY <1>1, <2>1 DEF Gone
    <3> HIDE DEF then
    <3>4. Sealed(copied[i], chain[i], buffered[i], <<>>, then)
      BY <3>2, <3>3, SealedGone
    <3> QED BY <3>4 DEF then
  <2>4. AllSealed'
    BY <1>1, <1>4, <2>1, <2>3, NoEventsQueues DEF AllSealed
  <2> QED BY <1>3, <2>2, <2>4 DEF Rest
<1>5. CASE Dispatch(buffered) /\ UNCHANGED step
  <2>1. /\ read' = read /\ taken' = taken /\ ~Valid'
        /\ \A i \in Ids : chain'[i] = chain[i] \o buffered[i]
    BY <1>1, <1>2, <1>5, DispatchIs DEF step, TypeOK, Valid
  <2>2. Opened' /\ Ordered' /\ ReadTrue'
    BY <1>1, <2>1, Idle DEF Opened, Ordered, ReadTrue
  <2>3. ASSUME NEW i \in Ids
        PROVE  Sealed(copied[i], chain[i] \o buffered[i], <<>>, <<>>, Gone(i)')
    <3>1. Sealed(copied[i], chain[i], <<>>, buffered[i], Gone(i))
      BY <1>1, NoEventsQueues DEF SInv, AllSealed
    <3>2. Sealed(copied[i], chain[i] \o buffered[i], <<>>, <<>>, Gone(i))
      BY <1>1, <3>1, SealedForward, QueuesOf
    <3> DEFINE then == Gone(i)'
    <3>3. Gone(i) => then
      BY <1>1, <2>1 DEF Gone
    <3> HIDE DEF then
    <3>4. Sealed(copied[i], chain[i] \o buffered[i], <<>>, <<>>, then)
      BY <3>2, <3>3, SealedGone
    <3> QED BY <3>4 DEF then
  <2>4. AllSealed'
    BY <1>1, <2>1, <2>3, NoEventsQueues DEF AllSealed
  <2> QED BY <1>3, <2>2, <2>4 DEF Rest
<1> QED BY <1>4, <1>5 DEF Begin

\* What REST says is so when it says it.
LEMMA ServeStep == ASSUME PassingOnce, SInv, Serve PROVE Rest'
<1>1. PICK list \in {List, Nothing} :
        Delivers("rest", list) /\ read' = [read EXCEPT !.list = list, !.served = TRUE]
  BY DEF Serve
<1>2. /\ TypeOK /\ Opened /\ HeldTrue /\ Ordered /\ read.at = "reading" /\ ~read.served
      /\ UNCHANGED <<account, tracked, held, taken, buffered, copied, chain>>
  BY DEF SInv, Serve, source, engine
<1>3. list \in Lists /\ glitches' \in Nat /\ glitches' >= glitches /\ list = List
  BY <1>1, <1>2, DeliversIs DEF PassingOnce
<1>4. read'.at = "reading" /\ read'.served /\ read'.list = list /\ read'.outdated = read.outdated
  BY <1>1, <1>2, <1>3, ServedIs
<1>5. \A i \in Ids : account[i] \in 0..3 /\ (list[i] = 0 <=> account[i] \in {0, 3})
  BY <1>2, <1>3, ListShows DEF TypeOK
<1>6. \A i \in Ids : Gone(i) => Gone(i)'
  BY <1>2, <1>4, <1>5 DEF Gone
<1>7. AllSealed'
  BY <1>2, <1>6, SealedStay
<1>8. Opened' /\ Ordered'
  BY <1>2, <1>4, <1>5 DEF Opened, Ordered
<1>9. ReadTrue'
  BY <1>2, <1>4, <1>5 DEF ReadTrue, Confirms, Opened
<1>10. HeldTrue'
  BY <1>2, <1>3, HeldSteps
<1> QED BY <1>7, <1>8, <1>9, <1>10 DEF Rest

\* The end of a step that applies no list.
LEMMA DropStep ==
  ASSUME SInv, TypeOK', Finish(NoEvents), UNCHANGED <<account, tracked, buffered, glitches>>,
         held' => held \/ Confirms(Nothing)
  PROVE  Rest'
<1>1. /\ TypeOK /\ Opened /\ glitches \in Nat
  BY DEF SInv, TypeOK
<1>2. read'.at = "rest"
  BY Idle DEF Finish
<1>3. Opened'
  BY <1>1, <1>2 DEF Opened
<1>4. HeldTrue'
  BY <1>1, HeldSteps
<1>5. ReadTrue' /\ Ordered' /\ AllSealed'
  <2>1. \A i \in Ids : Gone(i) => tracked'[i] = 0
    BY DEF Gone
  <2> QED BY <2>1, FinishSteps, NoEventsQueues, EmptySealed
<1> QED BY <1>3, <1>4, <1>5 DEF Rest

LEMMA ArriveStep == ASSUME SInv, TypeOK', Arrive PROVE Rest'
<1>1. /\ TypeOK /\ Opened /\ Ordered /\ ReadTrue /\ read.at = "reading" /\ read.served
      /\ UNCHANGED <<account, glitches>>
  BY DEF SInv, Arrive, ghosts
<1>2. read \in Reads /\ read.list \in Lists
  BY <1>1, ReadIs DEF Reads
<1>3. CASE read.outdated
  BY <1>1, <1>3, DropStep DEF Arrive, source
<1>4. CASE ~read.outdated
  <2>1. Valid /\ Confirms(read.list) /\ buffered = NoEvents /\ buffered' = buffered /\ Apply(read.list, "rest")
    BY <1>1, <1>4 DEF Valid, ReadTrue, Ordered, Arrive
  <2>2. /\ HeldBack(read.list, "rest") => /\ read.list = Nothing /\ tracked' = tracked
                                          /\ held' => held \/ read.list = Nothing
        /\ ~HeldBack(read.list, "rest") => tracked' = read.list /\ held' = FALSE
    BY <1>1, <1>2, <2>1, ApplyIs
  <2>3. CASE HeldBack(read.list, "rest")
    <3>1. tracked' = tracked /\ (held' => held \/ Confirms(Nothing))
      BY <2>1, <2>2, <2>3
    <3>2. CASE Finish(NoEvents)
      BY <1>1, <2>1, <3>1, <3>2, DropStep
    <3>3. CASE read' = Reading(2) /\ UNCHANGED <<taken, engine>>
      <4>1. /\ ~Valid' /\ read'.at = "reading" /\ chain' = chain /\ copied' = copied
            /\ \A i \in Ids : read'.list[i] = 0
        BY <3>3, ReadingIs DEF Valid, engine
      <4>2. \A i \in Ids : Gone(i) => Gone(i)'
        BY <1>1, <3>1, <4>1 DEF Gone
      <4>3. AllSealed'
        BY <2>1, <3>3, <4>1, <4>2, SealedStay
      <4>4. Opened' /\ Ordered' /\ ReadTrue'
        BY <1>1, <2>1, <3>1, <4>1 DEF Opened, Ordered, ReadTrue
      <4>5. HeldTrue'
        BY <1>1, <3>1, HeldSteps DEF TypeOK
      <4> QED BY <4>3, <4>4, <4>5 DEF Rest
    <3> QED BY <1>4, <2>3, <3>2, <3>3 DEF Arrive
  <2>4. CASE ~HeldBack(read.list, "rest")
    <3>1. tracked' = read.list /\ held' = FALSE /\ Finish(Changes(read.list))
      BY <1>4, <2>2, <2>4 DEF Arrive
    <3>2. Changes(read.list) \in Queues
      BY <1>1, <1>2, ChangesQueues
    <3>3. ASSUME NEW i \in Ids
          PROVE  /\ Gone(i) => tracked'[i] = 0 /\ Changes(read.list)[i] = <<>>
                 /\ CloseLast(Changes(read.list)[i])
                 /\ HasClose(Changes(read.list)[i]) => account[i] = 3 /\ tracked'[i] = 0
                 /\ buffered[i] = <<>>
      <4>1. /\ tracked[i] = 0 /\ read.list[i] = 0 => Changes(read.list)[i] = <<>>
            /\ CloseLast(Changes(read.list)[i])
            /\ HasClose(Changes(read.list)[i]) => account[i] = 3 /\ read.list[i] = 0
        BY <1>1, <1>2, <2>1, ChangesAre
      <4>2. Gone(i) => tracked[i] = 0 /\ read.list[i] = 0
        BY <2>1 DEF Gone
      <4> QED BY <2>1, <3>1, <4>1, <4>2, NoEventsQueues
    <3>4. ReadTrue' /\ Ordered' /\ AllSealed'
      BY <1>1, <2>1, <3>1, <3>2, <3>3, FinishSteps
    <3>5. read'.at = "rest"
      BY <3>1, Idle DEF Finish
    <3>6. Opened' /\ HeldTrue'
      BY <1>1, <3>1, <3>5 DEF Opened, HeldTrue
    <3> QED BY <3>4, <3>6 DEF Rest
  <2> QED BY <2>3, <2>4
<1> QED BY <1>3, <1>4

LEMMA PassOverStep == ASSUME SInv, TypeOK', PassOver PROVE Rest'
BY DropStep DEF PassOver, source, ghosts

\* What is gone stays so when the stream has ended.
LEMMA ClosesStep == ASSUME SInv, ReadFails \/ StopRunning \/ Crash PROVE Rest'
<1>1. TypeOK /\ Closes /\ account' = account /\ copied' = copied /\ chain' \in {chain, NoEvents}
  BY ClosesType DEF SInv
<1>2. /\ \A i \in Ids : tracked'[i] = 0
      /\ held' = FALSE /\ buffered' = NoEvents /\ taken' = NoEvents /\ read'.at = "down"
  BY <1>1, ClosesIs, Idle
<1>3. Opened' /\ Ordered' /\ ReadTrue' /\ HeldTrue'
  BY <1>2 DEF Opened, Ordered, ReadTrue, Valid, HeldTrue
<1>4. ASSUME NEW i \in Ids
      PROVE  Sealed(copied'[i], chain'[i], taken'[i], buffered'[i], Gone(i)')
  <2>1. Sealed(copied[i], chain[i], taken[i], buffered[i], Gone(i))
    BY DEF SInv, AllSealed
  <2>2. Sealed(copied[i], chain[i], <<>>, <<>>, Gone(i)) /\ Sealed(copied[i], <<>>, <<>>, <<>>, Gone(i))
    BY <2>1, SealedLost
  <2>3. copied'[i] = copied[i] /\ chain'[i] \in {chain[i], <<>>} /\ taken'[i] = <<>> /\ buffered'[i] = <<>>
    BY <1>1, <1>2, NoEventsQueues
  <2> DEFINE then == Gone(i)'
  <2>4. Gone(i) => then
    BY <1>1, <1>2 DEF Gone, Valid
  <2> HIDE DEF then
  <2>5. Sealed(copied[i], chain[i], <<>>, <<>>, then) /\ Sealed(copied[i], <<>>, <<>>, <<>>, then)
    BY <2>2, <2>4, SealedGone
  <2> QED BY <2>3, <2>5 DEF then
<1> QED BY <1>3, <1>4 DEF Rest, AllSealed

LEMMA ReopenStep == ASSUME SInv, Reopen PROVE Rest'
<1>1. /\ UNCHANGED <<account, tracked, held, glitches, taken, buffered, copied, chain>>
      /\ read.at = "down" /\ read'.at = "rest"
  BY Idle DEF Reopen, source, engine, ghosts
<1>2. \A i \in Ids : Gone(i) => Gone(i)'
  BY <1>1 DEF Gone, Valid
<1>3. AllSealed'
  BY <1>1, <1>2, SealedStay
<1>4. Opened' /\ Ordered' /\ ReadTrue'
  BY <1>1 DEF SInv, Opened, Ordered, ReadTrue, Valid
<1>5. HeldTrue'
  BY <1>1, HeldSteps DEF SInv, TypeOK
<1> QED BY <1>3, <1>4, <1>5 DEF Rest

\* The chains store and copy; the source is not theirs.
LEMMA ChainStep == ASSUME SInv, NEW i \in Ids, Persist(i) \/ Trouble(i) PROVE Rest'
<1>1. /\ TypeOK /\ AllSealed /\ chain[i] # <<>> /\ Taken(i)
      /\ UNCHANGED <<account, tracked, held, buffered, read, taken, glitches>>
      /\ copied' \in {copied, [copied EXCEPT ![i] = Append(@, Head(chain[i]))]}
  BY DEF SInv, Persist, Trouble, source, step, ghosts
<1>2. Opened' /\ Ordered' /\ ReadTrue' /\ HeldTrue'
  <2>1. Opened' /\ Ordered' /\ ReadTrue'
    BY <1>1 DEF SInv, Opened, Ordered, ReadTrue, Valid, Confirms
  <2>2. HeldTrue'
    BY <1>1, HeldSteps DEF TypeOK
  <2> QED BY <2>1, <2>2
<1>3. chain'[i] = Tail(chain[i]) /\ \A j \in Ids \ {i} : chain'[j] = chain[j]
  BY <1>1, ChainIs
<1>4. /\ copied'[i] \in {copied[i], Append(copied[i], Head(chain[i]))}
      /\ \A j \in Ids \ {i} : copied'[j] = copied[j]
  BY <1>1 DEF TypeOK, Queues
<1>5. ASSUME NEW j \in Ids
      PROVE  Sealed(copied'[j], chain'[j], taken'[j], buffered'[j], Gone(j)')
  <2>1. Gone(j)' <=> Gone(j)
    BY <1>1 DEF Gone, Valid
  <2>2. Sealed(copied[j], chain[j], taken[j], buffered[j], Gone(j))
    BY <1>1 DEF AllSealed
  <2> DEFINE then == Gone(j)'
  <2>3. Gone(j) => then
    BY <2>1
  <2> HIDE DEF then
  <2>4. Sealed(copied[j], chain[j], taken[j], buffered[j], then)
    BY <2>2, <2>3, SealedGone
  <2>5. CASE j = i
    <3>1. /\ Sealed(copied[j], Tail(chain[j]), taken[j], buffered[j], then)
          /\ Sealed(Append(copied[j], Head(chain[j])), Tail(chain[j]), taken[j], buffered[j], then)
      BY <1>1, <2>4, <2>5, QueuesOf, SealedHead
    <3> QED BY <1>1, <1>3, <1>4, <2>5, <3>1 DEF then
  <2>6. CASE j # i
    BY <1>1, <1>3, <1>4, <2>4, <2>6 DEF then
  <2> QED BY <2>5, <2>6
<1> QED BY <1>2, <1>5 DEF Rest, AllSealed

LEMMA StreamStep == ASSUME PassingOnce PROVE SInv /\ [Next]_vars => SInv'
<1>1. ASSUME SInv, Next PROVE SInv'
  <2>1. TypeOK'
    BY <1>1, TypeStep DEF SInv
  <2>2. Rest'
    BY <1>1, <2>1, TradesStep, ExpireStep, SocketStep, BeginStep, ServeStep, ArriveStep, PassOverStep,
       ClosesStep, ReopenStep, ChainStep DEF Next
  <2> QED BY <2>1, <2>2 DEF SInv, Rest
<1>2. ASSUME SInv, UNCHANGED vars PROVE SInv'
  BY <1>2 DEF vars, source, step, engine, ghosts, SInv, TypeOK, Opened, ReadTrue, Valid, HeldTrue, Confirms,
     Nothing, Ordered, NoEvents, AllSealed, Sealed, CloseLast, HasClose, Gone
<1> QED BY <1>1, <1>2

LEMMA StreamInvariance == ASSUME PassingOnce PROVE Spec => []SInv
BY StreamInit, StreamStep, PTL DEF Spec

\* A position that is open has no CLOSE under way: a list by REST that was
\* overtaken is dropped, and an empty list by the socket needs a second one
\* (applySnapshot).
THEOREM StreamCloseIsReal == ASSUME PassingOnce PROVE Spec => []CloseIsReal
<1>1. SInv => CloseIsReal
  <2>1. ASSUME SInv, NEW i \in Ids, account[i] # 3, NEW q \in {buffered[i], taken[i], chain[i], copied[i]}
        PROVE  ~HasClose(q)
    BY <2>1 DEF SInv, AllSealed, Sealed, Gone
  <2>2. ASSUME NEW q, ~HasClose(q) PROVE "CLOSE" \notin {q[n] : n \in DOMAIN q}
    BY <2>2 DEF HasClose
  <2> QED BY <2>1, <2>2 DEF CloseIsReal
<1> QED BY <1>1, StreamInvariance, PTL

\* Nothing of a position is copied after its close, and nothing twice, although
\* two channels, the buffer, the step and the chain hand events on at their own
\* pace and streams are opened again (streamPump, storeMasterEvent).
THEOREM StreamCloseIsLast == ASSUME PassingOnce PROVE Spec => []CloseIsLast
<1>1. SInv /\ CopiedOnce => CloseIsLast
  <2> SUFFICES ASSUME SInv, CopiedOnce, NEW i \in Ids,
                      NEW m \in DOMAIN copied[i], NEW n \in DOMAIN copied[i], m < n
               PROVE  copied[i][m] # "CLOSE" /\ copied[i][m] # copied[i][n]
    BY DEF CloseIsLast
  <2>1. copied[i] \in Seq(Kinds) /\ CloseLast(copied[i])
    BY QueuesOf DEF SInv, AllSealed, Sealed
  <2>2. m < Len(copied[i])
    BY <2>1
  <2> QED BY <2>1, <2>2 DEF CloseLast, CopiedOnce
<1> QED BY <1>1, StreamInvariance, StreamCopiesOnce, PTL
=============================================================================
