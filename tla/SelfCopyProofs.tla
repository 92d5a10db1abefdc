--------------------------- MODULE SelfCopyProofs ---------------------------
(***************************************************************************)
(* Theorems about SelfCopy, for any number of streams, any lot and volume, *)
(* and any number of crashes and of lists that are wrong.                  *)
(***************************************************************************)
EXTENDS SelfCopy, TLAPS

\* One copy worker, as wsa-copy-worker is run.
SoleWorker == \A p, q \in Processes : p = q

Orders == executed \cup flying

\* A stream that follows the source, or whose chain is not done.
Engaged(s) == stream[s] = "following" \/ Busy(s)

\* No chain runs beside another one.
Alone == \A s, z \in Streams : Engaged(s) /\ Engaged(z) => s = z

\* What a run of copyOpenOnRoute knows of the link and of the orders.
Stage(s) ==
  /\ pc[s] = "reserve" => link.status = "NONE"
  /\ pc[s] = "again" => MayTryAgain
  /\ pc[s] \in {"order", "refused"} => link.status = "PENDING" /\ Orders = {}
  /\ pc[s] = "asking" => link.status = "PENDING" /\ Orders \subseteq {mine[s]} /\ mine[s] # 0
  /\ pc[s] = "unclear" => link.status = "PENDING"
  /\ pc[s] = "write" => link.status = "PENDING" /\ mine[s] \in executed \cup {0}
  /\ pc[s] = "rewrite" => link.status \in {"OPEN", "CLOSING", "CLOSED"} /\ mine[s] = link.ticket

Stages == \A s \in Streams : Stage(s)

\* Whoever closes has the ticket of the link, and has closed it when it says so.
Closing ==
  \A r \in Runners :
    pc[r] \in {"closing", "closed", "reopen"} =>
      /\ link.ticket # 0
      /\ mine[r] = link.ticket
      /\ pc[r] = "closed" => volume[link.ticket] = 0

\* A ticket in the link is that of the only order there is.
Ticket ==
  link.ticket # 0 =>
    /\ link.status \in {"OPEN", "CLOSING", "CLOSED"}
    /\ executed = {link.ticket}
    /\ flying = {}

\* A copy is closed only by its ticket.
ClosedHasTicket == link.status \in {"CLOSING", "CLOSED"} => link.ticket # 0

\* What was executed is not on its way any more.
Apart == executed \cap flying = {}

\* What the link, the runs and the broker say of each other.
LInv ==
  /\ Stages
  /\ Closing
  /\ Ticket
  /\ ClosedHasTicket
  /\ Apart
  /\ OneCopy
  /\ RetryIsSafe
  /\ TruthfulLink

\* The inductive invariant.
CInv == TypeOK /\ Alone /\ LInv

\* A recovery that is about to close has seen that the position is gone, and
\* nothing is known of a position that was never there.
Confirmed ==
  \A p \in Processes :
    /\ pc[p] \in {"claim", "closing", "closed", "reopen"} => source = "gone"
    /\ pc[p] \in {"idle", "listed", "claim", "closing", "closed", "reopen"}
Unborn ==
  source = "unborn" =>
    /\ link.status = "NONE" /\ link.ticket = 0
    /\ \A s \in Streams : chain[s] = <<>> /\ knows[s] = 0
    /\ \A r \in Runners : pc[r] = "idle"

RInv == TypeOK /\ Confirmed /\ Unborn

-----------------------------------------------------------------------------
(* Types.                                                                  *)

Changes == {<<"existing">>, <<"open">>, <<"close">>} \cup ((1..Size) \X (1..Size))

Places == {"idle", "look", "plan", "reserve", "again", "order", "asking", "write",
           "rewrite", "refused", "unclear", "claim", "closing", "closed", "reopen", "listed",
           "trim", "trimmed", "changeless"}

Links == [status: {"NONE", "PENDING", "OPEN", "CLOSING", "CLOSED", "FAILED"}, ticket: Nat,
          copied: 0..Lot, code: {"none", "certain", "uncertain"}, old: BOOLEAN]

\* What a runner's own step may make of its variables.
RunType ==
  /\ pc' \in [Runners -> Places]
  /\ mine' \in [Runners -> Nat]
  /\ part' \in [Streams -> [amount: 0..Lot, rest: 0..Lot]]
  /\ rows' \subseteq Told

LEMMA Numbers == Lot \in Nat /\ Lot > 0 /\ Size \in Nat /\ Size > 0 /\ 0 \in 0..Lot
  BY CopyAssumption DEF CopyAssumption

LEMMA Names ==
  /\ Streams \subseteq Runners /\ Processes \subseteq Runners /\ Streams \cap Processes = {}
  /\ ProcessOf \in [Streams -> Processes]
  BY CopyAssumption DEF CopyAssumption, Runners

LEMMA GotoType ==
  ASSUME TypeOK, NEW r \in Runners, NEW to \in Places, Goto(r, to)
  PROVE  RunType /\ pc' = [pc EXCEPT ![r] = to] /\ UNCHANGED <<mine, part, rows>>
  BY DEF TypeOK, Goto, RunType, Places

LEMMA LeaveType ==
  ASSUME TypeOK, NEW r \in Runners, Leave(r), rows' \subseteq Told
  PROVE  RunType /\ pc' = [pc EXCEPT ![r] = "idle"]
<1>1. Nothing \in [amount: 0..Lot, rest: 0..Lot]
  BY Numbers DEF Nothing
<1>2. part' \in [Streams -> [amount: 0..Lot, rest: 0..Lot]]
  BY <1>1 DEF Leave, TypeOK
<1> QED BY <1>2 DEF TypeOK, Leave, RunType, Places

LEMMA RecordType ==
  ASSUME TypeOK, NEW r \in Runners, NEW event, NEW outcome, Record(r, event, outcome)
  PROVE  RunType /\ pc' = [pc EXCEPT ![r] = "idle"]
<1>1. rows' \subseteq Told /\ Leave(r)
  BY DEF TypeOK, Record
<1> QED BY <1>1, LeaveType

LEMMA SilentType ==
  ASSUME TypeOK, NEW r \in Runners, Silent(r)
  PROVE  RunType /\ pc' = [pc EXCEPT ![r] = "idle"]
<1>1. rows' \subseteq Told /\ Leave(r)
  BY DEF TypeOK, Silent
<1> QED BY <1>1, LeaveType

LEMMA UpdateType ==
  ASSUME TypeOK,
         NEW status \in {"NONE", "PENDING", "OPEN", "CLOSING", "CLOSED", "FAILED"},
         NEW ticket \in Nat, NEW code \in {"none", "certain", "uncertain"},
         Update(status, ticket, code)
  PROVE  /\ link' \in Links /\ link'.status = status /\ link'.ticket = ticket
         /\ link'.code = code
  BY DEF TypeOK, Update, Links

LEMMA UpdateLotType ==
  ASSUME NEW status \in {"NONE", "PENDING", "OPEN", "CLOSING", "CLOSED", "FAILED"},
         NEW ticket \in Nat, UpdateLot(status, ticket)
  PROVE  /\ link' \in Links /\ link'.status = status /\ link'.ticket = ticket
         /\ link'.code = "none"
  BY Numbers DEF UpdateLot, Links

LEMMA LinkNow ==
  ASSUME TypeOK
  PROVE  /\ link \in Links /\ link.ticket \in Nat /\ link.copied \in 0..Lot
         /\ link.code \in {"none", "certain", "uncertain"}
  BY DEF TypeOK, Links

\* The steps of the source and of the streams.
LEMMA WatchType ==
  ASSUME TypeOK,
         \/ SourceMoves \/ SourceShrinks
         \/ \E s \in Streams : OpenStream(s) \/ SeeOpen(s) \/ SeeShrunk(s) \/ SeeGone(s) \/ LoseStream(s)
  PROVE  TypeOK'
<1>1. CASE SourceMoves
  BY <1>1 DEF SourceMoves, TypeOK, runs, broker
<1>2. CASE SourceShrinks
  <2>1. size' \in 1..Size
    BY <1>2, Numbers DEF SourceShrinks, TypeOK
  <2> QED BY <1>2, <2>1 DEF SourceShrinks, TypeOK, runs, broker
<1>3. ASSUME NEW s \in Streams, NEW change \in Changes, Queue(s, change)
      PROVE  chain' \in [Streams -> Seq(Changes)]
  <2>1. chain \in [Streams -> Seq(Changes)]
    BY DEF TypeOK, Changes
  <2> QED BY <1>3, <2>1 DEF Queue
<1>4. ASSUME NEW s \in Streams, NEW change \in Changes, Open(s, change)
      PROVE  chain' \in [Streams -> Seq(Changes)] /\ handled' \in [Processes -> BOOLEAN]
  BY <1>3, <1>4 DEF TypeOK, Open, Changes
<1>5. <<"existing">> \in Changes /\ <<"open">> \in Changes /\ <<"close">> \in Changes
  BY DEF Changes
<1>6. size \in 0..Size /\ 0 \in 0..Size
  BY Numbers DEF TypeOK
<1>7. ASSUME NEW s \in Streams, OpenStream(s)
      PROVE  TypeOK'
  <2>1. chain' \in [Streams -> Seq(Changes)] /\ handled' \in [Processes -> BOOLEAN]
    BY <1>4, <1>5, <1>7 DEF OpenStream, TypeOK, Changes
  <2>2. knows' \in [Streams -> 0..Size]
    BY <1>6, <1>7 DEF OpenStream, TypeOK
  <2> QED BY <1>7, <2>1, <2>2 DEF OpenStream, TypeOK, Changes, runs, broker
<1>8. ASSUME NEW s \in Streams, SeeOpen(s)
      PROVE  TypeOK'
  <2>1. chain' \in [Streams -> Seq(Changes)] /\ handled' \in [Processes -> BOOLEAN]
    BY <1>4, <1>5, <1>8 DEF SeeOpen
  <2>2. knows' \in [Streams -> 0..Size]
    BY <1>6, <1>8 DEF SeeOpen, TypeOK
  <2> QED BY <1>8, <2>1, <2>2 DEF SeeOpen, TypeOK, Changes, runs, broker
<1>9. ASSUME NEW s \in Streams, SeeShrunk(s)
      PROVE  TypeOK'
  <2>1. knows[s] \in 1..Size /\ size \in 1..Size
    BY <1>9 DEF SeeShrunk, TypeOK
  <2>2. <<knows[s], size>> \in Changes
    BY <2>1 DEF Changes
  <2>3. chain' \in [Streams -> Seq(Changes)]
    BY <1>3, <1>9, <2>2 DEF SeeShrunk
  <2>4. knows' \in [Streams -> 0..Size]
    BY <1>6, <1>9 DEF SeeShrunk, TypeOK
  <2> QED BY <1>9, <2>3, <2>4 DEF SeeShrunk, TypeOK, Changes, runs, broker
<1>10. ASSUME NEW s \in Streams, SeeGone(s)
       PROVE  TypeOK'
  <2>1. chain' \in [Streams -> Seq(Changes)]
    BY <1>3, <1>5, <1>10 DEF SeeGone
  <2>2. knows' \in [Streams -> 0..Size] /\ handled' \in [Processes -> BOOLEAN]
    BY <1>6, <1>10 DEF SeeGone, TypeOK
  <2>3. faults' \in 0..MaxFaults
    BY <1>10, CopyAssumption DEF SeeGone, TypeOK, CopyAssumption
  <2> QED BY <1>10, <2>1, <2>2, <2>3 DEF SeeGone, TypeOK, Changes, runs, broker
<1>11. ASSUME NEW s \in Streams, LoseStream(s)
       PROVE  TypeOK'
  <2>1. knows' \in [Streams -> 0..Size] /\ handled' \in [Processes -> BOOLEAN]
    BY <1>6, <1>11 DEF LoseStream, TypeOK
  <2> QED BY <1>11, <2>1 DEF LoseStream, TypeOK, runs, broker
<1> QED BY <1>1, <1>2, <1>7, <1>8, <1>9, <1>10, <1>11

LEMMA CrashType == ASSUME TypeOK, NEW p \in Processes, Crash(p) PROVE TypeOK'
<1>1. chain' \in [Streams -> Seq(Changes)]
  BY DEF Crash, TypeOK, Changes
<1>2. knows' \in [Streams -> 0..Size] /\ mine' \in [Runners -> Nat]
  BY Numbers DEF Crash, TypeOK
<1>3. part' \in [Streams -> [amount: 0..Lot, rest: 0..Lot]]
  BY Numbers DEF Crash, TypeOK, Nothing
<1>4. pc' \in [Runners -> Places] /\ handled' \in [Processes -> BOOLEAN]
  BY DEF Crash, TypeOK, Places
<1>5. faults' \in 0..MaxFaults
  BY CopyAssumption DEF Crash, TypeOK, CopyAssumption
<1>6. stream' \in [Streams -> {"new", "following", "ended"}]
  BY DEF Crash, TypeOK
<1> QED BY <1>1, <1>2, <1>3, <1>4, <1>5, <1>6 DEF Crash, TypeOK, Changes, Places, broker

LEMMA BrokerActsType == ASSUME TypeOK, BrokerActs PROVE TypeOK'
<1>1. PICK o \in flying :
        /\ flying' = flying \ {o}
        /\ \/ /\ executed' = executed \cup {o}
              /\ volume' = [x \in executed' |-> IF x = o THEN Lot ELSE volume[x]]
           \/ UNCHANGED <<executed, volume>>
  BY DEF BrokerActs
<1>2. flying' \subseteq 1..sent /\ executed' \subseteq 1..sent
  BY <1>1 DEF TypeOK
<1>3. Lot \in 0..Lot
  BY Numbers
<1>4. volume' \in [executed' -> 0..Lot]
  BY <1>1, <1>3 DEF TypeOK
<1> QED BY <1>2, <1>4 DEF BrokerActs, TypeOK, watch, runs

LEMMA AgeType == ASSUME TypeOK, Age PROVE TypeOK'
<1>1. link' \in Links
  BY DEF Age, TypeOK, Links
<1> QED BY <1>1 DEF Age, TypeOK, Links, watch, runs, broker

\* A run that keeps its own variables and the link in shape keeps all in shape.
LEMMA RunKeepsType ==
  ASSUME TypeOK, RunType, link' \in Links, UNCHANGED <<watch, broker>>,
         chain' \in [Streams -> Seq(Changes)]
  PROVE  TypeOK'
  BY DEF TypeOK, RunType, Links, Places, Changes, watch, broker

LEMMA LevelsType == ASSUME TypeOK, NEW s \in Streams, Levels(s) PROVE RunType
<1>1. s \in Runners /\ "changeless" \in Places
  BY Names DEF Places
<1> QED BY <1>1, RecordType, GotoType DEF Levels

LEMMA TakeType == ASSUME TypeOK, NEW s \in Streams, Take(s) PROVE TypeOK'
<1> USE Names
<1>1. chain' \in [Streams -> Seq(Changes)]
  <2>1. chain \in [Streams -> Seq(Changes)]
    BY DEF TypeOK, Changes
  <2> QED BY <2>1 DEF Take
<1>2. CASE Goto(s, "look") \/ Goto(s, "plan") \/ Goto(s, "claim") \/ Silent(s)
  <2>1. {"look", "plan", "claim"} \subseteq Places
    BY DEF Places
  <2>2. RunType
    BY <1>2, <2>1, GotoType, SilentType
  <2> QED BY <1>1, <2>2, RunKeepsType, LinkNow DEF Take
<1>3. CASE TakeModify(s, Head(chain[s]))
  <2> DEFINE amount == SharePart(link.copied, Head(chain[s])[1], Head(chain[s])[2])
  <2>1. CASE /\ link.status = "OPEN" /\ link.ticket # 0
             /\ amount \in 1..(link.copied - 1)
             /\ pc' = [pc EXCEPT ![s] = "trim"]
             /\ mine' = [mine EXCEPT ![s] = link.ticket]
             /\ part' = [part EXCEPT ![s] = [amount |-> amount, rest |-> link.copied - amount]]
             /\ UNCHANGED rows
    <3> HIDE DEF amount
    <3>1. link.copied \in 0..Lot /\ link.ticket \in Nat
      BY LinkNow
    <3>2. amount \in 0..Lot /\ link.copied - amount \in 0..Lot
      BY <2>1, <3>1, Numbers
    <3>3. [amount |-> amount, rest |-> link.copied - amount] \in [amount: 0..Lot, rest: 0..Lot]
      BY <3>2
    <3>4. part' \in [Streams -> [amount: 0..Lot, rest: 0..Lot]]
      BY <2>1, <3>3 DEF TypeOK
    <3>5. pc' \in [Runners -> Places] /\ mine' \in [Runners -> Nat] /\ rows' \subseteq Told
      BY <2>1, <3>1 DEF TypeOK, Places
    <3> QED BY <1>1, <3>4, <3>5, RunKeepsType, LinkNow DEF Take, RunType
  <2>2. CASE Levels(s) \/ Silent(s)
    BY <1>1, <2>2, LevelsType, SilentType, RunKeepsType, LinkNow DEF Take
  <2> QED BY <1>3, <2>1, <2>2 DEF TakeModify
<1> QED BY <1>2, <1>3 DEF Take

LEMMA OpenType ==
  ASSUME TypeOK, NEW s \in Streams,
         Look(s) \/ Plan(s) \/ Reserve(s) \/ Again(s) \/ Answer(s) \/ Write(s) \/ Fail(s)
  PROVE  TypeOK'
<1> USE Names
<1>1. UNCHANGED <<watch, chain, broker>>
  BY DEF Look, Plan, Reserve, Again, Answer, Write, Fail
<1>2. chain' \in [Streams -> Seq(Changes)]
  BY <1>1 DEF TypeOK, Changes
<1>3. {"plan", "reserve", "again", "order", "write", "rewrite", "refused", "unclear"} \subseteq Places
  BY DEF Places
<1>4. RunType
  <2>1. CASE Look(s)
    BY <1>3, <2>1, GotoType, SilentType DEF Look
  <2>2. CASE Plan(s)
    BY <1>3, <2>2, GotoType, RecordType DEF Plan
  <2>3. CASE Reserve(s) \/ Again(s)
    BY <1>3, <2>3, GotoType, RecordType DEF Reserve, Again
  <2>4. CASE Answer(s)
    <3>1. CASE /\ mine[s] \in executed
               /\ pc' = [pc EXCEPT ![s] = "write"]
               /\ mine' \in {mine, [mine EXCEPT ![s] = 0]}
               /\ UNCHANGED <<part, rows>>
      <4>1. mine' \in [Runners -> Nat]
        BY <3>1 DEF TypeOK
      <4>2. pc' \in [Runners -> Places]
        BY <3>1 DEF TypeOK, Places
      <4> QED BY <3>1, <4>1, <4>2 DEF TypeOK, RunType
    <3> QED BY <1>3, <2>4, <3>1, GotoType DEF Answer
  <2>5. CASE Write(s) \/ Fail(s)
    BY <1>3, <2>5, GotoType, RecordType DEF Write, Fail
  <2> QED BY <2>1, <2>2, <2>3, <2>4, <2>5
<1>5. link' \in Links
  <2>1. link \in Links /\ link.ticket \in Nat /\ mine[s] \in Nat
    BY LinkNow DEF TypeOK
  <2>2. CASE UNCHANGED link
    BY <2>1, <2>2
  <2>3. CASE UpdateLot("PENDING", 0) \/ UpdateLot("PENDING", link.ticket) \/ UpdateLot("OPEN", mine[s])
    BY <2>1, <2>3, UpdateLotType
  <2>4. CASE Update("FAILED", link.ticket, "certain") \/ Update("FAILED", link.ticket, "uncertain")
    BY <2>1, <2>4, UpdateType
  <2> QED BY <2>2, <2>3, <2>4 DEF Look, Plan, Reserve, Again, Answer, Write, Fail
<1> QED BY <1>1, <1>2, <1>4, <1>5, RunKeepsType

LEMMA SendType == ASSUME TypeOK, NEW s \in Streams, Send(s) PROVE TypeOK'
<1> USE Names
<1>1. CASE /\ pc' = [pc EXCEPT ![s] = "asking"]
           /\ mine' = [mine EXCEPT ![s] = sent + 1]
           /\ sent' = sent + 1
           /\ flying' = flying \cup {sent + 1}
           /\ UNCHANGED rows
  <2>1. sent + 1 \in Nat /\ 1..sent \subseteq 1..(sent + 1) /\ sent + 1 \in 1..(sent + 1)
    BY DEF TypeOK
  <2>2. pc' \in [Runners -> Places] /\ mine' \in [Runners -> Nat]
    BY <1>1, <2>1 DEF TypeOK, Places
  <2> QED BY <1>1, <2>1, <2>2 DEF Send, TypeOK, Places, watch
<1>2. CASE (Goto(s, "refused") \/ Goto(s, "unclear")) /\ UNCHANGED <<sent, flying>>
  <2>1. RunType
    BY <1>2, GotoType DEF Places
  <2> QED BY <1>2, <2>1, RunKeepsType, LinkNow DEF Send, TypeOK, Changes, broker
<1> QED BY <1>1, <1>2 DEF Send

\* What is left of a position is never more than there was.
LEMMA ShutType ==
  ASSUME TypeOK, NEW o, NEW x \in Nat,
         Shut(o, 0) \/ Shut(o, Less(volume[o], x)) \/ UNCHANGED volume
  PROVE  /\ volume' \in [executed -> 0..Lot]
         /\ \A e \in executed : volume'[e] <= volume[e]
<1>1. CASE UNCHANGED volume
  <2>1. \A e \in executed : volume[e] \in 0..Lot /\ volume[e] <= volume[e]
    BY DEF TypeOK
  <2> QED BY <1>1, <2>1 DEF TypeOK
<1>2. ASSUME NEW rest, volume' = [volume EXCEPT ![o] = rest],
             o \in executed => rest \in 0..Lot /\ rest <= volume[o]
      PROVE  /\ volume' \in [executed -> 0..Lot]
             /\ \A e \in executed : volume'[e] <= volume[e]
  <2>1. DOMAIN volume' = executed
    BY <1>2 DEF TypeOK
  <2>2. ASSUME NEW e \in executed
        PROVE  volume'[e] \in 0..Lot /\ volume'[e] <= volume[e]
    <3>1. volume[e] \in 0..Lot
      BY DEF TypeOK
    <3> QED BY <1>2, <3>1 DEF TypeOK
  <2>3. volume' = [e \in DOMAIN volume' |-> volume'[e]]
    BY <1>2
  <2> QED BY <2>1, <2>2, <2>3
<1>3. o \in executed => /\ 0 <= volume[o] /\ 0 \in 0..Lot
                        /\ Less(volume[o], x) \in 0..Lot /\ Less(volume[o], x) <= volume[o]
  <2> SUFFICES ASSUME o \in executed
               PROVE  /\ 0 <= volume[o] /\ 0 \in 0..Lot
                      /\ Less(volume[o], x) \in 0..Lot /\ Less(volume[o], x) <= volume[o]
    OBVIOUS
  <2>1. volume[o] \in 0..Lot
    BY DEF TypeOK
  <2> QED BY <2>1, Numbers DEF Less
<1> QED BY <1>1, <1>2, <1>3 DEF Shut

LEMMA ModifyType ==
  ASSUME TypeOK, NEW s \in Streams, CopyModify(s)
  PROVE  TypeOK'
<1> USE Names
<1>1. CASE Trim(s)
  <2>1. part[s].amount \in Nat
    BY DEF TypeOK
  <2>2. volume' \in [executed -> 0..Lot]
    BY <1>1, <2>1, ShutType DEF Trim
  <2>3. RunType
    BY <1>1, GotoType DEF Trim, Places
  <2> QED BY <1>1, <2>2, <2>3 DEF Trim, TypeOK, RunType, Places, watch
<1>2. CASE Trimmed(s)
  <2>1. RunType
    BY <1>2, LevelsType, GotoType DEF Trimmed, Places
  <2>2. part[s].rest \in 0..Lot
    BY DEF TypeOK
  <2>3. link' \in Links
    BY <1>2, <2>2 DEF Trimmed, TypeOK, Links
  <2> QED BY <1>2, <2>1, <2>3, RunKeepsType DEF Trimmed, TypeOK, Changes
<1>3. CASE Changeless(s)
  <2>1. RunType
    BY <1>3, RecordType DEF Changeless
  <2>2. link' \in Links
    BY <1>3 DEF Changeless, TypeOK, Links
  <2> QED BY <1>3, <2>1, <2>2, RunKeepsType DEF Changeless, TypeOK, Changes
<1> QED BY <1>1, <1>2, <1>3 DEF CopyModify

LEMMA CloseType ==
  ASSUME TypeOK, NEW r \in Runners, CopyClose(r)
  PROVE  TypeOK'
<1>1. chain \in [Streams -> Seq(Changes)] /\ link.ticket \in Nat /\ link \in Links
  BY LinkNow DEF TypeOK, Changes
<1>2. CASE Claim(r)
  <2>1. link' \in Links
    BY <1>2, LinkNow, UpdateType DEF Claim
  <2>2. RunType
    BY <1>1, <1>2 DEF Claim, TypeOK, RunType, Places
  <2> QED BY <1>1, <1>2, <2>1, <2>2, RunKeepsType DEF Claim
<1>3. CASE ClaimLost(r)
  <2>1. link' \in Links
    BY <1>3, LinkNow, UpdateType DEF ClaimLost
  <2> QED BY <1>1, <1>3, <2>1, SilentType, RunKeepsType DEF ClaimLost
<1>4. CASE NoClaim(r)
  <2>1. RunType
    BY <1>4, SilentType, RecordType DEF NoClaim
  <2> QED BY <1>1, <1>4, <2>1, RunKeepsType DEF NoClaim
<1>5. CASE Close(r)
  <2>1. volume' \in [executed -> 0..Lot]
    BY <1>5, ShutType DEF Close
  <2>2. RunType
    BY <1>5, GotoType DEF Close, Places
  <2> QED BY <1>5, <2>1, <2>2 DEF Close, TypeOK, RunType, Places, watch
<1>6. CASE Closed(r)
  <2>1. RunType
    BY <1>6, GotoType, RecordType DEF Closed, Places
  <2>2. link' \in Links
    BY <1>1, <1>6, UpdateType DEF Closed
  <2> QED BY <1>1, <1>6, <2>1, <2>2, RunKeepsType DEF Closed
<1>7. CASE Reopen(r)
  <2>1. RunType
    BY <1>7, RecordType DEF Reopen
  <2>2. link' \in Links
    BY <1>7, LinkNow, UpdateType DEF Reopen
  <2> QED BY <1>1, <1>7, <2>1, <2>2, RunKeepsType DEF Reopen
<1> QED BY <1>2, <1>3, <1>4, <1>5, <1>6, <1>7 DEF CopyClose

LEMMA RecoverType ==
  ASSUME TypeOK, NEW p \in Processes, Recover(p)
  PROVE  TypeOK'
<1>1. RunType
  BY Names, GotoType, SilentType DEF Recover, ListCopies, Confirm, NoConfirm, Places
<1>2. chain \in [Streams -> Seq(Changes)] /\ link \in Links
  BY LinkNow DEF TypeOK, Changes
<1> QED BY <1>1, <1>2, RunKeepsType DEF Recover, ListCopies, Confirm, NoConfirm

LEMMA TypeInit == Init => TypeOK
<1> SUFFICES ASSUME Init
             PROVE  TypeOK
  OBVIOUS
<1>1. Size \in 1..Size /\ faults \in 0..MaxFaults /\ volume \in [executed -> 0..Lot]
  BY CopyAssumption DEF Init, CopyAssumption
<1>2. chain \in [Streams -> Seq(Changes)]
  BY DEF Init
<1>3. part \in [Streams -> [amount: 0..Lot, rest: 0..Lot]] /\ link \in Links
  BY Numbers DEF Init, Nothing, Links
<1>4. knows \in [Streams -> 0..Size]
  BY Numbers DEF Init
<1> QED BY <1>1, <1>2, <1>3, <1>4 DEF Init, TypeOK, Changes, Links

LEMMA TypeStep == TypeOK /\ [Next]_vars => TypeOK'
<1> SUFFICES ASSUME TypeOK, [Next]_vars
             PROVE  TypeOK'
  OBVIOUS
<1>1. CASE UNCHANGED vars
  BY <1>1 DEF TypeOK, vars, watch, runs, broker
<1>2. CASE Next
  BY <1>2, WatchType, CrashType, BrokerActsType, AgeType, TakeType, OpenType, SendType, ModifyType,
     CloseType, RecoverType DEF Next, CopyOpen
<1> QED BY <1>1, <1>2

\* Every variable of the engine keeps its type, whatever fails and however
\* streams and workers follow one another.
THEOREM CopyTypeCorrect == Spec => []TypeOK
  BY TypeInit, TypeStep, PTL DEF Spec

-----------------------------------------------------------------------------
(* One chain at a time.                                                    *)

LEMMA FewerEngaged ==
  ASSUME Alone, \A s \in Streams : Engaged(s)' => Engaged(s)
  PROVE  Alone'
  BY DEF Alone

\* While a chain runs, no other one does.
LEMMA OthersIdle ==
  ASSUME Alone, NEW s \in Streams, pc[s] # "idle"
  PROVE  \A z \in Streams \ {s} : pc[z] = "idle"
  BY DEF Alone, Engaged, Busy

\* A new stream finds the old chain done: it alone is engaged.
LEMMA OpenAlone ==
  ASSUME TypeOK, Alone, SoleWorker, Drained, NEW s \in Streams, OpenStream(s)
  PROVE  Alone'
<1>1. ASSUME NEW z \in Streams
      PROVE  ProcessOf[z] = ProcessOf[s]
  BY Names DEF SoleWorker
<1>2. \A z \in Streams : ~Engaged(z)
  BY <1>1 DEF OpenStream, Engaged
<1>3. \A z \in Streams \ {s} : stream'[z] = stream[z] /\ pc'[z] = pc[z] /\ chain'[z] = chain[z]
  BY DEF OpenStream, Open, Queue, runs, TypeOK
<1>4. \A z \in Streams \ {s} : ~Engaged(z)'
  BY <1>2, <1>3 DEF Engaged, Busy
<1> QED BY <1>4 DEF Alone

LEMMA AloneStep ==
  ASSUME TypeOK, Alone, SoleWorker, Drained, [Next]_vars
  PROVE  Alone'
<1> USE Names
<1>1. CASE UNCHANGED <<stream, chain, runs>>
  <2>1. \A s \in Streams : Engaged(s)' => Engaged(s)
    BY <1>1 DEF Engaged, Busy, runs
  <2> QED BY <2>1, FewerEngaged
<1>2. ASSUME NEW s \in Streams, SeeOpen(s) \/ SeeShrunk(s) \/ SeeGone(s) \/ LoseStream(s)
      PROVE  Alone'
  <2>1. Engaged(s)
    BY <1>2 DEF SeeOpen, SeeShrunk, SeeGone, LoseStream, Engaged
  <2>2. \A z \in Streams \ {s} : stream'[z] = stream[z] /\ pc'[z] = pc[z] /\ chain'[z] = chain[z]
    BY <1>2 DEF SeeOpen, SeeShrunk, SeeGone, LoseStream, Open, Queue, runs, TypeOK
  <2>3. \A z \in Streams : Engaged(z)' => Engaged(z)
    BY <2>1, <2>2 DEF Engaged, Busy
  <2> QED BY <2>3, FewerEngaged
<1>3. ASSUME NEW p \in Processes, Crash(p)
      PROVE  Alone'
  <2>1. ASSUME NEW z \in Streams
        PROVE  Engaged(z)' => Engaged(z)
    BY <1>3 DEF Crash, Engaged, Busy
  <2> QED BY <2>1, FewerEngaged
<1>4. ASSUME NEW s \in Streams, CopyOpen(s) \/ CopyModify(s)
      PROVE  Alone'
  <2>1. Engaged(s)
    BY <1>4 DEF CopyOpen, CopyModify, Take, Look, Plan, Reserve, Again, Send, Answer, Write, Fail,
         Trim, Trimmed, Changeless, At, Engaged, Busy
  <2>2. \A z \in Streams \ {s} : pc'[z] = pc[z]
    BY <1>4 DEF CopyOpen, CopyModify, Take, TakeModify, Look, Plan, Reserve, Again, Send, Answer,
         Write, Fail, Trim, Trimmed, Changeless, Levels, Goto, Record, Silent, Leave, TypeOK
  <2>3. UNCHANGED stream /\ \A z \in Streams \ {s} : chain'[z] = chain[z]
    BY <1>4 DEF CopyOpen, CopyModify, Take, Look, Plan, Reserve, Again, Send, Answer,
         Write, Fail, Trim, Trimmed, Changeless, TypeOK, watch
  <2>4. \A z \in Streams : Engaged(z)' => Engaged(z)
    BY <2>1, <2>2, <2>3 DEF Engaged, Busy
  <2> QED BY <2>4, FewerEngaged
<1>5. ASSUME NEW r \in Runners, CopyClose(r) \/ (r \in Processes /\ Recover(r))
      PROVE  Alone'
  <2>1. UNCHANGED <<stream, chain>>
    BY <1>5 DEF CopyClose, Claim, ClaimLost, NoClaim, Close, Closed, Reopen, Recover, ListCopies,
         Confirm, NoConfirm, watch
  <2>2. \A z \in Runners \ {r} : pc'[z] = pc[z]
    BY <1>5 DEF CopyClose, Claim, ClaimLost, NoClaim, Close, Closed, Reopen, Recover, ListCopies,
         Confirm, NoConfirm, Goto, Record, Silent, Leave, TypeOK
  <2>3. r \in Streams => pc[r] # "idle"
    BY <1>5 DEF CopyClose, Claim, ClaimLost, NoClaim, Close, Closed, Reopen, At
  <2>4. \A z \in Streams : Engaged(z)' => Engaged(z)
    BY <2>1, <2>2, <2>3 DEF Engaged, Busy
  <2> QED BY <2>4, FewerEngaged
<1>6. CASE UNCHANGED vars \/ SourceMoves \/ SourceShrinks \/ BrokerActs \/ Age
  BY <1>1, <1>6 DEF vars, SourceMoves, SourceShrinks, BrokerActs, Age, watch
<1> QED BY <1>2, <1>3, <1>4, <1>5, <1>6, OpenAlone DEF Next

-----------------------------------------------------------------------------
(* The link and the orders.                                                *)

\* Where a runner promises nothing.
Harmless == {"idle", "look", "plan", "claim", "listed", "trim", "trimmed", "changeless"}

LEMMA HarmlessStep ==
  ASSUME TypeOK, TypeOK', LInv,
         link'.status = link.status, link'.ticket = link.ticket, link'.code = link.code,
         UNCHANGED <<sent, flying, executed>>,
         \A e \in executed : volume'[e] <= volume[e],
         \A r \in Runners : \/ pc'[r] = pc[r] /\ mine'[r] = mine[r]
                            \/ pc'[r] \in Harmless
  PROVE  LInv'
<1> USE DEF LInv
<1>1. \A e \in executed : volume[e] \in 0..Lot /\ volume'[e] \in 0..Lot
  BY DEF TypeOK
<1>2. Stages'
  <2> SUFFICES ASSUME NEW s \in Streams
               PROVE  Stage(s)'
    BY DEF Stages
  <2>1. CASE pc'[s] \in Harmless
    BY <2>1 DEF Stage, Harmless
  <2>2. CASE pc'[s] = pc[s] /\ mine'[s] = mine[s]
    BY <2>2 DEF Stages, Stage, MayTryAgain, Orders
  <2> QED BY <2>1, <2>2, Names
<1>3. Closing'
  <2> SUFFICES ASSUME NEW r \in Runners, pc'[r] \in {"closing", "closed", "reopen"}
               PROVE  /\ link'.ticket # 0
                      /\ mine'[r] = link'.ticket
                      /\ pc'[r] = "closed" => volume'[link'.ticket] = 0
    BY DEF Closing
  <2>1. pc'[r] = pc[r] /\ mine'[r] = mine[r]
    BY DEF Harmless
  <2>2. link.ticket # 0 /\ mine[r] = link.ticket /\ executed = {link.ticket}
    BY <2>1 DEF Closing, Ticket
  <2>3. pc[r] = "closed" => volume[link.ticket] = 0
    BY <2>1 DEF Closing
  <2> QED BY <1>1, <2>1, <2>2, <2>3
<1>4. Ticket' /\ ClosedHasTicket' /\ Apart' /\ OneCopy'
  BY DEF Ticket, ClosedHasTicket, Apart, OneCopy
<1>5. RetryIsSafe'
  BY DEF RetryIsSafe, MayTryAgain
<1>6. held' \subseteq held
  BY <1>1 DEF held
<1>7. TruthfulLink'
  BY <1>6 DEF TruthfulLink
<1> QED BY <1>2, <1>3, <1>4, <1>5, <1>7

\* Who has the ticket sets the link to and fro, and says CLOSED only of a
\* position that is closed.
LEMMA CloserStep ==
  ASSUME TypeOK, TypeOK', LInv, NEW r \in Runners,
         link.ticket # 0, link'.ticket = link.ticket,
         link'.status \in {"OPEN", "CLOSING", "CLOSED"},
         UNCHANGED <<sent, flying, executed>>,
         \A e \in executed : volume'[e] <= volume[e],
         link'.status = "CLOSED" => link.status = "CLOSED" \/ volume'[link.ticket] = 0,
         \A q \in Runners \ {r} : pc'[q] = pc[q] /\ mine'[q] = mine[q],
         \/ pc'[r] = "idle"
         \/ pc'[r] \in {"closing", "closed", "reopen"} /\ mine'[r] = link.ticket,
         pc'[r] = "closed" => volume'[link.ticket] = 0
  PROVE  LInv'
<1> USE DEF LInv
<1>1. executed = {link.ticket} /\ flying = {}
  BY DEF Ticket
<1>2. \A e \in executed : volume[e] \in 0..Lot /\ volume'[e] \in 0..Lot
  BY DEF TypeOK
<1>3. link.status \in {"OPEN", "CLOSING", "CLOSED"}
  BY DEF Ticket
<1>4. Stages'
  <2> SUFFICES ASSUME NEW s \in Streams
               PROVE  Stage(s)'
    BY DEF Stages
  <2>1. CASE s = r
    BY <2>1 DEF Stage
  <2>2. CASE s # r
    <3>1. pc'[s] = pc[s] /\ mine'[s] = mine[s]
      BY <2>2, Names
    <3> QED BY <1>3, <3>1 DEF Stages, Stage, MayTryAgain
  <2> QED BY <2>1, <2>2
<1>5. Closing'
  <2> SUFFICES ASSUME NEW q \in Runners, pc'[q] \in {"closing", "closed", "reopen"}
               PROVE  /\ mine'[q] = link.ticket
                      /\ pc'[q] = "closed" => volume'[link.ticket] = 0
    BY DEF Closing
  <2>1. CASE q = r
    BY <2>1
  <2>2. CASE q # r
    <3>1. pc'[q] = pc[q] /\ mine'[q] = mine[q]
      BY <2>2
    <3> QED BY <1>1, <1>2, <3>1 DEF Closing
  <2> QED BY <2>1, <2>2
<1>6. Ticket' /\ ClosedHasTicket' /\ Apart' /\ OneCopy' /\ RetryIsSafe'
  BY <1>1 DEF Ticket, ClosedHasTicket, Apart, OneCopy, RetryIsSafe, MayTryAgain
<1>7. TruthfulLink'
  <2>1. link'.status # "NONE"
    OBVIOUS
  <2>2. ASSUME link'.status = "CLOSED"
        PROVE  held' = {}
    <3>1. CASE volume'[link.ticket] = 0
      BY <1>1, <3>1 DEF held
    <3>2. CASE link.status = "CLOSED"
      <4>1. held = {}
        BY <3>2 DEF TruthfulLink
      <4> QED BY <1>2, <4>1 DEF held
    <3> QED BY <2>2, <3>1, <3>2
  <2> QED BY <1>1, <2>1, <2>2 DEF TruthfulLink
<1> QED BY <1>4, <1>5, <1>6, <1>7

\* A run of copyOpenOnRoute, while the link has no ticket: only its own stage
\* can have changed.
LEMMA OpenerStep ==
  ASSUME TypeOK, Alone, LInv, NEW s \in Streams, pc[s] # "idle", link.ticket = 0,
         \A r \in Runners \ {s} : pc'[r] = pc[r],
         pc'[s] \notin {"closing", "closed", "reopen"},
         Stage(s)'
  PROVE  Stages' /\ Closing'
<1>1. \A z \in Streams \ {s} : pc'[z] = "idle"
  BY OthersIdle, Names
<1>2. Stages'
  <2> SUFFICES ASSUME NEW z \in Streams, z # s
               PROVE  Stage(z)'
    BY DEF Stages
  <2> QED BY <1>1 DEF Stage
<1>3. Closing'
  BY DEF LInv, Closing
<1> QED BY <1>2, <1>3

\* The runs of the others stay where they are.
LEMMA OthersStay ==
  ASSUME TypeOK, NEW s \in Runners,
         \/ \E to \in Places : Goto(s, to)
         \/ \E event, outcome : Record(s, event, outcome)
         \/ Silent(s)
  PROVE  \A r \in Runners \ {s} : pc'[r] = pc[r] /\ mine'[r] = mine[r]
  BY DEF TypeOK, Goto, Record, Silent, Leave

\* Before a ticket is written, nobody has it.
LEMMA NoTicketYet ==
  ASSUME LInv, link.status \in {"NONE", "PENDING", "FAILED"}, TypeOK
  PROVE  link.ticket = 0
  BY DEF LInv, Ticket

LEMMA PlanStep == ASSUME CInv, TypeOK', NEW s \in Streams, Plan(s) PROVE LInv'
<1> USE Names DEF CInv
<1>1. pc[s] = "plan" /\ UNCHANGED <<link, broker>>
  BY DEF Plan, At
<1>2. CASE Record(s, "OPEN", "SKIPPED") \/ Record(s, "OPEN", "FAILED")
  <2>1. pc'[s] = "idle"
    BY <1>2 DEF Record, Leave, TypeOK
  <2>2. \A e \in executed : volume'[e] <= volume[e]
    BY <1>1 DEF broker, TypeOK
  <2>3. \A r \in Runners : \/ pc'[r] = pc[r] /\ mine'[r] = mine[r]
                           \/ pc'[r] \in Harmless
    BY <1>2, <2>1, OthersStay DEF Harmless
  <2> QED BY <1>1, <2>2, <2>3, HarmlessStep DEF broker
<1>3. CASE (link.status = "NONE" /\ Goto(s, "reserve")) \/ (MayTryAgain /\ Goto(s, "again"))
  <2>1. pc'[s] \in {"reserve", "again"} /\ mine' = mine
    BY <1>3 DEF Goto, TypeOK
  <2>2. link.ticket = 0
    BY <1>3, NoTicketYet DEF MayTryAgain
  <2>3. Stage(s)'
    BY <1>1, <1>3, <2>1 DEF Goto, Stage, TypeOK, MayTryAgain
  <2>4. \A r \in Runners \ {s} : pc'[r] = pc[r]
    BY <1>3 DEF Goto, TypeOK
  <2>5. Stages' /\ Closing'
    BY <1>1, <2>1, <2>2, <2>3, <2>4, OpenerStep
  <2> QED BY <1>1, <2>5 DEF LInv, Ticket, ClosedHasTicket, Apart, OneCopy, RetryIsSafe, TruthfulLink,
             MayTryAgain, broker, held
<1> QED BY <1>2, <1>3 DEF Plan

LEMMA ReserveStep ==
  ASSUME CInv, TypeOK', NEW s \in Streams, Reserve(s) \/ Again(s)
  PROVE  LInv'
<1> USE Names DEF CInv
<1>1. UNCHANGED broker /\ pc[s] \in {"reserve", "again"}
  BY DEF Reserve, Again, At
<1>2. /\ pc[s] = "reserve" => link.status = "NONE"
      /\ pc[s] = "again" => MayTryAgain
  BY DEF LInv, Stages, Stage
<1>3. link.ticket = 0
  BY <1>1, <1>2, NoTicketYet DEF MayTryAgain
<1>4. Orders = {}
  <2>1. CASE link.status = "NONE"
    <3>1. sent = 0
      BY <2>1 DEF LInv, TruthfulLink, TypeOK
    <3>2. flying \subseteq 1..0 /\ executed \subseteq 1..0
      BY <3>1 DEF TypeOK
    <3>3. 1..0 = {}
      OBVIOUS
    <3> QED BY <3>2, <3>3 DEF Orders
  <2>2. CASE MayTryAgain
    BY <2>2 DEF LInv, RetryIsSafe, Orders
  <2> QED BY <1>1, <1>2, <2>1, <2>2
<1>5. /\ pc'[s] \in {"order", "idle"}
      /\ \A r \in Runners \ {s} : pc'[r] = pc[r]
  BY DEF Reserve, Again, Goto, Record, Leave, TypeOK
<1>6. /\ \/ UNCHANGED link
         \/ link'.status = "PENDING" /\ link'.ticket = 0
      /\ pc'[s] = "order" => link'.status = "PENDING"
  <2>1. UpdateLot("PENDING", 0) => link'.status = "PENDING" /\ link'.ticket = 0
    BY DEF UpdateLot
  <2>2. CASE Reserve(s)
    BY <2>1, <2>2, <1>2 DEF Reserve, At, Record, Leave, TypeOK
  <2>3. CASE Again(s)
    BY <1>3, <2>1, <2>3 DEF Again, At, Record, Leave, TypeOK
  <2> QED BY <2>2, <2>3
<1>7. Orders' = {} /\ held' = held
  BY <1>1, <1>4 DEF Orders, broker, held
<1>8. Stage(s)'
  BY <1>5, <1>6, <1>7 DEF Stage
<1>9. Stages' /\ Closing'
  BY <1>1, <1>3, <1>5, <1>8, OpenerStep
<1>10. Ticket' /\ ClosedHasTicket' /\ Apart' /\ OneCopy' /\ RetryIsSafe'
  BY <1>1, <1>3, <1>4, <1>6, <1>7 DEF LInv, Ticket, ClosedHasTicket, Apart, OneCopy, RetryIsSafe, Orders, broker
<1>11. TruthfulLink'
  BY <1>1, <1>6, <1>7 DEF LInv, TruthfulLink, broker
<1> QED BY <1>9, <1>10, <1>11 DEF LInv

LEMMA SendStep == ASSUME CInv, TypeOK', NEW s \in Streams, Send(s) PROVE LInv'
<1> USE Names DEF CInv
<1>1. /\ pc[s] = "order" /\ link.status = "PENDING" /\ Orders = {} /\ UNCHANGED link
      /\ executed = {} /\ flying = {} /\ sent \in Nat
      /\ executed' = {}
  BY DEF Send, At, LInv, Stages, Stage, Orders, TypeOK
<1>2. link.ticket = 0
  BY <1>1, NoTicketYet
<1>3. CASE /\ pc' = [pc EXCEPT ![s] = "asking"]
           /\ mine' = [mine EXCEPT ![s] = sent + 1]
           /\ sent' = sent + 1
           /\ flying' = flying \cup {sent + 1}
  <2>1. pc'[s] = "asking" /\ mine'[s] = sent + 1 /\ \A r \in Runners \ {s} : pc'[r] = pc[r]
    BY <1>3 DEF TypeOK
  <2>2. Orders' = {sent + 1} /\ sent + 1 # 0
    BY <1>1, <1>3 DEF Orders
  <2>3. Stage(s)'
    BY <1>1, <2>1, <2>2 DEF Stage
  <2>4. Stages' /\ Closing'
    BY <1>1, <1>2, <2>1, <2>3, OpenerStep
  <2>5. OneCopy' /\ Apart'
    BY <1>1, <2>2 DEF OneCopy, Apart, Orders
  <2> QED BY <1>1, <1>2, <2>4, <2>5 DEF LInv, Ticket, ClosedHasTicket, RetryIsSafe, MayTryAgain, TruthfulLink
<1>4. CASE (Goto(s, "refused") \/ Goto(s, "unclear")) /\ UNCHANGED <<sent, flying>>
  <2>1. pc'[s] \in {"refused", "unclear"} /\ \A r \in Runners \ {s} : pc'[r] = pc[r]
    BY <1>4 DEF Goto, TypeOK
  <2>2. Stage(s)'
    BY <1>1, <1>4, <2>1 DEF Stage, Orders
  <2>3. Stages' /\ Closing'
    BY <1>1, <1>2, <2>1, <2>2, OpenerStep
  <2> QED BY <1>1, <1>2, <1>4, <2>3 DEF LInv, Ticket, ClosedHasTicket, Apart, OneCopy, RetryIsSafe,
             MayTryAgain, TruthfulLink
<1> QED BY <1>3, <1>4 DEF Send

\* A refusal means that nothing is executed and nothing is on its way.
LEMMA AnswerStep == ASSUME CInv, ~Broken, TypeOK', NEW s \in Streams, Answer(s) PROVE LInv'
<1> USE Names DEF CInv
<1>1. /\ pc[s] = "asking" /\ link.status = "PENDING" /\ Orders \subseteq {mine[s]}
      /\ UNCHANGED <<link, sent, flying, executed, volume>>
  BY DEF Answer, At, LInv, Stages, Stage, broker
<1>2. link.ticket = 0
  BY <1>1, NoTicketYet
<1>3. \A r \in Runners \ {s} : pc'[r] = pc[r]
  BY DEF Answer, Goto, TypeOK
<1>4. pc'[s] \in {"write", "refused", "unclear"}
  BY DEF Answer, Goto, TypeOK
<1>5. pc'[s] = "write" => mine'[s] \in executed \cup {0}
  <2>1. CASE mine[s] \in executed /\ mine' \in {mine, [mine EXCEPT ![s] = 0]}
    BY <2>1 DEF TypeOK
  <2>2. CASE Goto(s, "refused") \/ Goto(s, "unclear")
    BY <2>2 DEF Goto, TypeOK
  <2> QED BY <2>1, <2>2 DEF Answer
<1>6. pc'[s] = "refused" => Orders = {}
  <2>1. CASE pc' = [pc EXCEPT ![s] = "write"] \/ Goto(s, "unclear")
    BY <2>1 DEF Goto, TypeOK
  <2>2. CASE mine[s] \notin executed \cup flying
    BY <1>1, <2>2 DEF Orders
  <2> QED BY <2>1, <2>2 DEF Answer
<1>7. Stage(s)'
  BY <1>1, <1>4, <1>5, <1>6 DEF Stage, Orders
<1>8. Stages' /\ Closing'
  BY <1>1, <1>2, <1>3, <1>4, <1>7, OpenerStep
<1> QED BY <1>1, <1>2, <1>8 DEF LInv, Ticket, ClosedHasTicket, Apart, OneCopy, RetryIsSafe,
           MayTryAgain, TruthfulLink, held

\* The ticket that is written is that of the only order.
LEMMA WriteStep == ASSUME CInv, TypeOK', NEW s \in Streams, Write(s) PROVE LInv'
<1> USE Names DEF CInv
<1>1. /\ pc[s] \in {"write", "rewrite"} /\ pc'[s] \in {"idle", "rewrite"}
      /\ UNCHANGED <<sent, flying, executed, volume>>
      /\ \A r \in Runners \ {s} : pc'[r] = pc[r] /\ mine'[r] = mine[r]
      /\ pc'[s] = "rewrite" => mine'[s] = mine[s]
  <2>1. pc[s] \in {"write", "rewrite"} /\ UNCHANGED <<sent, flying, executed, volume>>
    BY DEF Write, At, broker
  <2>2. CASE Leave(s)
    BY <2>1, <2>2 DEF Leave, TypeOK
  <2>3. CASE Goto(s, "rewrite")
    BY <2>1, <2>3 DEF Goto, TypeOK
  <2> QED BY <2>2, <2>3 DEF Write, Record
<1>2. \A e \in executed : volume'[e] <= volume[e]
  BY <1>1 DEF TypeOK
<1>3. CASE UNCHANGED link /\ pc'[s] = "idle"
  <2>1. \A r \in Runners : \/ pc'[r] = pc[r] /\ mine'[r] = mine[r]
                           \/ pc'[r] \in Harmless
    BY <1>1, <1>3 DEF Harmless
  <2> QED BY <1>1, <1>2, <1>3, <2>1, HarmlessStep
<1>4. CASE UpdateLot("OPEN", mine[s])
  <2>1. link'.status = "OPEN" /\ link'.ticket = mine[s]
    BY <1>4 DEF UpdateLot
  <2>2. CASE pc[s] = "write"
    <3>1. link.status = "PENDING" /\ mine[s] \in executed \cup {0}
      BY <2>2 DEF LInv, Stages, Stage
    <3>2. link.ticket = 0
      BY <3>1, NoTicketYet
    <3>3. Stage(s)'
      BY <1>1, <2>1 DEF Stage
    <3>4. \A z \in Streams \ {s} : pc'[z] = "idle"
      BY <1>1, OthersIdle
    <3>5. Stages'
      BY <3>3, <3>4 DEF Stages, Stage
    <3>6. \A r \in Runners : pc'[r] \notin {"closing", "closed", "reopen"}
      BY <1>1, <3>2 DEF LInv, Closing
    <3>7. Closing'
      BY <3>6 DEF Closing
    <3>8. mine[s] # 0 => executed = {mine[s]} /\ flying = {}
      BY <3>1 DEF LInv, OneCopy, Apart
    <3>9. Ticket'
      BY <1>1, <2>1, <3>8 DEF Ticket
    <3> QED BY <1>1, <2>1, <3>5, <3>7, <3>9 DEF LInv, ClosedHasTicket, Apart, OneCopy, RetryIsSafe,
               MayTryAgain, TruthfulLink
  <2>3. CASE pc[s] = "rewrite"
    <3>1. link.status \in {"OPEN", "CLOSING", "CLOSED"} /\ mine[s] = link.ticket
      BY <2>3 DEF LInv, Stages, Stage
    <3>2. Stage(s)'
      BY <1>1, <2>1 DEF Stage
    <3>3. \A z \in Streams \ {s} : pc'[z] = "idle"
      BY <1>1, OthersIdle
    <3>4. Stages'
      BY <3>2, <3>3 DEF Stages, Stage
    <3>5. Closing'
      <4> SUFFICES ASSUME NEW r \in Runners, pc'[r] \in {"closing", "closed", "reopen"}
                   PROVE  /\ link'.ticket # 0
                          /\ mine'[r] = link'.ticket
                          /\ pc'[r] = "closed" => volume'[link'.ticket] = 0
        BY DEF Closing
      <4>1. pc'[r] = pc[r] /\ mine'[r] = mine[r]
        BY <1>1
      <4> QED BY <1>1, <2>1, <3>1, <4>1 DEF LInv, Closing
    <3> QED BY <1>1, <2>1, <3>1, <3>4, <3>5 DEF LInv, Ticket, ClosedHasTicket, Apart, OneCopy,
               RetryIsSafe, MayTryAgain, TruthfulLink
  <2> QED BY <1>1, <2>2, <2>3
<1>5. \/ UNCHANGED link /\ pc'[s] = "idle"
      \/ UpdateLot("OPEN", mine[s])
  BY DEF Write, Record, Leave, TypeOK
<1> QED BY <1>3, <1>4, <1>5

\* A link may be tried again only after an attempt that sent nothing.
LEMMA FailStep == ASSUME CInv, TypeOK', NEW s \in Streams, Fail(s) PROVE LInv'
<1> USE Names DEF CInv
<1>1. /\ pc[s] \in {"refused", "unclear"} /\ link.status = "PENDING" /\ pc'[s] = "idle"
      /\ UNCHANGED <<sent, flying, executed, volume>>
      /\ \A r \in Runners \ {s} : pc'[r] = pc[r]
      /\ pc[s] = "refused" => Orders = {}
  BY DEF Fail, At, Record, Leave, TypeOK, broker, LInv, Stages, Stage
<1>2. link.ticket = 0
  BY <1>1, NoTicketYet
<1>3. /\ link'.ticket = 0
      /\ \/ link'.status = "PENDING"
         \/ link'.status = "FAILED" /\ (link'.code = "uncertain" \/ pc[s] = "refused")
  BY <1>1, <1>2 DEF Fail, At, Update, TypeOK
<1>4. Stage(s)'
  BY <1>1 DEF Stage
<1>5. Stages' /\ Closing'
  BY <1>1, <1>2, <1>4, OpenerStep
<1>6. RetryIsSafe'
  BY <1>1, <1>3 DEF RetryIsSafe, MayTryAgain, Orders
<1> QED BY <1>1, <1>3, <1>5, <1>6 DEF LInv, Ticket, ClosedHasTicket, Apart, OneCopy, TruthfulLink

\* The steps that touch neither the orders nor what the link says of them.
LEMMA QuietStep ==
  ASSUME CInv, TypeOK',
         \/ SourceMoves \/ SourceShrinks \/ Age \/ UNCHANGED vars
         \/ \E s \in Streams : \/ OpenStream(s) \/ SeeOpen(s) \/ SeeShrunk(s) \/ SeeGone(s) \/ LoseStream(s)
                               \/ Take(s) \/ Look(s) \/ CopyModify(s)
         \/ \E r \in Runners : NoClaim(r)
         \/ \E p \in Processes : Crash(p) \/ Recover(p)
  PROVE  LInv'
<1> USE Names DEF CInv
<1>1. UNCHANGED <<sent, flying, executed>>
  BY DEF SourceMoves, SourceShrinks, Age, vars, OpenStream, SeeOpen, SeeShrunk, SeeGone, LoseStream,
         Take, Look, CopyModify, Trim, Trimmed, Changeless, NoClaim, Crash, Recover, ListCopies,
         Confirm, NoConfirm, broker
<1>2. \A e \in executed : volume'[e] <= volume[e]
  <2>1. CASE UNCHANGED volume
    BY <2>1 DEF TypeOK
  <2>2. ASSUME NEW s \in Streams, Trim(s)
        PROVE  \A e \in executed : volume'[e] <= volume[e]
    <3>1. part[s].amount \in Nat
      BY DEF TypeOK
    <3> QED BY <2>2, <3>1, ShutType DEF Trim
  <2> QED BY <2>1, <2>2 DEF SourceMoves, SourceShrinks, Age, vars, OpenStream, SeeOpen, SeeShrunk,
         SeeGone, LoseStream, Take, Look, CopyModify, Trimmed, Changeless, NoClaim, Crash, Recover,
         ListCopies, Confirm, NoConfirm, broker
<1>3. link'.status = link.status /\ link'.ticket = link.ticket /\ link'.code = link.code
  <2>1. CASE UNCHANGED link
    BY <2>1
  <2>2. CASE Age
    BY <2>2 DEF Age, TypeOK
  <2>3. ASSUME NEW s \in Streams, Trimmed(s) \/ Changeless(s)
        PROVE  link'.status = link.status /\ link'.ticket = link.ticket /\ link'.code = link.code
    BY ZenonT(30), <2>3 DEF Trimmed, Changeless, TypeOK
  <2> QED BY <2>1, <2>2, <2>3 DEF SourceMoves, SourceShrinks, vars, OpenStream, SeeOpen, SeeShrunk,
         SeeGone, LoseStream, Take, Look, CopyModify, Trim, NoClaim, Crash, Recover,
         ListCopies, Confirm, NoConfirm
<1>4. \A r \in Runners : \/ pc'[r] = pc[r] /\ mine'[r] = mine[r]
                         \/ pc'[r] \in Harmless
  <2>1. CASE UNCHANGED runs
    BY <2>1 DEF runs
  <2>2. ASSUME NEW s \in Runners, NEW to \in Harmless, Goto(s, to)
        PROVE  \A r \in Runners : \/ pc'[r] = pc[r] /\ mine'[r] = mine[r]
                                  \/ pc'[r] \in Harmless
    BY <2>2 DEF Goto, TypeOK
  <2>3. ASSUME NEW s \in Runners, Leave(s)
        PROVE  \A r \in Runners : \/ pc'[r] = pc[r] /\ mine'[r] = mine[r]
                                  \/ pc'[r] \in Harmless
    BY <2>3 DEF Leave, TypeOK, Harmless
  <2>4. ASSUME NEW s \in Streams, Levels(s)
        PROVE  \A r \in Runners : \/ pc'[r] = pc[r] /\ mine'[r] = mine[r]
                                  \/ pc'[r] \in Harmless
    BY <2>2, <2>3, <2>4 DEF Levels, Record, Harmless
  <2>5. ASSUME NEW s \in Streams, Take(s)
        PROVE  \A r \in Runners : \/ pc'[r] = pc[r] /\ mine'[r] = mine[r]
                                  \/ pc'[r] \in Harmless
    <3>1. CASE Goto(s, "look") \/ Goto(s, "plan") \/ Goto(s, "claim") \/ Silent(s)
      BY <2>2, <2>3, <3>1 DEF Silent, Harmless
    <3>2. CASE TakeModify(s, Head(chain[s]))
      <4>1. CASE Levels(s) \/ Silent(s)
        BY <2>3, <2>4, <4>1 DEF Silent
      <4>2. CASE pc' = [pc EXCEPT ![s] = "trim"] /\ mine' = [mine EXCEPT ![s] = link.ticket]
        BY <4>2 DEF TypeOK, Harmless
      <4> QED BY <3>2, <4>1, <4>2 DEF TakeModify
    <3> QED BY <2>5, <3>1, <3>2 DEF Take
  <2>6. ASSUME NEW s \in Streams, CopyModify(s)
        PROVE  \A r \in Runners : \/ pc'[r] = pc[r] /\ mine'[r] = mine[r]
                                  \/ pc'[r] \in Harmless
    <3>1. "trimmed" \in Harmless /\ "changeless" \in Harmless
      BY DEF Harmless
    <3> QED BY <2>2, <2>3, <2>4, <2>6, <3>1 DEF CopyModify, Trim, Trimmed, Changeless, Record
  <2>7. ASSUME NEW s \in Streams, Look(s)
        PROVE  \A r \in Runners : \/ pc'[r] = pc[r] /\ mine'[r] = mine[r]
                                  \/ pc'[r] \in Harmless
    BY <2>2, <2>3, <2>7 DEF Look, Silent, Harmless
  <2>8. ASSUME NEW r \in Runners, NoClaim(r) \/ (r \in Processes /\ Recover(r))
        PROVE  \A q \in Runners : \/ pc'[q] = pc[q] /\ mine'[q] = mine[q]
                                  \/ pc'[q] \in Harmless
    BY <2>2, <2>3, <2>8 DEF NoClaim, Recover, ListCopies, Confirm, NoConfirm, Silent, Record, Harmless
  <2>9. ASSUME NEW p \in Processes, Crash(p)
        PROVE  \A q \in Runners : \/ pc'[q] = pc[q] /\ mine'[q] = mine[q]
                                  \/ pc'[q] \in Harmless
    BY <2>9 DEF Crash, Harmless
  <2> QED BY <2>1, <2>5, <2>6, <2>7, <2>8, <2>9 DEF SourceMoves, SourceShrinks, Age, vars,
         OpenStream, SeeOpen, SeeShrunk, SeeGone, LoseStream
<1> QED BY <1>1, <1>2, <1>3, <1>4, HarmlessStep

\* What flies lands, or is dropped: no ticket is known yet.
LEMMA BrokerStep == ASSUME CInv, TypeOK', BrokerActs PROVE LInv'
<1> USE Names DEF CInv
<1>1. PICK o \in flying :
        /\ flying' = flying \ {o}
        /\ \/ executed' = executed \cup {o}
           \/ UNCHANGED <<executed, volume>>
  BY DEF BrokerActs
<1>2. UNCHANGED <<pc, mine, link, sent>>
  BY DEF BrokerActs, runs
<1>3. link.ticket = 0 /\ ~MayTryAgain
  BY DEF LInv, Ticket, RetryIsSafe
<1>4. Orders' \subseteq Orders /\ o \in Orders /\ executed \subseteq executed'
  BY <1>1 DEF Orders
<1>5. Stages'
  <2> SUFFICES ASSUME NEW s \in Streams
               PROVE  Stage(s)'
    BY DEF Stages
  <2> QED BY <1>2, <1>3, <1>4 DEF LInv, Stages, Stage, MayTryAgain
<1>6. Closing' /\ Ticket' /\ ClosedHasTicket' /\ RetryIsSafe'
  BY <1>2, <1>3 DEF LInv, Closing, Ticket, ClosedHasTicket, RetryIsSafe, MayTryAgain
<1>7. Apart' /\ OneCopy'
  BY <1>1 DEF LInv, Apart, OneCopy
<1>8. TruthfulLink'
  BY <1>2, <1>3 DEF LInv, TruthfulLink, ClosedHasTicket
<1> QED BY <1>5, <1>6, <1>7, <1>8 DEF LInv

LEMMA ClosersStep ==
  ASSUME CInv, TypeOK', NEW r \in Runners,
         Claim(r) \/ ClaimLost(r) \/ Close(r) \/ Closed(r) \/ Reopen(r)
  PROVE  LInv'
<1> USE Names DEF CInv
<1>1. UNCHANGED <<sent, flying, executed>>
  BY DEF Claim, ClaimLost, Close, Closed, Reopen, broker
<1>2. /\ link.ticket # 0
      /\ pc[r] \in {"closing", "closed", "reopen"} => mine[r] = link.ticket
      /\ pc[r] = "closed" => volume[link.ticket] = 0
  BY DEF Claim, ClaimLost, Close, Closed, Reopen, At, Claimable, LInv, Closing
<1>3. executed = {link.ticket} /\ link.status \in {"OPEN", "CLOSING", "CLOSED"}
  BY <1>2 DEF LInv, Ticket
<1>4. \A q \in Runners \ {r} : pc'[q] = pc[q] /\ mine'[q] = mine[q]
  BY DEF Claim, ClaimLost, Close, Closed, Reopen, Goto, Record, Silent, Leave, TypeOK
<1>5. CASE Claim(r) \/ ClaimLost(r)
  <2>1. link'.status = "CLOSING" /\ link'.ticket = link.ticket
    BY <1>5 DEF Claim, ClaimLost, Update, TypeOK
  <2>2. pc'[r] = "idle" \/ (pc'[r] = "closing" /\ mine'[r] = link.ticket)
    BY <1>5 DEF Claim, ClaimLost, Silent, Leave, TypeOK
  <2>3. \A e \in executed : volume'[e] <= volume[e]
    BY <1>5 DEF Claim, ClaimLost, broker, TypeOK
  <2> QED BY <1>1, <1>2, <1>4, <2>1, <2>2, <2>3, CloserStep
<1>6. CASE Close(r)
  <2>1. UNCHANGED link /\ mine' = mine /\ mine[r] = link.ticket
    BY <1>2, <1>6 DEF Close, At, Goto
  <2>2. \A e \in executed : volume'[e] <= volume[e]
    BY <1>6, ShutType DEF Close
  <2>3. pc'[r] = "closed" => Shut(mine[r], 0)
    BY <1>6 DEF Close, Goto, TypeOK
  <2>4. pc'[r] = "closed" => volume'[link.ticket] = 0
    BY <1>3, <2>1, <2>3 DEF Shut, TypeOK
  <2>5. pc'[r] \in {"closed", "reopen"}
    BY <1>6 DEF Close, Goto, TypeOK
  <2> QED BY <1>1, <1>2, <1>3, <1>4, <2>1, <2>2, <2>4, <2>5, CloserStep
<1>7. CASE Closed(r)
  <2>1. UNCHANGED volume /\ volume[link.ticket] = 0 /\ mine[r] = link.ticket
    BY <1>2, <1>7 DEF Closed, At, broker
  <2>2. \A e \in executed : volume'[e] <= volume[e]
    BY <2>1 DEF TypeOK
  <2>3. link'.status \in {"CLOSED", link.status} /\ link'.ticket = link.ticket
    BY <1>7 DEF Closed, Update, TypeOK
  <2>4. pc'[r] = "idle" \/ (pc'[r] = "reopen" /\ mine'[r] = mine[r])
    BY <1>7 DEF Closed, Goto, Record, Leave, TypeOK
  <2> QED BY <1>1, <1>2, <1>3, <1>4, <2>1, <2>2, <2>3, <2>4, CloserStep
<1>8. CASE Reopen(r)
  <2>1. UNCHANGED volume /\ pc'[r] = "idle"
    BY <1>8 DEF Reopen, broker, Record, Leave, TypeOK
  <2>2. \A e \in executed : volume'[e] <= volume[e]
    BY <2>1 DEF TypeOK
  <2>3. link'.status \in {"OPEN", link.status} /\ link'.ticket = link.ticket
    BY <1>8 DEF Reopen, Update, TypeOK
  <2> QED BY <1>1, <1>2, <1>3, <1>4, <2>1, <2>2, <2>3, CloserStep
<1> QED BY <1>5, <1>6, <1>7, <1>8

LEMMA CopyInit == Init => CInv
<1> SUFFICES ASSUME Init
             PROVE  CInv
  OBVIOUS
<1>1. TypeOK
  BY TypeInit
<1>2. Alone
  BY Names DEF Init, Alone, Engaged, Busy
<1>3. Stages /\ Closing
  BY Names DEF Init, Stages, Stage, Closing
<1> QED BY <1>1, <1>2, <1>3 DEF Init, CInv, LInv, Ticket, ClosedHasTicket, Apart, OneCopy, RetryIsSafe,
           MayTryAgain, TruthfulLink

LEMMA CopyStep ==
  ASSUME CInv, SoleWorker, Drained, ~Broken, [Next]_vars
  PROVE  CInv'
<1>1. TypeOK'
  BY TypeStep DEF CInv
<1>2. Alone'
  BY AloneStep DEF CInv
<1>3. LInv'
  BY <1>1, QuietStep, BrokerStep, ClosersStep, PlanStep, ReserveStep, SendStep, AnswerStep, WriteStep,
     FailStep DEF Next, CopyOpen, CopyClose
<1> QED BY <1>1, <1>2, <1>3 DEF CInv

LEMMA CopyInvariance == ASSUME SoleWorker, Drained, ~Broken PROVE Spec => []CInv
  BY CopyInit, CopyStep, PTL DEF Spec

-----------------------------------------------------------------------------
\* "one order per (route, source position)": with one worker, whose chains are
\* done before a stream is opened again, and an adapter that does not take a
\* broken connection for a refusal, the follower never has two copies.
THEOREM CopyOneCopy == ASSUME SoleWorker, Drained, ~Broken PROVE Spec => []OneCopy
<1>1. CInv => OneCopy
  BY DEF CInv, LInv
<1> QED BY <1>1, CopyInvariance, PTL

\* Under the same conditions a link that may be tried again has no order at the
\* broker or on its way there.
THEOREM CopyRetryIsSafe == ASSUME SoleWorker, Drained, ~Broken PROVE Spec => []RetryIsSafe
<1>1. CInv => RetryIsSafe
  BY DEF CInv, LInv
<1> QED BY <1>1, CopyInvariance, PTL

\* Under the same conditions the reservation comes before the order, and CLOSED
\* leaves nothing open, however a chain and a recovery close the copy together.
THEOREM CopyTruthfulLink == ASSUME SoleWorker, Drained, ~Broken PROVE Spec => []TruthfulLink
<1>1. CInv => TruthfulLink
  BY DEF CInv, LInv
<1> QED BY <1>1, CopyInvariance, PTL

-----------------------------------------------------------------------------
(* The recovery, under no condition.                                       *)

\* Nothing happens to a position that was never there.
LEMMA UnbornStep == ASSUME TypeOK, Unborn, [Next]_vars PROVE Unborn'
<1> SUFFICES ASSUME source' = "unborn"
             PROVE  /\ link'.status = "NONE" /\ link'.ticket = 0
                    /\ \A s \in Streams : chain'[s] = <<>> /\ knows'[s] = 0
                    /\ \A r \in Runners : pc'[r] = "idle"
  BY DEF Unborn
<1> USE Names
<1>1. source = "unborn"
  BY DEF Next, SourceMoves, SourceShrinks, BrokerActs, Age, OpenStream, SeeOpen, SeeShrunk, SeeGone,
     LoseStream, CopyOpen, Take, Look, Plan, Reserve, Again, Send, Answer, Write, Fail, CopyModify,
     Trim, Trimmed, Changeless, CopyClose, Claim, ClaimLost, NoClaim, Close, Closed, Reopen, Crash,
     Recover, ListCopies, Confirm, NoConfirm, vars, watch
<1>2. /\ link.status = "NONE" /\ link.ticket = 0
      /\ \A s \in Streams : chain[s] = <<>> /\ knows[s] = 0
      /\ \A r \in Runners : pc[r] = "idle"
  BY <1>1 DEF Unborn
<1>3. ASSUME NEW s \in Streams, CopyOpen(s) \/ CopyModify(s)
      PROVE  FALSE
  BY <1>2, <1>3 DEF CopyOpen, Take, Look, Plan, Reserve, Again, Send, Answer, Write, Fail, CopyModify,
     Trim, Trimmed, Changeless, At
<1>4. ASSUME NEW r \in Runners, CopyClose(r) \/ Recover(r)
      PROVE  FALSE
  BY <1>2, <1>4 DEF CopyClose, Claim, ClaimLost, NoClaim, Close, Closed, Reopen, Recover, ListCopies,
     Confirm, NoConfirm, Claimable, At
<1>5. ASSUME NEW s \in Streams, OpenStream(s) \/ LoseStream(s)
      PROVE  UNCHANGED <<chain, link, pc>> /\ \A z \in Streams : knows'[z] = 0
  BY <1>1, <1>2, <1>5 DEF OpenStream, LoseStream, runs, TypeOK
<1>6. ASSUME NEW s \in Streams, SeeOpen(s) \/ SeeShrunk(s) \/ SeeGone(s)
      PROVE  FALSE
  BY <1>1, <1>2, <1>6 DEF SeeOpen, SeeShrunk, SeeGone
<1>7. ASSUME NEW p \in Processes, Crash(p)
      PROVE  /\ UNCHANGED link
             /\ \A s \in Streams : chain'[s] = <<>> /\ knows'[s] = 0
             /\ \A r \in Runners : pc'[r] = "idle"
  BY <1>2, <1>7 DEF Crash
<1>8. CASE SourceMoves \/ SourceShrinks \/ BrokerActs \/ Age \/ UNCHANGED vars
  BY <1>1, <1>2, <1>8 DEF SourceMoves, SourceShrinks, BrokerActs, Age, vars, watch, runs
<1> QED BY <1>2, <1>3, <1>4, <1>5, <1>6, <1>7, <1>8 DEF Next

\* A recovery goes on to close only when it has seen the position gone.
LEMMA ConfirmedStep == ASSUME TypeOK, Confirmed, Unborn, [Next]_vars PROVE Confirmed'
<1> USE Names
<1>1. source = "gone" => source' = "gone"
  BY DEF Next, SourceMoves, SourceShrinks, BrokerActs, Age, OpenStream, SeeOpen, SeeShrunk, SeeGone,
     LoseStream, CopyOpen, Take, Look, Plan, Reserve, Again, Send, Answer, Write, Fail, CopyModify,
     Trim, Trimmed, Changeless, CopyClose, Claim, ClaimLost, NoClaim, Close, Closed, Reopen, Crash,
     Recover, ListCopies, Confirm, NoConfirm, vars, watch
<1> SUFFICES ASSUME NEW p \in Processes
             PROVE  /\ pc'[p] \in {"claim", "closing", "closed", "reopen"} => source' = "gone"
                    /\ pc'[p] \in {"idle", "listed", "claim", "closing", "closed", "reopen"}
  BY DEF Confirmed
<1>2. CASE pc'[p] = pc[p]
  BY <1>1, <1>2 DEF Confirmed
<1>3. ASSUME NEW s \in Streams, CopyOpen(s) \/ CopyModify(s)
      PROVE  pc'[p] = pc[p]
  BY <1>3 DEF CopyOpen, CopyModify, Take, TakeModify, Look, Plan, Reserve, Again, Send, Answer,
     Write, Fail, Trim, Trimmed, Changeless, Levels, Goto, Record, Silent, Leave, TypeOK
<1>4. ASSUME NEW r \in Runners \ {p}, CopyClose(r) \/ Recover(r)
      PROVE  pc'[p] = pc[p]
  BY <1>4 DEF CopyClose, Claim, ClaimLost, NoClaim, Close, Closed, Reopen, Recover, ListCopies,
     Confirm, NoConfirm, Goto, Record, Silent, Leave, TypeOK
<1>5. CASE CopyClose(p)
  <2>1. /\ pc[p] \in {"claim", "closing", "closed", "reopen"}
        /\ pc'[p] \in {"idle", "closing", "closed", "reopen"}
    BY <1>5 DEF CopyClose, Claim, ClaimLost, NoClaim, Close, Closed, Reopen, At, Goto, Record, Silent,
       Leave, TypeOK
  <2> QED BY <1>1, <2>1 DEF Confirmed
<1>6. CASE Recover(p)
  <2>1. CASE ListCopies(p) \/ NoConfirm(p)
    BY <2>1 DEF ListCopies, NoConfirm, Goto, Silent, Leave, TypeOK
  <2>2. CASE Confirm(p)
    <3>1. source # "unborn"
      BY <2>2 DEF Confirm, At, Unborn
    <3>2. source = "gone" /\ pc'[p] = "claim"
      BY <2>2, <3>1 DEF Confirm, Goto, TypeOK
    <3> QED BY <1>1, <3>2
  <2> QED BY <1>6, <2>1, <2>2 DEF Recover
<1>7. ASSUME NEW q \in Processes, Crash(q)
      PROVE  pc'[p] = pc[p] \/ pc'[p] = "idle"
  BY <1>7 DEF Crash
<1>8. ASSUME NEW s \in Streams, OpenStream(s) \/ SeeOpen(s) \/ SeeShrunk(s) \/ SeeGone(s) \/ LoseStream(s)
      PROVE  pc'[p] = pc[p]
  BY <1>8 DEF OpenStream, SeeOpen, SeeShrunk, SeeGone, LoseStream, runs
<1>9. CASE SourceMoves \/ SourceShrinks \/ BrokerActs \/ Age \/ UNCHANGED vars
  BY <1>2, <1>9 DEF SourceMoves, SourceShrinks, BrokerActs, Age, vars, runs
<1> QED BY <1>2, <1>3, <1>4, <1>5, <1>6, <1>7, <1>8, <1>9 DEF Next

\* A recovery closes a copy only when the source has closed the position: the
\* part of NeverClosedEarly that is about closeVanishedPositions.
RecoveryIsRight ==
  [][\A p \in Processes :
       (At(p, "closing") /\ pc'[p] \in {"closed", "reopen"}) => source = "gone"]_vars

\* It holds whatever crashes, is lost or breaks, with any number of workers.
THEOREM CopyRecoveryIsRight == Spec => RecoveryIsRight
<1>1. Init => RInv
  BY TypeInit, Names DEF Init, RInv, Confirmed, Unborn
<1>2. RInv /\ [Next]_vars => RInv'
  BY TypeStep, UnbornStep, ConfirmedStep DEF RInv
<1>3. RInv /\ [Next]_vars =>
        [\A p \in Processes :
           (At(p, "closing") /\ pc'[p] \in {"closed", "reopen"}) => source = "gone"]_vars
  BY DEF RInv, Confirmed, At
<1> QED BY <1>1, <1>2, <1>3, PTL DEF Spec, RecoveryIsRight
-----------------------------------------------------------------------------
(* The share of the copy that a MODIFY closes.                             *)

\* The steps of the copy for one unit of the source position, if that is a whole
\* number: else SharePart may round a half of a step up.
Ratio == Lot \div Size
Multiple == Lot = Ratio * Size

IsModify(change) == Len(change) = 2

\* Volumes of the source that later changes in the chain of s may begin with.
Ahead(s) == {size, knows[s]} \cup {chain[s][n][1] : n \in {m \in DOMAIN chain[s] : IsModify(chain[s][m])}}

\* A source position only shrinks, and so it does from change to change.
Descends ==
  \A s \in Streams :
    /\ knows[s] # 0 => knows[s] >= size
    /\ \A n \in DOMAIN chain[s] : IsModify(chain[s][n]) =>
         /\ chain[s][n][1] > chain[s][n][2]
         /\ chain[s][n][2] >= size /\ chain[s][n][2] >= knows[s]
         /\ \A m \in DOMAIN chain[s] : m > n /\ IsModify(chain[s][m]) => chain[s][n][2] >= chain[s][m][1]

\* So many steps of the copy are enough for what the source has left.
Covers(steps, s) == \A v \in Ahead(s) : steps >= Ratio * v

\* No MODIFY has failed.
Quiet == <<"MODIFY", "FAILED">> \notin rows

\* The recorded lot is enough, and so is what a MODIFY will leave.
Enough ==
  Quiet => \A s \in Streams : /\ link.status # "NONE" => Covers(link.copied, s)
                              /\ pc[s] \in {"trim", "trimmed"} => Covers(part[s].rest, s)

\* What a MODIFY closes is a part of the recorded lot.
Parted ==
  \A s \in Streams : pc[s] \in {"trim", "trimmed"} =>
    /\ mine[s] = link.ticket /\ link.ticket # 0
    /\ part[s].amount + part[s].rest = link.copied

\* What a copy that is not closed still has at the broker: what is recorded, or
\* will be.
Recorded(o) ==
  \/ volume[o] = 0 \/ volume[o] >= link.copied
  \/ \E s \in Streams : \/ pc[s] = "changeless"
                        \/ pc[s] = "trimmed" /\ volume[o] >= part[s].rest
AllRecorded == Quiet => \A o \in executed : Recorded(o)

\* Without a ticket nothing is closed, and none of it partly while a ticket is
\* written once more.
Untouched ==
  /\ link.ticket = 0 => \A o \in executed : volume[o] = Lot
  /\ \A s \in Streams : pc[s] = "rewrite" => \A o \in executed : volume[o] \in {0, Lot}

ShareInv == Descends /\ Enough /\ Parted /\ AllRecorded /\ Untouched

\* SharePart rounds to the nearest step, so of a lot that is enough it leaves
\* enough, whatever part of it is taken.
LEMMA DivBelow ==
  ASSUME NEW n \in Nat, NEW d \in Nat, d > 0
  PROVE  n \div d \in Nat /\ (n \div d) * d <= n
  OBVIOUS

LEMMA ShareLeaves ==
  ASSUME NEW copied \in Nat, NEW k \in Nat, NEW before \in Nat, NEW after \in Nat,
         before > after, copied >= k * before,
         SharePart(copied, before, after) <= copied
  PROVE  copied - SharePart(copied, before, after) >= k * after
<1> DEFINE amount == SharePart(copied, before, after)
           n == 2 * copied * (before - after) + before
           d == 2 * before
<1>1. before - after \in Nat /\ before > 0
  OBVIOUS
<1>2. copied * (before - after) \in Nat
  BY <1>1
<1>3. n \in Nat /\ d \in Nat /\ d > 0
  BY <1>1, <1>2
<1>4. amount = n \div d
  BY DEF SharePart
<1>5. amount \in Nat /\ amount * d <= n
  <2> HIDE DEF n, d, amount
  <2> QED BY <1>3, <1>4, DivBelow
<1> DEFINE x == copied * after
           y == k * before * after
<1>6. x \in Nat /\ y \in Nat /\ x >= y
  OBVIOUS
<1> DEFINE rest == copied - amount
           kept == k * after
<1>7. rest \in Nat /\ kept \in Nat /\ amount = copied - rest
  BY <1>5
<1>8. rest * d + before >= 2 * x
  <2>1. (copied - rest) * (2 * before) <= 2 * copied * (before - after) + before
    BY <1>5, <1>7
  <2> HIDE DEF rest, amount
  <2> QED BY <1>7, <2>1
<1>9. kept * d = 2 * y
  BY <1>1
<1>10. rest * d + before >= kept * d
  <2> HIDE DEF x, y, rest, kept, d
  <2>1. rest * d \in Nat /\ kept * d \in Nat
    BY <1>3, <1>7
  <2> QED BY <1>1, <1>6, <1>8, <1>9, <2>1
<1>11. CASE rest < kept
  <2>1. rest + 1 <= kept
    BY <1>7, <1>11
  <2>2. rest * d + d <= kept * d
    <3> HIDE DEF rest, kept, d
    <3>1. (rest + 1) * d <= kept * d
      BY <1>3, <1>7, <2>1
    <3> QED BY <1>3, <1>7, <3>1
  <2>3. before >= d
    <3> HIDE DEF rest, kept
    <3> QED BY <1>10, <2>2, <1>3, <1>7
  <2> QED BY <1>1, <2>3
<1> QED BY <1>7, <1>11

LEMMA ModifyVolumes ==
  ASSUME TypeOK, NEW s \in Streams, NEW n \in DOMAIN chain[s], IsModify(chain[s][n])
  PROVE  chain[s][n][1] \in 1..Size /\ chain[s][n][2] \in 1..Size
<1>1. chain[s][n] \in Changes
  BY DEF TypeOK, Changes
<1>2. Len(<<"existing">>) = 1 /\ Len(<<"open">>) = 1 /\ Len(<<"close">>) = 1
  OBVIOUS
<1> QED BY <1>1, <1>2 DEF Changes, IsModify

LEMMA AheadVolumes == ASSUME TypeOK, NEW s \in Streams PROVE Ahead(s) \subseteq 0..Size
<1>1. size \in 0..Size /\ knows[s] \in 0..Size
  BY Numbers DEF TypeOK
<1>2. 1..Size \subseteq 0..Size
  BY Numbers
<1> QED BY <1>1, <1>2, ModifyVolumes DEF Ahead

\* What a step may do to the volumes a stream has in view.
Same(s) == chain'[s] = chain[s] /\ knows'[s] \in {knows[s], 0, size}
More(s) == \E c \in Changes : /\ ~IsModify(c) /\ chain'[s] = Append(chain[s], c)
                              /\ knows'[s] \in {knows[s], 0, size}
Shrunk(s) == /\ size < knows[s] /\ knows'[s] = size
             /\ chain'[s] = Append(chain[s], <<knows[s], size>>)
Taken(s) == chain[s] # <<>> /\ chain'[s] = Tail(chain[s]) /\ knows'[s] = knows[s]
Lost(s) == chain'[s] = <<>> /\ knows'[s] = 0

Views == /\ size' <= size
         /\ \/ size' = size /\ \A s \in Streams : Same(s) \/ More(s) \/ Shrunk(s) \/ Taken(s) \/ Lost(s)
            \/ UNCHANGED <<chain, knows>>

LEMMA ViewStep == ASSUME TypeOK, [Next]_vars PROVE Views
<1> USE Names
<1>1. size \in Nat /\ size <= size
  BY DEF TypeOK
<1>2. CASE UNCHANGED <<size, chain, knows>>
  BY <1>1, <1>2 DEF Views
<1>3. CASE SourceShrinks
  <2>1. size' \in Nat /\ size' <= size
    BY <1>1, <1>3 DEF SourceShrinks
  <2> QED BY <1>3, <2>1 DEF SourceShrinks, Views
<1>4. /\ <<"existing">> \in Changes /\ <<"open">> \in Changes /\ <<"close">> \in Changes
      /\ ~IsModify(<<"existing">>) /\ ~IsModify(<<"open">>) /\ ~IsModify(<<"close">>)
  BY DEF Changes, IsModify
<1>5. ASSUME NEW s \in Streams, OpenStream(s) \/ SeeOpen(s) \/ SeeShrunk(s) \/ SeeGone(s)
      PROVE  Views
  <2>1. \A z \in Streams \ {s} : Same(z)
    BY <1>5 DEF OpenStream, SeeOpen, SeeShrunk, SeeGone, Open, Queue, Same, TypeOK
  <2>2. size' = size
    BY <1>5 DEF OpenStream, SeeOpen, SeeShrunk, SeeGone
  <2>3. chain \in [Streams -> Seq(Changes)] /\ knows \in [Streams -> 0..Size]
    BY DEF TypeOK, Changes
  <2>4. ASSUME NEW c, Queue(s, c)
        PROVE  chain'[s] = Append(chain[s], c)
    BY <2>3, <2>4 DEF Queue
  <2>5. ASSUME NEW c \in Changes, ~IsModify(c), Open(s, c) \/ Queue(s, c), knows'[s] \in {0, size}
        PROVE  Same(s) \/ More(s)
    <3>1. CASE Queue(s, c)
      BY <2>4, <2>5, <3>1 DEF More
    <3>2. CASE UNCHANGED chain
      BY <2>5, <3>2 DEF Same
    <3> QED BY <2>5, <3>1, <3>2 DEF Open
  <2>6. ASSUME OpenStream(s) \/ SeeOpen(s)
        PROVE  Same(s) \/ More(s)
    <3>1. knows'[s] \in {0, size}
      BY <2>3, <2>6 DEF OpenStream, SeeOpen
    <3>2. Open(s, <<"existing">>) \/ Open(s, <<"open">>) \/ UNCHANGED chain
      BY <2>6 DEF OpenStream, SeeOpen
    <3>3. Open(s, <<"existing">>) => Same(s) \/ More(s)
      BY <1>4, <2>5, <3>1, Zenon
    <3>4. Open(s, <<"open">>) => Same(s) \/ More(s)
      BY <1>4, <2>5, <3>1, Zenon
    <3>5. UNCHANGED chain => Same(s)
      BY <3>1 DEF Same
    <3> QED BY <3>2, <3>3, <3>4, <3>5
  <2>7. ASSUME SeeShrunk(s) \/ SeeGone(s)
        PROVE  Same(s) \/ More(s) \/ Shrunk(s)
    <3>1. CASE SeeShrunk(s)
      <4>1. Queue(s, <<knows[s], size>>) /\ size < knows[s] /\ knows'[s] = size
        BY <2>3, <3>1 DEF SeeShrunk
      <4>2. chain'[s] = Append(chain[s], <<knows[s], size>>)
        BY <2>4, <4>1, Zenon
      <4> QED BY <4>1, <4>2 DEF Shrunk
    <3>2. CASE SeeGone(s)
      <4>1. knows'[s] \in {0, size} /\ Queue(s, <<"close">>)
        BY <2>3, <3>2 DEF SeeGone
      <4> QED BY <1>4, <2>5, <4>1, Zenon
    <3> QED BY <2>7, <3>1, <3>2
  <2>8. Same(s) \/ More(s) \/ Shrunk(s)
    BY <1>5, <2>6, <2>7
  <2> QED BY <1>1, <2>1, <2>2, <2>8 DEF Views
<1>6. ASSUME NEW s \in Streams, LoseStream(s)
      PROVE  Views
  <2>1. size' = size /\ \A z \in Streams : Same(z)
    BY <1>6 DEF LoseStream, Same, TypeOK
  <2> QED BY <1>1, <2>1 DEF Views
<1>7. ASSUME NEW s \in Streams, Take(s)
      PROVE  Views
  <2>1. size' = size /\ Taken(s) /\ \A z \in Streams \ {s} : Same(z)
    BY <1>7 DEF Take, Same, Taken, TypeOK, watch
  <2> QED BY <1>1, <2>1 DEF Views
<1>8. ASSUME NEW p \in Processes, Crash(p)
      PROVE  Views
  <2>1. size' = size /\ \A z \in Streams : Same(z) \/ Lost(z)
    BY <1>8 DEF Crash, Same, Lost, TypeOK
  <2> QED BY <1>1, <2>1 DEF Views
<1>9. CASE SourceMoves \/ BrokerActs \/ Age \/ UNCHANGED vars
  BY <1>2, <1>9 DEF SourceMoves, BrokerActs, Age, vars, watch
<1>10. ASSUME NEW s \in Streams,
              Look(s) \/ Plan(s) \/ Reserve(s) \/ Again(s) \/ Send(s) \/ Answer(s) \/ Write(s) \/ Fail(s) \/ CopyModify(s)
       PROVE  Views
  BY <1>2, <1>10 DEF Look, Plan, Reserve, Again, Send, Answer, Write, Fail, CopyModify, Trim, Trimmed,
     Changeless, watch
<1>11. ASSUME NEW r \in Runners, CopyClose(r) \/ Recover(r)
       PROVE  Views
  BY <1>2, <1>11 DEF CopyClose, Claim, ClaimLost, NoClaim, Close, Closed, Reopen, Recover, ListCopies,
     Confirm, NoConfirm, watch
<1> QED BY <1>3, <1>5, <1>6, <1>7, <1>8, <1>9, <1>10, <1>11 DEF Next, CopyOpen

\* No volume that comes into view is above those that were.
LEMMA AheadFalls ==
  ASSUME TypeOK, TypeOK', Views, NEW s \in Streams, NEW v \in Ahead(s)'
  PROVE  \E w \in Ahead(s) : v <= w
<1>1. size \in Nat /\ size' \in Nat /\ knows[s] \in Nat /\ chain[s] \in Seq(Changes)
  BY DEF TypeOK, Changes
<1>2. size \in Ahead(s) /\ knows[s] \in Ahead(s)
  BY DEF Ahead
<1>3. CASE v = size'
  BY <1>1, <1>2, <1>3 DEF Views
<1>4. CASE v = knows'[s]
  <2>1. knows'[s] \in {knows[s], 0, size}
    BY DEF Views, Same, More, Shrunk, Taken, Lost
  <2> QED BY <1>1, <1>2, <1>4, <2>1
<1>5. ASSUME NEW n \in DOMAIN chain'[s], IsModify(chain'[s][n]), v = chain'[s][n][1]
      PROVE  \E w \in Ahead(s) : v <= w
  <2>1. \A w \in Ahead(s) : w <= w
    BY AheadVolumes, Numbers
  <2>2. CASE chain'[s] = chain[s]
    BY <1>5, <2>1, <2>2 DEF Ahead
  <2>3. CASE More(s)
    <3>1. n \in DOMAIN chain[s] /\ chain'[s][n] = chain[s][n]
      BY <1>1, <1>5, <2>3 DEF More
    <3> QED BY <1>5, <2>1, <3>1 DEF Ahead
  <2>4. CASE Shrunk(s)
    <3>1. CASE n \in DOMAIN chain[s] /\ chain'[s][n] = chain[s][n]
      BY <1>5, <2>1, <3>1 DEF Ahead
    <3>2. CASE chain'[s][n] = <<knows[s], size>>
      BY <1>2, <1>5, <2>1, <3>2
    <3> QED BY <1>1, <1>5, <2>4, <3>1, <3>2 DEF Shrunk
  <2>5. CASE Taken(s)
    <3>1. n + 1 \in DOMAIN chain[s] /\ chain'[s][n] = chain[s][n + 1]
      BY <1>1, <1>5, <2>5 DEF Taken
    <3>2. chain[s][n + 1][1] \in Ahead(s)
      BY <1>5, <3>1 DEF Ahead
    <3> QED BY <1>5, <2>1, <3>1, <3>2
  <2>6. CASE Lost(s)
    BY <1>5, <2>6 DEF Lost
  <2> QED BY <2>2, <2>3, <2>4, <2>5, <2>6 DEF Views, Same
<1> QED BY <1>3, <1>4, <1>5 DEF Ahead

LEMMA DescendsStep == ASSUME TypeOK, TypeOK', Descends, Views PROVE Descends'
<1> SUFFICES ASSUME NEW s \in Streams
             PROVE  /\ knows'[s] # 0 => knows'[s] >= size'
                    /\ \A n \in DOMAIN chain'[s] : IsModify(chain'[s][n]) =>
                         /\ chain'[s][n][1] > chain'[s][n][2]
                         /\ chain'[s][n][2] >= size' /\ chain'[s][n][2] >= knows'[s]
                         /\ \A m \in DOMAIN chain'[s] : m > n /\ IsModify(chain'[s][m]) =>
                              chain'[s][n][2] >= chain'[s][m][1]
  BY DEF Descends
<1>1. /\ size \in Nat /\ size' \in Nat /\ knows[s] \in Nat /\ size' <= size
      /\ chain[s] \in Seq(Changes)
  BY DEF TypeOK, Changes, Views
<1>2. knows'[s] # 0 => knows'[s] >= size'
  <2>1. knows'[s] \in {knows[s], 0, size}
    BY DEF Views, Same, More, Shrunk, Taken, Lost
  <2>2. knows[s] # 0 => knows[s] >= size
    BY DEF Descends
  <2> QED BY <1>1, <2>1, <2>2
<1>3. ASSUME NEW n \in DOMAIN chain[s], IsModify(chain[s][n])
      PROVE  /\ chain[s][n][1] \in Nat /\ chain[s][n][2] \in Nat
             /\ chain[s][n][1] > chain[s][n][2]
             /\ chain[s][n][2] >= size /\ chain[s][n][2] >= knows[s]
             /\ \A m \in DOMAIN chain[s] : m > n /\ IsModify(chain[s][m]) => chain[s][n][2] >= chain[s][m][1]
  <2>1. chain[s][n][1] \in Nat /\ chain[s][n][2] \in Nat
    BY <1>3, ModifyVolumes, Numbers
  <2> QED BY <1>3, <2>1 DEF Descends
<1> SUFFICES ASSUME NEW n \in DOMAIN chain'[s], IsModify(chain'[s][n])
             PROVE  /\ chain'[s][n][1] > chain'[s][n][2]
                    /\ chain'[s][n][2] >= size' /\ chain'[s][n][2] >= knows'[s]
                    /\ \A m \in DOMAIN chain'[s] : m > n /\ IsModify(chain'[s][m]) =>
                         chain'[s][n][2] >= chain'[s][m][1]
  BY <1>2
<1>4. CASE chain'[s] = chain[s] /\ knows'[s] \in {knows[s], 0, size}
  BY <1>1, <1>3, <1>4
<1>5. CASE More(s)
  <2>1. PICK c \in Changes : /\ ~IsModify(c) /\ chain'[s] = Append(chain[s], c)
                             /\ knows'[s] \in {knows[s], 0, size}
    BY <1>5 DEF More
  <2>2. ASSUME NEW m \in DOMAIN chain'[s], IsModify(chain'[s][m])
        PROVE  m \in DOMAIN chain[s] /\ chain'[s][m] = chain[s][m]
    BY <1>1, <2>1, <2>2
  <2>3. n \in DOMAIN chain[s] /\ chain'[s][n] = chain[s][n]
    BY <2>2
  <2>4. chain'[s][n][2] >= size' /\ chain'[s][n][2] >= knows'[s]
    BY <1>1, <1>3, <2>1, <2>3
  <2> QED BY <1>3, <2>2, <2>3, <2>4
<1>6. CASE Shrunk(s)
  <2>1. /\ size < knows[s] /\ knows'[s] = size
        /\ DOMAIN chain'[s] = 1..(Len(chain[s]) + 1)
        /\ \A m \in DOMAIN chain'[s] : \/ m \in DOMAIN chain[s] /\ chain'[s][m] = chain[s][m]
                                       \/ m = Len(chain[s]) + 1 /\ chain'[s][m] = <<knows[s], size>>
    BY <1>1, <1>6 DEF Shrunk
  <2>2. CASE n \in DOMAIN chain[s] /\ chain'[s][n] = chain[s][n]
    <3>1. chain'[s][n][2] >= size' /\ chain'[s][n][2] >= knows'[s]
      BY <1>1, <1>3, <2>1, <2>2
    <3>2. ASSUME NEW m \in DOMAIN chain'[s], m > n, IsModify(chain'[s][m])
          PROVE  chain'[s][n][2] >= chain'[s][m][1]
      <4>1. CASE m \in DOMAIN chain[s] /\ chain'[s][m] = chain[s][m]
        BY <1>3, <2>2, <3>2, <4>1
      <4>2. CASE chain'[s][m] = <<knows[s], size>>
        BY <1>3, <2>2, <4>2
      <4> QED BY <2>1, <4>1, <4>2
    <3> QED BY <1>3, <2>2, <3>1, <3>2
  <2>3. CASE n = Len(chain[s]) + 1 /\ chain'[s][n] = <<knows[s], size>>
    <3>1. ~\E m \in DOMAIN chain'[s] : m > n
      BY <1>1, <2>1, <2>3
    <3> QED BY <1>1, <2>1, <2>3, <3>1
  <2> QED BY <2>1, <2>2, <2>3
<1>7. CASE Taken(s)
  <2>1. /\ knows'[s] = knows[s]
        /\ \A m \in DOMAIN chain'[s] : m \in Nat /\ m + 1 \in DOMAIN chain[s] /\ chain'[s][m] = chain[s][m + 1]
    BY <1>1, <1>7 DEF Taken
  <2>2. chain'[s][n][2] >= size' /\ chain'[s][n][2] >= knows'[s] /\ chain'[s][n][1] > chain'[s][n][2]
    BY <1>1, <1>3, <2>1
  <2>3. ASSUME NEW m \in DOMAIN chain'[s], m > n, IsModify(chain'[s][m])
        PROVE  chain'[s][n][2] >= chain'[s][m][1]
    <3>1. m + 1 > n + 1
      BY <2>1, <2>3
    <3> QED BY <1>3, <2>1, <2>3, <3>1
  <2> QED BY <2>2, <2>3
<1>8. CASE Lost(s)
  BY <1>8 DEF Lost
<1> QED BY <1>4, <1>5, <1>6, <1>7, <1>8 DEF Views, Same

LEMMA RatioNat == Ratio \in Nat
  BY Numbers DEF Ratio

\* What is enough stays so.
LEMMA CoversStay ==
  ASSUME TypeOK, TypeOK', Views, NEW s \in Streams, NEW steps \in Nat, Covers(steps, s)
  PROVE  \A v \in Ahead(s)' : steps >= Ratio * v
<1> SUFFICES ASSUME NEW v \in Ahead(s)'
             PROVE  steps >= Ratio * v
  OBVIOUS
<1>1. PICK w \in Ahead(s) : v <= w
  BY AheadFalls
<1>2. w \in Nat /\ Ratio \in Nat /\ steps >= Ratio * w
  BY AheadVolumes, Numbers, RatioNat DEF Covers
<1>3. v \in Nat
  <2>1. chain'[s] \in Seq(Changes) /\ size' \in Nat /\ knows'[s] \in Nat
    BY SMTT(30) DEF TypeOK, Changes
  <2>2. ASSUME NEW c \in Changes, IsModify(c)
        PROVE  c[1] \in Nat
    <3>1. Len(<<"existing">>) = 1 /\ Len(<<"open">>) = 1 /\ Len(<<"close">>) = 1
      OBVIOUS
    <3> QED BY <2>2, <3>1, Numbers DEF Changes, IsModify
  <2> QED BY <2>1, <2>2 DEF Ahead
<1>4. Ratio * v <= Ratio * w
  BY <1>1, <1>2, <1>3
<1> QED BY <1>2, <1>3, <1>4

\* The whole lot is enough for everything.
LEMMA LotCovers == ASSUME TypeOK, Multiple, NEW s \in Streams PROVE Covers(Lot, s)
<1> SUFFICES ASSUME NEW v \in Ahead(s)
             PROVE  Lot >= Ratio * v
  BY DEF Covers
<1>1. v \in 0..Size
  BY AheadVolumes
<1>2. Ratio * v <= Ratio * Size
  BY <1>1, RatioNat, Numbers
<1> QED BY <1>1, <1>2, RatioNat, Numbers DEF Multiple

\* A change is taken: what comes after it begins where it ends, or below.
LEMMA AfterModify ==
  ASSUME TypeOK, TypeOK', Descends, NEW s \in Streams, Taken(s), size' = size,
         IsModify(Head(chain[s]))
  PROVE  /\ Head(chain[s])[1] \in Ahead(s)
         /\ Head(chain[s])[1] \in Nat /\ Head(chain[s])[2] \in Nat
         /\ Head(chain[s])[1] > Head(chain[s])[2]
         /\ \A v \in Ahead(s)' : v \in Nat /\ v <= Head(chain[s])[2]
<1>1. /\ size \in Nat /\ knows[s] \in Nat
      /\ chain[s] \in Seq(Changes) /\ chain[s] # <<>>
  BY DEF TypeOK, Changes, Taken
<1>2. 1 \in DOMAIN chain[s] /\ Head(chain[s]) = chain[s][1]
  BY <1>1
<1>3. chain[s][1][1] \in Nat /\ chain[s][1][2] \in Nat
  BY <1>2, ModifyVolumes, Numbers
<1>4. /\ chain[s][1][1] > chain[s][1][2] /\ chain[s][1][2] >= size /\ chain[s][1][2] >= knows[s]
      /\ \A m \in DOMAIN chain[s] : m > 1 /\ IsModify(chain[s][m]) => chain[s][1][2] >= chain[s][m][1]
  BY <1>2 DEF Descends
<1>5. ASSUME NEW n \in DOMAIN chain'[s], IsModify(chain'[s][n])
      PROVE  chain'[s][n][1] \in Nat /\ chain'[s][n][1] <= chain[s][1][2]
  <2>1. n + 1 \in DOMAIN chain[s] /\ n + 1 > 1 /\ chain'[s][n] = chain[s][n + 1]
    BY <1>1 DEF Taken
  <2>2. chain[s][n + 1][1] \in Nat
    BY <1>5, <2>1, ModifyVolumes, Numbers
  <2> QED BY <1>3, <1>4, <1>5, <2>1, <2>2
<1>6. ASSUME NEW v \in Ahead(s)'
      PROVE  v \in Nat /\ v <= chain[s][1][2]
  BY <1>1, <1>3, <1>4, <1>5 DEF Ahead, Taken
<1> QED BY <1>2, <1>3, <1>4, <1>6 DEF Ahead

\* A step that leaves the recorded lot and what MODIFYs are about.
LEMMA LotStays ==
  ASSUME TypeOK, TypeOK', ShareInv, Views,
         link'.copied = link.copied, link'.ticket = link.ticket,
         link'.status # "NONE" => link.status # "NONE",
         executed' = executed, rows \subseteq rows',
         \A o \in executed : volume'[o] = volume[o] \/ (volume'[o] = 0 /\ link.ticket # 0),
         \A s \in Streams : \/ pc'[s] = pc[s] /\ mine'[s] = mine[s] /\ part'[s] = part[s]
                            \/ /\ pc'[s] \notin {"trim", "trimmed", "rewrite"}
                               /\ pc[s] \notin {"trimmed", "changeless"}
  PROVE  ShareInv'
<1> USE DEF ShareInv
<1>1. Descends'
  BY DescendsStep
<1>2. Quiet' => Quiet
  BY DEF Quiet
<1>3. Enough'
  <2> SUFFICES ASSUME Quiet', NEW s \in Streams
               PROVE  /\ link'.status # "NONE" => \A v \in Ahead(s)' : link'.copied >= Ratio * v
                      /\ pc'[s] \in {"trim", "trimmed"} => \A v \in Ahead(s)' : part'[s].rest >= Ratio * v
    BY DEF Enough, Covers
  <2>1. link.copied \in Nat /\ part[s].rest \in Nat
    BY Numbers DEF TypeOK
  <2>2. link.status # "NONE" => Covers(link.copied, s)
    BY <1>2 DEF Enough
  <2>3. pc[s] \in {"trim", "trimmed"} => Covers(part[s].rest, s)
    BY <1>2 DEF Enough
  <2>4. link.status # "NONE" => \A v \in Ahead(s)' : link.copied >= Ratio * v
    BY <2>1, <2>2, CoversStay
  <2>5. pc[s] \in {"trim", "trimmed"} => \A v \in Ahead(s)' : part[s].rest >= Ratio * v
    BY <2>1, <2>3, CoversStay
  <2> QED BY <2>4, <2>5
<1>4. Parted'
  BY DEF Parted
<1>5. AllRecorded'
  <2> SUFFICES ASSUME Quiet', NEW o \in executed, volume'[o] # 0
               PROVE  Recorded(o)'
    BY DEF AllRecorded, Recorded
  <2>1. volume'[o] = volume[o] /\ Recorded(o)
    BY <1>2 DEF AllRecorded
  <2> QED BY <2>1 DEF Recorded
<1>6. Untouched'
  BY DEF Untouched
<1> QED BY <1>1, <1>3, <1>4, <1>5, <1>6

\* The part that a MODIFY computes leaves enough.
LEMMA PartStep ==
  ASSUME TypeOK, TypeOK', ShareInv, Views, NEW s \in Streams, Take(s), IsModify(Head(chain[s])),
         link.status = "OPEN", link.ticket # 0,
         SharePart(link.copied, Head(chain[s])[1], Head(chain[s])[2]) \in 1..(link.copied - 1),
         pc' = [pc EXCEPT ![s] = "trim"],
         mine' = [mine EXCEPT ![s] = link.ticket],
         part' = [part EXCEPT ![s] = [amount |-> SharePart(link.copied, Head(chain[s])[1], Head(chain[s])[2]),
                                      rest |-> link.copied - SharePart(link.copied, Head(chain[s])[1], Head(chain[s])[2])]],
         UNCHANGED rows
  PROVE  ShareInv'
<1> USE Names DEF ShareInv
<1> DEFINE before == Head(chain[s])[1]
           after == Head(chain[s])[2]
           amount == SharePart(link.copied, before, after)
<1>1. /\ UNCHANGED <<link, executed, volume>> /\ size' = size /\ Taken(s)
      /\ pc[s] = "idle" /\ link.copied \in Nat
  BY Numbers DEF Take, Taken, watch, broker, TypeOK, At
<1>2. /\ before \in Ahead(s) /\ before \in Nat /\ after \in Nat /\ before > after
      /\ \A v \in Ahead(s)' : v \in Nat /\ v <= after
  BY <1>1, AfterModify
<1> HIDE DEF before, after, amount
<1>3. /\ pc'[s] = "trim" /\ mine'[s] = link.ticket
      /\ part'[s] = [amount |-> amount, rest |-> link.copied - amount]
      /\ \A z \in Streams \ {s} : pc'[z] = pc[z] /\ mine'[z] = mine[z] /\ part'[z] = part[z]
  BY DEF TypeOK, amount, before, after
<1>4. amount \in Nat /\ amount <= link.copied
  BY <1>1 DEF amount, before, after
<1>5. Descends'
  BY DescendsStep
<1>6. Quiet' => Quiet
  BY DEF Quiet
<1>7. Enough'
  <2> SUFFICES ASSUME Quiet', NEW z \in Streams
               PROVE  /\ \A v \in Ahead(z)' : link.copied >= Ratio * v
                      /\ pc'[z] \in {"trim", "trimmed"} => \A v \in Ahead(z)' : part'[z].rest >= Ratio * v
    BY <1>1 DEF Enough, Covers
  <2>1. part[z].rest \in Nat
    BY Numbers DEF TypeOK
  <2>2. /\ Covers(link.copied, z) /\ Covers(link.copied, s)
        /\ pc[z] \in {"trim", "trimmed"} => Covers(part[z].rest, z)
    BY <1>6 DEF Enough
  <2>3. \A v \in Ahead(z)' : link.copied >= Ratio * v
    BY <1>1, <2>2, CoversStay
  <2>4. CASE z # s
    BY <1>3, <2>1, <2>2, <2>3, <2>4, CoversStay
  <2>5. CASE z = s
    <3>1. link.copied >= Ratio * before
      BY <1>2, <2>2 DEF Covers
    <3>2. link.copied - amount >= Ratio * after
      BY <1>1, <1>2, <1>4, <3>1, ShareLeaves, RatioNat DEF amount
    <3>3. ASSUME NEW v \in Ahead(s)'
          PROVE  link.copied - amount >= Ratio * v
      <4>1. v \in Nat /\ v <= after /\ Ratio * v <= Ratio * after
        BY <1>2, RatioNat
      <4>2. Ratio * v \in Nat /\ Ratio * after \in Nat
        BY <1>2, <4>1, RatioNat
      <4> QED BY <1>1, <1>4, <3>2, <4>1, <4>2
    <3> QED BY <1>3, <2>3, <2>5, <3>3
  <2> QED BY <2>4, <2>5
<1>8. Parted'
  <2>1. part'[s].amount + part'[s].rest = link.copied
    BY <1>1, <1>3, <1>4
  <2> QED BY <1>1, <1>3, <2>1 DEF Parted
<1>9. AllRecorded'
  BY <1>1, <1>3, <1>6 DEF AllRecorded, Recorded
<1>10. Untouched'
  BY <1>1, <1>3 DEF Untouched
<1> QED BY <1>5, <1>7, <1>8, <1>9, <1>10

\* The lot is written, by a run of an OPEN.
LEMMA LotStep ==
  ASSUME CInv, TypeOK', ShareInv, Views, Multiple, NEW s \in Streams,
         pc[s] \in {"reserve", "again", "write", "rewrite"},
         pc'[s] \notin {"trim", "trimmed", "changeless"},
         \A z \in Streams \ {s} : pc'[z] = pc[z],
         link'.copied = Lot, link'.ticket = 0 => link.ticket = 0,
         UNCHANGED <<executed, volume>>,
         pc[s] # "rewrite" => link.ticket = 0
  PROVE  ShareInv'
<1> USE Names DEF ShareInv, CInv
<1>1. \A z \in Streams : pc'[z] \notin {"trim", "trimmed", "changeless"}
  BY OthersIdle
<1>2. \A o \in executed : volume[o] \in {0, Lot} /\ (link.ticket = 0 => volume[o] = Lot)
  BY DEF Untouched
<1>3. Enough'
  <2>1. ASSUME NEW z \in Streams, NEW v \in Ahead(z)'
        PROVE  Lot >= Ratio * v
    BY LotCovers, CoversStay, Numbers, <2>1
  <2> QED BY <1>1, <2>1 DEF Enough, Covers
<1>4. Parted'
  BY <1>1 DEF Parted
<1>5. AllRecorded'
  BY <1>2, Numbers DEF AllRecorded, Recorded
<1>6. Untouched'
  BY <1>2 DEF Untouched
<1> QED BY <1>3, <1>4, <1>5, <1>6, DescendsStep

\* Only a stream that follows the source has seen its volume.
Watching == \A s \in Streams : knows[s] # 0 => stream[s] = "following"

LEMMA WatchingStep == ASSUME TypeOK, Watching, [Next]_vars PROVE Watching'
<1>1. CASE UNCHANGED <<stream, knows>>
  BY <1>1 DEF Watching
<1>2. ASSUME NEW s \in Streams, OpenStream(s) \/ SeeOpen(s) \/ SeeShrunk(s) \/ SeeGone(s) \/ LoseStream(s)
      PROVE  Watching'
  BY <1>2 DEF OpenStream, SeeOpen, SeeShrunk, SeeGone, LoseStream, Watching, TypeOK
<1>3. ASSUME NEW p \in Processes, Crash(p)
      PROVE  Watching'
  BY <1>3 DEF Crash, Watching
<1>4. CASE SourceMoves \/ SourceShrinks \/ BrokerActs \/ Age \/ UNCHANGED vars
  BY <1>1, <1>4 DEF SourceMoves, SourceShrinks, BrokerActs, Age, vars, watch
<1>5. ASSUME NEW s \in Streams, CopyOpen(s) \/ CopyModify(s)
      PROVE  Watching'
  BY <1>1, <1>5 DEF CopyOpen, Take, Look, Plan, Reserve, Again, Send, Answer, Write, Fail, CopyModify,
     Trim, Trimmed, Changeless, watch
<1>6. ASSUME NEW r \in Runners, CopyClose(r) \/ Recover(r)
      PROVE  Watching'
  BY <1>1, <1>6 DEF CopyClose, Claim, ClaimLost, NoClaim, Close, Closed, Reopen, Recover, ListCopies,
     Confirm, NoConfirm, watch
<1> QED BY <1>2, <1>3, <1>4, <1>5, <1>6, Names DEF Next

\* A part is closed, or the call fails.
LEMMA TrimStep ==
  ASSUME CInv, TypeOK', ShareInv, Views, NEW s \in Streams, Trim(s)
  PROVE  ShareInv'
<1> USE Names DEF ShareInv, CInv
<1>1. /\ pc[s] = "trim" /\ pc'[s] \in {"trimmed", "changeless"}
      /\ UNCHANGED <<link, executed, mine, part, rows>>
      /\ \A z \in Streams \ {s} : pc'[z] = "idle" /\ pc[z] = "idle"
  <2>1. \A z \in Streams \ {s} : pc[z] = "idle"
    BY OthersIdle DEF Trim, At
  <2> QED BY <2>1 DEF Trim, At, Goto, TypeOK
<1>2. mine[s] = link.ticket /\ link.ticket # 0 /\ part[s].amount + part[s].rest = link.copied
  BY <1>1 DEF Parted
<1>3. Enough'
  <2>1. part[s].rest \in Nat /\ link.copied \in Nat
    BY Numbers DEF TypeOK
  <2>2. ASSUME Quiet', NEW z \in Streams
        PROVE  /\ link.status # "NONE" => \A v \in Ahead(z)' : link.copied >= Ratio * v
               /\ z = s => \A v \in Ahead(z)' : part[s].rest >= Ratio * v
    <3>1. /\ link.status # "NONE" => Covers(link.copied, z)
          /\ Covers(part[s].rest, s)
      BY <1>1, <2>2 DEF Enough, Quiet
    <3> QED BY <2>1, <3>1, CoversStay
  <2> QED BY <1>1, <2>2 DEF Enough, Covers
<1>4. Parted'
  BY <1>1, <1>2 DEF Parted
<1>5. AllRecorded'
  <2>1. CASE pc'[s] = "changeless"
    BY <2>1 DEF AllRecorded, Recorded
  <2>2. CASE pc'[s] = "trimmed"
    <3> SUFFICES ASSUME Quiet', NEW o \in executed
                 PROVE  volume'[o] = 0 \/ volume'[o] >= part[s].rest
      BY <1>1, <2>2 DEF AllRecorded, Recorded
    <3>1. volume[o] \in Nat /\ part[s].rest \in Nat /\ part[s].amount \in Nat
      <4>1. volume[o] \in 0..Lot
        BY <1>1 DEF TypeOK
      <4>2. part[s] \in [amount: 0..Lot, rest: 0..Lot]
        BY DEF TypeOK
      <4> QED BY <4>1, <4>2, Numbers
    <3>3. volume[o] = 0 \/ volume[o] >= link.copied
      BY <1>1 DEF AllRecorded, Recorded, Quiet
    <3>2. volume'[o] = IF o = mine[s] THEN Less(volume[o], part[s].amount) ELSE volume[o]
      BY <2>2 DEF Trim, Shut, Goto, TypeOK
    <3> QED BY <1>2, <3>1, <3>2, <3>3 DEF Less
  <2> QED BY <1>1, <2>1, <2>2
<1>6. Untouched'
  BY <1>1, <1>2 DEF Untouched
<1> QED BY <1>3, <1>4, <1>5, <1>6, DescendsStep

\* What is left is written, or is not and the person is told.
LEMMA TrimmedStep ==
  ASSUME CInv, TypeOK', ShareInv, Views, Watching, NEW s \in Streams, Trimmed(s)
  PROVE  ShareInv'
<1> USE Names DEF ShareInv, CInv
<1>1. /\ pc[s] = "trimmed" /\ pc'[s] \in {"idle", "changeless"}
      /\ UNCHANGED <<executed, volume>>
      /\ link'.status = link.status /\ link'.ticket = link.ticket
      /\ link'.copied \in {link.copied, part[s].rest}
      /\ pc'[s] = "idle" => link'.copied = part[s].rest
      /\ rows \subseteq rows'
      /\ \A z \in Streams \ {s} : pc'[z] = "idle"
  <2>1. \A z \in Streams \ {s} : pc[z] = "idle"
    BY OthersIdle DEF Trimmed, At
  <2>2. link' = [link EXCEPT !.copied = part[s].rest, !.old = FALSE] \/ link' = link
    BY DEF Trimmed
  <2>3. /\ link'.status = link.status /\ link'.ticket = link.ticket
        /\ link'.copied \in {link.copied, part[s].rest}
        /\ link' # link => link'.copied = part[s].rest
    BY <2>2 DEF TypeOK
  <2>4. CASE link' = [link EXCEPT !.copied = part[s].rest, !.old = FALSE] /\ Levels(s)
    <3>1. link'.copied = part[s].rest
      BY <2>4 DEF TypeOK
    <3>2. /\ pc'[s] \in {"idle", "changeless"} /\ rows \subseteq rows'
          /\ \A z \in Streams \ {s} : pc'[z] = pc[z]
      BY <2>4 DEF Levels, Record, Leave, Goto, TypeOK
    <3> QED BY <2>1, <2>3, <3>1, <3>2 DEF Trimmed, At, broker
  <2>5. CASE Goto(s, "changeless")
    BY <2>1, <2>3, <2>5 DEF Trimmed, At, Goto, TypeOK, broker
  <2> QED BY <2>4, <2>5 DEF Trimmed
<1>2. /\ link.ticket # 0 /\ part[s].amount + part[s].rest = link.copied
      /\ part[s].amount \in Nat /\ part[s].rest \in Nat
  BY <1>1, Numbers DEF Parted, TypeOK
<1>3. Quiet' => Quiet
  BY <1>1 DEF Quiet
<1>4. Enough'
  <2>1. link.copied \in Nat
    BY Numbers DEF TypeOK
  <2>2. ASSUME Quiet', link.status # "NONE", NEW z \in Streams
        PROVE  \A v \in Ahead(z)' : link.copied >= Ratio * v
    BY <1>3, <2>1, <2>2, CoversStay DEF Enough
  <2>3. ASSUME Quiet', link.status # "NONE"
        PROVE  \A v \in Ahead(s)' : part[s].rest >= Ratio * v
    BY <1>1, <1>2, <1>3, <2>3, CoversStay DEF Enough
  <2>4. ASSUME Quiet', link.status # "NONE", NEW z \in Streams, z # s, link'.copied = part[s].rest
        PROVE  \A v \in Ahead(z)' : part[s].rest >= Ratio * v
    <3>1. knows[z] = 0 /\ chain[z] = <<>>
      BY <1>1, <2>4 DEF Alone, Engaged, Busy, Watching
    <3>2. knows'[z] = 0 /\ chain'[z] = <<>>
      BY <3>1 DEF Trimmed, watch
    <3>3. \A v \in Ahead(z)' : v = size' \/ v = 0
      BY <3>2 DEF Ahead
    <3>4. size' \in Ahead(s)'
      BY DEF Ahead
    <3>5. Ratio * 0 = 0
      BY RatioNat
    <3> SUFFICES ASSUME NEW v \in Ahead(z)'
                 PROVE  part[s].rest >= Ratio * v
      OBVIOUS
    <3>6. CASE v = 0
      BY <1>2, <3>5, <3>6
    <3>7. CASE v = size'
      BY <2>3, <2>4, <3>4, <3>7
    <3> QED BY <3>3, <3>6, <3>7
  <2> QED BY <1>1, <2>2, <2>3, <2>4 DEF Enough, Covers
<1>5. Parted'
  BY <1>1 DEF Parted
<1>6. AllRecorded'
  <2>1. CASE pc'[s] = "changeless"
    BY <2>1 DEF AllRecorded, Recorded
  <2>2. CASE pc'[s] = "idle"
    <3> SUFFICES ASSUME Quiet', NEW o \in executed
                 PROVE  volume[o] = 0 \/ volume[o] >= part[s].rest
      BY <1>1, <2>2 DEF AllRecorded, Recorded
    <3>1. \A z \in Streams \ {s} : pc[z] = "idle"
      BY <1>1, OthersIdle
    <3>2. volume[o] \in Nat /\ link.copied >= part[s].rest
      <4>1. volume[o] \in 0..Lot
        BY DEF TypeOK
      <4> QED BY <1>2, <4>1, Numbers
    <3>3. volume[o] = 0 \/ volume[o] >= link.copied \/ volume[o] >= part[s].rest
      BY <1>1, <1>3, <3>1 DEF AllRecorded, Recorded
    <3> QED BY <1>2, <3>2, <3>3
  <2> QED BY <1>1, <2>1, <2>2
<1>7. Untouched'
  BY <1>1, <1>2 DEF Untouched
<1> QED BY <1>4, <1>5, <1>6, <1>7, DescendsStep

\* The person is told that a MODIFY failed.
LEMMA ChangelessStep ==
  ASSUME CInv, TypeOK', ShareInv, Views, NEW s \in Streams, Changeless(s)
  PROVE  ShareInv'
<1> USE Names DEF ShareInv, CInv
<1>1. /\ \A z \in Streams : pc'[z] = "idle"
      /\ link'.ticket = link.ticket /\ UNCHANGED <<executed, volume>>
      /\ ~Quiet'
  <2>1. \A z \in Streams \ {s} : pc[z] = "idle"
    BY OthersIdle DEF Changeless, At
  <2>2. link'.ticket = link.ticket
    BY DEF Changeless, TypeOK
  <2> QED BY <2>1, <2>2 DEF Changeless, Record, Leave, Told, Quiet, TypeOK, broker
<1> QED BY <1>1, DescendsStep DEF Enough, Parted, AllRecorded, Untouched

\* An order that is executed has the whole lot.
LEMMA ExecutedStep ==
  ASSUME CInv, TypeOK', ShareInv, Views, BrokerActs
  PROVE  ShareInv'
<1> USE DEF ShareInv, CInv
<1>1. UNCHANGED <<link, pc, mine, part, rows>>
  BY DEF BrokerActs, runs
<1>2. \A o \in executed' : \/ o \in executed /\ volume'[o] = volume[o]
                           \/ volume'[o] = Lot
  <2>1. PICK x \in flying :
          \/ /\ executed' = executed \cup {x}
             /\ volume' = [y \in executed' |-> IF y = x THEN Lot ELSE volume[y]]
          \/ UNCHANGED <<executed, volume>>
    BY DEF BrokerActs
  <2> QED BY <2>1
<1>3. link.copied \in Nat /\ Lot >= link.copied
  BY Numbers DEF TypeOK
<1>4. Enough'
  <2>1. ASSUME NEW s \in Streams, Quiet'
        PROVE  /\ link.status # "NONE" => \A v \in Ahead(s)' : link.copied >= Ratio * v
               /\ pc[s] \in {"trim", "trimmed"} => \A v \in Ahead(s)' : part[s].rest >= Ratio * v
    <3>1. part[s].rest \in Nat
      BY Numbers DEF TypeOK
    <3> QED BY <1>1, <1>3, <2>1, <3>1, CoversStay DEF Enough, Quiet
  <2> QED BY <1>1, <2>1 DEF Enough, Covers
<1>5. Parted'
  BY <1>1 DEF Parted
<1>6. AllRecorded'
  BY <1>1, <1>2, <1>3 DEF AllRecorded, Recorded, Quiet
<1>7. Untouched'
  BY <1>1, <1>2 DEF Untouched
<1> QED BY <1>4, <1>5, <1>6, <1>7, DescendsStep

\* The other steps.
LEMMA ShareWatch ==
  ASSUME CInv, TypeOK', ShareInv, Views,
         \/ SourceMoves \/ SourceShrinks \/ Age \/ UNCHANGED vars
         \/ \E s \in Streams : OpenStream(s) \/ SeeOpen(s) \/ SeeShrunk(s) \/ SeeGone(s) \/ LoseStream(s)
  PROVE  ShareInv'
<1> USE DEF CInv
<1>1. UNCHANGED <<runs, broker, rows>>
  BY DEF SourceMoves, SourceShrinks, Age, OpenStream, SeeOpen, SeeShrunk, SeeGone, LoseStream, vars
<1>2. link'.copied = link.copied /\ link'.ticket = link.ticket /\ link'.status = link.status
  BY DEF SourceMoves, SourceShrinks, Age, OpenStream, SeeOpen, SeeShrunk, SeeGone, LoseStream, vars, TypeOK
<1> QED BY <1>1, <1>2, LotStays DEF runs, broker

LEMMA ShareCrash ==
  ASSUME CInv, TypeOK', ShareInv, Views, SoleWorker, ~Torn, NEW p \in Processes, Crash(p)
  PROVE  ShareInv'
<1> USE Names DEF CInv
<1>1. \A s \in Streams : ProcessOf[s] = p
  BY DEF SoleWorker
<1>2. \A s \in Streams : pc[s] \notin {"trimmed", "changeless"} /\ pc'[s] = "idle"
  BY <1>1 DEF Crash
<1>3. UNCHANGED <<link, executed, volume, rows>>
  BY DEF Crash, broker
<1> QED BY <1>2, <1>3, LotStays

LEMMA ShareClose ==
  ASSUME CInv, TypeOK', ShareInv, Views, NEW r \in Runners, CopyClose(r)
  PROVE  ShareInv'
<1> USE Names DEF CInv
<1>1. /\ link'.copied = link.copied /\ link'.ticket = link.ticket
      /\ link'.status # "NONE" => link.status # "NONE"
  <2>1. link.status \in {"CLOSING", "OPEN", "CLOSED"} \/ UNCHANGED link
    BY DEF CopyClose, Claim, ClaimLost, NoClaim, Close, Closed, Reopen, Claimable, LInv, Closing, Ticket, At
  <2>2. CASE \E status, code : Update(status, link.ticket, code)
    <3>1. link'.copied = link.copied /\ link'.ticket = link.ticket
      BY <2>2 DEF Update, TypeOK
    <3> QED BY <2>1, <3>1
  <2>3. UNCHANGED link \/ \E status, code : Update(status, link.ticket, code)
    BY DEF CopyClose, Claim, ClaimLost, NoClaim, Close, Closed, Reopen
  <2> QED BY <2>2, <2>3
<1>2. executed' = executed /\ rows \subseteq rows'
  BY DEF CopyClose, Claim, ClaimLost, NoClaim, Close, Closed, Reopen, Goto, Record, Silent, broker
<1>3. \A o \in executed : volume'[o] = volume[o] \/ (volume'[o] = 0 /\ link.ticket # 0)
  <2>1. CASE Close(r)
    <3>1. link.ticket # 0
      BY <2>1 DEF Close, At, LInv, Closing
    <3> QED BY <2>1, <3>1 DEF Close, Shut, TypeOK
  <2> QED BY <2>1 DEF CopyClose, Claim, ClaimLost, NoClaim, Closed, Reopen, broker
<1>4. \A s \in Streams : \/ pc'[s] = pc[s] /\ mine'[s] = mine[s] /\ part'[s] = part[s]
                         \/ /\ pc'[s] \notin {"trim", "trimmed", "rewrite"}
                            /\ pc[s] \notin {"trimmed", "changeless"}
  <2>1. \A s \in Streams \ {r} : pc'[s] = pc[s] /\ mine'[s] = mine[s] /\ part'[s] = part[s]
    <3>1. CASE Leave(r)
      BY <3>1 DEF Leave, TypeOK
    <3>2. CASE Claim(r)
      BY <3>2 DEF Claim, TypeOK
    <3>3. CASE \E to \in Places : Goto(r, to)
      BY <3>3 DEF Goto, TypeOK
    <3> QED BY <3>1, <3>2, <3>3 DEF CopyClose, ClaimLost, NoClaim, Close, Closed, Reopen, Record, Silent, Places
  <2>2. pc'[r] \notin {"trim", "trimmed", "rewrite"} /\ pc[r] \notin {"trimmed", "changeless"}
    BY DEF CopyClose, Claim, ClaimLost, NoClaim, Close, Closed, Reopen, At, Goto, Record, Silent, Leave, TypeOK
  <2> QED BY <2>1, <2>2
<1> QED BY <1>1, <1>2, <1>3, <1>4, LotStays

LEMMA ShareRecover ==
  ASSUME CInv, TypeOK', ShareInv, Views, NEW p \in Processes, Recover(p)
  PROVE  ShareInv'
<1> USE Names DEF CInv
<1>1. UNCHANGED <<link, executed, volume, rows>>
  BY DEF Recover, ListCopies, Confirm, NoConfirm, Goto, Silent, broker
<1>2. \A s \in Streams : pc'[s] = pc[s] /\ mine'[s] = mine[s] /\ part'[s] = part[s]
  <2>1. p \notin Streams
    OBVIOUS
  <2>2. CASE Leave(p)
    BY <2>1, <2>2 DEF Leave, TypeOK
  <2>3. CASE \E to \in Places : Goto(p, to)
    BY <2>1, <2>3 DEF Goto, TypeOK
  <2> QED BY <2>2, <2>3 DEF Recover, ListCopies, Confirm, NoConfirm, Silent, Places
<1> QED BY <1>1, <1>2, LotStays

LEMMA ShareTake ==
  ASSUME CInv, TypeOK', ShareInv, Views, NEW s \in Streams, Take(s)
  PROVE  ShareInv'
<1> USE Names DEF CInv
<1>1. UNCHANGED <<link, executed, volume>> /\ pc[s] = "idle"
  BY DEF Take, At, broker
<1>2. ASSUME \/ \E to \in {"look", "plan", "claim"} : Goto(s, to)
             \/ Silent(s) \/ Levels(s)
      PROVE  ShareInv'
  <2>1. pc'[s] \in {"idle", "look", "plan", "claim", "changeless"} /\ rows \subseteq rows'
    BY <1>2 DEF Goto, Silent, Levels, Record, Leave, TypeOK
  <2>2. \A z \in Streams \ {s} : pc'[z] = pc[z] /\ mine'[z] = mine[z] /\ part'[z] = part[z]
    <3>1. CASE Leave(s)
      BY <3>1 DEF Leave, TypeOK
    <3>2. CASE \E to \in Places : Goto(s, to)
      BY <3>2 DEF Goto, TypeOK
    <3> QED BY <1>2, <3>1, <3>2 DEF Silent, Levels, Record, Places
  <2> QED BY <1>1, <2>1, <2>2, LotStays
<1>3. CASE Len(Head(chain[s])) = 2 /\ TakeModify(s, Head(chain[s]))
  <2>1. IsModify(Head(chain[s]))
    BY <1>3 DEF IsModify
  <2> QED BY <1>2, <1>3, <2>1, PartStep DEF TakeModify
<1> QED BY <1>2, <1>3 DEF Take

\* A run of an OPEN up to the order, and after a failure.
LEMMA ShareOpen ==
  ASSUME CInv, TypeOK', ShareInv, Views, NEW s \in Streams,
         Look(s) \/ Plan(s) \/ Send(s) \/ Answer(s) \/ Fail(s)
  PROVE  ShareInv'
<1> USE Names DEF CInv
<1>1. /\ link'.copied = link.copied /\ link'.ticket = link.ticket
      /\ link'.status # "NONE" => link.status # "NONE"
  <2>1. CASE Fail(s)
    <3>1. link.status = "PENDING"
      BY <2>1 DEF Fail, At, LInv, Stages, Stage
    <3> QED BY <2>1, <3>1 DEF Fail, Update, TypeOK
  <2> QED BY <2>1 DEF Look, Plan, Send, Answer
<1>2. UNCHANGED <<executed, volume>>
  BY DEF Look, Plan, Send, Answer, Fail, broker
<1>3. pc'[s] \notin {"trim", "trimmed", "rewrite"} /\ pc[s] \notin {"trimmed", "changeless"} /\ rows \subseteq rows'
  <2>1. pc[s] \notin {"trimmed", "changeless"}
    BY DEF Look, Plan, Send, Answer, Fail, At
  <2>2. CASE Leave(s) /\ rows \subseteq rows'
    BY <2>1, <2>2 DEF Leave, TypeOK
  <2>3. CASE \E to \in {"plan", "reserve", "again", "refused", "unclear"} : Goto(s, to)
    BY <2>1, <2>3 DEF Goto, TypeOK
  <2>4. CASE Send(s) \/ Answer(s)
    BY <2>1, <2>4 DEF Send, Answer, Goto, TypeOK
  <2> QED BY <2>2, <2>3, <2>4 DEF Look, Plan, Fail, Record, Silent
<1>4. ASSUME NEW z \in Streams \ {s}
      PROVE  pc'[z] = pc[z] /\ mine'[z] = mine[z] /\ part'[z] = part[z]
  <2>1. CASE Leave(s)
    BY <2>1 DEF Leave, TypeOK
  <2>2. CASE \E to \in Places : Goto(s, to)
    BY <2>2 DEF Goto, TypeOK
  <2>3. CASE Send(s) \/ Answer(s)
    BY <2>3 DEF Send, Answer, Goto, TypeOK
  <2> QED BY <2>1, <2>2, <2>3 DEF Look, Plan, Fail, Record, Silent, Places
<1> QED BY <1>1, <1>2, <1>3, <1>4, LotStays

\* A run that writes the lot of the copy, or fails to.
LEMMA ShareWrite ==
  ASSUME CInv, TypeOK', ShareInv, Views, Multiple, NEW s \in Streams,
         Reserve(s) \/ Again(s) \/ Write(s)
  PROVE  ShareInv'
<1> USE Names DEF CInv
<1>1. /\ UNCHANGED <<executed, volume>>
      /\ pc[s] \in {"reserve", "again", "write", "rewrite"}
      /\ pc'[s] \in {"idle", "order", "rewrite"}
      /\ rows \subseteq rows'
  BY DEF Reserve, Again, Write, At, Goto, Record, Leave, TypeOK, broker
<1>2. ASSUME NEW z \in Streams \ {s}
      PROVE  pc'[z] = pc[z] /\ mine'[z] = mine[z] /\ part'[z] = part[z]
  <2>1. CASE Leave(s)
    BY <2>1 DEF Leave, TypeOK
  <2>2. CASE \E to \in Places : Goto(s, to)
    BY <2>2 DEF Goto, TypeOK
  <2> QED BY <2>1, <2>2 DEF Reserve, Again, Write, Record, Places
<1>3. pc[s] # "rewrite" => link.ticket = 0
  <2>1. pc[s] # "rewrite" => link.status \in {"NONE", "PENDING", "FAILED"}
    BY <1>1 DEF LInv, Stages, Stage, MayTryAgain
  <2> QED BY <2>1, NoTicketYet
<1>4. pc[s] = "rewrite" => mine[s] = link.ticket
  BY DEF LInv, Stages, Stage
<1>5. CASE UpdateLot("PENDING", 0) \/ UpdateLot("PENDING", link.ticket) \/ UpdateLot("OPEN", mine[s])
  <2>1. link'.copied = Lot
    BY <1>5 DEF UpdateLot
  <2>2. link'.ticket = 0 => link.ticket = 0
    BY <1>1, <1>3, <1>4, <1>5 DEF UpdateLot, Reserve, Again, Write, At
  <2> QED BY <1>1, <1>2, <1>3, <2>1, <2>2, LotStep
<1>6. CASE UNCHANGED link /\ pc'[s] = "idle"
  BY <1>1, <1>2, <1>6, LotStays
<1>7. \/ UpdateLot("PENDING", 0) \/ UpdateLot("PENDING", link.ticket) \/ UpdateLot("OPEN", mine[s])
      \/ UNCHANGED link /\ pc'[s] = "idle"
  BY DEF Reserve, Again, Write, Record, Leave, TypeOK
<1> QED BY <1>5, <1>6, <1>7

LEMMA ShareStep ==
  ASSUME CInv, TypeOK', ShareInv, Watching, SoleWorker, ~Torn, Multiple, [Next]_vars
  PROVE  ShareInv'
<1>1. Views
  BY ViewStep DEF CInv
<1> QED BY <1>1, ShareWatch, ShareCrash, ShareClose, ShareRecover, ShareTake, ShareOpen, ShareWrite,
        TrimStep, TrimmedStep, ChangelessStep, ExecutedStep DEF Next, CopyOpen, CopyModify

LEMMA ShareInit == ASSUME Init PROVE ShareInv /\ Watching
<1>1. \A s \in Streams : chain[s] = <<>> /\ knows[s] = 0 /\ pc[s] = "idle"
  BY Names DEF Init
<1>2. link.status = "NONE" /\ executed = {}
  BY DEF Init
<1>3. Descends /\ Watching
  BY <1>1 DEF Descends, Watching
<1>4. Enough /\ Parted /\ AllRecorded /\ Untouched
  BY <1>1, <1>2 DEF Enough, Parted, AllRecorded, Untouched
<1> QED BY <1>3, <1>4 DEF ShareInv

\* The second part of NeverClosedEarly: a MODIFY that runs while none has failed
\* leaves the copy as large a share as the source has left.
LeavesShare ==
  \A s \in Streams : \A o \in executed :
    (At(s, "trim") /\ pc'[s] # "trim" /\ Quiet /\ volume'[o] # volume[o]) => volume'[o] * Size >= size * Lot

LEMMA ShareOfTrim ==
  ASSUME CInv, ShareInv, Multiple, [Next]_vars
  PROVE  LeavesShare
<1> USE Names DEF CInv, ShareInv
<1> SUFFICES ASSUME NEW s \in Streams, NEW o \in executed, pc[s] = "trim", pc'[s] # "trim", Quiet,
                    volume'[o] # volume[o]
             PROVE  volume'[o] * Size >= size * Lot
  BY DEF LeavesShare, At
<1>1. \A z \in Streams \ {s} : pc[z] = "idle"
  BY OthersIdle
<1>2. /\ mine[s] = link.ticket /\ link.ticket # 0 /\ part[s].amount + part[s].rest = link.copied
      /\ volume[o] = 0 \/ volume[o] >= link.copied
      /\ part[s].rest >= Ratio * size
  <2>1. part[s].rest >= Ratio * size
    BY DEF Enough, Covers, Ahead
  <2> QED BY <1>1, <2>1 DEF Parted, AllRecorded, Recorded
<1>3. volume[o] \in Nat /\ part[s].rest \in Nat /\ part[s].amount \in Nat /\ size \in Nat
  <2>1. volume[o] \in 0..Lot /\ part[s] \in [amount: 0..Lot, rest: 0..Lot] /\ size \in 1..Size
    BY DEF TypeOK
  <2> QED BY <2>1, Numbers
<1>4. Trim(s)
  <2>1. ~\E p \in Processes : Crash(p)
    BY DEF Crash, broker
  <2>2. ~(SourceMoves \/ SourceShrinks \/ BrokerActs \/ Age \/ UNCHANGED vars)
    BY DEF SourceMoves, SourceShrinks, BrokerActs, Age, vars, runs
  <2>3. ASSUME NEW z \in Streams,
               \/ OpenStream(z) \/ SeeOpen(z) \/ SeeShrunk(z) \/ SeeGone(z) \/ LoseStream(z)
               \/ CopyOpen(z) \/ Trimmed(z) \/ Changeless(z)
        PROVE  FALSE
    BY <2>3 DEF OpenStream, SeeOpen, SeeShrunk, SeeGone, LoseStream, CopyOpen, Take, Look, Plan, Reserve,
       Again, Send, Answer, Write, Fail, Trimmed, Changeless, broker
  <2>4. ASSUME NEW p \in Processes, Recover(p)
        PROVE  FALSE
    BY <2>4 DEF Recover, ListCopies, Confirm, NoConfirm, broker
  <2>5. ASSUME NEW r \in Runners, CopyClose(r)
        PROVE  FALSE
    <3>1. Close(r)
      BY <2>5 DEF CopyClose, Claim, ClaimLost, NoClaim, Closed, Reopen, broker
    <3>2. r # s
      BY <3>1 DEF Close, At
    <3> QED BY <3>1, <3>2 DEF Close, Goto, TypeOK
  <2>6. ASSUME NEW z \in Streams, Trim(z)
        PROVE  z = s
    BY <1>1, <2>6 DEF Trim, At
  <2> QED BY <2>1, <2>2, <2>3, <2>4, <2>5, <2>6 DEF Next, CopyModify
<1>5. volume'[o] = Less(volume[o], part[s].amount)
  BY <1>4 DEF Trim, Shut, TypeOK
<1>6. volume'[o] >= part[s].rest /\ volume'[o] \in Nat
  BY <1>2, <1>3, <1>5 DEF Less
<1>7. volume'[o] * Size >= Ratio * size * Size
  BY <1>2, <1>3, <1>6, RatioNat, Numbers
<1>8. Ratio * size * Size = size * Lot
  BY <1>3, RatioNat, Numbers DEF Multiple
<1> QED BY <1>7, <1>8

\* A recovery closes a copy only when its source is closed; and where the lot is
\* a multiple of the source's volume, and no worker dies between a partial close
\* and its record, a MODIFY never leaves less of the copy than the source has left.
THEOREM CopyNotClosedEarly ==
  ASSUME SoleWorker, Drained, ~Broken, ~Torn, Multiple
  PROVE  Spec => NeverClosedEarly
<1> DEFINE Inv == CInv /\ RInv /\ Watching /\ ShareInv
<1>1. Init => Inv
  BY CopyInit, ShareInit, TypeInit, Names DEF Init, RInv, Confirmed, Unborn
<1>2. Inv /\ [Next]_vars => Inv'
  <2> SUFFICES ASSUME Inv, [Next]_vars
               PROVE  Inv'
    OBVIOUS
  <2>1. CInv' /\ TypeOK'
    BY CopyStep, TypeStep DEF CInv
  <2>2. RInv'
    BY TypeStep, UnbornStep, ConfirmedStep DEF RInv
  <2>3. Watching' /\ ShareInv'
    BY <2>1, WatchingStep, ShareStep DEF CInv
  <2> QED BY <2>1, <2>2, <2>3
<1>3. Inv /\ [Next]_vars =>
        [/\ \A p \in Processes : (At(p, "closing") /\ pc'[p] \in {"closed", "reopen"}) => source = "gone"
         /\ \A s \in Streams : \A o \in executed :
              (At(s, "trim") /\ pc'[s] # "trim" /\ <<"MODIFY", "FAILED">> \notin rows /\ volume'[o] # volume[o])
                => volume'[o] * Size >= size * Lot]_vars
  BY ShareOfTrim DEF RInv, Confirmed, At, LeavesShare, Quiet
<1> QED BY <1>1, <1>2, <1>3, PTL DEF Spec, NeverClosedEarly
=============================================================================
