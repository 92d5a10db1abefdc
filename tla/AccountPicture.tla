--------------------------- MODULE AccountPicture ---------------------------
(***************************************************************************)
(* What the gateway worker knows of one account somebody is looking at     *)
(* (src/lib/gateway/gatewayWorker.ts, tradeExecutor.ts): the picture that  *)
(* is read again and again and stored for the panel, and the modifications *)
(* of a position, which set one of its levels and send the other one along *)
(* - as the recent picture has it when no order has ended since, else as   *)
(* the broker has it.                                                      *)
(*                                                                         *)
(* The clock is left out: that a picture was read "before the last order   *)
(* ended" is a comparison of the orders ended when each began, a picture   *)
(* may be too old at any moment, and a read may be due at any moment.      *)
(***************************************************************************)
EXTENDS Naturals

CONSTANTS
  Commands,    \* the MODIFY commands of the account
  Level,       \* Level[c]: the level command c sets
  Wants,       \* Wants[c]: the value it sets it to, 0 removes it
  LateOrders   \* an order that timed out at the worker may act afterwards

Levels == {"stopLoss", "takeProfit"}
Values == 0..1

ASSUME PictureAssumption ==
  /\ Level \in [Commands -> Levels]
  /\ Wants \in [Commands -> Values]
  /\ LateOrders \in BOOLEAN

Position == [Levels -> Values]
NoPicture == [of |-> "nothing"]

VARIABLES
  levels,   \* the levels the position has at the broker
  asked,    \* history: what the last modification of each level asked for
  step,     \* how far each command is
  sends,    \* the levels each command sends
  ended,    \* how many orders have ended: orderDoneAt
  picture,  \* pictures: the last read of this worker
  watched,  \* the account is in watchedList
  read,     \* the refresh: how far it is, the orders ended when it began, what it saw
  again,    \* refreshAgain
  shown     \* the picture stored for the panel

commands == <<step, sends>>
pictureVars == <<levels, asked, step, sends, ended, picture, watched, read, again, shown>>

Flat == [l \in Levels |-> 0]

InitPicture ==
  /\ levels = Flat
  /\ asked = Flat
  /\ step = [c \in Commands |-> "queued"]
  /\ sends = [c \in Commands |-> Flat]
  /\ ended = 0
  /\ picture = NoPicture
  /\ watched \in BOOLEAN
  /\ read = [at |-> "none", since |-> 0, saw |-> Flat]
  /\ again = FALSE
  /\ shown = Flat

\* stateBusy: a refresh is queued or running.
Refreshing == read.at # "none"

-----------------------------------------------------------------------------
(* The picture.                                                            *)

\* startRefresh: the read begins when stateChains comes to it.
StartRefresh == read' = [read EXCEPT !.at = "queued"]

\* refreshStatesOnce: the account is due.
Tick ==
  /\ watched /\ ~Refreshing
  /\ StartRefresh
  /\ UNCHANGED <<levels, asked, commands, ended, picture, watched, again, shown>>

\* The list of watched accounts is read, or could not be and is empty.
ReadWatchList ==
  /\ watched' = ~watched
  /\ UNCHANGED <<levels, asked, commands, ended, picture, read, again, shown>>

BeginRead ==
  /\ read.at = "queued"
  /\ read' = [read EXCEPT !.at = "asking", !.since = ended]
  /\ UNCHANGED <<levels, asked, commands, ended, picture, watched, again, shown>>

\* The broker answers the read with what it has now.
BrokerShows ==
  /\ read.at = "asking"
  /\ read' = [read EXCEPT !.at = "answered", !.saw = levels]
  /\ UNCHANGED <<levels, asked, commands, ended, picture, watched, again, shown>>

KeepPicture ==
  /\ read.at = "answered"
  /\ picture' = [of |-> "account", since |-> read.since, saw |-> read.saw]
  /\ read' = [read EXCEPT !.at = "saving"]
  /\ UNCHANGED <<levels, asked, commands, ended, watched, again, shown>>

\* finally: an order that ended during this read wants another one.
Release ==
  /\ read' = [read EXCEPT !.at = IF again /\ watched THEN "queued" ELSE "none"]
  /\ again' = FALSE

Save ==
  /\ read.at = "saving"
  /\ shown' = read.saw
  /\ Release
  /\ UNCHANGED <<levels, asked, commands, ended, picture, watched>>

\* Mutant of RefreshFails: a save that failed leaves the account busy.
RefreshFailsBusy ==
  /\ read.at \in {"asking", "saving"}
  /\ IF read.at = "asking" THEN Release ELSE read' = [read EXCEPT !.at = "stuck"] /\ UNCHANGED again
  /\ UNCHANGED <<levels, asked, commands, ended, picture, watched, shown>>

\* The read or the store of its picture fails: only the error is stored.
RefreshFails ==
  /\ read.at \in {"asking", "saving"}
  /\ Release
  /\ UNCHANGED <<levels, asked, commands, ended, picture, watched, shown>>

-----------------------------------------------------------------------------
(* The modifications: one at a time, commandChains.                        *)

Free == \A c \in Commands : step[c] \notin {"reading", "sent", "acted"}

\* Mutant of Recent: any picture will do.
AnyPicture == picture # NoPicture

\* recentPicture: the read began after the last order ended.
Recent == /\ picture # NoPicture
          /\ picture.since >= ended

\* refreshSoon
RefreshSoon ==
  /\ IF watched /\ ~Refreshing
     THEN StartRefresh /\ UNCHANGED again
     ELSE again' = (again \/ watched) /\ UNCHANGED read

\* orderFinished: whatever came of it, the order may have changed something.
OrderFinished ==
  /\ ended' = ended + 1
  /\ picture' = NoPicture
  /\ RefreshSoon

To(c, next) == step' = [step EXCEPT ![c] = next]

\* resolveModifyLevels: the other level stays what it is in the levels read.
Resolve(c, given) == [given EXCEPT ![Level[c]] = Wants[c]]

\* The levels are known: send them, unless they change nothing (NO_CHANGE).
Go(c, given) ==
  \/ /\ Resolve(c, given) # given
     /\ To(c, "sent")
     /\ sends' = [sends EXCEPT ![c] = Resolve(c, given)]
     /\ UNCHANGED <<asked, ended, picture, read, again>>
  \/ /\ Resolve(c, given) = given
     /\ To(c, "ended")
     /\ asked' = [asked EXCEPT ![Level[c]] = Wants[c]]
     /\ OrderFinished
     /\ UNCHANGED sends

\* runCommand takes the levels from the picture, or has to read them.
Take(c) ==
  /\ step[c] = "queued" /\ Free
  /\ \/ /\ Recent
        /\ Go(c, picture.saw)
     \/ /\ To(c, "reading")
        /\ UNCHANGED <<asked, sends, ended, picture, read, again>>
  /\ UNCHANGED <<levels, watched, shown>>

ReadLevels(c) ==
  /\ step[c] = "reading"
  /\ Go(c, levels)
  /\ UNCHANGED <<levels, watched, shown>>

\* The broker carries the modification out: both levels are set.
BrokerActs(c) ==
  /\ step[c] = "sent" \/ (LateOrders /\ step[c] = "timedOut")
  /\ To(c, IF step[c] = "sent" THEN "acted" ELSE "ended")
  /\ levels' = sends[c]
  /\ asked' = [asked EXCEPT ![Level[c]] = Wants[c]]
  /\ UNCHANGED <<sends, ended, picture, watched, read, again, shown>>

\* The command ends: answered, refused, without an answer, or its read failed.
End(c) ==
  /\ step[c] \in {"reading", "sent", "acted"}
  /\ \/ To(c, "ended")
     \/ step[c] = "sent" /\ To(c, "timedOut")
  /\ OrderFinished
  /\ UNCHANGED <<levels, asked, sends, watched, shown>>

NextPicture ==
  \/ Tick \/ ReadWatchList \/ BeginRead \/ BrokerShows \/ KeepPicture \/ Save \/ RefreshFails
  \/ \E c \in Commands : Take(c) \/ ReadLevels(c) \/ BrokerActs(c) \/ End(c)

PictureSpec == InitPicture /\ [][NextPicture]_pictureVars

\* The loop of the worker ticks, reads are answered or time out, and not every
\* read fails; the account stays in the list of those that are watched.
PictureFairness ==
  /\ WF_pictureVars(Tick) /\ WF_pictureVars(BeginRead) /\ WF_pictureVars(BrokerShows \/ RefreshFails)
  /\ WF_pictureVars(KeepPicture) /\ SF_pictureVars(BrokerShows) /\ SF_pictureVars(Save)

FairPictureSpec == PictureSpec /\ PictureFairness

-----------------------------------------------------------------------------
\* Every variable has its type.
PictureTypeOK ==
  /\ levels \in Position /\ asked \in Position /\ shown \in Position
  /\ step \in [Commands -> {"queued", "reading", "sent", "acted", "timedOut", "ended"}]
  /\ sends \in [Commands -> Position]
  /\ ended \in Nat
  /\ picture \in {NoPicture} \cup [of : {"account"}, since : Nat, saw : Position]
  /\ read \in [at : {"none", "queued", "asking", "answered", "saving"}, since : Nat, saw : Position]
  /\ {watched, again} \subseteq BOOLEAN

\* "A modify reads the levels from the picture when that picture is certain to
\* be current": a modification changes the level it was asked to change and no
\* other, so no command undoes what another one set - although its levels may
\* come from a read that other orders overtook.
LevelsKept == levels = asked

\* The panel of an account that stays watched ends up showing the levels the
\* broker has, whatever reads, saves and orders failed or overlapped.
PanelCatchesUp == <>[]watched => <>[](shown = levels)
=============================================================================
