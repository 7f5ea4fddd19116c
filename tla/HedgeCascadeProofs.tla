------------------------- MODULE HedgeCascadeProofs -------------------------
(***************************************************************************)
(* Theorems about HedgeCascade, for any number of attempts, of published   *)
(* events, of crashes and of faults.                                       *)
(***************************************************************************)
EXTENDS HedgeCascade, SequenceTheorems, TLAPS

\* A cascade goes to its next attempt only while there is one, and the closing
\* cascade holds a ticket from the moment it has read one.
Typed ==
  /\ TypeOK
  /\ openPc = "reset" => openAttempt < MaxAttempts
  /\ closePc = "reset" => closeAttempt < MaxAttempts
  /\ closePc \in {"initiate", "push", "link", "poll", "reset"} => closeTicket \in Tickets

LEMMA HeadOfCommands ==
  ASSUME TypeOK, xCmds # <<>>
  PROVE  Head(xCmds) \in Commands /\ Tail(xCmds) \in Seq(Commands)
BY DEF TypeOK

LEMMA HeadOfResponses ==
  ASSUME TypeOK, xResps # <<>>
  PROVE  Head(xResps) \in Responses /\ Tail(xResps) \in Seq(Responses)
BY DEF TypeOK

LEMMA HeadOfEvents ==
  ASSUME TypeOK, xEvents # <<>>
  PROVE  Head(xEvents) \in Events /\ Tail(xEvents) \in Seq(Events)
BY DEF TypeOK

LEMMA RespondTyped ==
  ASSUME TypeOK, NEW action, NEW outcome, NEW ticket,
         [action |-> action, attempt |-> Head(xCmds).attempt,
          status |-> outcome, ticket |-> ticket] \in Responses,
         Respond(action, outcome, ticket)
  PROVE  xResps' \in Seq(Responses) /\ crashes' \in Nat /\ faults' \in Nat
<1>1. CASE faultVars' = faultVars /\ xResps' = Append(xResps,
             [action |-> action, attempt |-> Head(xCmds).attempt,
              status |-> outcome, ticket |-> ticket])
  BY <1>1 DEF TypeOK, faultVars
<1>2. CASE faults' = faults + 1 /\ xResps' = xResps /\ crashes' = crashes
  BY <1>2 DEF TypeOK
<1> QED
  BY <1>1, <1>2 DEF Respond

LEMMA SuffixTyped ==
  ASSUME NEW S, NEW seq \in Seq(S), NEW suffix \in Suffixes(seq)
  PROVE  suffix \in Seq(S)
<1>1. PICK n \in 1 .. Len(seq) + 1 : suffix = SubSeq(seq, n, Len(seq))
  BY DEF Suffixes
<1>2. \A i \in n .. Len(seq) : seq[i] \in S
  OBVIOUS
<1> QED
  BY <1>1, <1>2, SubSeqProperties

LEMMA OpenTaskTyped ==
  ASSUME Typed, OpenTask PROVE Typed'
<1> USE HedgeAssumption DEF Typed, TypeOK, Attempts, Tickets, NoTicket, OpenUnchanged,
        ftmoVars, closeVars, loopVars, exnessVars, faultVars, Cas
<1>1. CASE OpenMark
  BY <1>1 DEF OpenMark, OpenPcs, SStatus
<1>2. CASE OpenPush
  BY <1>2 DEF OpenPush, OpenPcs, Commands
<1>3. CASE OpenLink
  BY <1>3 DEF OpenLink, OpenPcs, Requests
<1>4. CASE OpenSeesFilled
  BY <1>4 DEF OpenSeesFilled, OpenPcs
<1>5. CASE OpenSeesRejected
  BY <1>5 DEF OpenSeesRejected, OpenNext, OpenPcs
<1>6. CASE OpenTimesOut
  BY <1>6 DEF OpenTimesOut, OpenNext, OpenPcs
<1>7. CASE OpenReset
  BY <1>7 DEF OpenReset, OpenPcs, SStatus
<1>8. CASE OpenFinalize
  BY <1>8 DEF OpenFinalize, OpenPcs, SStatus, Status
<1> QED
  BY OpenTask, <1>1, <1>2, <1>3, <1>4, <1>5, <1>6, <1>7, <1>8 DEF OpenTask
LEMMA CloseTaskTyped ==
  ASSUME Typed, CloseTask PROVE Typed'
<1> USE HedgeAssumption DEF Typed, TypeOK, Attempts, Tickets, NoTicket, CloseUnchanged,
        openVars, loopVars, exnessVars, faultVars, CloseGoto, ClosePcs
<1>1. CASE CloseTakeEvent
  BY <1>1 DEF CloseTakeEvent
<1>2. CASE CloseStamp
  BY <1>2 DEF CloseStamp, PStatus
<1>3. CASE CloseLock
  BY <1>3 DEF CloseLock
<1>4. CASE CloseRead
  BY <1>4 DEF CloseRead, CloseBranch
<1>5. CASE CloseInitiate
  BY <1>5 DEF CloseInitiate, Status, PStatus, SStatus
<1>6. CASE CloseOrphan
  BY <1>6 DEF CloseOrphan, Status
<1>7. CASE ClosePush
  BY <1>7 DEF ClosePush, Commands
<1>8. CASE CloseLink
  BY <1>8 DEF CloseLink, Requests
<1>9. CASE CloseSeesClosed
  BY <1>9 DEF CloseSeesClosed
<1>10. CASE CloseSeesRejected
  BY <1>10 DEF CloseSeesRejected, CloseNext
<1>11. CASE CloseTimesOut
  BY <1>11 DEF CloseTimesOut, CloseNext
<1>12. CASE CloseReset
  BY <1>12 DEF CloseReset, SStatus
<1>13. CASE CloseFinish
  BY <1>13 DEF CloseFinish, Status
<1>14. CASE CloseFail
  BY <1>14 DEF CloseFail, Status
<1>15. CASE CloseRelease
  <2>1. lock' \in BOOLEAN /\ closePc' = "idle" /\ closeAttempt' = 1 /\ closeTicket' = 0
    BY <1>15 DEF CloseRelease
  <2>2. UNCHANGED <<rowVars, indexVars, ftmoVars, openVars, loopVars, streamVars,
                    exnessVars, gaveUp, faultVars>>
    BY <1>15 DEF CloseRelease, rowVars, indexVars, ftmoVars, streamVars
  <2> QED
    BY <2>1, <2>2 DEF rowVars, indexVars, ftmoVars, streamVars
<1>16. CASE CancelMark
  BY <1>16 DEF CancelMark, Status, PStatus
<1>17. CASE CancelSeesLateFill
  BY <1>17 DEF CancelSeesLateFill
<1>18. CASE CancelRelock
  BY <1>18 DEF CancelRelock
<1>19. CASE CancelSeesNoFill
  BY <1>19 DEF CancelSeesNoFill
<1>20. CASE CancelPrimaryOnly
  BY <1>20 DEF CancelPrimaryOnly, Status, SStatus
<1> QED
  BY CloseTask, <1>1, <1>2, <1>3, <1>4, <1>5, <1>6, <1>7, <1>8, <1>9, <1>10, <1>11, <1>12, <1>13, <1>14, <1>15, <1>16, <1>17, <1>18, <1>19, <1>20 DEF CloseTask

LEMMA FtmoLoopTyped ==
  ASSUME Typed, FtmoResponseLoop PROVE Typed'
<1> USE HedgeAssumption DEF Typed, TypeOK, Attempts, Tickets, NoTicket, FtmoStep,
        LoopsUnchanged, closeVars, exnessVars, faultVars, loopVars
<1>1. CASE FtmoFilled
  BY <1>1 DEF FtmoFilled, Status, PStatus
<1>2. CASE FtmoLink
  BY <1>2 DEF FtmoLink
<1>3. CASE FtmoSpawn
  BY <1>3 DEF FtmoSpawn, OpenPcs
<1>4. CASE FtmoRejected
  BY <1>4 DEF FtmoRejected, Status, PStatus
<1>5. CASE FtmoAccepted
  BY <1>5 DEF FtmoAccepted, Status, PStatus
<1> QED
  BY FtmoResponseLoop, <1>1, <1>2, <1>3, <1>4, <1>5 DEF FtmoResponseLoop

LEMMA BookTyped ==
  ASSUME Typed, BookTask PROVE Typed'
<1> USE HedgeAssumption DEF Typed, TypeOK, Attempts, Tickets, NoTicket, BookUnchanged,
        TakeBookEvent, openVars, loopVars, streamVars, exnessVars, faultVars, ClosePcs
<1>1. CASE BookEventDropped
  BY <1>1 DEF BookEventDropped
<1>2. CASE PendingFilled
  BY <1>2 DEF PendingFilled, Status, PStatus
<1>3. CASE UnlinkOrderId
  BY <1>3 DEF UnlinkOrderId
<1>4. CASE LinkPositionId
  BY <1>4 DEF LinkPositionId
<1>5. CASE OrderCancelled
  BY <1>5 DEF OrderCancelled, Status, PStatus
<1>6. CASE ForgetOrderId
  BY <1>6 DEF ForgetOrderId
<1> QED
  BY BookTask, <1>1, <1>2, <1>3, <1>4, <1>5, <1>6 DEF BookTask

LEMMA ResponseLoopTyped ==
  ASSUME Typed, ExnessResponseLoop PROVE Typed'
<1> USE HedgeAssumption DEF Typed, TypeOK, Attempts, Tickets, NoTicket, ExnessUnchanged,
        TakeResponse, Responses, Status, SStatus, LoopsUnchanged, closeVars, exnessVars, faultVars, loopVars
<1>1. CASE ResponseDropped
  BY <1>1 DEF ResponseDropped
<1>2. CASE LinkTicket
  BY <1>2 DEF LinkTicket
<1>3. CASE OpenResponseFilled
  BY <1>3 DEF OpenResponseFilled, Cas
<1>4. CASE OpenResponseRejected
  BY <1>4 DEF OpenResponseRejected
<1>5. CASE CloseResponseClosed
  BY <1>5 DEF CloseResponseClosed
<1>6. CASE CloseResponseRejected
  BY <1>6 DEF CloseResponseRejected
<1> QED
  BY ExnessResponseLoop, <1>1, <1>2, <1>3, <1>4, <1>5, <1>6 DEF ExnessResponseLoop

LEMMA EventLoopTyped ==
  ASSUME Typed, ExnessEventLoop PROVE Typed'
<1> USE HedgeAssumption DEF Typed, TypeOK, Attempts, Tickets, NoTicket, EventUnchanged,
        ExnessUnchanged, TakeEvent, Events, Status, SStatus, LoopsUnchanged, closeVars, exnessVars, faultVars, loopVars
<1>1. CASE EventDropped
  BY <1>1 DEF EventDropped
<1>2. CASE EventExternal
  BY <1>2 DEF EventExternal
<1>3. CASE EventStamp
  BY <1>3 DEF EventStamp
<1>4. CASE EventServerInitiated
  BY <1>4 DEF EventServerInitiated
<1>5. CASE EventComplete
  BY <1>5 DEF EventComplete
<1>6. CASE EventUnlock
  <2>1. lock' \in BOOLEAN /\ eventPc' \in {"idle", "stamp", "complete", "unlock"}
    BY <1>6 DEF EventUnlock
  <2>2. UNCHANGED <<rowVars, indexVars, ftmoVars, openVars, closeVars, respLink,
                    streamVars, exnessVars, gaveUp, faultVars>>
    BY <1>6 DEF EventUnlock, rowVars, indexVars, ftmoVars, openVars, streamVars
  <2> QED
    BY <2>1, <2>2 DEF rowVars, indexVars, ftmoVars, openVars, streamVars
<1> QED
  BY ExnessEventLoop, <1>1, <1>2, <1>3, <1>4, <1>5, <1>6 DEF ExnessEventLoop

LEMMA ExnessTyped ==
  ASSUME Typed, ExnessClient \/ ExnessFaults PROVE Typed'
<1> USE HedgeAssumption DEF Typed, TypeOK, Attempts, Tickets, NoTicket, rowVars, indexVars, ftmoVars, openVars, closeVars, loopVars,
        streamVars, exnessVars, faultVars,
        TakeCommand
<1>1. CASE OpenFills
  <2>1. /\ Head(xCmds) \in Commands
        /\ xCmds' \in Seq(Commands)
    BY <1>1, HeadOfCommands DEF OpenFills
  <2>2. Head(xCmds).attempt \in Attempts
    BY <1>1, <2>1 DEF OpenFills, Commands
  <2>3. [action |-> "open", attempt |-> Head(xCmds).attempt,
         status |-> "filled", ticket |-> issued + 1] \in Responses
    BY <2>2 DEF Responses
  <2>4. Respond("open", "filled", issued + 1)
    BY <1>1 DEF OpenFills
  <2>5. xResps' \in Seq(Responses) /\ crashes' \in Nat /\ faults' \in Nat
    BY <2>3, <2>4, RespondTyped
  <2>6. issued' \in Nat /\ positions' \subseteq Tickets /\ seen' \subseteq Tickets
        /\ ledger' \subseteq Tickets /\ blind' \subseteq Tickets /\ misread' \subseteq Tickets
    BY <1>1, <2>2 DEF OpenFills
  <2>7. UNCHANGED <<rowVars, indexVars, lock, ftmoVars, openVars, closeVars, loopVars,
                    xEvents, gaveUp>>
    BY <1>1 DEF OpenFills
  <2> QED
    BY <2>1, <2>5, <2>6, <2>7
<1>2. CASE OpenRejected
  <2>1. /\ Head(xCmds) \in Commands
        /\ xCmds' \in Seq(Commands)
    BY <1>2, HeadOfCommands DEF OpenRejected
  <2>2. Head(xCmds).attempt \in Attempts
    BY <1>2, <2>1 DEF OpenRejected, Commands
  <2>3. [action |-> "open", attempt |-> Head(xCmds).attempt,
         status |-> "rejected", ticket |-> NoTicket] \in Responses
    BY <2>2 DEF Responses
  <2>4. Respond("open", "rejected", NoTicket)
    BY <1>2 DEF OpenRejected
  <2>5. xResps' \in Seq(Responses) /\ crashes' \in Nat /\ faults' \in Nat
    BY <2>3, <2>4, RespondTyped
  <2>6. issued' \in Nat /\ positions' \subseteq Tickets /\ seen' \subseteq Tickets
        /\ ledger' \subseteq Tickets /\ blind' \subseteq Tickets /\ misread' \subseteq Tickets
    BY <1>2, <2>2 DEF OpenRejected
  <2>7. UNCHANGED <<rowVars, indexVars, lock, ftmoVars, openVars, closeVars, loopVars,
                    xEvents, gaveUp>>
    BY <1>2 DEF OpenRejected
  <2> QED
    BY <2>1, <2>5, <2>6, <2>7
<1>3. CASE CloseFills
  <2>1. /\ Head(xCmds) \in Commands
        /\ xCmds' \in Seq(Commands)
    BY <1>3, HeadOfCommands DEF CloseFills
  <2>2. Head(xCmds).attempt \in Attempts /\ Head(xCmds).ticket \in Tickets
    BY <1>3, <2>1 DEF CloseFills, Commands
  <2>3. [action |-> "close", attempt |-> Head(xCmds).attempt,
         status |-> "closed", ticket |-> NoTicket] \in Responses
    BY <2>2 DEF Responses
  <2>4. Respond("close", "closed", NoTicket)
    BY <1>3 DEF CloseFills
  <2>5. xResps' \in Seq(Responses) /\ crashes' \in Nat /\ faults' \in Nat
    BY <2>3, <2>4, RespondTyped
  <2>6. issued' \in Nat /\ positions' \subseteq Tickets /\ seen' \subseteq Tickets
        /\ ledger' \subseteq Tickets /\ blind' \subseteq Tickets /\ misread' \subseteq Tickets
    BY <1>3, <2>2 DEF CloseFills, Mark
  <2>7. UNCHANGED <<rowVars, indexVars, lock, ftmoVars, openVars, closeVars, loopVars,
                    xEvents, gaveUp>>
    BY <1>3 DEF CloseFills
  <2> QED
    BY <2>1, <2>5, <2>6, <2>7
<1>4. CASE CloseRejected
  <2>1. /\ Head(xCmds) \in Commands
        /\ xCmds' \in Seq(Commands)
    BY <1>4, HeadOfCommands DEF CloseRejected
  <2>2. Head(xCmds).attempt \in Attempts /\ Head(xCmds).ticket \in Tickets
    BY <1>4, <2>1 DEF CloseRejected, Commands
  <2>3. [action |-> "close", attempt |-> Head(xCmds).attempt,
         status |-> "rejected", ticket |-> NoTicket] \in Responses
    BY <2>2 DEF Responses
  <2>4. Respond("close", "rejected", NoTicket)
    BY <1>4 DEF CloseRejected
  <2>5. xResps' \in Seq(Responses) /\ crashes' \in Nat /\ faults' \in Nat
    BY <2>3, <2>4, RespondTyped
  <2>6. issued' \in Nat /\ positions' \subseteq Tickets /\ seen' \subseteq Tickets
        /\ ledger' \subseteq Tickets /\ blind' \subseteq Tickets /\ misread' \subseteq Tickets
    BY <1>4, <2>2 DEF CloseRejected, Mark
  <2>7. UNCHANGED <<rowVars, indexVars, lock, ftmoVars, openVars, closeVars, loopVars,
                    xEvents, gaveUp>>
    BY <1>4 DEF CloseRejected
  <2> QED
    BY <2>1, <2>5, <2>6, <2>7
<1>5. CASE NoticeNew
  BY <1>5 DEF NoticeNew
<1>6. CASE \E ticket \in seen : ReportClosed(ticket)
  BY <1>6 DEF ReportClosed, EmitClosed, BuildClosed, MoveSnapshot, ClosedEvent, Events
<1>7. CASE LoseCommand
  BY <1>7 DEF LoseCommand
<1>8. CASE \E ticket \in positions : ExternalClose(ticket)
  BY <1>8 DEF ExternalClose
<1>9. CASE \E ticket \in seen : ReportClosedAgain(ticket)
  BY <1>9 DEF ReportClosedAgain, EmitClosed, BuildClosed, ClosedEvent, Events
<1>10. CASE \E ticket \in seen : ReportClosedLost(ticket)
  BY <1>10 DEF ReportClosedLost, BuildClosed, MoveSnapshot
<1>11. CASE PollBlind
  BY <1>11 DEF PollBlind
<1> QED
  BY ExnessClient \/ ExnessFaults, <1>1, <1>2, <1>3, <1>4, <1>5, <1>6, <1>7, <1>8, <1>9, <1>10,
     <1>11
  DEF ExnessClient, ExnessFaults

LEMMA OthersTyped ==
  ASSUME Typed, Ftmo \/ Crash \/ LockExpires PROVE Typed'
<1> USE HedgeAssumption DEF Typed, TypeOK, Attempts, Tickets, NoTicket, rowVars, indexVars, ftmoVars, openVars, closeVars, loopVars,
        streamVars, exnessVars, faultVars,
        FtmoUnchanged
<1>1. CASE PrimaryFills
  BY <1>1 DEF PrimaryFills, Primary
<1>2. CASE PrimaryRejected
  BY <1>2 DEF PrimaryRejected
<1>3. CASE PrimaryCloses
  BY <1>3 DEF PrimaryCloses, Primary
<1>4. CASE PublishClosed
  BY <1>4 DEF PublishClosed
<1>5. CASE Crash
  <2>1. xResps' \in Seq(Responses) /\ xEvents' \in Seq(Events)
    BY <1>5, SuffixTyped DEF Crash
  <2>2. /\ ftmoResp' \in {"none", "success", "written", "linked", "error", "done"}
        /\ openPc' \in {"idle", "done"} /\ openAttempt' = openAttempt
        /\ closePc' = "idle" /\ closeAttempt' \in Attempts /\ closeTicket' \in Nat
        /\ bookEvent' \in {"none", "filled", "cancelled"}
        /\ closeEvents' \in Nat /\ crashes' \in Nat
        /\ respLink' = NoTicket /\ eventPc' = "idle"
    BY <1>5 DEF Crash
  <2>3. UNCHANGED <<rowVars, indexVars, lock, primary, published, xCmds, exnessVars,
                    gaveUp, faults>>
    BY <1>5 DEF Crash
  <2> QED
    BY <2>1, <2>2, <2>3 DEF OpenPcs, ClosePcs
<1>6. CASE LockExpires
  <2>1. lock' \in BOOLEAN
    BY <1>6 DEF LockExpires
  <2>2. UNCHANGED <<rowVars, indexVars, ftmoVars, openVars, closeVars, loopVars,
                    streamVars, exnessVars, gaveUp, faultVars>>
    BY <1>6 DEF LockExpires
  <2> QED
    BY <2>1, <2>2
<1>7. CASE PrimaryAccepted
  BY <1>7 DEF PrimaryAccepted, Primary
<1>8. CASE PrimaryTrips \/ PrimaryCancelled
  <2>1. /\ primary' \in Primary /\ bookEvent' \in {"none", "filled", "cancelled"}
        /\ crashes' \in Nat /\ faults' \in Nat
    BY <1>8 DEF PrimaryTrips, PrimaryCancelled, LeavesBook, Primary
  <2>2. /\ FtmoUnchanged
        /\ UNCHANGED <<ftmoResp, closeEvents, published>>
    BY <1>8 DEF PrimaryTrips, PrimaryCancelled, LeavesBook
  <2> QED
    BY <2>1, <2>2
<1> QED
  BY Ftmo \/ Crash \/ LockExpires, <1>1, <1>2, <1>3, <1>4, <1>5, <1>6, <1>7, <1>8 DEF Ftmo

LEMMA InitTyped ==
  ASSUME Init PROVE Typed
<1>1. lock \in BOOLEAN /\ gaveUp \in BOOLEAN
  BY DEF Init
<1>2. xCmds \in Seq(Commands) /\ xResps \in Seq(Responses) /\ xEvents \in Seq(Events)
  BY DEF Init
<1> QED
  BY HedgeAssumption, <1>1, <1>2 DEF Init, Typed, TypeOK, OrderType, Primary, Status, PStatus, SStatus,
     OpenPcs, ClosePcs, Attempts, Tickets, NoTicket

LEMMA NextTyped ==
  ASSUME Typed, [Next]_vars PROVE Typed'
<1>1. CASE Next
  BY <1>1, OpenTaskTyped, CloseTaskTyped, BookTyped, FtmoLoopTyped, ResponseLoopTyped, EventLoopTyped,
     ExnessTyped, OthersTyped DEF Next, Server
<1>2. CASE UNCHANGED vars
  BY <1>2 DEF vars, rowVars, indexVars, ftmoVars, openVars, closeVars, loopVars, streamVars,
     exnessVars, faultVars, Typed, TypeOK
<1> QED
  BY <1>1, <1>2

\* Every variable of the model keeps its type: no attempt number runs past the
\* retry budget, and no close is pushed without a ticket.
THEOREM TypeCorrect == Spec => []TypeOK
<1>1. Init => Typed
  BY InitTyped
<1>2. Typed /\ [Next]_vars => Typed'
  BY NextTyped
<1>3. Typed => TypeOK
  BY DEF Typed
<1> QED
  BY <1>1, <1>2, <1>3, PTL DEF Spec

-----------------------------------------------------------------------------
(* The order of things: primary leg first.                                 *)

OpenCommands   == {command \in Commands : command.action = "open"}
ExternalEvents == {event \in Events : event.reason = "external"}

\* While the primary leg lives nothing that belongs to the closing cascade is
\* anywhere: not in the row, not in a task, not in a stream, not in the ledger.
PrimaryFirst ==
  primary # "gone" =>
    /\ status \in {"pending", "rejected", "primary_filled", "filled", "secondary_failed",
                  "cancelled"}
    /\ p_status # "closed"
    /\ closeEvents = 0 /\ closePc \in {"idle", "unlink", "relink", "forget"}
    /\ xCmds \in Seq(OpenCommands)
    /\ xEvents \in Seq(ExternalEvents)
    /\ ledger = {}
    /\ eventPc \in {"idle", "stamp"}

LEMMA PrimaryFirstStreams ==
  ASSUME PrimaryFirst, primary # "gone"
  PROVE  /\ xCmds # <<>> => Head(xCmds).action = "open" /\ Tail(xCmds) \in Seq(OpenCommands)
         /\ xEvents # <<>> => /\ Head(xEvents).reason = "external"
                              /\ Tail(xEvents) \in Seq(ExternalEvents)
<1>1. xCmds # <<>> => Head(xCmds) \in OpenCommands /\ Tail(xCmds) \in Seq(OpenCommands)
  BY DEF PrimaryFirst
<1>2. xEvents # <<>> => Head(xEvents) \in ExternalEvents /\ Tail(xEvents) \in Seq(ExternalEvents)
  BY DEF PrimaryFirst
<1> QED
  BY <1>1, <1>2 DEF OpenCommands, ExternalEvents

LEMMA EmitClosedExternal ==
  ASSUME Typed, PrimaryFirst, NEW ticket \in seen, EmitClosed(ticket)
  PROVE  PrimaryFirst'
<1> USE DEF BuildClosed
<1>1. UNCHANGED <<status, p_status, primary, closeEvents, closePc, xCmds, eventPc>>
  BY DEF EmitClosed, rowVars, ftmoVars, closeVars, loopVars
<1>2. ASSUME primary # "gone"
      PROVE  xEvents' \in Seq(ExternalEvents) /\ ledger' = {}
  <2>1. ClosedEvent(ticket) \in ExternalEvents
    BY <1>2 DEF PrimaryFirst, Typed, TypeOK, ClosedEvent, ExternalEvents, Events
  <2> QED
    BY <1>2, <2>1 DEF PrimaryFirst, EmitClosed
<1> QED
  BY <1>1, <1>2 DEF PrimaryFirst

LEMMA PrimaryFirstStep ==
  ASSUME Typed, PrimaryFirst, [Next]_vars PROVE PrimaryFirst'
<1> USE DEF PrimaryFirst, rowVars, indexVars, ftmoVars, openVars, closeVars, loopVars, streamVars,
        exnessVars, faultVars
<1>1. CASE OpenTask
  <2>1. CASE OpenPush
    <3>1. [action |-> "open", attempt |-> openAttempt, ticket |-> NoTicket] \in OpenCommands
      BY DEF Typed, TypeOK, OpenCommands, Commands
    <3> QED
      BY <2>1, <3>1 DEF OpenPush, OpenUnchanged
  <2>2. CASE OpenFinalize
    BY <2>2 DEF OpenFinalize, OpenUnchanged
  <2>3. CASE OpenTask /\ ~ OpenPush /\ ~ OpenFinalize
    BY <2>3 DEF OpenTask, OpenMark, OpenLink, OpenSeesFilled, OpenSeesRejected,
       OpenTimesOut, OpenReset, OpenNext, OpenUnchanged
  <2> QED
    BY <1>1, <2>1, <2>2, <2>3
<1>2. CASE CloseTask
  BY <1>2 DEF CloseTask, CloseTakeEvent, CloseStamp, CloseLock, CloseRead, CloseInitiate,
     CloseOrphan, ClosePush, CloseLink, CloseSeesClosed, CloseSeesRejected,
     CloseTimesOut, CloseReset, CloseFinish, CloseFail, CloseRelease, CancelMark,
     CancelSeesLateFill, CancelRelock, CancelSeesNoFill, CancelPrimaryOnly,
     CloseUnchanged
<1>3. CASE FtmoResponseLoop
  BY <1>3 DEF FtmoResponseLoop, FtmoFilled, FtmoAccepted, FtmoLink, FtmoSpawn,
     FtmoRejected, FtmoStep,
     LoopsUnchanged
<1>4. CASE ExnessResponseLoop
  BY <1>4 DEF ExnessResponseLoop, ResponseDropped, LinkTicket, OpenResponseFilled,
     OpenResponseRejected, CloseResponseClosed, CloseResponseRejected, TakeResponse,
     ExnessUnchanged, LoopsUnchanged
<1>5. CASE ExnessEventLoop
  BY <1>5, PrimaryFirstStreams DEF ExnessEventLoop, EventDropped, EventExternal, EventStamp,
     EventServerInitiated, EventComplete, EventUnlock, TakeEvent, EventUnchanged,
     ExnessUnchanged, LoopsUnchanged
<1>6. CASE Ftmo
  BY <1>6 DEF Ftmo, PrimaryFills, PrimaryAccepted, PrimaryRejected, PrimaryTrips, PrimaryCancelled,
     LeavesBook, PrimaryCloses, PublishClosed, FtmoUnchanged
<1>7. CASE ExnessClient
  <2>1. CASE OpenFills \/ OpenRejected
    BY <2>1, PrimaryFirstStreams DEF OpenFills, OpenRejected, TakeCommand
  <2>2. CASE CloseFills \/ CloseRejected
    BY <2>2, PrimaryFirstStreams DEF CloseFills, CloseRejected, TakeCommand
  <2>3. CASE NoticeNew
    BY <2>3 DEF NoticeNew
  <2>4. CASE \E ticket \in seen : ReportClosed(ticket)
    BY <2>4, EmitClosedExternal DEF ReportClosed
  <2> QED
    BY <1>7, <2>1, <2>2, <2>3, <2>4 DEF ExnessClient
<1>8. CASE ExnessFaults
  <2>1. CASE LoseCommand
    BY <2>1, PrimaryFirstStreams DEF LoseCommand
  <2>2. CASE \E ticket \in positions : ExternalClose(ticket)
    BY <2>2 DEF ExternalClose
  <2>3. CASE \E ticket \in seen : ReportClosedAgain(ticket)
    BY <2>3, EmitClosedExternal DEF ReportClosedAgain
  <2>4. CASE \E ticket \in seen : ReportClosedLost(ticket)
    BY <2>4 DEF ReportClosedLost, BuildClosed
  <2>5. CASE PollBlind
    BY <2>5 DEF PollBlind
  <2> QED
    BY <1>8, <2>1, <2>2, <2>3, <2>4, <2>5 DEF ExnessFaults
<1>9. CASE Crash
  BY <1>9, SuffixTyped DEF Crash
<1>10. CASE LockExpires
  BY <1>10 DEF LockExpires
<1>11. CASE BookTask
  BY <1>11 DEF BookTask, BookEventDropped, PendingFilled, UnlinkOrderId, LinkPositionId,
     OrderCancelled, ForgetOrderId, TakeBookEvent, BookUnchanged
<1>12. CASE UNCHANGED vars
  BY <1>12 DEF vars
<1> QED
  BY <1>1, <1>2, <1>3, <1>4, <1>5, <1>6, <1>7, <1>8, <1>9, <1>10, <1>11, <1>12 DEF Next, Server

\* Until the answer to the primary order is processed the server has done
\* nothing for the order.
Untouched ==
  ftmoResp \in {"none", "success", "error"} =>
    /\ status = "pending" /\ s_ticket = NoTicket
    /\ reqIndex = {} /\ pIndex = "none" /\ sIndex = {} /\ respLink = NoTicket
    /\ openPc = "idle" /\ closePc = "idle" /\ eventPc = "idle"

LEMMA UntouchedStep ==
  ASSUME Typed, Untouched, [Next]_vars PROVE Untouched'
<1> USE DEF Untouched, NoTicket, rowVars, indexVars, ftmoVars, openVars, closeVars, loopVars, streamVars,
        exnessVars, faultVars
<1>1. CASE OpenTask
  BY <1>1 DEF OpenTask, OpenMark, OpenPush, OpenLink, OpenSeesFilled, OpenSeesRejected,
     OpenTimesOut, OpenReset, OpenFinalize, OpenNext, OpenUnchanged
<1>2. CASE CloseTask
  BY <1>2 DEF CloseTask, CloseTakeEvent, CloseStamp, CloseLock, CloseRead, CloseInitiate,
     CloseOrphan, ClosePush, CloseLink, CloseSeesClosed, CloseSeesRejected,
     CloseTimesOut, CloseReset, CloseFinish, CloseFail, CloseRelease, CancelMark,
     CancelSeesLateFill, CancelRelock, CancelSeesNoFill, CancelPrimaryOnly,
     CloseUnchanged, CloseGoto, CloseNext
<1>3. CASE FtmoResponseLoop
  BY <1>3 DEF FtmoResponseLoop, FtmoFilled, FtmoAccepted, FtmoLink, FtmoSpawn,
     FtmoRejected, FtmoStep,
     LoopsUnchanged
<1>4. CASE ExnessResponseLoop
  BY <1>4 DEF ExnessResponseLoop, ResponseDropped, LinkTicket, OpenResponseFilled,
     OpenResponseRejected, CloseResponseClosed, CloseResponseRejected, TakeResponse,
     KnownRequest, ExnessUnchanged, LoopsUnchanged
<1>5. CASE ExnessEventLoop
  BY <1>5 DEF ExnessEventLoop, EventDropped, EventExternal, EventStamp, EventServerInitiated,
     EventComplete, EventUnlock, TakeEvent, EventUnchanged, ExnessUnchanged,
     LoopsUnchanged
<1>6. CASE Ftmo
  BY <1>6 DEF Ftmo, PrimaryFills, PrimaryAccepted, PrimaryRejected, PrimaryTrips, PrimaryCancelled,
     LeavesBook, PrimaryCloses, PublishClosed, FtmoUnchanged
<1>7. CASE ExnessClient
  BY <1>7 DEF ExnessClient, OpenFills, OpenRejected, CloseFills, CloseRejected, NoticeNew,
     ReportClosed, EmitClosed, BuildClosed, MoveSnapshot
<1>8. CASE ExnessFaults
  BY <1>8 DEF ExnessFaults, LoseCommand, PollBlind, ExternalClose, ReportClosedLost,
     ReportClosedAgain, EmitClosed, BuildClosed, MoveSnapshot
<1>9. CASE Crash
  BY <1>9 DEF Crash
<1>10. CASE LockExpires
  BY <1>10 DEF LockExpires
<1>11. CASE BookTask
  BY <1>11 DEF BookTask, BookEventDropped, PendingFilled, UnlinkOrderId, LinkPositionId,
     OrderCancelled, ForgetOrderId, TakeBookEvent, BookUnchanged
<1>12. CASE UNCHANGED vars
  BY <1>12 DEF vars
<1> QED
  BY <1>1, <1>2, <1>3, <1>4, <1>5, <1>6, <1>7, <1>8, <1>9, <1>10, <1>11, <1>12 DEF Next, Server

\* What tells a limit or stop order from a market order: only the first waits in
\* the book, and only the second is followed by the opening cascade.
ByOrderType ==
  /\ order_type = "market" =>
       /\ primary \notin {"working", "cancelled"}
       /\ bookEvent = "none" /\ pIndex # "order"
       /\ closePc \notin {"unlink", "relink", "forget"}
  /\ order_type = "limit" => openPc = "idle" /\ ftmoResp # "linked"

LEMMA ByOrderTypeStep ==
  ASSUME Typed, ByOrderType, [Next]_vars PROVE ByOrderType'
<1> USE DEF ByOrderType, rowVars, indexVars, ftmoVars, openVars, closeVars, loopVars, streamVars,
        exnessVars, faultVars
<1>1. CASE OpenTask
  BY <1>1 DEF OpenTask, OpenMark, OpenPush, OpenLink, OpenSeesFilled, OpenSeesRejected,
     OpenTimesOut, OpenReset, OpenFinalize, OpenNext, OpenUnchanged
<1>2. CASE CloseTask
  BY <1>2 DEF CloseTask, CloseTakeEvent, CloseStamp, CloseLock, CloseRead, CloseInitiate,
     CloseOrphan, ClosePush, CloseLink, CloseSeesClosed, CloseSeesRejected,
     CloseTimesOut, CloseReset, CloseFinish, CloseFail, CloseRelease, CancelMark,
     CancelSeesLateFill, CancelRelock, CancelSeesNoFill, CancelPrimaryOnly,
     CloseUnchanged, CloseGoto, CloseNext, CloseBranch
<1>3. CASE FtmoResponseLoop
  BY <1>3 DEF FtmoResponseLoop, FtmoFilled, FtmoAccepted, FtmoLink, FtmoSpawn,
     FtmoRejected, FtmoStep, LoopsUnchanged, Typed, TypeOK, OrderType
<1>4. CASE ExnessResponseLoop
  BY <1>4 DEF ExnessResponseLoop, ResponseDropped, LinkTicket, OpenResponseFilled,
     OpenResponseRejected, CloseResponseClosed, CloseResponseRejected, TakeResponse,
     ExnessUnchanged, LoopsUnchanged
<1>5. CASE ExnessEventLoop
  BY <1>5 DEF ExnessEventLoop, EventDropped, EventExternal, EventStamp, EventServerInitiated,
     EventComplete, EventUnlock, TakeEvent, EventUnchanged, ExnessUnchanged,
     LoopsUnchanged
<1>6. CASE Ftmo
  BY <1>6 DEF Ftmo, PrimaryFills, PrimaryAccepted, PrimaryRejected, PrimaryTrips, PrimaryCancelled,
     LeavesBook, PrimaryCloses, PublishClosed, FtmoUnchanged
<1>7. CASE ExnessClient \/ ExnessFaults
  BY <1>7 DEF ExnessClient, OpenFills, OpenRejected, CloseFills, CloseRejected, NoticeNew,
     ReportClosed, ReportClosedLost, ReportClosedAgain, EmitClosed, BuildClosed, MoveSnapshot,
     ExnessFaults, LoseCommand, PollBlind, ExternalClose
<1>8. CASE Crash
  BY <1>8 DEF Crash
<1>9. CASE LockExpires
  BY <1>9 DEF LockExpires
<1>10. CASE BookTask
  BY <1>10 DEF BookTask, BookEventDropped, PendingFilled, UnlinkOrderId, LinkPositionId,
     OrderCancelled, ForgetOrderId, TakeBookEvent, BookUnchanged
<1>11. CASE UNCHANGED vars
  BY <1>11 DEF vars
<1> QED
  BY <1>1, <1>2, <1>3, <1>4, <1>5, <1>6, <1>7, <1>8, <1>9, <1>10, <1>11 DEF Next, Server

-----------------------------------------------------------------------------
(* The tracked leg.                                                        *)

KnownResponses(last) == {resp \in Responses : resp.ticket <= last}
TrackedCommands(leg) ==
  {command \in Commands : command.action = "close" => command.ticket = leg}

\* The ticket is written with the one step from primary_filled to filled, names
\* a position that was opened, and is what the closing cascade works with.
TrackedLeg ==
  /\ s_ticket <= issued
  /\ status \in {"pending", "primary_filled"} => s_ticket = NoTicket
  /\ status = "filled" /\ order_type = "market" => s_ticket # NoTicket
  /\ xResps \in Seq(KnownResponses(issued))
  /\ closePc \in {"initiate", "push", "link", "poll", "reset"} => closeTicket = s_ticket
  /\ xCmds \in Seq(TrackedCommands(s_ticket))

LEMMA TrackedLegStreams ==
  ASSUME TrackedLeg
  PROVE  /\ xCmds # <<>> => Tail(xCmds) \in Seq(TrackedCommands(s_ticket))
         /\ xResps # <<>> => /\ Head(xResps) \in KnownResponses(issued)
                             /\ Tail(xResps) \in Seq(KnownResponses(issued))
BY DEF TrackedLeg

\* A response to the command at the head of the stream keeps the responses known.
LEMMA RespondKnown ==
  ASSUME Typed, TrackedLeg, NEW action, NEW outcome, NEW ticket,
         [action |-> action, attempt |-> Head(xCmds).attempt,
          status |-> outcome, ticket |-> ticket] \in KnownResponses(issued'),
         issued' \in Nat, issued <= issued', Respond(action, outcome, ticket)
  PROVE  xResps' \in Seq(KnownResponses(issued'))
<1>1. xResps \in Seq(KnownResponses(issued'))
  <2>1. \A resp \in Responses : resp.ticket \in Nat
    BY DEF Responses, Tickets, NoTicket
  <2>2. KnownResponses(issued) \subseteq KnownResponses(issued')
    BY <2>1 DEF KnownResponses, Typed, TypeOK
  <2> QED
    BY <2>2 DEF TrackedLeg
<1> QED
  BY <1>1 DEF Respond

LEMMA TrackedLegStep ==
  ASSUME Typed, Untouched, ByOrderType, TrackedLeg, [Next]_vars PROVE TrackedLeg'
<1> USE DEF TrackedLeg, rowVars, indexVars, ftmoVars, openVars, closeVars, loopVars, streamVars,
        exnessVars, faultVars
<1>1. CASE OpenTask
  <2>1. CASE OpenPush
    <3>1. [action |-> "open", attempt |-> openAttempt, ticket |-> NoTicket]
            \in TrackedCommands(s_ticket)
      BY DEF Typed, TypeOK, TrackedCommands, Commands
    <3> QED
      BY <2>1, <3>1 DEF OpenPush, OpenUnchanged
  <2>2. CASE OpenFinalize
    BY <2>2 DEF OpenFinalize, OpenUnchanged
  <2>3. CASE OpenTask /\ ~ OpenPush /\ ~ OpenFinalize
    BY <2>3 DEF OpenTask, OpenMark, OpenLink, OpenSeesFilled, OpenSeesRejected,
       OpenTimesOut, OpenReset, OpenNext, OpenUnchanged
  <2> QED
    BY <1>1, <2>1, <2>2, <2>3
<1>2. CASE CloseTask
  <2>1. CASE ClosePush
    <3>1. [action |-> "close", attempt |-> closeAttempt, ticket |-> closeTicket]
            \in TrackedCommands(s_ticket)
      BY <2>1 DEF ClosePush, Typed, TypeOK, TrackedCommands, Commands
    <3> QED
      BY <2>1, <3>1 DEF ClosePush, CloseUnchanged, CloseGoto
  <2>2. CASE CloseRead
    BY <2>2 DEF CloseRead, CloseUnchanged, CloseGoto
  <2>3. CASE CloseTask /\ ~ ClosePush /\ ~ CloseRead
    BY <2>3 DEF CloseTask, CloseTakeEvent, CloseStamp, CloseLock, CloseInitiate, CloseOrphan,
       CloseLink, CloseSeesClosed, CloseSeesRejected, CloseTimesOut, CloseReset,
       CloseFinish, CloseFail, CloseRelease, CancelMark, CancelSeesLateFill, CancelRelock,
       CancelSeesNoFill, CancelPrimaryOnly, CloseUnchanged, CloseGoto, CloseNext
  <2> QED
    BY <1>2, <2>1, <2>2, <2>3
<1>3. CASE FtmoResponseLoop
  <2>1. CASE FtmoFilled
    BY <2>1 DEF FtmoFilled, FtmoStep, LoopsUnchanged, Untouched
  <2>3. CASE FtmoAccepted
    BY <2>3 DEF FtmoAccepted, FtmoStep, LoopsUnchanged, Untouched
  <2>2. CASE FtmoLink \/ FtmoSpawn \/ FtmoRejected
    BY <2>2 DEF FtmoLink, FtmoSpawn, FtmoRejected, FtmoStep, LoopsUnchanged
  <2> QED
    BY <1>3, <2>1, <2>2, <2>3 DEF FtmoResponseLoop
<1>4. CASE ExnessResponseLoop
  <2>1. CASE OpenResponseFilled /\ Cas("primary_filled")
    <3> DEFINE ticket == Head(xResps).ticket
    <3>1. ticket \in Tickets /\ ticket <= issued
      BY <2>1, TrackedLegStreams DEF OpenResponseFilled, TakeResponse, KnownResponses, Responses
    <3>2. s_ticket = NoTicket
      BY <2>1 DEF Cas
    <3>3. xCmds \in Seq(TrackedCommands(ticket))
      <4>1. TrackedCommands(NoTicket) \subseteq TrackedCommands(ticket)
        BY DEF TrackedCommands, Commands, Tickets
      <4> QED
        BY <3>2, <4>1
    <3>4. closePc \notin {"initiate", "push", "link", "poll", "reset"}
      BY <3>2 DEF Typed, Tickets
    <3> QED
      BY <2>1, <3>1, <3>3, <3>4, TrackedLegStreams
      DEF OpenResponseFilled, TakeResponse, ExnessUnchanged, LoopsUnchanged, Tickets
  <2>2. CASE OpenResponseFilled /\ ~ Cas("primary_filled")
    BY <2>2, TrackedLegStreams DEF OpenResponseFilled, TakeResponse, ExnessUnchanged, LoopsUnchanged
  <2>3. CASE ExnessResponseLoop /\ ~ OpenResponseFilled
    BY <2>3, TrackedLegStreams DEF ExnessResponseLoop, ResponseDropped, LinkTicket,
       OpenResponseRejected, CloseResponseClosed, CloseResponseRejected, TakeResponse,
       ExnessUnchanged, LoopsUnchanged
  <2> QED
    BY <1>4, <2>1, <2>2, <2>3
<1>5. CASE ExnessEventLoop
  BY <1>5 DEF ExnessEventLoop, EventDropped, EventExternal, EventStamp, EventServerInitiated,
     EventComplete, EventUnlock, TakeEvent, EventUnchanged, ExnessUnchanged,
     LoopsUnchanged
<1>6. CASE Ftmo
  BY <1>6 DEF Ftmo, PrimaryFills, PrimaryAccepted, PrimaryRejected, PrimaryTrips, PrimaryCancelled,
     LeavesBook, PrimaryCloses, PublishClosed, FtmoUnchanged
<1>7. CASE ExnessClient
  <2>1. CASE OpenFills
    <3>1. [action |-> "open", attempt |-> Head(xCmds).attempt,
           status |-> "filled", ticket |-> issued + 1] \in KnownResponses(issued')
      <4>1. issued' = issued + 1 /\ issued' \in Nat /\ issued + 1 \in Tickets
        BY <2>1 DEF OpenFills, Typed, TypeOK, Tickets, NoTicket
      <4>2. Head(xCmds).attempt \in Attempts
        BY <2>1, HeadOfCommands DEF OpenFills, TakeCommand, Typed, Commands
      <4> QED
        BY <4>1, <4>2 DEF KnownResponses, Responses
    <3>2. xResps' \in Seq(KnownResponses(issued'))
      <4>1. issued' \in Nat /\ issued <= issued'
        BY <2>1 DEF OpenFills, Typed, TypeOK
      <4>2. Respond("open", "filled", issued + 1)
        BY <2>1 DEF OpenFills
      <4> QED
        BY <3>1, <4>1, <4>2, RespondKnown
    <3> QED
      BY <2>1, <3>2, TrackedLegStreams DEF OpenFills, TakeCommand, Typed, TypeOK
  <2>2. CASE OpenRejected
    <3>1. [action |-> "open", attempt |-> Head(xCmds).attempt,
           status |-> "rejected", ticket |-> NoTicket] \in KnownResponses(issued')
      BY <2>2, HeadOfCommands
      DEF OpenRejected, TakeCommand, Typed, TypeOK, Commands, KnownResponses, Responses,
          Tickets, NoTicket
    <3>2. xResps' \in Seq(KnownResponses(issued'))
      BY <2>2, <3>1, RespondKnown DEF OpenRejected, Typed, TypeOK
    <3> QED
      BY <2>2, <3>2, TrackedLegStreams DEF OpenRejected, TakeCommand, Typed, TypeOK
  <2>3. CASE CloseFills
    <3>1. [action |-> "close", attempt |-> Head(xCmds).attempt,
           status |-> "closed", ticket |-> NoTicket] \in KnownResponses(issued')
      BY <2>3, HeadOfCommands
      DEF CloseFills, TakeCommand, Typed, TypeOK, Commands, KnownResponses, Responses,
          Tickets, NoTicket
    <3>2. xResps' \in Seq(KnownResponses(issued'))
      BY <2>3, <3>1, RespondKnown DEF CloseFills, Typed, TypeOK
    <3> QED
      BY <2>3, <3>2, TrackedLegStreams DEF CloseFills, TakeCommand, Typed, TypeOK
  <2>4. CASE CloseRejected
    <3>1. [action |-> "close", attempt |-> Head(xCmds).attempt,
           status |-> "rejected", ticket |-> NoTicket] \in KnownResponses(issued')
      BY <2>4, HeadOfCommands
      DEF CloseRejected, TakeCommand, Typed, TypeOK, Commands, KnownResponses, Responses,
          Tickets, NoTicket
    <3>2. xResps' \in Seq(KnownResponses(issued'))
      BY <2>4, <3>1, RespondKnown DEF CloseRejected, Typed, TypeOK
    <3> QED
      BY <2>4, <3>2, TrackedLegStreams DEF CloseRejected, TakeCommand, Typed, TypeOK
  <2>5. CASE NoticeNew
    BY <2>5 DEF NoticeNew
  <2>6. CASE \E ticket \in seen : ReportClosed(ticket)
    BY <2>6 DEF ReportClosed, EmitClosed, BuildClosed, MoveSnapshot
  <2> QED
    BY <1>7, <2>1, <2>2, <2>3, <2>4, <2>5, <2>6 DEF ExnessClient
<1>8. CASE ExnessFaults
  BY <1>8, TrackedLegStreams DEF ExnessFaults, LoseCommand, PollBlind, ExternalClose,
     ReportClosedLost, ReportClosedAgain, EmitClosed, BuildClosed, MoveSnapshot
<1>9. CASE Crash
  BY <1>9, SuffixTyped DEF Crash
<1>10. CASE LockExpires
  BY <1>10 DEF LockExpires
<1>11. CASE BookTask
  BY <1>11 DEF BookTask, BookEventDropped, PendingFilled, UnlinkOrderId, LinkPositionId,
     OrderCancelled, ForgetOrderId, TakeBookEvent, BookUnchanged, ByOrderType, Typed,
     TypeOK, OrderType
<1>12. CASE UNCHANGED vars
  BY <1>12 DEF vars
<1> QED
  BY <1>1, <1>2, <1>3, <1>4, <1>5, <1>6, <1>7, <1>8, <1>9, <1>10, <1>11, <1>12 DEF Next, Server

-----------------------------------------------------------------------------
(* The inductive invariant and what follows from it.                       *)

IInv == Typed /\ PrimaryFirst /\ Untouched /\ ByOrderType /\ TrackedLeg

LEMMA InitIInv ==
  ASSUME Init PROVE IInv
<1>1. xCmds \in Seq(OpenCommands) /\ xEvents \in Seq(ExternalEvents)
  BY DEF Init
<1>2. xResps \in Seq(KnownResponses(issued)) /\ xCmds \in Seq(TrackedCommands(s_ticket))
  BY DEF Init
<1>3. Untouched
  BY DEF Init, Untouched
<1>4. PrimaryFirst
  BY <1>1 DEF Init, PrimaryFirst
<1>5. TrackedLeg
  BY <1>2 DEF Init, TrackedLeg, NoTicket
<1>6. ByOrderType
  BY DEF Init, ByOrderType
<1> QED
  BY <1>3, <1>4, <1>5, <1>6, InitTyped DEF IInv

LEMMA NextIInv ==
  ASSUME IInv, [Next]_vars PROVE IInv'
BY NextTyped, PrimaryFirstStep, UntouchedStep, ByOrderTypeStep, TrackedLegStep DEF IInv

LEMMA AlwaysIInv == Spec => []IInv
BY InitIInv, NextIInv, PTL DEF Spec

\* No order takes a closing status, and its primary leg is not recorded as
\* closed, before the position at FTMO is gone.
THEOREM ClosingAfterPrimary == Spec => []ClosingOnlyAfterPrimaryGone
<1>1. IInv => ClosingOnlyAfterPrimaryGone
  BY DEF IInv, PrimaryFirst, ClosingOnlyAfterPrimaryGone
<1> QED
  BY <1>1, AlwaysIInv, PTL

\* The server never asks Exness to close the hedge of a living primary leg.
THEOREM HedgeStaysOn == Spec => []NoHedgeCloseBeforePrimaryGone
<1>1. ASSUME IInv PROVE NoHedgeCloseBeforePrimaryGone
  <2>1. ASSUME primary # "gone", NEW i \in DOMAIN xCmds
        PROVE  xCmds[i].action = "open"
    <3>1. xCmds[i] \in OpenCommands
      BY <1>1, <2>1 DEF IInv, PrimaryFirst
    <3> QED
      BY <3>1 DEF OpenCommands
  <2> QED
    BY <2>1 DEF NoHedgeCloseBeforePrimaryGone
<1> QED
  BY <1>1, AlwaysIInv, PTL

\* A filled order whose primary leg was a market order names a position that was
\* opened, and every close command in the stream names that same position.
THEOREM TicketKnown == Spec => []TicketKnownBeforeClose
<1>1. ASSUME IInv PROVE TicketKnownBeforeClose
  <2>1. status = "filled" /\ order_type = "market" => s_ticket \in 1 .. issued
    BY <1>1 DEF IInv, TrackedLeg, Typed, TypeOK, NoTicket
  <2>2. ASSUME NEW i \in DOMAIN xCmds, xCmds[i].action = "close"
        PROVE  xCmds[i].ticket = s_ticket
    <3>1. xCmds[i] \in TrackedCommands(s_ticket)
      BY <1>1, <2>2 DEF IInv, TrackedLeg
    <3> QED
      BY <2>2, <3>1 DEF TrackedCommands
  <2> QED
    BY <2>1, <2>2 DEF TicketKnownBeforeClose
<1> QED
  BY <1>1, AlwaysIInv, PTL

\* Only the fill that finds the order waiting for it writes the ticket.
LEMMA TicketOnlyByFill ==
  ASSUME [Next]_vars, ~ (OpenResponseFilled /\ Cas("primary_filled")) PROVE s_ticket' = s_ticket
<1> USE DEF rowVars, indexVars, ftmoVars, openVars, closeVars, loopVars, streamVars,
        exnessVars, faultVars
<1>1. CASE OpenResponseFilled
  BY <1>1 DEF OpenResponseFilled
<1>2. CASE ExnessResponseLoop /\ ~ OpenResponseFilled
  BY <1>2 DEF ExnessResponseLoop, ResponseDropped, LinkTicket, OpenResponseRejected,
     CloseResponseClosed, CloseResponseRejected
<1>3. CASE OpenTask
  BY <1>3 DEF OpenTask, OpenMark, OpenPush, OpenLink, OpenSeesFilled, OpenSeesRejected,
     OpenTimesOut, OpenReset, OpenFinalize, OpenUnchanged
<1>4. CASE CloseTask
  BY <1>4 DEF CloseTask, CloseTakeEvent, CloseStamp, CloseLock, CloseRead, CloseInitiate,
     CloseOrphan, ClosePush, CloseLink, CloseSeesClosed, CloseSeesRejected, CloseTimesOut,
     CloseReset, CloseFinish, CloseFail, CloseRelease, CancelMark, CancelSeesLateFill,
     CancelRelock, CancelSeesNoFill, CancelPrimaryOnly, CloseUnchanged
<1>5. CASE FtmoResponseLoop
  BY <1>5 DEF FtmoResponseLoop, FtmoFilled, FtmoAccepted, FtmoLink, FtmoSpawn,
     FtmoRejected, FtmoStep
<1>6. CASE ExnessEventLoop
  BY <1>6 DEF ExnessEventLoop, EventDropped, EventExternal, EventStamp, EventServerInitiated,
     EventComplete, EventUnlock, TakeEvent, EventUnchanged
<1>7. CASE ExnessClient \/ ExnessFaults
  BY <1>7 DEF ExnessClient, OpenFills, OpenRejected, CloseFills, CloseRejected, NoticeNew,
     ReportClosed, ReportClosedLost, ReportClosedAgain, EmitClosed, BuildClosed, MoveSnapshot,
     ExnessFaults, LoseCommand, PollBlind, ExternalClose
<1>8. CASE Ftmo \/ Crash \/ LockExpires
  BY <1>8 DEF Ftmo, PrimaryFills, PrimaryAccepted, PrimaryRejected, PrimaryTrips, PrimaryCancelled,
     LeavesBook, PrimaryCloses, PublishClosed, FtmoUnchanged,
     Crash, LockExpires
<1>9. CASE BookTask
  BY <1>9 DEF BookTask, BookEventDropped, PendingFilled, UnlinkOrderId, LinkPositionId,
     OrderCancelled, ForgetOrderId, TakeBookEvent, BookUnchanged
<1>10. CASE UNCHANGED vars
  BY <1>10 DEF vars
<1> QED
  BY <1>1, <1>2, <1>3, <1>4, <1>5, <1>6, <1>7, <1>8, <1>9, <1>10 DEF Next, Server

LEMMA TicketStep ==
  ASSUME IInv, [Next]_vars, s_ticket # NoTicket PROVE s_ticket' = s_ticket
<1>1. ~ Cas("primary_filled")
  BY DEF IInv, TrackedLeg, Cas
<1> QED
  BY <1>1, TicketOnlyByFill

\* The compare-and-set on primary_filled is enough to keep the first recorded
\* fill: no later one replaces its ticket.
THEOREM TicketStable == Spec => TicketNeverReplaced
<1>1. IInv /\ [Next]_vars => [s_ticket # NoTicket => s_ticket' = s_ticket]_vars
  BY TicketStep
<1> QED
  BY <1>1, AlwaysIInv, PTL DEF Spec, TicketNeverReplaced
=============================================================================
