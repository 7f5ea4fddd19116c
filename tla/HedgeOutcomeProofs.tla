------------------------- MODULE HedgeOutcomeProofs -------------------------
(***************************************************************************)
(* What a hedge order comes to: how many positions its cascades open, what *)
(* a closed order leaves behind on the Exness account, that it stays       *)
(* closed, and that HedgeCascade implements HedgeLifecycle.  The invariant *)
(* of HedgeCascadeProofs is taken as known and strengthened part by part.  *)
(***************************************************************************)
EXTENDS HedgeCascadeProofs, StreamLemmas

(* What a crash leaves of a stream.                                        *)

LEMMA SuffixIndexed ==
  ASSUME NEW S, NEW seq \in Seq(S), NEW suffix \in Suffixes(seq)
  PROVE  /\ suffix \in Seq(S)
         /\ \E d \in Nat : /\ Len(suffix) = Len(seq) - d
                          /\ \A i \in DOMAIN suffix : i + d \in DOMAIN seq /\ suffix[i] = seq[i + d]
<1>1. PICK n \in 1 .. Len(seq) + 1 : suffix = SubSeq(seq, n, Len(seq))
  BY DEF Suffixes
<1>2. \A i \in n .. Len(seq) : seq[i] \in S
  OBVIOUS
<1>3. Len(seq) \in Nat /\ n \in Nat /\ n >= 1
  OBVIOUS
<1>4. /\ suffix \in Seq(S)
      /\ Len(suffix) = IF n <= Len(seq) THEN Len(seq) - n + 1 ELSE 0
      /\ \A i \in 1 .. Len(seq) - n + 1 : suffix[i] = seq[n + i - 1]
  BY <1>1, <1>2, <1>3, SubSeqProperties
<1>5. Len(suffix) = Len(seq) - (n - 1)
  BY <1>3, <1>4
<1>6. ASSUME NEW i \in DOMAIN suffix
      PROVE  i + (n - 1) \in DOMAIN seq /\ suffix[i] = seq[i + (n - 1)]
  <2>1. DOMAIN suffix = 1 .. Len(suffix) /\ DOMAIN seq = 1 .. Len(seq)
    BY <1>4
  <2>2. i \in Nat /\ i >= 1 /\ i <= Len(seq) - (n - 1)
    BY <1>3, <1>5, <1>6, <2>1
  <2>3. suffix[i] = seq[n + i - 1]
    BY <1>3, <1>4, <2>2
  <2> QED
    BY <1>3, <2>1, <2>2, <2>3
<1> QED
  BY <1>3, <1>4, <1>5, <1>6

LEMMA SuffixOfEmpty ==
  ASSUME NEW suffix \in Suffixes(<<>>)
  PROVE  suffix = <<>>
<1>1. suffix \in Seq({})
  BY SuffixTyped, <<>> \in Seq({})
<1> QED
  BY <1>1

-----------------------------------------------------------------------------
\* What is reported of a ticket, and what becomes of the report.
Reports(ticket) == ReportClosed(ticket) \/ ReportClosedLost(ticket) \/ ReportClosedAgain(ticket)

\* The handlers of a waiting order touch the row, its entry in the index of the
\* primary leg and the place of the FTMO event loop, and nothing else.
LEMMA BookFrame ==
  ASSUME BookTask
  PROVE  /\ UNCHANGED <<order_type, s_status, s_ticket, reqIndex, sIndex, lock, primary, ftmoResp,
                        closeEvents, published, openPc, openAttempt, closeAttempt, closeTicket,
                        respLink, eventPc, xCmds, xResps, xEvents, positions, issued, seen,
                        ledger, blind, misread, gaveUp, crashes, faults>>
         /\ closePc \in {"idle", "unlink", "relink", "forget"}
         /\ closePc' \in {"idle", "unlink", "relink", "forget"}
         /\ \/ UNCHANGED status
            \/ bookEvent = "filled" /\ pIndex = "order" /\ status' = "filled"
            \/ bookEvent = "cancelled" /\ pIndex = "order" /\ status' = "cancelled"
BY DEF BookTask, BookEventDropped, PendingFilled, UnlinkOrderId, LinkPositionId, OrderCancelled,
   ForgetOrderId, TakeBookEvent, BookUnchanged, openVars, loopVars, streamVars, exnessVars,
   faultVars

-----------------------------------------------------------------------------
(* The answer to the primary order comes before everything else.           *)

\* What is known of the primary leg follows the answer to its order; an index
\* entry, a cascade or a half-handled answer means the order left "pending".
Answered ==
  /\ ftmoResp \in {"none", "error"} => primary = "none"
  /\ ftmoResp = "success" \/ bookEvent # "none" => primary # "none"
  /\ primary = "none" => status \in {"pending", "rejected"}
  /\ primary # "none" => status # "rejected"
  /\ ftmoResp \in {"written", "linked"} => openPc = "idle"
  /\ pIndex = "position" \/ openPc # "idle" \/ closePc # "idle"
       => status \notin {"pending", "rejected"}
  /\ order_type = "market" /\ ftmoResp \in {"written", "linked"}
       => status \notin {"pending", "rejected"}

LEMMA InitAnswered ==
  ASSUME Init PROVE Answered
BY DEF Init, Answered

LEMMA AnsweredStep ==
  ASSUME IInv, Answered, [Next]_vars PROVE Answered'
<1> USE DEF Answered, NoTicket, rowVars, indexVars, ftmoVars, openVars, closeVars, loopVars,
        streamVars, exnessVars, faultVars, IInv, Untouched
<1>o. order_type \in {"market", "limit"}
  BY DEF Typed, TypeOK, OrderType
<1>1. CASE OpenTask
  BY <1>1 DEF OpenTask, OpenMark, OpenPush, OpenLink, OpenSeesFilled, OpenSeesRejected,
     OpenTimesOut, OpenReset, OpenFinalize, OpenNext, OpenUnchanged
<1>2. CASE CloseTask
  BY <1>2 DEF CloseTask, CloseTakeEvent, CloseStamp, CloseLock, CloseRead, CloseInitiate,
     CloseOrphan, ClosePush, CloseLink, CloseSeesClosed, CloseSeesRejected,
     CloseTimesOut, CloseReset, CloseFinish, CloseFail, CloseRelease, CancelMark,
     CancelSeesLateFill, CancelRelock, CancelSeesNoFill, CancelPrimaryOnly,
     CloseUnchanged, CloseGoto, CloseNext
<1>k. CASE BookTask
  BY <1>o, <1>k DEF BookTask, BookEventDropped, PendingFilled, UnlinkOrderId, LinkPositionId,
     OrderCancelled, ForgetOrderId, TakeBookEvent, BookUnchanged, ByOrderType
<1>3. CASE FtmoResponseLoop
  BY <1>o, <1>3 DEF ByOrderType, FtmoResponseLoop, FtmoFilled, FtmoAccepted, FtmoLink, FtmoSpawn, FtmoRejected, FtmoStep,
     LoopsUnchanged
<1>4. CASE ExnessResponseLoop
  BY <1>4 DEF ExnessResponseLoop, ResponseDropped, LinkTicket, OpenResponseFilled,
     OpenResponseRejected, CloseResponseClosed, CloseResponseRejected, TakeResponse,
     ExnessUnchanged, LoopsUnchanged, Cas
<1>5. CASE ExnessEventLoop
  BY <1>5 DEF ExnessEventLoop, EventDropped, EventExternal, EventStamp, EventServerInitiated,
     EventComplete, EventUnlock, TakeEvent, EventUnchanged, ExnessUnchanged,
     LoopsUnchanged, PrimaryFirst
<1>6. CASE Ftmo
  BY <1>6 DEF Ftmo, PrimaryFills, PrimaryAccepted, PrimaryTrips, PrimaryCancelled,
     LeavesBook, PrimaryRejected, PrimaryCloses, PublishClosed, FtmoUnchanged
<1>7. CASE ExnessClient \/ ExnessFaults
  BY <1>7 DEF ExnessClient, OpenFills, OpenRejected, CloseFills, CloseRejected, NoticeNew,
     ReportClosed, ReportClosedAgain, ReportClosedLost, PollBlind,
     MoveSnapshot, EmitClosed, BuildClosed, ExnessFaults, LoseCommand, ExternalClose
<1>8. CASE Crash
  BY <1>8 DEF Crash
<1>9. CASE LockExpires
  BY <1>9 DEF LockExpires
<1>10. CASE UNCHANGED vars
  BY <1>10 DEF vars
<1> QED
  BY <1>k, <1>1, <1>2, <1>3, <1>4, <1>5, <1>6, <1>7, <1>8, <1>9, <1>10 DEF Next, Server

\* Before the opening cascade starts there is nothing on the Exness side.
NothingBefore ==
  openPc = "idle" =>
    /\ xCmds = <<>> /\ xResps = <<>> /\ s_ticket = NoTicket
    /\ respLink = NoTicket /\ sIndex = {} /\ eventPc = "idle"
    /\ s_status \notin {"filled", "closed"}

LEMMA InitNothingBefore ==
  ASSUME Init PROVE NothingBefore
BY DEF Init, NothingBefore

LEMMA NothingBeforeStep ==
  ASSUME IInv, Answered, NothingBefore, [Next]_vars PROVE NothingBefore'
<1> USE DEF NothingBefore, NoTicket, rowVars, indexVars, ftmoVars, openVars, closeVars, loopVars,
        streamVars, exnessVars, faultVars
<1>1. CASE OpenTask
  BY <1>1 DEF OpenTask, OpenMark, OpenPush, OpenLink, OpenSeesFilled, OpenSeesRejected,
     OpenTimesOut, OpenReset, OpenFinalize, OpenNext, OpenUnchanged
<1>2. CASE CloseTask
  <2>1. CASE ClosePush
    BY <2>1 DEF ClosePush, CloseUnchanged, IInv, Typed, TrackedLeg, Tickets
  <2>2. CASE CloseTask /\ ~ ClosePush
    BY <2>2 DEF CloseTask, CloseTakeEvent, CloseStamp, CloseLock, CloseRead, CloseInitiate,
       CloseOrphan, CloseLink, CloseSeesClosed, CloseSeesRejected, CloseTimesOut, CloseReset,
       CloseFinish, CloseFail, CloseRelease, CancelMark, CancelSeesLateFill, CancelRelock,
       CancelSeesNoFill, CancelPrimaryOnly, CloseUnchanged
  <2> QED
    BY <1>2, <2>1, <2>2
<1>k. CASE BookTask
  BY <1>k, BookFrame
<1>3. CASE FtmoResponseLoop
  BY <1>3 DEF FtmoResponseLoop, FtmoFilled, FtmoAccepted, FtmoLink, FtmoSpawn, FtmoRejected, FtmoStep,
     LoopsUnchanged
<1>4. CASE ExnessResponseLoop
  BY <1>4 DEF ExnessResponseLoop, ResponseDropped, LinkTicket, OpenResponseFilled,
     OpenResponseRejected, CloseResponseClosed, CloseResponseRejected, TakeResponse,
     ExnessUnchanged, LoopsUnchanged
<1>5. CASE ExnessEventLoop
  BY <1>5 DEF ExnessEventLoop, EventDropped, EventExternal, EventStamp, EventServerInitiated,
     EventComplete, EventUnlock, TakeEvent, EventUnchanged, ExnessUnchanged, LoopsUnchanged
<1>6. CASE Ftmo
  BY <1>6 DEF Ftmo, PrimaryFills, PrimaryAccepted, PrimaryTrips, PrimaryCancelled,
     LeavesBook, PrimaryRejected, PrimaryCloses, PublishClosed, FtmoUnchanged
<1>7. CASE ExnessClient \/ ExnessFaults
  BY <1>7 DEF ExnessClient, OpenFills, OpenRejected, CloseFills, CloseRejected, TakeCommand,
     NoticeNew, ReportClosed, ReportClosedAgain, ReportClosedLost, PollBlind,
     MoveSnapshot, EmitClosed, BuildClosed, ExnessFaults, LoseCommand,
     ExternalClose
<1>8. CASE Crash
  BY <1>8, SuffixOfEmpty DEF Crash
<1>9. CASE LockExpires
  BY <1>9 DEF LockExpires
<1>10. CASE UNCHANGED vars
  BY <1>10 DEF vars
<1> QED
  BY <1>k, <1>1, <1>2, <1>3, <1>4, <1>5, <1>6, <1>7, <1>8, <1>9, <1>10 DEF Next, Server

-----------------------------------------------------------------------------
(* The life of an order whose primary leg waited in the order book.        *)

\* It is pending for as long as the primary leg waits or its event is not
\* handled, it is known by its position only once it is filled, and its closing
\* cascade does nothing but report the failure.
WaitingOrderLife ==
  /\ status = "cancelled" => order_type = "limit" /\ primary = "cancelled"
  /\ order_type = "limit" =>
       /\ status \in {"pending", "rejected", "filled", "cancelled", "close_failed"}
       /\ primary \in {"none", "working"} \/ bookEvent # "none" \/ ftmoResp = "written"
            => /\ status \in {"pending", "rejected"} /\ closePc = "idle"
               /\ pIndex # "position"
       /\ ftmoResp = "written" => pIndex = "none"
       /\ bookEvent = "filled" => primary \in {"open", "gone"}
       /\ bookEvent = "cancelled" => primary = "cancelled"
       /\ pIndex = "position" \/ closePc \in {"stamp", "lock", "read", "release"}
            => status \in {"filled", "close_failed"}
       /\ closePc \in {"unlink", "relink", "fail"} => status = "filled"
       /\ closePc = "forget" => status = "cancelled"
       /\ closePc \in {"idle", "stamp", "lock", "read", "fail", "release",
                       "unlink", "relink", "forget"}

LEMMA InitWaitingOrderLife ==
  ASSUME Init PROVE WaitingOrderLife
BY DEF Init, WaitingOrderLife

LEMMA WaitingOrderLifeStep ==
  ASSUME IInv, Answered, NothingBefore, WaitingOrderLife, [Next]_vars PROVE WaitingOrderLife'
<1> USE DEF WaitingOrderLife, NoTicket, rowVars, indexVars, ftmoVars, openVars, closeVars, loopVars,
        streamVars, exnessVars, faultVars, IInv, Untouched, ByOrderType
<1>o. order_type \in {"market", "limit"}
  BY DEF Typed, TypeOK, OrderType
<1>1. CASE OpenTask
  BY <1>1 DEF OpenTask, OpenMark, OpenPush, OpenLink, OpenSeesFilled, OpenSeesRejected,
     OpenTimesOut, OpenReset, OpenFinalize, OpenNext, OpenUnchanged, Answered
<1>2. CASE CloseTask
  BY <1>2 DEF CloseTask, CloseTakeEvent, CloseStamp, CloseLock, CloseRead, CloseInitiate,
     CloseOrphan, ClosePush, CloseLink, CloseSeesClosed, CloseSeesRejected,
     CloseTimesOut, CloseReset, CloseFinish, CloseFail, CloseRelease, CancelMark,
     CancelSeesLateFill, CancelRelock, CancelSeesNoFill, CancelPrimaryOnly,
     CloseUnchanged, CloseGoto, CloseNext, CloseBranch, NoOpStatus, NothingBefore, PrimaryFirst
<1>3. CASE BookTask
  BY <1>o, <1>3 DEF BookTask, BookEventDropped, PendingFilled, UnlinkOrderId, LinkPositionId,
     OrderCancelled, ForgetOrderId, TakeBookEvent, BookUnchanged
<1>4. CASE FtmoResponseLoop
  BY <1>4 DEF FtmoResponseLoop, FtmoFilled, FtmoAccepted, FtmoLink, FtmoSpawn, FtmoRejected,
     FtmoStep, LoopsUnchanged, Answered
<1>5. CASE ExnessResponseLoop
  BY <1>5 DEF ExnessResponseLoop, ResponseDropped, LinkTicket, OpenResponseFilled,
     OpenResponseRejected, CloseResponseClosed, CloseResponseRejected, TakeResponse,
     ExnessUnchanged, LoopsUnchanged, NothingBefore
<1>6. CASE ExnessEventLoop
  BY <1>6 DEF ExnessEventLoop, EventDropped, EventExternal, EventStamp, EventServerInitiated,
     EventComplete, EventUnlock, TakeEvent, EventUnchanged, ExnessUnchanged,
     LoopsUnchanged, NothingBefore, PrimaryFirst
<1>7. CASE Ftmo
  BY <1>7 DEF Ftmo, PrimaryFills, PrimaryAccepted, PrimaryTrips, PrimaryCancelled,
     LeavesBook, PrimaryRejected, PrimaryCloses, PublishClosed, FtmoUnchanged
<1>8. CASE ExnessClient \/ ExnessFaults
  BY <1>8 DEF ExnessClient, OpenFills, OpenRejected, CloseFills, CloseRejected, NoticeNew,
     ReportClosed, ReportClosedAgain, ReportClosedLost, PollBlind, MoveSnapshot, EmitClosed,
     BuildClosed, ExnessFaults, LoseCommand, ExternalClose
<1>9. CASE Crash
  BY <1>9 DEF Crash
<1>10. CASE LockExpires \/ UNCHANGED vars
  BY <1>10 DEF LockExpires, vars
<1> QED
  BY <1>1, <1>2, <1>3, <1>4, <1>5, <1>6, <1>7, <1>8, <1>9, <1>10 DEF Next, Server

-----------------------------------------------------------------------------
(* Where the closing cascade stands and what the row can say by then.      *)

Afterwards == {"close_pending", "closed", "close_failed", "secondary_failed"}

\* Every write of the closing cascade is unconditional; these are the statuses
\* it can still find when it makes the write.
StatusAtClose ==
  /\ closePc = "cancel" => status \in {"primary_filled", "filled", "secondary_failed"}
  /\ closePc \in {"wait", "unfilled"} => status \in {"cascade_cancel_pending", "secondary_failed"}
  /\ closePc \in {"orphan", "initiate"}
       => status \in {"filled", "cascade_cancel_pending", "secondary_failed"}
  /\ closePc = "fail" /\ order_type = "market"
       => status \in Afterwards \cup {"cascade_cancel_pending"}
  /\ closePc \in {"push", "link", "poll", "reset", "finish"} => status \in Afterwards

OpenResponses == {resp \in Responses : resp.action = "open"}

\* No close was asked for: no trace of one is in a stream, in the ledger or in
\* the event loop.
CloseUntold ==
  /\ xCmds \in Seq(OpenCommands) /\ xResps \in Seq(OpenResponses)
  /\ xEvents \in Seq(ExternalEvents)
  /\ ledger = {} /\ eventPc \in {"idle", "stamp"}

\* The closing cascade has not written a status that commits it to a close.
BeforeClose ==
  \/ primary # "gone"
  \/ status \in {"pending", "rejected", "primary_filled", "filled", "cascade_cancel_pending"}
  \/ closePc \in {"cancel", "wait", "unfilled", "orphan", "initiate"}

CloseLast == BeforeClose => CloseUntold

LEMMA InitStatusAtClose ==
  ASSUME Init PROVE StatusAtClose /\ CloseLast
BY DEF Init, StatusAtClose, CloseLast, CloseUntold

\* Once committed, always committed: nothing leads back before the close.
LEMMA BeforeCloseBackwards ==
  ASSUME IInv, Answered, WaitingOrderLife, StatusAtClose, [Next]_vars, BeforeClose' PROVE BeforeClose
<1> USE DEF BeforeClose, rowVars, indexVars, ftmoVars, openVars, closeVars, loopVars,
        streamVars, exnessVars, faultVars, IInv, PrimaryFirst, Untouched
<1>o. order_type \in {"market", "limit"}
  BY DEF Typed, TypeOK, OrderType
<1>1. CASE OpenTask
  BY <1>1 DEF OpenTask, OpenMark, OpenPush, OpenLink, OpenSeesFilled, OpenSeesRejected,
     OpenTimesOut, OpenReset, OpenFinalize, OpenNext, OpenUnchanged
<1>2. CASE CloseTask
  BY <1>o, <1>2 DEF CloseTask, CloseTakeEvent, CloseStamp, CloseLock, CloseRead, CloseInitiate,
     CloseOrphan, ClosePush, CloseLink, CloseSeesClosed, CloseSeesRejected,
     CloseTimesOut, CloseReset, CloseFinish, CloseFail, CloseRelease, CancelMark,
     CancelSeesLateFill, CancelRelock, CancelSeesNoFill, CancelPrimaryOnly,
     CloseUnchanged, CloseGoto, CloseNext, CloseBranch, NoOpStatus, StatusAtClose, Afterwards,
     Typed, TypeOK, Status, WaitingOrderLife
<1>k. CASE BookTask
  BY <1>o, <1>k, BookFrame DEF WaitingOrderLife, ByOrderType
<1>3. CASE FtmoResponseLoop
  BY <1>3 DEF FtmoResponseLoop, FtmoFilled, FtmoAccepted, FtmoLink, FtmoSpawn, FtmoRejected, FtmoStep,
     LoopsUnchanged
<1>4. CASE ExnessResponseLoop
  BY <1>4 DEF ExnessResponseLoop, ResponseDropped, LinkTicket, OpenResponseFilled,
     OpenResponseRejected, CloseResponseClosed, CloseResponseRejected, TakeResponse,
     ExnessUnchanged, LoopsUnchanged, Cas
<1>5. CASE ExnessEventLoop
  BY <1>5 DEF ExnessEventLoop, EventDropped, EventExternal, EventStamp, EventServerInitiated,
     EventComplete, EventUnlock, TakeEvent, EventUnchanged, ExnessUnchanged, LoopsUnchanged
<1>6. CASE Ftmo
  BY <1>6 DEF Ftmo, PrimaryFills, PrimaryAccepted, PrimaryTrips, PrimaryCancelled,
     LeavesBook, PrimaryRejected, PrimaryCloses, PublishClosed, FtmoUnchanged
<1>7. CASE ExnessClient \/ ExnessFaults
  BY <1>7 DEF ExnessClient, OpenFills, OpenRejected, CloseFills, CloseRejected, NoticeNew,
     ReportClosed, ReportClosedAgain, ReportClosedLost, PollBlind,
     MoveSnapshot, EmitClosed, BuildClosed, ExnessFaults, LoseCommand, ExternalClose
<1>8. CASE Crash
  BY <1>8 DEF Crash
<1>9. CASE LockExpires
  BY <1>9 DEF LockExpires
<1>10. CASE UNCHANGED vars
  BY <1>10 DEF vars
<1> QED
  BY <1>k, <1>1, <1>2, <1>3, <1>4, <1>5, <1>6, <1>7, <1>8, <1>9, <1>10 DEF Next, Server

LEMMA StatusAtCloseStep ==
  ASSUME IInv, Answered, WaitingOrderLife, StatusAtClose, CloseLast, [Next]_vars PROVE StatusAtClose'
<1> USE DEF StatusAtClose, Afterwards, rowVars, indexVars, ftmoVars, openVars, closeVars,
        loopVars, streamVars, exnessVars, faultVars, IInv, Untouched
<1>1. CASE OpenTask
  BY <1>1 DEF OpenTask, OpenMark, OpenPush, OpenLink, OpenSeesFilled, OpenSeesRejected,
     OpenTimesOut, OpenReset, OpenFinalize, OpenNext, OpenUnchanged
<1>2. CASE CloseTask
  BY <1>2 DEF CloseTask, CloseTakeEvent, CloseStamp, CloseLock, CloseRead, CloseInitiate,
     CloseOrphan, ClosePush, CloseLink, CloseSeesClosed, CloseSeesRejected,
     CloseTimesOut, CloseReset, CloseFinish, CloseFail, CloseRelease, CancelMark,
     CancelSeesLateFill, CancelRelock, CancelSeesNoFill, CancelPrimaryOnly,
     CloseUnchanged, CloseGoto, CloseNext, CloseBranch, NoOpStatus, Answered, TrackedLeg,
     Typed, TypeOK, OrderType, Status, WaitingOrderLife
<1>k. CASE BookTask
  BY <1>k, BookFrame DEF WaitingOrderLife
<1>3. CASE FtmoResponseLoop
  BY <1>3 DEF FtmoResponseLoop, FtmoFilled, FtmoAccepted, FtmoLink, FtmoSpawn, FtmoRejected, FtmoStep,
     LoopsUnchanged
<1>4. CASE ExnessResponseLoop
  BY <1>4 DEF ExnessResponseLoop, ResponseDropped, LinkTicket, OpenResponseFilled,
     OpenResponseRejected, CloseResponseClosed, CloseResponseRejected, TakeResponse,
     ExnessUnchanged, LoopsUnchanged, Cas
<1>5. CASE ExnessEventLoop
  BY <1>5 DEF ExnessEventLoop, EventDropped, EventExternal, EventStamp, EventServerInitiated,
     EventComplete, EventUnlock, TakeEvent, EventUnchanged, ExnessUnchanged, LoopsUnchanged,
     CloseLast, CloseUntold, BeforeClose
<1>6. CASE Ftmo
  BY <1>6 DEF Ftmo, PrimaryFills, PrimaryAccepted, PrimaryTrips, PrimaryCancelled,
     LeavesBook, PrimaryRejected, PrimaryCloses, PublishClosed, FtmoUnchanged
<1>7. CASE ExnessClient \/ ExnessFaults
  BY <1>7 DEF ExnessClient, OpenFills, OpenRejected, CloseFills, CloseRejected, NoticeNew,
     ReportClosed, ReportClosedAgain, ReportClosedLost, PollBlind,
     MoveSnapshot, EmitClosed, BuildClosed, ExnessFaults, LoseCommand, ExternalClose
<1>8. CASE Crash
  BY <1>8 DEF Crash
<1>9. CASE LockExpires
  BY <1>9 DEF LockExpires
<1>10. CASE UNCHANGED vars
  BY <1>10 DEF vars
<1> QED
  BY <1>k, <1>1, <1>2, <1>3, <1>4, <1>5, <1>6, <1>7, <1>8, <1>9, <1>10 DEF Next, Server

LEMMA RespondIn ==
  ASSUME NEW S, xResps \in Seq(S), NEW action, NEW outcome, NEW ticket,
         [action |-> action, attempt |-> Head(xCmds).attempt,
          status |-> outcome, ticket |-> ticket] \in S,
         Respond(action, outcome, ticket)
  PROVE  xResps' \in Seq(S)
BY AppendIndexed DEF Respond

LEMMA UntoldStreams ==
  ASSUME IInv, CloseUntold
  PROVE  /\ xCmds # <<>> => Head(xCmds) \in OpenCommands /\ Tail(xCmds) \in Seq(OpenCommands)
         /\ xResps # <<>> => Head(xResps) \in OpenResponses /\ Tail(xResps) \in Seq(OpenResponses)
         /\ xEvents # <<>> => /\ Head(xEvents) \in ExternalEvents
                              /\ Tail(xEvents) \in Seq(ExternalEvents)
BY DEF CloseUntold

LEMMA EmitClosedUntold ==
  ASSUME IInv, CloseUntold, NEW ticket \in seen, EmitClosed(ticket)
  PROVE  CloseUntold'
<1>1. ClosedEvent(ticket) \in ExternalEvents
  BY DEF IInv, Typed, TypeOK, CloseUntold, ClosedEvent, ExternalEvents, Events
<1>2. xEvents' \in Seq(ExternalEvents)
  BY <1>1, AppendIndexed DEF EmitClosed, BuildClosed, CloseUntold
<1> QED
  BY <1>2 DEF EmitClosed, BuildClosed, CloseUntold, loopVars

LEMMA CloseLastStep ==
  ASSUME IInv, Answered, WaitingOrderLife, StatusAtClose, CloseLast, [Next]_vars PROVE CloseLast'
<1> SUFFICES ASSUME BeforeClose' PROVE CloseUntold'
  BY DEF CloseLast
<1> USE DEF rowVars, indexVars, ftmoVars, openVars, closeVars, loopVars, streamVars, exnessVars,
        faultVars
<1>a. BeforeClose /\ CloseUntold
  BY BeforeCloseBackwards DEF CloseLast
<1>1. CASE OpenTask
  <2>1. CASE OpenPush
    <3>1. [action |-> "open", attempt |-> openAttempt, ticket |-> NoTicket] \in OpenCommands
      BY DEF IInv, Typed, TypeOK, OpenCommands, Commands
    <3>2. xCmds' \in Seq(OpenCommands)
      BY <1>a, <2>1, <3>1, AppendIndexed DEF OpenPush, CloseUntold
    <3> QED
      BY <1>a, <2>1, <3>2 DEF OpenPush, OpenUnchanged, CloseUntold
  <2>2. CASE OpenTask /\ ~ OpenPush
    BY <1>a, <2>2 DEF OpenTask, OpenMark, OpenLink, OpenSeesFilled, OpenSeesRejected,
       OpenTimesOut, OpenReset, OpenFinalize, OpenUnchanged, CloseUntold
  <2> QED
    BY <1>1, <2>1, <2>2
<1>2. CASE CloseTask
  <2>1. CASE ClosePush
    BY <1>a, <2>1 DEF ClosePush, BeforeClose, StatusAtClose, Afterwards, IInv, PrimaryFirst
  <2>2. CASE CloseTask /\ ~ ClosePush
    BY <1>a, <2>2 DEF CloseTask, CloseTakeEvent, CloseStamp, CloseLock, CloseRead, CloseInitiate,
       CloseOrphan, CloseLink, CloseSeesClosed, CloseSeesRejected, CloseTimesOut, CloseReset,
       CloseFinish, CloseFail, CloseRelease, CancelMark, CancelSeesLateFill, CancelRelock,
       CancelSeesNoFill, CancelPrimaryOnly, CloseUnchanged, CloseUntold
  <2> QED
    BY <1>2, <2>1, <2>2
<1>k. CASE BookTask
  BY <1>a, <1>k, BookFrame DEF CloseUntold
<1>3. CASE FtmoResponseLoop
  BY <1>a, <1>3 DEF FtmoResponseLoop, FtmoFilled, FtmoAccepted, FtmoLink, FtmoSpawn, FtmoRejected, FtmoStep,
     LoopsUnchanged, CloseUntold
<1>4. CASE ExnessResponseLoop
  BY <1>a, <1>4, UntoldStreams DEF ExnessResponseLoop, ResponseDropped, LinkTicket,
     OpenResponseFilled, OpenResponseRejected, CloseResponseClosed, CloseResponseRejected,
     TakeResponse, ExnessUnchanged, LoopsUnchanged, CloseUntold
<1>5. CASE ExnessEventLoop
  BY <1>a, <1>5, UntoldStreams DEF ExnessEventLoop, EventDropped, EventExternal, EventStamp,
     EventServerInitiated, EventComplete, EventUnlock, TakeEvent, EventUnchanged,
     ExnessUnchanged, LoopsUnchanged, CloseUntold, ExternalEvents
<1>6. CASE Ftmo
  BY <1>a, <1>6 DEF Ftmo, PrimaryFills, PrimaryAccepted, PrimaryTrips, PrimaryCancelled,
     LeavesBook, PrimaryRejected, PrimaryCloses, PublishClosed,
     FtmoUnchanged, CloseUntold
<1>7. CASE OpenFills
  <2>1. [action |-> "open", attempt |-> Head(xCmds).attempt,
         status |-> "filled", ticket |-> issued + 1] \in OpenResponses
    <3>1. Head(xCmds) \in Commands /\ Head(xCmds).action = "open" /\ issued \in Nat
      BY <1>7, HeadOfCommands DEF OpenFills, TakeCommand, IInv, Typed, TypeOK
    <3> QED
      BY <3>1 DEF Commands, OpenResponses, Responses, Tickets, NoTicket
  <2>2. xResps' \in Seq(OpenResponses)
    BY <1>a, <1>7, <2>1, RespondIn DEF OpenFills, CloseUntold
  <2> QED
    BY <1>a, <1>7, <2>2, UntoldStreams DEF OpenFills, TakeCommand, CloseUntold
<1>8. CASE OpenRejected
  <2>1. [action |-> "open", attempt |-> Head(xCmds).attempt,
         status |-> "rejected", ticket |-> NoTicket] \in OpenResponses
    BY <1>8, HeadOfCommands
    DEF OpenRejected, TakeCommand, IInv, Typed, TypeOK, Commands, OpenResponses, Responses,
        NoTicket
  <2>2. xResps' \in Seq(OpenResponses)
    BY <1>a, <1>8, <2>1, RespondIn DEF OpenRejected, CloseUntold
  <2> QED
    BY <1>a, <1>8, <2>2, UntoldStreams DEF OpenRejected, TakeCommand, CloseUntold
<1>9. CASE CloseFills \/ CloseRejected
  BY <1>a, <1>9, UntoldStreams DEF CloseFills, CloseRejected, TakeCommand, OpenCommands
<1>10. CASE \E ticket \in seen : Reports(ticket)
  <2>1. PICK ticket \in seen : Reports(ticket)
    BY <1>10
  <2>2. CASE ReportClosedLost(ticket)
    BY <1>a, <2>2 DEF ReportClosedLost, BuildClosed, CloseUntold
  <2> QED
    BY <1>a, <2>1, <2>2, EmitClosedUntold DEF Reports, ReportClosed, ReportClosedAgain
<1>11. CASE PollBlind \/ NoticeNew \/ LoseCommand \/ \E ticket \in positions : ExternalClose(ticket)
  BY <1>a, <1>11, UntoldStreams DEF PollBlind, NoticeNew, LoseCommand, ExternalClose, CloseUntold
<1>12. CASE Crash
  BY <1>a, <1>12, SuffixTyped DEF Crash, CloseUntold
<1>13. CASE LockExpires
  BY <1>a, <1>13 DEF LockExpires, CloseUntold
<1>14. CASE UNCHANGED vars
  BY <1>a, <1>14 DEF vars, CloseUntold
<1> QED
  BY <1>k, <1>1, <1>2, <1>3, <1>4, <1>5, <1>6, <1>7, <1>8, <1>9, <1>10, <1>11, <1>12, <1>13, <1>14
  DEF Next, Server, ExnessClient, ExnessFaults, Reports

LifeInv ==
  IInv /\ Answered /\ NothingBefore /\ WaitingOrderLife /\ StatusAtClose /\ CloseLast

LEMMA InitLifeInv ==
  ASSUME Init PROVE LifeInv
BY InitIInv, InitAnswered, InitNothingBefore, InitWaitingOrderLife, InitStatusAtClose DEF LifeInv

LEMMA NextLifeInv ==
  ASSUME LifeInv, [Next]_vars PROVE LifeInv'
BY NextIInv, AnsweredStep, NothingBeforeStep, WaitingOrderLifeStep, StatusAtCloseStep,
   CloseLastStep DEF LifeInv

LEMMA AlwaysLifeInv == Spec => []LifeInv
BY InitLifeInv, NextLifeInv, PTL DEF Spec

-----------------------------------------------------------------------------
(* A closed order stays closed.                                            *)

LEMMA ClosedStep ==
  ASSUME LifeInv, [Next]_vars, status = "closed", OpenInactive, closePc \notin Committed
  PROVE  status' = "closed"
<1> USE DEF OpenInactive, Committed, rowVars, indexVars, ftmoVars, openVars, closeVars, loopVars,
        streamVars, exnessVars, faultVars
<1>o. order_type \in {"market", "limit"}
  BY DEF LifeInv, IInv, Typed, TypeOK, OrderType
<1>1. CASE OpenTask
  BY <1>1 DEF OpenTask, OpenMark, OpenPush, OpenLink, OpenSeesFilled, OpenSeesRejected,
     OpenTimesOut, OpenReset, OpenFinalize, OpenUnchanged
<1>2. CASE CloseTask
  BY <1>2 DEF CloseTask, CloseTakeEvent, CloseStamp, CloseLock, CloseRead, CloseInitiate,
     CloseOrphan, ClosePush, CloseLink, CloseSeesClosed, CloseSeesRejected,
     CloseTimesOut, CloseReset, CloseFinish, CloseFail, CloseRelease, CancelMark,
     CancelSeesLateFill, CancelRelock, CancelSeesNoFill, CancelPrimaryOnly, CloseUnchanged
<1>k. CASE BookTask
  BY <1>o, <1>k, BookFrame DEF LifeInv, WaitingOrderLife, IInv, ByOrderType
<1>3. CASE FtmoResponseLoop
  BY <1>3 DEF FtmoResponseLoop, FtmoFilled, FtmoAccepted, FtmoLink, FtmoSpawn, FtmoRejected, FtmoStep,
     LifeInv, IInv, Untouched
<1>4. CASE ExnessResponseLoop
  BY <1>4 DEF ExnessResponseLoop, ResponseDropped, LinkTicket, OpenResponseFilled,
     OpenResponseRejected, CloseResponseClosed, CloseResponseRejected, TakeResponse,
     ExnessUnchanged, Cas
<1>5. CASE ExnessEventLoop
  BY <1>5 DEF ExnessEventLoop, EventDropped, EventExternal, EventStamp, EventServerInitiated,
     EventComplete, EventUnlock, TakeEvent
<1>6. CASE Ftmo
  BY <1>6 DEF Ftmo, PrimaryFills, PrimaryAccepted, PrimaryTrips, PrimaryCancelled,
     LeavesBook, PrimaryRejected, PrimaryCloses, PublishClosed, FtmoUnchanged
<1>7. CASE ExnessClient \/ ExnessFaults
  BY <1>7 DEF ExnessClient, OpenFills, OpenRejected, CloseFills, CloseRejected, NoticeNew,
     ReportClosed, ReportClosedAgain, ReportClosedLost, PollBlind,
     MoveSnapshot, EmitClosed, BuildClosed, ExnessFaults, LoseCommand, ExternalClose
<1>8. CASE Crash \/ LockExpires \/ UNCHANGED vars
  BY <1>8 DEF Crash, LockExpires, vars
<1> QED
  BY <1>k, <1>1, <1>2, <1>3, <1>4, <1>5, <1>6, <1>7, <1>8 DEF Next, Server

\* Late fills, repeated close events, events of the position monitor and
\* crashes leave a closed order closed, once the opening task is not running
\* and the closing cascade is not between its decision and its last write.
THEOREM ClosedStaysClosed == Spec => ClosedFinalOnceSettled
<1>1. LifeInv /\ [Next]_vars
        => [status = "closed" /\ OpenInactive /\ closePc \notin Committed
            => status' = "closed"]_vars
  BY ClosedStep
<1> QED
  BY <1>1, AlwaysLifeInv, PTL DEF Spec, ClosedFinalOnceSettled

-----------------------------------------------------------------------------
(* HedgeCascade implements HedgeLifecycle.                                 *)

LEMMA InitMaps ==
  ASSUME Init PROVE Lifecycle!Init
BY DEF Init, OrderType, Lifecycle!Init, Lifecycle!NoLeg, NoTicket, Opening

\* What the abstract order does at each step of the system.
LEMMA StepMaps ==
  ASSUME LifeInv, [Next]_vars PROVE [Lifecycle!Next]_(Lifecycle!vars)
<1> USE DEF Lifecycle!Next, Lifecycle!vars, Lifecycle!Closing, Lifecycle!NoLeg, NoTicket, Opening,
        rowVars, indexVars, ftmoVars, openVars, closeVars, loopVars, streamVars, exnessVars,
        faultVars
<1>a. status \in Status /\ s_ticket \in Nat /\ primary \in Primary /\ order_type \in OrderType
  BY DEF LifeInv, IInv, Typed, TypeOK
<1>b. openPc # "idle" \/ ftmoResp = "linked"
        \/ closePc \notin {"idle", "stamp", "lock", "read", "fail", "release",
                         "unlink", "relink", "forget"}
      => order_type = "market" /\ status # "cancelled"
  BY <1>a DEF LifeInv, IInv, ByOrderType, WaitingOrderLife, OrderType
<1>1. CASE OpenTask
  BY <1>b, <1>1 DEF OpenTask, OpenMark, OpenPush, OpenLink, OpenSeesFilled, OpenSeesRejected,
     OpenTimesOut, OpenReset, OpenFinalize, OpenNext, OpenUnchanged, LifeInv, Answered,
     Lifecycle!OpeningMoves, Lifecycle!OpeningFails
<1>2. CASE CancelMark
  BY <1>b, <1>2 DEF CancelMark, CloseUnchanged, CloseGoto, LifeInv, IInv, PrimaryFirst, StatusAtClose,
     Lifecycle!BeginCancel
<1>3. CASE CloseInitiate
  BY <1>b, <1>3 DEF CloseInitiate, CloseUnchanged, CloseGoto, LifeInv, IInv, PrimaryFirst,
     StatusAtClose, TrackedLeg, Typed, Tickets, Lifecycle!BeginClose
<1>4. CASE CloseOrphan \/ CloseFinish \/ CancelPrimaryOnly
  BY <1>b, <1>4 DEF CloseOrphan, CloseFinish, CancelPrimaryOnly, CloseUnchanged, CloseGoto, LifeInv,
     IInv, PrimaryFirst, StatusAtClose, Afterwards, Lifecycle!CloseSucceeds
<1>5. CASE CloseFail
  <2>1. primary = "gone" /\ status' = "close_failed" /\ UNCHANGED <<order_type, primary, openPc, s_ticket>>
    BY <1>5 DEF CloseFail, CloseUnchanged, LifeInv, IInv, PrimaryFirst
  <2>2. CASE order_type = "market"
    BY <1>5, <2>1, <2>2 DEF CloseFail, LifeInv, StatusAtClose, Afterwards, Lifecycle!CloseFails
  <2>3. CASE order_type = "limit"
    BY <1>5, <2>1, <2>3 DEF CloseFail, LifeInv, WaitingOrderLife, Lifecycle!UnhedgedCloseFails
  <2> QED
    BY <1>a, <2>2, <2>3 DEF OrderType
<1>6. CASE CloseTask /\ ~ CancelMark /\ ~ CloseInitiate /\ ~ CloseOrphan /\ ~ CloseFinish
           /\ ~ CancelPrimaryOnly /\ ~ CloseFail
  BY <1>6 DEF CloseTask, CloseTakeEvent, CloseStamp, CloseLock, CloseRead, ClosePush, CloseLink,
     CloseSeesClosed, CloseSeesRejected, CloseTimesOut, CloseReset, CloseRelease,
     CancelSeesLateFill, CancelRelock, CancelSeesNoFill, CloseUnchanged
<1>7. CASE FtmoResponseLoop
  BY <1>b, <1>7 DEF FtmoResponseLoop, FtmoFilled, FtmoAccepted, FtmoLink, FtmoSpawn, FtmoRejected, FtmoStep,
     LoopsUnchanged, LifeInv, IInv, Answered, Untouched,
     Lifecycle!PrimaryFilled, Lifecycle!Reject, Lifecycle!OpeningMoves
<1>8. CASE OpenResponseFilled /\ Cas("primary_filled")
  <2>1. Head(xResps) \in Responses /\ xResps # <<>>
    BY <1>8, HeadOfResponses DEF LifeInv, IInv, Typed, OpenResponseFilled, TakeResponse
  <2>2. s_ticket' \in Nat \ {0}
    BY <1>8, <2>1 DEF OpenResponseFilled, TakeResponse, Responses, Tickets
  <2>3. s_ticket = 0 /\ openPc # "idle"
    BY <1>8, <2>1 DEF LifeInv, IInv, TrackedLeg, NothingBefore, Cas
  <2>4. status = "primary_filled" /\ status' = "filled" /\ UNCHANGED <<order_type, primary, openPc>>
    BY <1>8 DEF OpenResponseFilled, TakeResponse, ExnessUnchanged, LoopsUnchanged, Cas
  <2> QED
    BY <2>2, <2>3, <2>4 DEF Lifecycle!Hedged
<1>9. CASE ExnessResponseLoop /\ ~ (OpenResponseFilled /\ Cas("primary_filled"))
  BY <1>9 DEF ExnessResponseLoop, ResponseDropped, LinkTicket, OpenResponseFilled,
     OpenResponseRejected, CloseResponseClosed, CloseResponseRejected, TakeResponse,
     ExnessUnchanged, LoopsUnchanged, Cas
<1>10. CASE EventComplete
  <2>2. ~ BeforeClose
    BY <1>10 DEF EventComplete, LifeInv, CloseLast, CloseUntold
  <2>1. order_type = "market" /\ status # "cancelled"
    BY <1>b, <1>10 DEF EventComplete, LifeInv, NothingBefore
  <2>3. primary = "gone" /\ status \in Afterwards
    BY <1>a, <2>2, <2>1 DEF BeforeClose, Status, Afterwards
  <2>4. status' = "closed" /\ UNCHANGED <<order_type, primary, openPc, s_ticket>>
    BY <1>10 DEF EventComplete, EventUnchanged, ExnessUnchanged, LoopsUnchanged
  <2> QED
    BY <2>3, <2>4, <2>1 DEF Afterwards, Lifecycle!CloseSucceeds
<1>11. CASE ExnessEventLoop /\ ~ EventComplete
  BY <1>11 DEF ExnessEventLoop, EventDropped, EventExternal, EventStamp, EventServerInitiated,
     EventUnlock, TakeEvent, EventUnchanged, ExnessUnchanged, LoopsUnchanged
<1>12. CASE Ftmo
  BY <1>a, <1>12 DEF Ftmo, PrimaryFills, PrimaryAccepted, PrimaryTrips, PrimaryCancelled,
     LeavesBook, PrimaryRejected, PrimaryCloses, PublishClosed, FtmoUnchanged,
     LifeInv, IInv, Untouched, ByOrderType, OrderType, Lifecycle!PrimaryMoves
<1>13. CASE ExnessClient \/ ExnessFaults
  BY <1>13 DEF ExnessClient, OpenFills, OpenRejected, CloseFills, CloseRejected, NoticeNew,
     ReportClosed, ReportClosedAgain, ReportClosedLost, PollBlind,
     MoveSnapshot, EmitClosed, BuildClosed, ExnessFaults, LoseCommand, ExternalClose
<1>14. CASE Crash
  BY <1>b, <1>14 DEF Crash, LifeInv, Answered, Lifecycle!OpeningMoves
<1>k. CASE BookTask
  <2>1. UNCHANGED <<order_type, primary, openPc, s_ticket>>
    BY <1>k, BookFrame
  <2>2. CASE UNCHANGED status
    BY <2>1, <2>2
  <2>3. CASE bookEvent = "filled" /\ pIndex = "order" /\ status' = "filled"
    <3>1. order_type = "limit" /\ openPc = "idle"
      BY <1>a, <2>3 DEF LifeInv, IInv, ByOrderType, OrderType
    <3>2. status = "pending" /\ primary \in {"open", "gone"}
      BY <2>3, <3>1 DEF LifeInv, WaitingOrderLife, Answered
    <3>3. s_ticket = NoTicket
      BY <3>1 DEF LifeInv, NothingBefore
    <3> QED
      BY <2>1, <2>3, <3>1, <3>2, <3>3 DEF Lifecycle!TripsUnhedged
  <2>4. CASE bookEvent = "cancelled" /\ pIndex = "order" /\ status' = "cancelled"
    <3>1. order_type = "limit"
      BY <1>a, <2>4 DEF LifeInv, IInv, ByOrderType, OrderType
    <3>2. status = "pending" /\ primary = "cancelled"
      BY <2>4, <3>1 DEF LifeInv, WaitingOrderLife, Answered
    <3> QED
      BY <2>1, <2>4, <3>2 DEF Lifecycle!Cancelled
  <2> QED
    BY <1>k, <2>2, <2>3, <2>4, BookFrame
<1>15. CASE LockExpires \/ UNCHANGED vars
  BY <1>15 DEF LockExpires, vars
<1> QED
  BY <1>k, <1>1, <1>2, <1>3, <1>4, <1>5, <1>6, <1>7, <1>8, <1>9, <1>10, <1>11, <1>12, <1>13, <1>14,
     <1>15 DEF Next, Server

\* Whatever the two cascades, the loops, the brokers and the crashes do, the
\* order is seen to live the life HedgeLifecycle describes: it becomes a hedge
\* by one step that fixes the tracked leg, the opening fails at most once, and
\* a closing status follows the end of the primary leg.
THEOREM CascadeImplementsLifecycle == Spec => ImplementsLifecycle
<1>1. Init => Lifecycle!Init
  BY InitMaps
<1>2. LifeInv /\ [Next]_vars => [Lifecycle!Next]_(Lifecycle!vars)
  BY StepMaps
<1> QED
  BY <1>1, <1>2, AlwaysLifeInv, PTL DEF Spec, ImplementsLifecycle, Lifecycle!Spec

-----------------------------------------------------------------------------
(* One position per push.                                                  *)

\* No push of the current attempt has been made.
BeforePush == {"idle", "mark", "push"}

\* The open commands still in the stream were pushed by distinct attempts in
\* order, and each has an attempt more than there are positions already.
PushedOnce ==
  /\ issued <= openAttempt
  /\ openPc \in BeforePush => issued < openAttempt
  /\ \A i \in DOMAIN xCmds : xCmds[i].action = "open" =>
       /\ issued < xCmds[i].attempt /\ xCmds[i].attempt <= openAttempt
       /\ openPc \in BeforePush => xCmds[i].attempt < openAttempt
  /\ \A i, j \in DOMAIN xCmds :
       i < j /\ xCmds[i].action = "open" /\ xCmds[j].action = "open"
         => xCmds[i].attempt < xCmds[j].attempt

LEMMA InitPushedOnce ==
  ASSUME Init PROVE PushedOnce
BY DEF Init, PushedOnce, BeforePush

\* Taking the head off the command stream.
LEMMA PushedOnceTail ==
  ASSUME IInv, PushedOnce, xCmds # <<>>, xCmds' = Tail(xCmds), UNCHANGED openVars,
         \/ issued' = issued
         \/ issued' = issued + 1 /\ Head(xCmds).action = "open"
  PROVE  PushedOnce'
<1> USE DEF PushedOnce, openVars
<1>1. xCmds \in Seq(Commands) /\ issued \in Nat /\ openAttempt \in Nat
  BY DEF IInv, Typed, TypeOK, Attempts
<1>2. \A i \in DOMAIN xCmds : xCmds[i].action = "open" => xCmds[i].attempt \in Nat
  BY <1>1 DEF Commands, Attempts
<1>3. /\ 1 \in DOMAIN xCmds /\ Head(xCmds) = xCmds[1]
      /\ \A i \in DOMAIN xCmds' : i + 1 \in DOMAIN xCmds /\ xCmds'[i] = xCmds[i + 1]
      /\ \A i \in DOMAIN xCmds' : i \in Nat /\ i >= 1
  BY <1>1, TailIndexed
<1>4. issued' <= openAttempt'
  BY <1>1, <1>2, <1>3
<1>5. openPc' \in BeforePush => issued' < openAttempt'
  BY <1>1, <1>2, <1>3
<1>6. ASSUME NEW i \in DOMAIN xCmds', xCmds'[i].action = "open"
      PROVE  /\ issued' < xCmds'[i].attempt /\ xCmds'[i].attempt <= openAttempt'
             /\ openPc' \in BeforePush => xCmds'[i].attempt < openAttempt'
  <2>1. i + 1 \in DOMAIN xCmds /\ xCmds'[i] = xCmds[i + 1] /\ i >= 1
    BY <1>3
  <2>2. xCmds[1].action = "open" => xCmds[1].attempt < xCmds[i + 1].attempt
    BY <1>3, <1>6, <2>1
  <2> QED
    BY <1>1, <1>2, <1>3, <1>6, <2>1, <2>2
<1>7. \A i, j \in DOMAIN xCmds' :
        i < j /\ xCmds'[i].action = "open" /\ xCmds'[j].action = "open"
          => xCmds'[i].attempt < xCmds'[j].attempt
  BY <1>3
<1> QED
  BY <1>4, <1>5, <1>6, <1>7

\* What the Exness client does with a command, apart from executing it.
LEMMA CommandTaken ==
  ASSUME OpenFills \/ OpenRejected \/ CloseFills \/ CloseRejected \/ LoseCommand
  PROVE  /\ xCmds # <<>> /\ xCmds' = Tail(xCmds) /\ UNCHANGED openVars
         /\ issued' = issued \/ (issued' = issued + 1 /\ Head(xCmds).action = "open")
BY DEF OpenFills, OpenRejected, CloseFills, CloseRejected, LoseCommand, TakeCommand, exnessVars

LEMMA PushedOncePush ==
  ASSUME IInv, PushedOnce, OpenPush PROVE PushedOnce'
<1> USE DEF PushedOnce, BeforePush, OpenPush, OpenUnchanged, exnessVars
<1> DEFINE command == [action |-> "open", attempt |-> openAttempt, ticket |-> NoTicket]
<1>1. xCmds \in Seq(Commands) /\ command \in Commands /\ issued \in Nat /\ openAttempt \in Nat
  BY DEF IInv, Typed, TypeOK, Attempts, Commands
<1>2. \A i \in DOMAIN xCmds' : \/ i \in DOMAIN xCmds /\ xCmds'[i] = xCmds[i]
                               \/ i = Len(xCmds) + 1 /\ xCmds'[i] = command
  BY <1>1, AppendIndexed
<1>3. \A i \in DOMAIN xCmds : i <= Len(xCmds) /\ i \in Nat
  BY <1>1
<1>4. ASSUME NEW i \in DOMAIN xCmds', xCmds'[i].action = "open"
      PROVE  issued' < xCmds'[i].attempt /\ xCmds'[i].attempt <= openAttempt'
  BY <1>1, <1>2, <1>4
<1>5. ASSUME NEW i \in DOMAIN xCmds', NEW j \in DOMAIN xCmds', i < j,
             xCmds'[i].action = "open", xCmds'[j].action = "open"
      PROVE  xCmds'[i].attempt < xCmds'[j].attempt
  <2>1. Len(xCmds) \in Nat /\ i \in DOMAIN xCmds /\ xCmds'[i] = xCmds[i]
    BY <1>1, <1>2, <1>3, <1>5
  <2> QED
    BY <1>1, <1>2, <1>5, <2>1
<1> QED
  BY <1>1, <1>4, <1>5

LEMMA PushedOnceStep ==
  ASSUME IInv, Answered, PushedOnce, [Next]_vars PROVE PushedOnce'
<1> USE DEF PushedOnce, BeforePush, rowVars, indexVars, ftmoVars, openVars, closeVars, loopVars,
        streamVars, exnessVars, faultVars
<1>a. /\ xCmds \in Seq(Commands) /\ issued \in Nat /\ openAttempt \in Nat
      /\ \A i \in DOMAIN xCmds : xCmds[i].action = "open" => xCmds[i].attempt \in Nat
  BY DEF IInv, Typed, TypeOK, Attempts, Commands
<1>1. CASE OpenTask
  <2>1. CASE OpenReset
    BY <1>a, <2>1 DEF OpenReset, OpenUnchanged
  <2>2. CASE OpenTask /\ ~ OpenPush /\ ~ OpenReset
    BY <2>2 DEF OpenTask, OpenMark, OpenLink, OpenSeesFilled, OpenSeesRejected, OpenTimesOut,
       OpenFinalize, OpenNext, OpenUnchanged
  <2> QED
    BY <1>1, <2>1, <2>2, PushedOncePush
<1>2. CASE CloseTask
  <2>1. CASE ClosePush
    <3> DEFINE command == [action |-> "close", attempt |-> closeAttempt, ticket |-> closeTicket]
    <3>1. command \in Commands
      BY <2>1 DEF ClosePush, IInv, Typed, TypeOK, Commands
    <3>2. \A i \in DOMAIN xCmds' : xCmds'[i].action = "open"
                                     => i \in DOMAIN xCmds /\ xCmds'[i] = xCmds[i]
      BY <1>a, <2>1, <3>1, AppendIndexed DEF ClosePush
    <3> QED
      BY <2>1, <3>2 DEF ClosePush, CloseUnchanged
  <2>2. CASE CloseTask /\ ~ ClosePush
    BY <2>2 DEF CloseTask, CloseTakeEvent, CloseStamp, CloseLock, CloseRead, CloseInitiate,
       CloseOrphan, CloseLink, CloseSeesClosed, CloseSeesRejected, CloseTimesOut, CloseReset,
       CloseFinish, CloseFail, CloseRelease, CancelMark, CancelSeesLateFill, CancelRelock,
       CancelSeesNoFill, CancelPrimaryOnly, CloseUnchanged
  <2> QED
    BY <1>2, <2>1, <2>2
<1>k. CASE BookTask
  BY <1>k, BookFrame
<1>3. CASE FtmoResponseLoop
  BY <1>3 DEF FtmoResponseLoop, FtmoFilled, FtmoAccepted, FtmoLink, FtmoSpawn, FtmoRejected, FtmoStep,
     LoopsUnchanged, Answered
<1>4. CASE ExnessResponseLoop
  BY <1>4 DEF ExnessResponseLoop, ResponseDropped, LinkTicket, OpenResponseFilled,
     OpenResponseRejected, CloseResponseClosed, CloseResponseRejected, TakeResponse,
     ExnessUnchanged, LoopsUnchanged
<1>5. CASE ExnessEventLoop
  BY <1>5 DEF ExnessEventLoop, EventDropped, EventExternal, EventStamp, EventServerInitiated,
     EventComplete, EventUnlock, TakeEvent, EventUnchanged, ExnessUnchanged, LoopsUnchanged
<1>6. CASE Ftmo
  BY <1>6 DEF Ftmo, PrimaryFills, PrimaryAccepted, PrimaryTrips, PrimaryCancelled,
     LeavesBook, PrimaryRejected, PrimaryCloses, PublishClosed, FtmoUnchanged
<1>7. CASE OpenFills \/ OpenRejected \/ CloseFills \/ CloseRejected \/ LoseCommand
  <2>1. /\ xCmds # <<>> /\ xCmds' = Tail(xCmds) /\ UNCHANGED openVars
        /\ issued' = issued \/ (issued' = issued + 1 /\ Head(xCmds).action = "open")
    BY <1>7, CommandTaken
  <2> QED
    BY <2>1, PushedOnceTail
<1>8. CASE \/ NoticeNew \/ PollBlind
           \/ \E ticket \in seen : Reports(ticket)
           \/ \E ticket \in positions : ExternalClose(ticket)
  BY <1>8 DEF Reports, NoticeNew, ReportClosed, ReportClosedAgain, ReportClosedLost, PollBlind,
     MoveSnapshot, EmitClosed, BuildClosed, ExternalClose
<1>9. CASE Crash \/ LockExpires \/ UNCHANGED vars
  BY <1>9 DEF Crash, LockExpires, vars
<1> QED
  BY <1>k, <1>1, <1>2, <1>3, <1>4, <1>5, <1>6, <1>7, <1>8, <1>9
  DEF Next, Server, ExnessClient, ExnessFaults, Reports

LEMMA AlwaysPushedOnce == Spec => [](LifeInv /\ PushedOnce)
<1>1. Init => LifeInv /\ PushedOnce
  BY InitLifeInv, InitPushedOnce
<1>2. LifeInv /\ PushedOnce /\ [Next]_vars => (LifeInv /\ PushedOnce)'
  BY NextLifeInv, PushedOnceStep DEF LifeInv
<1> QED
  BY <1>1, <1>2, PTL DEF Spec

\* Whatever is lost, repeated or interrupted by a crash, the Exness client
\* opens at most one position per push of the opening cascade.
THEOREM OnePositionPerPush == Spec => []EachCommandExecutesOnce
<1>1. PushedOnce => EachCommandExecutesOnce
  BY DEF PushedOnce, EachCommandExecutesOnce
<1> QED
  BY <1>1, AlwaysPushedOnce, PTL

-----------------------------------------------------------------------------
(* One hedge as long as every attempt is answered in time.                 *)

LEMMA SingleEntry ==
  ASSUME NEW entry
  PROVE  /\ Append(<<>>, entry) # <<>> /\ Head(Append(<<>>, entry)) = entry
         /\ Tail(Append(<<>>, entry)) = <<>>
<1>1. <<>> \in Seq({entry}) /\ Append(<<>>, entry) = <<entry>>
  OBVIOUS
<1> QED
  BY <1>1

LEMMA SuffixOfSingle ==
  ASSUME NEW S, NEW seq \in Seq(S), seq = <<>> \/ Tail(seq) = <<>>, NEW suffix \in Suffixes(seq)
  PROVE  suffix = seq \/ suffix = <<>>
<1>1. suffix \in Seq(S)
  BY SuffixIndexed
<1>2. CASE seq = <<>>
  BY <1>2, SuffixOfEmpty
<1>3. CASE seq # <<>> /\ Tail(seq) = <<>>
  <2>1. Len(seq) = 1
    <3>1. Len(Tail(seq)) = Len(seq) - 1 /\ Tail(seq) \in Seq(S)
      BY <1>3, TailIndexed
    <3>2. Len(Tail(seq)) = Len(<<>>)
      BY <1>3, Zenon
    <3>3. Len(<<>>) = 0 /\ Len(seq) \in Nat
      OBVIOUS
    <3> QED
      BY <3>1, <3>2, <3>3
  <2>2. PICK d \in Nat : /\ Len(suffix) = Len(seq) - d
                         /\ \A i \in DOMAIN suffix : i + d \in DOMAIN seq /\ suffix[i] = seq[i + d]
    BY SuffixIndexed
  <2>3. CASE Len(suffix) = 0
    BY <1>1, <2>3
  <2>4. CASE Len(suffix) # 0
    <3>1. Len(suffix) = 1 /\ d = 0
      BY <1>1, <2>1, <2>2, <2>4
    <3>2. suffix[1] = seq[1]
      BY <1>1, <2>1, <2>2, <3>1
    <3> QED
      BY <1>1, <2>1, <3>1, <3>2
  <2> QED
    BY <2>3, <2>4
<1> QED
  BY <1>2, <1>3

\* Until the task links the request of an attempt, its answer has no addressee.
LinkedLast ==
  /\ \A request \in reqIndex : request[1] = "open" => request[2] <= openAttempt
  /\ openPc \in {"idle", "mark", "push", "link"} => <<"open", openAttempt>> \notin reqIndex

\* Without an attempt given up on, and before a close is under way, there is at
\* most one command or one response in flight, a rejection in flight or in the
\* row means that nothing was opened, and the task starts an attempt only when
\* nothing was opened and nothing is in flight.
OneAttempt ==
  ~ gaveUp /\ BeforeClose =>
    /\ issued <= 1
    /\ xCmds # <<>> => Tail(xCmds) = <<>> /\ xResps = <<>> /\ issued = 0 /\ s_status # "rejected"
    /\ xResps # <<>> => Tail(xResps) = <<>> /\ s_status # "rejected"
    /\ xResps # <<>> /\ Head(xResps).status = "rejected" => issued = 0
    /\ s_status = "rejected" => issued = 0
    /\ openPc \in {"idle", "mark", "push", "reset", "finalize"}
         => issued = 0 /\ xCmds = <<>> /\ xResps = <<>>
    /\ openPc \in {"idle", "mark", "push", "link"} => s_status # "rejected"
    /\ openPc = "link" => /\ xCmds # <<>> => Head(xCmds).attempt = openAttempt
                          /\ xResps # <<>> => Head(xResps).attempt = openAttempt

LEMMA InitOneAttempt ==
  ASSUME Init PROVE LinkedLast /\ OneAttempt
BY DEF Init, LinkedLast, OneAttempt

LEMMA LinkedLastStep ==
  ASSUME LifeInv, LinkedLast, [Next]_vars PROVE LinkedLast'
<1> USE DEF LinkedLast, rowVars, indexVars, ftmoVars, openVars, closeVars, loopVars, streamVars,
        exnessVars, faultVars
<1>a. openAttempt \in Nat /\ \A request \in reqIndex : request[2] \in Nat
  BY DEF LifeInv, IInv, Typed, TypeOK, Attempts, Requests
<1>1. CASE OpenTask
  BY <1>a, <1>1 DEF OpenTask, OpenMark, OpenPush, OpenLink, OpenSeesFilled, OpenSeesRejected,
     OpenTimesOut, OpenReset, OpenFinalize, OpenNext, OpenUnchanged
<1>2. CASE CloseLink
  BY <1>2 DEF CloseLink, CloseUnchanged
<1>3. CASE CloseTask /\ ~ CloseLink
  BY <1>3 DEF CloseTask, CloseTakeEvent, CloseStamp, CloseLock, CloseRead, CloseInitiate,
     CloseOrphan, ClosePush, CloseSeesClosed, CloseSeesRejected, CloseTimesOut, CloseReset,
     CloseFinish, CloseFail, CloseRelease, CancelMark, CancelSeesLateFill, CancelRelock,
     CancelSeesNoFill, CancelPrimaryOnly, CloseUnchanged
<1>k. CASE BookTask
  BY <1>k, BookFrame
<1>4. CASE FtmoResponseLoop
  BY <1>4 DEF FtmoResponseLoop, FtmoFilled, FtmoAccepted, FtmoLink, FtmoSpawn, FtmoRejected, FtmoStep,
     LoopsUnchanged, LifeInv, Answered
<1>5. CASE ExnessResponseLoop \/ ExnessEventLoop
  BY <1>5 DEF ExnessResponseLoop, ResponseDropped, LinkTicket, OpenResponseFilled,
     OpenResponseRejected, CloseResponseClosed, CloseResponseRejected, TakeResponse,
     ExnessEventLoop, EventDropped, EventExternal, EventStamp, EventServerInitiated,
     EventComplete, EventUnlock, TakeEvent, EventUnchanged, ExnessUnchanged, LoopsUnchanged
<1>6. CASE Ftmo \/ ExnessClient \/ ExnessFaults \/ Crash \/ LockExpires \/ UNCHANGED vars
  BY <1>6 DEF Ftmo, PrimaryFills, PrimaryAccepted, PrimaryTrips, PrimaryCancelled,
     LeavesBook, PrimaryRejected, PrimaryCloses, PublishClosed, FtmoUnchanged,
     ExnessClient, OpenFills, OpenRejected, CloseFills, CloseRejected, NoticeNew, ReportClosed,
     ReportClosedAgain, ReportClosedLost, PollBlind,
     MoveSnapshot, EmitClosed, BuildClosed, ExnessFaults, LoseCommand, ExternalClose, Crash,
     LockExpires, vars
<1> QED
  BY <1>k, <1>1, <1>2, <1>3, <1>4, <1>5, <1>6 DEF Next, Server

LEMMA NotGivenUpBackwards ==
  ASSUME [Next]_vars, ~ gaveUp' PROVE ~ gaveUp
<1> USE DEF rowVars, indexVars, ftmoVars, openVars, closeVars, loopVars, streamVars, exnessVars,
        faultVars
<1>1. CASE OpenTask \/ CloseTask
  BY <1>1 DEF OpenTask, OpenMark, OpenPush, OpenLink, OpenSeesFilled, OpenSeesRejected,
     OpenTimesOut, OpenReset, OpenFinalize, OpenUnchanged, CloseTask, CloseTakeEvent, CloseStamp,
     CloseLock, CloseRead, CloseInitiate, CloseOrphan, ClosePush, CloseLink, CloseSeesClosed,
     CloseSeesRejected, CloseTimesOut, CloseReset, CloseFinish, CloseFail, CloseRelease,
     CancelMark, CancelSeesLateFill, CancelRelock, CancelSeesNoFill, CancelPrimaryOnly,
     CloseUnchanged
<1>k. CASE BookTask
  BY <1>k, BookFrame
<1>2. CASE FtmoResponseLoop \/ ExnessResponseLoop \/ ExnessEventLoop
  BY <1>2 DEF FtmoResponseLoop, FtmoFilled, FtmoAccepted, FtmoLink, FtmoSpawn, FtmoRejected, FtmoStep,
     ExnessResponseLoop, ResponseDropped, LinkTicket, OpenResponseFilled,
     OpenResponseRejected, CloseResponseClosed, CloseResponseRejected, TakeResponse,
     ExnessEventLoop, EventDropped, EventExternal, EventStamp, EventServerInitiated,
     EventComplete, EventUnlock, TakeEvent, EventUnchanged, ExnessUnchanged, LoopsUnchanged
<1>3. CASE Ftmo \/ ExnessClient \/ ExnessFaults \/ Crash \/ LockExpires \/ UNCHANGED vars
  BY <1>3 DEF Ftmo, PrimaryFills, PrimaryAccepted, PrimaryTrips, PrimaryCancelled,
     LeavesBook, PrimaryRejected, PrimaryCloses, PublishClosed, FtmoUnchanged,
     ExnessClient, OpenFills, OpenRejected, CloseFills, CloseRejected, NoticeNew,
     ReportClosed, ReportClosedAgain, ReportClosedLost, PollBlind,
     MoveSnapshot, EmitClosed, BuildClosed, ExnessFaults, LoseCommand, ExternalClose,
     Crash, LockExpires, vars
<1> QED
  BY <1>k, <1>1, <1>2, <1>3 DEF Next, Server

LEMMA OneAttemptExecuted ==
  ASSUME LifeInv, OneAttempt, ~ gaveUp, BeforeClose, OpenFills \/ OpenRejected
  PROVE  OneAttempt'
<1>1. /\ xCmds # <<>> /\ Tail(xCmds) = <<>> /\ xResps = <<>> /\ issued = 0
      /\ s_status # "rejected" /\ openPc \notin {"idle", "mark", "push", "reset", "finalize"}
  BY DEF OneAttempt, OpenFills, OpenRejected, TakeCommand
<1>2. UNCHANGED <<s_status, openPc>> /\ xCmds' = <<>>
  BY <1>1 DEF OpenFills, OpenRejected, TakeCommand, rowVars, openVars
<1>3. xResps' # <<>> => Tail(xResps') = <<>>
  BY <1>1, SingleEntry DEF OpenFills, OpenRejected, Respond
<1>4. issued' <= 1
  BY <1>1 DEF OpenFills, OpenRejected, exnessVars
<1>5. openPc = "link" /\ xResps' # <<>> => Head(xResps').attempt = openAttempt
  BY <1>1, SingleEntry DEF OpenFills, OpenRejected, Respond, OneAttempt
<1>6. xResps' # <<>> /\ Head(xResps').status = "rejected" => issued' = 0
  <2>1. CASE OpenFills
    <3>1. \/ xResps' = <<>>
          \/ xResps' = Append(<<>>, [action |-> "open", attempt |-> Head(xCmds).attempt,
                                     status |-> "filled", ticket |-> issued + 1])
      BY <1>1, <2>1 DEF OpenFills, Respond
    <3>2. xResps' # <<>> => Head(xResps').status = "filled"
      BY <3>1, SingleEntry
    <3> QED
      BY <3>2
  <2>2. CASE OpenRejected
    BY <1>1, <2>2 DEF OpenRejected, exnessVars
  <2> QED
    BY <2>1, <2>2
<1> QED
  BY <1>1, <1>2, <1>3, <1>4, <1>5, <1>6 DEF OneAttempt, OpenFills, OpenRejected, openVars

LEMMA OneAttemptStep ==
  ASSUME LifeInv, LinkedLast, OneAttempt, [Next]_vars PROVE OneAttempt'
<1> SUFFICES ASSUME ~ gaveUp', BeforeClose' PROVE OneAttempt'
  BY DEF OneAttempt
<1> USE DEF rowVars, indexVars, ftmoVars, openVars, closeVars, loopVars, streamVars, exnessVars,
        faultVars
<1>a. ~ gaveUp /\ BeforeClose /\ CloseUntold
  BY BeforeCloseBackwards, NotGivenUpBackwards DEF LifeInv, CloseLast
<1>1. CASE OpenTask
  <2>1. CASE OpenPush
    BY <1>a, <2>1, SingleEntry DEF OpenPush, OpenUnchanged, OneAttempt
  <2>2. CASE OpenTask /\ ~ OpenPush
    BY <1>a, <2>2 DEF OpenTask, OpenMark, OpenLink, OpenSeesFilled, OpenSeesRejected,
       OpenTimesOut, OpenReset, OpenFinalize, OpenNext, OpenUnchanged, OneAttempt
  <2> QED
    BY <1>1, <2>1, <2>2
<1>2. CASE CloseTask
  <2>1. CASE ClosePush
    BY <1>a, <2>1 DEF ClosePush, BeforeClose, LifeInv, IInv, PrimaryFirst, StatusAtClose, Afterwards
  <2>2. CASE CloseTask /\ ~ ClosePush
    BY <1>a, <2>2 DEF CloseTask, CloseTakeEvent, CloseStamp, CloseLock, CloseRead, CloseInitiate,
       CloseOrphan, CloseLink, CloseSeesClosed, CloseSeesRejected, CloseTimesOut, CloseReset,
       CloseFinish, CloseFail, CloseRelease, CancelMark, CancelSeesLateFill, CancelRelock,
       CancelSeesNoFill, CancelPrimaryOnly, CloseUnchanged, OneAttempt
  <2> QED
    BY <1>2, <2>1, <2>2
<1>k. CASE BookTask
  BY <1>a, <1>k, BookFrame DEF OneAttempt
<1>3. CASE FtmoResponseLoop
  BY <1>a, <1>3 DEF FtmoResponseLoop, FtmoFilled, FtmoAccepted, FtmoLink, FtmoSpawn, FtmoRejected, FtmoStep,
     LoopsUnchanged, OneAttempt, LifeInv, Answered
<1>4. CASE OpenResponseFilled \/ OpenResponseRejected \/ ResponseDropped \/ LinkTicket
  <2>1. UNCHANGED <<gaveUp, issued, xCmds, openAttempt>> /\ openPc' = openPc
    BY <1>4 DEF ResponseDropped, LinkTicket, OpenResponseFilled, OpenResponseRejected,
       TakeResponse, ExnessUnchanged, LoopsUnchanged
  <2>2. CASE OpenResponseFilled \/ ResponseDropped \/ LinkTicket
    BY <1>a, <2>1, <2>2 DEF ResponseDropped, LinkTicket, OpenResponseFilled, TakeResponse,
       OneAttempt
  <2>3. CASE OpenResponseRejected
    <3>1. /\ xResps # <<>> /\ xResps' = <<>> /\ xCmds = <<>> /\ issued = 0
          /\ openPc \notin {"idle", "mark", "push", "reset", "finalize"}
      BY <1>a, <2>1, <2>3 DEF OpenResponseRejected, TakeResponse, OneAttempt
    <3>2. openPc # "link"
      BY <1>a, <2>1, <2>3, <3>1 DEF OpenResponseRejected, TakeResponse, KnownRequest, LinkedLast,
         OneAttempt
    <3> QED
      BY <2>1, <2>3, <3>1, <3>2 DEF OpenResponseRejected, OneAttempt
  <2> QED
    BY <1>4, <2>2, <2>3
<1>5. CASE CloseResponseClosed \/ CloseResponseRejected
  BY <1>a, <1>5, UntoldStreams DEF CloseResponseClosed, CloseResponseRejected, TakeResponse,
     OpenResponses, LifeInv
<1>6. CASE ExnessEventLoop
  BY <1>a, <1>6 DEF ExnessEventLoop, EventDropped, EventExternal, EventStamp,
     EventServerInitiated, EventComplete, EventUnlock, TakeEvent, EventUnchanged,
     ExnessUnchanged, LoopsUnchanged, OneAttempt
<1>7. CASE Ftmo
  BY <1>a, <1>7 DEF Ftmo, PrimaryFills, PrimaryAccepted, PrimaryTrips, PrimaryCancelled,
     LeavesBook, PrimaryRejected, PrimaryCloses, PublishClosed,
     FtmoUnchanged, OneAttempt
<1>8. CASE OpenFills \/ OpenRejected
  BY <1>a, <1>8, OneAttemptExecuted DEF OpenFills, OpenRejected
<1>9. CASE CloseFills \/ CloseRejected
  BY <1>a, <1>9, UntoldStreams DEF CloseFills, CloseRejected, TakeCommand, OpenCommands, LifeInv
<1>10. CASE \/ NoticeNew \/ LoseCommand \/ PollBlind
            \/ \E ticket \in seen : Reports(ticket)
            \/ \E ticket \in positions : ExternalClose(ticket)
  BY <1>a, <1>10 DEF Reports, NoticeNew, LoseCommand, ReportClosed, ReportClosedAgain, ReportClosedLost, PollBlind,
     MoveSnapshot, EmitClosed, BuildClosed,
     ExternalClose, OneAttempt
<1>11. CASE Crash
  <2>1. xResps \in Seq(Responses)
    BY DEF LifeInv, IInv, Typed, TypeOK
  <2>2. xResps' = xResps \/ xResps' = <<>>
    BY <1>a, <1>11, <2>1, SuffixOfSingle DEF Crash, OneAttempt
  <2> QED
    BY <1>a, <1>11, <2>2 DEF Crash, OneAttempt
<1>12. CASE LockExpires \/ UNCHANGED vars
  BY <1>a, <1>12 DEF LockExpires, vars, OneAttempt
<1> QED
  BY <1>k, <1>1, <1>2, <1>3, <1>4, <1>5, <1>6, <1>7, <1>8, <1>9, <1>10, <1>11, <1>12
  DEF Next, Server, ExnessClient, ExnessFaults, Reports, ExnessResponseLoop

LEMMA AlwaysOneAttempt == Spec => [](LifeInv /\ LinkedLast /\ OneAttempt)
<1>1. Init => LifeInv /\ LinkedLast /\ OneAttempt
  BY InitLifeInv, InitOneAttempt
<1>2. LifeInv /\ LinkedLast /\ OneAttempt /\ [Next]_vars => (LifeInv /\ LinkedLast /\ OneAttempt)'
  BY NextLifeInv, LinkedLastStep, OneAttemptStep
<1> QED
  BY <1>1, <1>2, PTL DEF Spec

\* The retries of the opening cascade never put a second hedge on a living
\* primary leg, unless an attempt was given up on while its answer was under way.
THEOREM OneHedge == Spec => []OneHedgeWhilePrimaryLives
<1>1. OneAttempt => OneHedgeWhilePrimaryLives
  BY DEF OneAttempt, BeforeClose, OneHedgeWhilePrimaryLives
<1> QED
  BY <1>1, AlwaysOneAttempt, PTL

-----------------------------------------------------------------------------
(* What a closed order leaves on the Exness account.                       *)

\* A report of the monitor is about a position that is not there, unless the poll
\* behind it saw no position at all.
GoneEvents ==
  {event \in Events : /\ event.ticket \in 1 .. issued
                      /\ event.ticket \notin positions \/ event.ticket \in misread}

\* The account and its monitor know the positions that were opened.
TicketsIssued ==
  /\ positions \subseteq 1 .. issued /\ seen \subseteq 1 .. issued
  /\ xEvents \in Seq(GoneEvents)

LEMMA InitTicketsIssued ==
  ASSUME Init PROVE TicketsIssued
BY DEF Init, TicketsIssued

\* An event that is true stays true: a ticket is never opened twice.
LEMMA GoneStaysGone ==
  ASSUME IInv, TicketsIssued, [Next]_vars
  PROVE  /\ issued' \in Nat /\ issued <= issued' /\ positions' \subseteq 1 .. issued'
         /\ misread \subseteq misread'
         /\ GoneEvents \subseteq GoneEvents'
         /\ issued' # issued => OpenFills
<1> USE DEF TicketsIssued, GoneEvents, rowVars, indexVars, ftmoVars, openVars, closeVars, loopVars,
        streamVars, exnessVars, faultVars
<1>a. issued \in Nat
  BY DEF IInv, Typed, TypeOK
<1>1. CASE OpenFills
  BY <1>a, <1>1 DEF OpenFills
<1>2. CASE issued' = issued /\ positions' \subseteq positions /\ misread \subseteq misread'
  BY <1>a, <1>2
<1>3. CASE OpenTask \/ CloseTask
  BY <1>2, <1>3 DEF OpenTask, OpenMark, OpenPush, OpenLink, OpenSeesFilled, OpenSeesRejected,
     OpenTimesOut, OpenReset, OpenFinalize, OpenUnchanged, CloseTask, CloseTakeEvent, CloseStamp,
     CloseLock, CloseRead, CloseInitiate, CloseOrphan, ClosePush, CloseLink, CloseSeesClosed,
     CloseSeesRejected, CloseTimesOut, CloseReset, CloseFinish, CloseFail, CloseRelease,
     CancelMark, CancelSeesLateFill, CancelRelock, CancelSeesNoFill, CancelPrimaryOnly,
     CloseUnchanged
<1>k. CASE BookTask
  BY <1>2, <1>k, BookFrame
<1>4. CASE FtmoResponseLoop \/ ExnessResponseLoop \/ ExnessEventLoop
  BY <1>2, <1>4 DEF FtmoResponseLoop, FtmoFilled, FtmoAccepted, FtmoLink, FtmoSpawn, FtmoRejected, FtmoStep,
     ExnessResponseLoop, ResponseDropped, LinkTicket, OpenResponseFilled, OpenResponseRejected,
     CloseResponseClosed, CloseResponseRejected, TakeResponse, ExnessEventLoop, EventDropped,
     EventExternal, EventStamp, EventServerInitiated, EventComplete, EventUnlock, TakeEvent,
     EventUnchanged, ExnessUnchanged, LoopsUnchanged
<1>5. CASE (ExnessClient /\ ~ OpenFills) \/ ExnessFaults
  BY <1>2, <1>5 DEF ExnessClient, OpenRejected, CloseFills, CloseRejected, NoticeNew, ReportClosed,
     ReportClosedAgain, ReportClosedLost, PollBlind,
     MoveSnapshot, EmitClosed, BuildClosed, ExnessFaults, LoseCommand, ExternalClose
<1>6. CASE Ftmo \/ Crash \/ LockExpires \/ UNCHANGED vars
  BY <1>2, <1>6 DEF Ftmo, PrimaryFills, PrimaryAccepted, PrimaryTrips, PrimaryCancelled,
     LeavesBook, PrimaryRejected, PrimaryCloses, PublishClosed,
     FtmoUnchanged, Crash, LockExpires, vars
<1> QED
  BY <1>k, <1>1, <1>3, <1>4, <1>5, <1>6 DEF Next, Server

LEMMA TicketsIssuedStep ==
  ASSUME IInv, TicketsIssued, [Next]_vars PROVE TicketsIssued'
<1>a. /\ issued' \in Nat /\ issued <= issued' /\ positions' \subseteq 1 .. issued'
      /\ 1 .. issued \subseteq 1 .. issued'
  BY GoneStaysGone DEF IInv, Typed, TypeOK
<1>b. xEvents \in Seq(GoneEvents')
  BY GoneStaysGone DEF TicketsIssued
<1>c. xEvents # <<>> => Tail(xEvents) \in Seq(GoneEvents')
  BY <1>b, TailIndexed
<1>1. CASE seen' = seen /\ (xEvents' = xEvents \/ (xEvents # <<>> /\ xEvents' = Tail(xEvents)))
  BY <1>a, <1>b, <1>c, <1>1 DEF TicketsIssued
<1> USE DEF rowVars, indexVars, ftmoVars, openVars, closeVars, loopVars, streamVars, exnessVars,
        faultVars
<1>2. CASE OpenTask \/ CloseTask
  <2>1. seen' = seen /\ xEvents' = xEvents
    BY <1>2 DEF OpenTask, OpenMark, OpenPush, OpenLink, OpenSeesFilled, OpenSeesRejected,
       OpenTimesOut, OpenReset, OpenFinalize, OpenUnchanged, CloseTask, CloseTakeEvent,
       CloseStamp, CloseLock, CloseRead, CloseInitiate, CloseOrphan, ClosePush, CloseLink,
       CloseSeesClosed, CloseSeesRejected, CloseTimesOut, CloseReset, CloseFinish, CloseFail,
       CloseRelease, CancelMark, CancelSeesLateFill, CancelRelock, CancelSeesNoFill,
       CancelPrimaryOnly, CloseUnchanged
  <2> QED
    BY <1>1, <2>1
<1>k. CASE BookTask
  BY <1>1, <1>k, BookFrame
<1>3. CASE FtmoResponseLoop \/ ExnessResponseLoop \/ ExnessEventLoop
  <2>1. seen' = seen /\ (xEvents' = xEvents \/ (xEvents # <<>> /\ xEvents' = Tail(xEvents)))
    BY <1>3 DEF FtmoResponseLoop, FtmoFilled, FtmoAccepted, FtmoLink, FtmoSpawn, FtmoRejected, FtmoStep,
       ExnessResponseLoop, ResponseDropped, LinkTicket, OpenResponseFilled,
       OpenResponseRejected, CloseResponseClosed, CloseResponseRejected, TakeResponse,
       ExnessEventLoop, EventDropped, EventExternal, EventStamp, EventServerInitiated,
       EventComplete, EventUnlock, TakeEvent, EventUnchanged, ExnessUnchanged, LoopsUnchanged
  <2> QED
    BY <1>1, <2>1
<1>4. CASE \/ OpenFills \/ OpenRejected \/ CloseFills \/ CloseRejected \/ LoseCommand \/ PollBlind
           \/ \E ticket \in positions : ExternalClose(ticket)
  <2>1. seen' = seen /\ xEvents' = xEvents
    BY <1>4 DEF OpenFills, OpenRejected, CloseFills, CloseRejected, LoseCommand, PollBlind, ExternalClose
  <2> QED
    BY <1>1, <2>1
<1>5. CASE NoticeNew
  BY <1>a, <1>b, <1>5 DEF NoticeNew, TicketsIssued
<1>6. CASE \E ticket \in seen : Reports(ticket)
  <2>1. PICK ticket \in seen : Reports(ticket)
    BY <1>6
  <2>2. CASE ReportClosedLost(ticket)
    <3>1. seen' \subseteq seen /\ xEvents' = xEvents
      BY <2>2 DEF ReportClosedLost, BuildClosed, MoveSnapshot
    <3> QED
      BY <1>a, <1>b, <3>1 DEF TicketsIssued
  <2>3. CASE ReportClosed(ticket) \/ ReportClosedAgain(ticket)
    <3>1. EmitClosed(ticket) /\ seen' \subseteq seen
      BY <2>3 DEF ReportClosed, ReportClosedAgain, MoveSnapshot
    <3>2. ClosedEvent(ticket) \in Events /\ ClosedEvent(ticket).ticket = ticket
      BY <3>1 DEF ClosedEvent, Events, IInv, Typed, TypeOK
    <3>3. ticket \in 1 .. issued' /\ (ticket \notin positions' \/ ticket \in misread')
      BY <1>a, <3>1 DEF EmitClosed, BuildClosed, TicketsIssued
    <3>4. ClosedEvent(ticket) \in GoneEvents'
      BY <3>2, <3>3 DEF GoneEvents
    <3>5. xEvents' \in Seq(GoneEvents')
      BY <1>b, <3>1, <3>4, AppendIndexed DEF EmitClosed
    <3> QED
      BY <1>a, <3>1, <3>5 DEF TicketsIssued
  <2> QED
    BY <2>1, <2>2, <2>3 DEF Reports
<1>7. CASE Crash
  BY <1>a, <1>b, <1>7, SuffixTyped DEF Crash, TicketsIssued
<1>8. CASE Ftmo \/ LockExpires \/ UNCHANGED vars
  <2>1. seen' = seen /\ xEvents' = xEvents
    BY <1>8 DEF Ftmo, PrimaryFills, PrimaryAccepted, PrimaryTrips, PrimaryCancelled,
     LeavesBook, PrimaryRejected, PrimaryCloses, PublishClosed,
       FtmoUnchanged, LockExpires, vars
  <2> QED
    BY <1>1, <2>1
<1> QED
  BY <1>k, <1>2, <1>3, <1>4, <1>5, <1>6, <1>7, <1>8
  DEF Next, Server, ExnessClient, ExnessFaults, Reports

\* A fill that was recorded is in the row until the close is under way, as long
\* as no attempt was given up on.
FillKept ==
  s_ticket # NoTicket /\ ~ gaveUp /\ BeforeClose => s_status \in {"filled", "closed"}

LEMMA InitFillKept ==
  ASSUME Init PROVE FillKept
BY DEF Init, FillKept

LEMMA FillKeptStep ==
  ASSUME LifeInv, OneAttempt, FillKept, [Next]_vars PROVE FillKept'
<1> SUFFICES ASSUME ~ gaveUp', BeforeClose' PROVE FillKept'
  BY DEF FillKept
<1> USE DEF FillKept, rowVars, indexVars, ftmoVars, openVars, closeVars, loopVars, streamVars,
        exnessVars, faultVars
<1>a. ~ gaveUp /\ BeforeClose /\ CloseUntold
  BY BeforeCloseBackwards, NotGivenUpBackwards DEF LifeInv, CloseLast
<1>b. issued = 0 => s_ticket = NoTicket
  BY DEF LifeInv, IInv, TrackedLeg, Typed, TypeOK, NoTicket
<1>1. CASE OpenTask
  BY <1>a, <1>b, <1>1 DEF OpenTask, OpenMark, OpenPush, OpenLink, OpenSeesFilled, OpenSeesRejected,
     OpenTimesOut, OpenReset, OpenFinalize, OpenUnchanged, OneAttempt, Cas, LifeInv, IInv, TrackedLeg
<1>2. CASE CloseTask
  <2>1. CASE CloseInitiate \/ CancelPrimaryOnly \/ CloseReset
    BY <1>a, <2>1 DEF CloseInitiate, CancelPrimaryOnly, CloseReset, CloseUnchanged, CloseGoto,
       BeforeClose, LifeInv, IInv, PrimaryFirst, StatusAtClose, Afterwards
  <2>2. CASE CloseTask /\ ~ CloseInitiate /\ ~ CancelPrimaryOnly /\ ~ CloseReset
    BY <1>a, <2>2 DEF CloseTask, CloseTakeEvent, CloseStamp, CloseLock, CloseRead, CloseOrphan,
       ClosePush, CloseLink, CloseSeesClosed, CloseSeesRejected, CloseTimesOut, CloseFinish,
       CloseFail, CloseRelease, CancelMark, CancelSeesLateFill, CancelRelock,
       CancelSeesNoFill, CloseUnchanged
  <2> QED
    BY <1>2, <2>1, <2>2
<1>k. CASE BookTask
  BY <1>a, <1>k, BookFrame
<1>3. CASE FtmoResponseLoop
  BY <1>a, <1>3 DEF FtmoResponseLoop, FtmoFilled, FtmoAccepted, FtmoLink, FtmoSpawn, FtmoRejected, FtmoStep
<1>4. CASE OpenResponseFilled \/ OpenResponseRejected \/ ResponseDropped \/ LinkTicket
  BY <1>a, <1>b, <1>4 DEF ResponseDropped, LinkTicket, OpenResponseFilled, OpenResponseRejected,
     TakeResponse, OneAttempt
<1>5. CASE CloseResponseClosed \/ CloseResponseRejected
  BY <1>a, <1>5, UntoldStreams DEF CloseResponseClosed, CloseResponseRejected, TakeResponse,
     OpenResponses, LifeInv
<1>6. CASE ExnessEventLoop
  BY <1>a, <1>6 DEF ExnessEventLoop, EventDropped, EventExternal, EventStamp,
     EventServerInitiated, EventComplete, EventUnlock, TakeEvent, EventUnchanged
<1>7. CASE Ftmo \/ ExnessClient \/ ExnessFaults \/ Crash \/ LockExpires \/ UNCHANGED vars
  BY <1>a, <1>7 DEF Ftmo, PrimaryFills, PrimaryAccepted, PrimaryTrips, PrimaryCancelled,
     LeavesBook, PrimaryRejected, PrimaryCloses, PublishClosed,
     FtmoUnchanged, ExnessClient, OpenFills, OpenRejected, CloseFills, CloseRejected, NoticeNew,
     ReportClosed, ReportClosedAgain, ReportClosedLost, PollBlind,
     MoveSnapshot, EmitClosed, BuildClosed, ExnessFaults, LoseCommand, ExternalClose,
     Crash, LockExpires, vars
<1> QED
  BY <1>k, <1>1, <1>2, <1>3, <1>4, <1>5, <1>6, <1>7 DEF Next, Server, ExnessResponseLoop

\* Gone, or reported as closed by a poll that saw no position at all.
TrackedLegGone == s_ticket \notin positions \/ s_ticket \in misread

ClosingResponses == {resp \in Responses : resp.status = "closed" => TrackedLegGone}

\* Whoever says that the tracked leg is closed says so after it was closed: an
\* answer, the position monitor (sure of the leg when only one was opened), the
\* row, and the cascade that is about to write the row.
ClosedReported ==
  /\ eventPc \in {"stamp", "complete"}
       => issued >= 1 /\ (issued = 1 => positions \subseteq misread)
  /\ xResps \in Seq(ClosingResponses)
  /\ issued <= 1 /\ (s_status = "closed" \/ closePc \in {"finish", "orphan"}) => TrackedLegGone
  /\ issued <= 1 /\ ~ gaveUp /\ (closePc = "unfilled" \/ status = "closed") => TrackedLegGone

LEMMA InitClosedReported ==
  ASSUME Init PROVE ClosedReported
BY DEF Init, ClosedReported, TrackedLegGone

OutcomeInv ==
  /\ LifeInv /\ LinkedLast /\ OneAttempt /\ TicketsIssued /\ FillKept /\ ClosedReported

LEMMA TrackedLegStaysGone ==
  ASSUME OutcomeInv, [Next]_vars, TrackedLegGone, s_ticket' = s_ticket
  PROVE  TrackedLegGone'
<1> USE DEF TrackedLegGone, rowVars, indexVars, ftmoVars, openVars, closeVars, loopVars, streamVars,
        exnessVars, faultVars
<1>a. s_ticket \in Nat /\ issued \in Nat /\ s_ticket <= issued
  BY DEF OutcomeInv, LifeInv, IInv, TrackedLeg, Typed, TypeOK
<1>1. CASE OpenFills
  BY <1>a, <1>1 DEF OpenFills
<1>2. CASE positions' \subseteq positions /\ misread \subseteq misread'
  BY <1>2
<1>3. CASE OpenTask \/ CloseTask
  BY <1>2, <1>3 DEF OpenTask, OpenMark, OpenPush, OpenLink, OpenSeesFilled, OpenSeesRejected,
     OpenTimesOut, OpenReset, OpenFinalize, OpenUnchanged, CloseTask, CloseTakeEvent, CloseStamp,
     CloseLock, CloseRead, CloseInitiate, CloseOrphan, ClosePush, CloseLink, CloseSeesClosed,
     CloseSeesRejected, CloseTimesOut, CloseReset, CloseFinish, CloseFail, CloseRelease,
     CancelMark, CancelSeesLateFill, CancelRelock, CancelSeesNoFill, CancelPrimaryOnly,
     CloseUnchanged
<1>k. CASE BookTask
  BY <1>2, <1>k, BookFrame
<1>4. CASE FtmoResponseLoop \/ ExnessResponseLoop \/ ExnessEventLoop
  BY <1>2, <1>4 DEF FtmoResponseLoop, FtmoFilled, FtmoAccepted, FtmoLink, FtmoSpawn, FtmoRejected, FtmoStep,
     ExnessResponseLoop, ResponseDropped, LinkTicket, OpenResponseFilled, OpenResponseRejected,
     CloseResponseClosed, CloseResponseRejected, TakeResponse, ExnessEventLoop, EventDropped,
     EventExternal, EventStamp, EventServerInitiated, EventComplete, EventUnlock, TakeEvent,
     EventUnchanged, ExnessUnchanged, LoopsUnchanged
<1>5. CASE (ExnessClient /\ ~ OpenFills) \/ ExnessFaults
  BY <1>2, <1>5 DEF ExnessClient, OpenRejected, CloseFills, CloseRejected, NoticeNew, ReportClosed,
     ReportClosedAgain, ReportClosedLost, PollBlind,
     MoveSnapshot, EmitClosed, BuildClosed, ExnessFaults, LoseCommand, ExternalClose
<1>6. CASE Ftmo \/ Crash \/ LockExpires \/ UNCHANGED vars
  BY <1>2, <1>6 DEF Ftmo, PrimaryFills, PrimaryAccepted, PrimaryTrips, PrimaryCancelled,
     LeavesBook, PrimaryRejected, PrimaryCloses, PublishClosed,
     FtmoUnchanged, Crash, LockExpires, vars
<1> QED
  BY <1>k, <1>1, <1>3, <1>4, <1>5, <1>6 DEF Next, Server

\* The step that fixes the tracked leg: no close of any leg was asked for yet.
LEMMA ClosedReportedHedged ==
  ASSUME OutcomeInv, [Next]_vars, OpenResponseFilled, Cas("primary_filled")
  PROVE  ClosedReported'
<1> USE DEF OutcomeInv, OpenResponseFilled, TakeResponse, ExnessUnchanged, LoopsUnchanged, Cas,
        closeVars, exnessVars
<1>1. xResps \in Seq(OpenResponses) /\ eventPc \in {"idle", "stamp"}
  BY DEF LifeInv, CloseLast, BeforeClose, CloseUntold
<1>2. OpenResponses \subseteq ClosingResponses'
  BY DEF OpenResponses, ClosingResponses, Responses
<1>3. xResps' \in Seq(ClosingResponses')
  BY <1>1, <1>2, TailIndexed
<1>4. closePc \notin {"finish", "orphan", "unfilled"}
  BY DEF LifeInv, StatusAtClose, Afterwards
<1> QED
  BY <1>3, <1>4 DEF ClosedReported

\* Every other step: the leg that is gone stays gone, so the responses stay true.
LEMMA ResponsesStayTrue ==
  ASSUME OutcomeInv, [Next]_vars, ~ (OpenResponseFilled /\ Cas("primary_filled"))
  PROVE  /\ s_ticket' = s_ticket
         /\ TrackedLegGone => TrackedLegGone'
         /\ xResps \in Seq(ClosingResponses')
         /\ xResps # <<>> => /\ Head(xResps) \in ClosingResponses
                             /\ Tail(xResps) \in Seq(ClosingResponses')
<1>1. s_ticket' = s_ticket
  BY TicketOnlyByFill
<1>2. TrackedLegGone => TrackedLegGone'
  BY <1>1, TrackedLegStaysGone
<1>3. ClosingResponses \subseteq ClosingResponses'
  BY <1>2 DEF ClosingResponses
<1> QED
  BY <1>1, <1>2, <1>3 DEF OutcomeInv, ClosedReported

LEMMA ClosedReportedExecuted ==
  ASSUME OutcomeInv, [Next]_vars, OpenFills \/ OpenRejected \/ CloseFills \/ CloseRejected
  PROVE  xResps' \in Seq(ClosingResponses')
<1>a. ~ (OpenResponseFilled /\ Cas("primary_filled"))
  BY DEF OpenFills, OpenRejected, CloseFills, CloseRejected, OpenResponseFilled, TakeResponse,
     ExnessUnchanged, LoopsUnchanged, TakeCommand
<1>b. xResps \in Seq(ClosingResponses') /\ s_ticket' = s_ticket
  BY <1>a, ResponsesStayTrue
<1>c. /\ xCmds # <<>> => /\ Head(xCmds) \in Commands
                         /\ Head(xCmds).action = "close" => Head(xCmds).ticket = s_ticket
      /\ issued \in Nat
  BY HeadOfCommands DEF OutcomeInv, LifeInv, IInv, Typed, TypeOK, TrackedLeg, TrackedCommands
<1>1. CASE OpenFills
  <2>1. [action |-> "open", attempt |-> Head(xCmds).attempt,
         status |-> "filled", ticket |-> issued + 1] \in ClosingResponses'
    BY <1>c, <1>1
    DEF OpenFills, TakeCommand, ClosingResponses, Commands, Responses, Tickets, NoTicket
  <2>2. Respond("open", "filled", issued + 1)
    BY <1>1 DEF OpenFills
  <2> QED
    BY <1>b, <2>1, <2>2, AppendIndexed DEF Respond
<1>2. CASE OpenRejected
  <2>1. [action |-> "open", attempt |-> Head(xCmds).attempt,
         status |-> "rejected", ticket |-> NoTicket] \in ClosingResponses'
    BY <1>c, <1>2 DEF OpenRejected, TakeCommand, ClosingResponses, Commands, Responses
  <2> QED
    BY <1>b, <1>2, <2>1, AppendIndexed DEF OpenRejected, Respond
<1>3. CASE CloseFills
  <2>1. TrackedLegGone'
    BY <1>b, <1>c, <1>3 DEF CloseFills, TakeCommand, TrackedLegGone
  <2>2. [action |-> "close", attempt |-> Head(xCmds).attempt,
         status |-> "closed", ticket |-> NoTicket] \in ClosingResponses'
    BY <1>c, <1>3, <2>1
    DEF CloseFills, TakeCommand, ClosingResponses, Commands, Responses
  <2> QED
    BY <1>b, <1>3, <2>2, AppendIndexed DEF CloseFills, Respond
<1>4. CASE CloseRejected
  <2>1. [action |-> "close", attempt |-> Head(xCmds).attempt,
         status |-> "rejected", ticket |-> NoTicket] \in ClosingResponses'
    BY <1>c, <1>4 DEF CloseRejected, TakeCommand, ClosingResponses, Commands, Responses
  <2> QED
    BY <1>b, <1>4, <2>1, AppendIndexed DEF CloseRejected, Respond
<1> QED
  BY <1>1, <1>2, <1>3, <1>4

LEMMA ClosedReportedStep ==
  ASSUME OutcomeInv, [Next]_vars, ~ (OpenResponseFilled /\ Cas("primary_filled"))
  PROVE  ClosedReported'
<1> USE DEF rowVars, indexVars, ftmoVars, openVars, closeVars, loopVars, streamVars, exnessVars,
        faultVars
<1>a. /\ TrackedLegGone => TrackedLegGone'
      /\ xResps \in Seq(ClosingResponses')
      /\ xResps # <<>> => Tail(xResps) \in Seq(ClosingResponses')
      /\ xResps # <<>> /\ Head(xResps).status = "closed" => TrackedLegGone
  BY ResponsesStayTrue DEF ClosingResponses
<1>b. /\ issued \in Nat /\ issued' \in Nat /\ issued <= issued'
      /\ ~ gaveUp' => ~ gaveUp
      /\ misread \subseteq misread'
  BY GoneStaysGone, NotGivenUpBackwards DEF OutcomeInv, LifeInv, IInv, Typed, TypeOK
<1>c. eventPc \in {"stamp", "complete"} /\ issued <= 1 => TrackedLegGone
  BY <1>b DEF OutcomeInv, ClosedReported, TrackedLegGone
<1>d. s_ticket = NoTicket => TrackedLegGone
  BY DEF OutcomeInv, LifeInv, IInv, Typed, TypeOK, Tickets, TrackedLegGone
<1>e. ClosedReported
  BY DEF OutcomeInv
<1>f. UNCHANGED <<xResps, eventPc, status, s_status, closePc, issued, positions>> => ClosedReported'
  BY <1>a, <1>b, <1>e DEF ClosedReported
<1>1. CASE OpenTask
  BY <1>a, <1>b, <1>e, <1>1 DEF OpenTask, OpenMark, OpenPush, OpenLink, OpenSeesFilled,
     OpenSeesRejected, OpenTimesOut, OpenReset, OpenFinalize, OpenUnchanged, ClosedReported
<1>2. CASE CancelSeesNoFill
  <2>1. ~ gaveUp => TrackedLegGone \/ issued > 1
    BY <1>b, <1>d, <1>e, <1>2 DEF CancelSeesNoFill, OutcomeInv, FillKept, BeforeClose, ClosedReported
  <2> QED
    BY <1>a, <1>b, <1>e, <1>2, <2>1 DEF CancelSeesNoFill, CloseUnchanged, CloseGoto, ClosedReported
<1>3. CASE CloseTask /\ ~ CancelSeesNoFill
  BY <1>a, <1>b, <1>e, <1>3 DEF CloseTask, CloseTakeEvent, CloseStamp, CloseLock, CloseRead,
     CloseInitiate, CloseOrphan, ClosePush, CloseLink, CloseSeesClosed, CloseSeesRejected,
     CloseTimesOut, CloseReset, CloseFinish, CloseFail, CloseRelease, CancelMark,
     CancelSeesLateFill, CancelRelock, CancelPrimaryOnly, CloseUnchanged, CloseGoto, CloseNext,
     CloseBranch, ClosedReported
<1>k. CASE BookTask
  BY <1>a, <1>b, <1>e, <1>k, BookFrame DEF ClosedReported
<1>4. CASE FtmoResponseLoop
  BY <1>a, <1>b, <1>e, <1>4 DEF FtmoResponseLoop, FtmoFilled, FtmoAccepted, FtmoLink, FtmoSpawn, FtmoRejected,
     FtmoStep, LoopsUnchanged, ClosedReported
<1>5. CASE ExnessResponseLoop
  BY <1>a, <1>b, <1>e, <1>5 DEF ExnessResponseLoop, ResponseDropped, LinkTicket,
     OpenResponseFilled, OpenResponseRejected, CloseResponseClosed, CloseResponseRejected,
     TakeResponse, ExnessUnchanged, LoopsUnchanged, ClosedReported
<1>6. CASE EventExternal \/ EventServerInitiated
  <2>1. PICK pc \in {"idle", "stamp", "complete"} : TakeEvent(pc)
    BY <1>6 DEF EventExternal, EventServerInitiated
  <2>2. Head(xEvents) \in GoneEvents
    BY <2>1, TailIndexed DEF TakeEvent, OutcomeInv, TicketsIssued
  <2>3. issued >= 1 /\ (issued = 1 => positions \subseteq misread)
    BY <1>b, <2>2 DEF GoneEvents, OutcomeInv, TicketsIssued
  <2> QED
    BY <1>a, <1>b, <1>e, <2>1, <2>3 DEF TakeEvent, EventUnchanged, ExnessUnchanged, LoopsUnchanged,
       ClosedReported
<1>7. CASE EventDropped \/ EventStamp \/ EventComplete \/ EventUnlock
  BY <1>a, <1>b, <1>c, <1>e, <1>7 DEF EventDropped, EventStamp, EventComplete, EventUnlock,
     TakeEvent, EventUnchanged, ExnessUnchanged, LoopsUnchanged, ClosedReported
<1>8. CASE OpenFills \/ OpenRejected \/ CloseFills \/ CloseRejected
  <2>1. xResps' \in Seq(ClosingResponses')
    BY <1>8, ClosedReportedExecuted
  <2>2. UNCHANGED <<eventPc, status, s_status, closePc, gaveUp>>
    BY <1>8 DEF OpenFills, OpenRejected, CloseFills, CloseRejected
  <2>3. eventPc \in {"stamp", "complete"} => issued' >= 1 /\ (issued' = 1 => positions' \subseteq misread')
    BY <1>b, <1>e, <1>8 DEF OpenFills, OpenRejected, CloseFills, CloseRejected, ClosedReported
  <2> QED
    BY <1>a, <1>b, <1>e, <2>1, <2>2, <2>3 DEF ClosedReported
<1>9. CASE \/ NoticeNew \/ LoseCommand \/ PollBlind
           \/ \E ticket \in seen : Reports(ticket)
  BY <1>b, <1>f, <1>9 DEF Reports, NoticeNew, LoseCommand, ReportClosed, ReportClosedAgain, ReportClosedLost, PollBlind,
     MoveSnapshot, EmitClosed, BuildClosed
<1>10. CASE \E ticket \in positions : ExternalClose(ticket)
  BY <1>a, <1>b, <1>e, <1>10 DEF ExternalClose, ClosedReported
<1>11. CASE Crash
  <2>1. xResps' \in Seq(ClosingResponses')
    BY <1>a, <1>11, SuffixTyped DEF Crash
  <2> QED
    BY <1>a, <1>b, <1>e, <1>11, <2>1 DEF Crash, ClosedReported
<1>12. CASE Ftmo \/ LockExpires \/ UNCHANGED vars
  BY <1>f, <1>12 DEF Ftmo, PrimaryFills, PrimaryAccepted, PrimaryTrips, PrimaryCancelled,
     LeavesBook, PrimaryRejected, PrimaryCloses, PublishClosed,
     FtmoUnchanged, LockExpires, vars
<1> QED
  BY <1>k, <1>1, <1>2, <1>3, <1>4, <1>5, <1>6, <1>7, <1>8, <1>9, <1>10, <1>11, <1>12
  DEF Next, Server, ExnessClient, ExnessFaults, Reports, ExnessEventLoop

LEMMA AlwaysOutcomeInv == Spec => []OutcomeInv
<1>1. Init => OutcomeInv
  BY InitLifeInv, InitOneAttempt, InitTicketsIssued, InitFillKept, InitClosedReported DEF OutcomeInv
<1>2. OutcomeInv /\ [Next]_vars => OutcomeInv'
  <2>1. OutcomeInv /\ [Next]_vars => ClosedReported'
    BY ClosedReportedHedged, ClosedReportedStep
  <2>2. OutcomeInv /\ [Next]_vars => (LifeInv /\ LinkedLast /\ OneAttempt /\ TicketsIssued /\ FillKept)'
    BY NextLifeInv, LinkedLastStep, OneAttemptStep, TicketsIssuedStep, FillKeptStep
    DEF OutcomeInv, LifeInv
  <2> QED
    BY <2>1, <2>2 DEF OutcomeInv
<1> QED
  BY <1>1, <1>2, PTL DEF Spec

\* An order that ends as closed, without an attempt given up on and with one
\* position at most, has left no position on the secondary leg it tracked.
THEOREM ClosedLegIsGone == Spec => []ClosedMeansTrackedLegGone
<1>1. OutcomeInv => ClosedMeansTrackedLegGone
  BY DEF OutcomeInv, ClosedReported, TrackedLegGone, ClosedMeansTrackedLegGone
<1> QED
  BY <1>1, AlwaysOutcomeInv, PTL
=============================================================================
