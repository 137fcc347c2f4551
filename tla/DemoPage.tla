------------------------------ MODULE DemoPage ------------------------------
(***************************************************************************)
(* The demo page (app.js) and the proxy behind it: mint a packet, hand it  *)
(* to the mesh, poll for its settlement, and replay the same packet.       *)
(*                                                                         *)
(* A flow is one invocation of sendNewPayment or replayPacket.  Flows      *)
(* share the page's state and buttons and interleave at their awaits: the  *)
(* send button stays enabled during a replay.                              *)
(***************************************************************************)
EXTENDS Integers, Sequences, FiniteSets

CONSTANTS
  Flow,          \* slots for event handlers in flight
  Packet,        \* packets the sender may mint
  NoPacket,      \* state.packet = null; also a settled amount not yet seen
  AmountOf,      \* [Packet -> Nat]: the amount sealed in a packet
  MaxAttempts    \* bound: attempts with one packet

ASSUME PageAssumption ==
  /\ NoPacket \notin Packet
  /\ AmountOf \in [Packet -> Nat]
  /\ NoPacket \notin Nat
  /\ MaxAttempts \in Nat \ {0}

VARIABLES
  packet,         \* state.packet and state.idempotencyKey, always set together
  attempts,       \* state.attempts
  settledAmount,  \* state.settledAmount
  rows,           \* the attempts table, each row with the packet it was sent for
  status,         \* the status line
  sendDisabled, replayDisabled,
  at,             \* [Flow -> the await a flow is at]
  kind,           \* [Flow -> which handler it is]
  flow,           \* [Flow -> its local variables: attempt, before, key, sent]
  minted,         \* packets the sender has minted
  handed,         \* packets that went into the mesh
  table,          \* packets with a settlement row
  overlapped      \* a payment was started while a replay was in flight

pageVars    == <<packet, attempts, settledAmount, rows, status>>
buttonVars  == <<sendDisabled, replayDisabled>>
flowVars    == <<at, kind, flow>>
backendVars == <<minted, handed, table>>
allVars == <<pageVars, buttonVars, flowVars, backendVars, overlapped>>

Amount   == Nat \cup {NoPacket}
Sighting == {"Settled", "Duplicate refused", "Unexpected change"}
RowKind  == Sighting \cup {"Refused by mesh", "No settlement seen"}
PageRow  == [outcome : RowKind, of : Packet]
Local    == [attempt : Nat, before : Amount, key : Packet \cup {NoPacket},
             sent : Packet \cup {NoPacket}]
NoLocal  == [attempt |-> 0, before |-> NoPacket, key |-> NoPacket, sent |-> NoPacket]

Busy(f) == at[f] # "idle"

-----------------------------------------------------------------------------
PageInit ==
  /\ packet = NoPacket
  /\ attempts = 0
  /\ settledAmount = NoPacket
  /\ rows = <<>>
  /\ status = "none"
  /\ sendDisabled = FALSE
  /\ replayDisabled = TRUE
  /\ at = [f \in Flow |-> "idle"]
  /\ kind = [f \in Flow |-> "send"]
  /\ flow = [f \in Flow |-> NoLocal]
  /\ minted = {}
  /\ handed = {}
  /\ table = {}
  /\ overlapped = FALSE

\* Mutant of ClickSend: the attempts table is not emptied.
ClickSendKeepsRows(f) ==
  /\ ~Busy(f)
  /\ ~sendDisabled
  /\ minted # Packet
  /\ packet' = NoPacket
  /\ attempts' = 0
  /\ settledAmount' = NoPacket
  /\ status' = "pending"
  /\ sendDisabled' = TRUE
  /\ replayDisabled' = TRUE
  /\ at' = [at EXCEPT ![f] = "mint"]
  /\ kind' = [kind EXCEPT ![f] = "send"]
  /\ overlapped' = (overlapped \/ \E g \in Flow : Busy(g))
  /\ UNCHANGED <<rows, flow, backendVars>>

\* sendNewPayment up to the first await: everything is reset for a new packet.
ClickSend(f) ==
  /\ ~Busy(f)
  /\ ~sendDisabled
  /\ minted # Packet
  /\ packet' = NoPacket
  /\ attempts' = 0
  /\ settledAmount' = NoPacket
  /\ rows' = <<>>
  /\ status' = "pending"
  /\ sendDisabled' = TRUE
  /\ replayDisabled' = TRUE
  /\ at' = [at EXCEPT ![f] = "mint"]
  /\ kind' = [kind EXCEPT ![f] = "send"]
  /\ overlapped' = (overlapped \/ \E g \in Flow : Busy(g))
  /\ UNCHANGED <<flow, backendVars>>

\* The early return for a payer who pays himself: the page keeps its packet.
SamePayer ==
  /\ ~sendDisabled
  /\ status' = "rejected"
  /\ UNCHANGED <<packet, attempts, settledAmount, rows, buttonVars, flowVars,
                 backendVars, overlapped>>

\* submitAndTrack up to its first await: one more attempt, the packet goes out.
Submitting(f, p) ==
  /\ attempts' = attempts + 1
  /\ status' = "pending"
  /\ at' = [at EXCEPT ![f] = "submit"]
  /\ flow' = [flow EXCEPT ![f] = [NoLocal EXCEPT !.attempt = attempts + 1, !.sent = p]]
  /\ handed' = handed \cup {p}

\* mintPacket returned.
Minted(f, p) ==
  /\ at[f] = "mint"
  /\ p \notin minted
  /\ minted' = minted \cup {p}
  /\ packet' = p
  /\ Submitting(f, p)
  /\ UNCHANGED <<settledAmount, rows, buttonVars, kind, table, overlapped>>

\* Mutant of ClickReplay: neither the button nor the packet is looked at.
ReplayUnguarded(f) ==
  /\ ~Busy(f)
  /\ attempts < MaxAttempts
  /\ replayDisabled' = TRUE
  /\ kind' = [kind EXCEPT ![f] = "replay"]
  /\ Submitting(f, packet)
  /\ UNCHANGED <<packet, settledAmount, rows, sendDisabled, minted, table, overlapped>>

\* replayPacket up to its first await.
ClickReplay(f) ==
  /\ ~Busy(f)
  /\ ~replayDisabled
  /\ packet # NoPacket
  /\ attempts < MaxAttempts
  /\ replayDisabled' = TRUE
  /\ kind' = [kind EXCEPT ![f] = "replay"]
  /\ Submitting(f, packet)
  /\ UNCHANGED <<packet, settledAmount, rows, sendDisabled, minted, table, overlapped>>

\* Mutant of Done: a replay's finally re-enables its button unconditionally.
DoneReplayEnabled(f, replay) ==
  /\ at' = [at EXCEPT ![f] = "idle"]
  /\ flow' = [flow EXCEPT ![f] = NoLocal]
  /\ sendDisabled' = (sendDisabled /\ kind[f] # "send")
  /\ replayDisabled' = IF kind[f] = "replay" THEN FALSE ELSE replay
  /\ UNCHANGED <<packet, attempts, kind, backendVars, overlapped>>

\* Mutant of Done: both handlers re-enable both buttons.
DoneSendEnabled(f, replay) ==
  /\ at' = [at EXCEPT ![f] = "idle"]
  /\ flow' = [flow EXCEPT ![f] = NoLocal]
  /\ sendDisabled' = FALSE
  /\ replayDisabled' = IF kind[f] = "replay" THEN packet = NoPacket ELSE replay
  /\ UNCHANGED <<packet, attempts, kind, backendVars, overlapped>>

\* The handlers' finally blocks; replay is what submitAndTrack left of the button.
Done(f, replay) ==
  /\ at' = [at EXCEPT ![f] = "idle"]
  /\ flow' = [flow EXCEPT ![f] = NoLocal]
  /\ sendDisabled' = (sendDisabled /\ kind[f] # "send")
  /\ replayDisabled' = IF kind[f] = "replay" THEN packet = NoPacket ELSE replay
  /\ UNCHANGED <<packet, attempts, kind, backendVars, overlapped>>

AddAttemptRow(f, outcome) ==
  rows' = Append(rows, [outcome |-> outcome, of |-> flow[f].sent])

\* A call rejects, or minting is refused: sendNewPayment reports it, a replay's
\* error goes to the console.  No attempt is listed.
Throws(f) ==
  /\ Busy(f)
  /\ status' = IF kind[f] = "send" THEN "rejected" ELSE status
  /\ Done(f, replayDisabled)
  /\ UNCHANGED <<settledAmount, rows>>

\* The proxy or the mesh answered with an error.
Refused(f) ==
  /\ at[f] = "submit"
  /\ status' = "rejected"
  /\ AddAttemptRow(f, "Refused by mesh")
  /\ Done(f, packet = NoPacket)
  /\ UNCHANGED settledAmount

\* The mesh answered 202.  The key to poll for is read only now.
Accepted(f) ==
  /\ at[f] = "submit"
  /\ at' = [at EXCEPT ![f] = "poll"]
  /\ status' = "pending"
  /\ flow' = [flow EXCEPT ![f].before = settledAmount, ![f].key = packet]
  /\ UNCHANGED <<packet, attempts, settledAmount, rows, buttonVars, kind, backendVars,
                 overlapped>>

\* What the page makes of a settlement it finds.
OutcomeSeen(f, amount) ==
  IF flow[f].attempt = 1 THEN "Settled"
  ELSE IF flow[f].before = amount THEN "Duplicate refused"
  ELSE "Unexpected change"

\* Mutant of SettlementSeen: an error body is taken for a settlement.
SeenWithoutRow(f) ==
  /\ at[f] = "poll"
  /\ flow[f].key \in Packet
  /\ settledAmount' = AmountOf[flow[f].key]
  /\ AddAttemptRow(f, OutcomeSeen(f, AmountOf[flow[f].key]))
  /\ status' = "settled"
  /\ Done(f, FALSE)

\* Mutant of SettlementSeen: the amount is shown but not remembered.
SeenNotRemembered(f) ==
  /\ at[f] = "poll"
  /\ flow[f].key \in table
  /\ AddAttemptRow(f, OutcomeSeen(f, AmountOf[flow[f].key]))
  /\ status' = "settled"
  /\ Done(f, FALSE)
  /\ UNCHANGED settledAmount

SettlementSeen(f) ==
  /\ at[f] = "poll"
  /\ flow[f].key \in table
  /\ settledAmount' = AmountOf[flow[f].key]
  /\ AddAttemptRow(f, OutcomeSeen(f, AmountOf[flow[f].key]))
  /\ status' = "settled"
  /\ Done(f, FALSE)

\* Mutant of PollTimesOut: no deadline.
PollsForever(f) == FALSE

\* The deadline is over; the last poll may have missed a row that is there by now,
\* because of its age or because the proxy answered 429 or 502.
PollTimesOut(f) ==
  /\ at[f] = "poll"
  /\ status' = "pending"
  /\ AddAttemptRow(f, "No settlement seen")
  /\ Done(f, FALSE)
  /\ UNCHANGED settledAmount

\* The settlement service: what went into the mesh may settle at any time, once,
\* even if the page was told that the mesh refused it.
Settle(p) ==
  /\ p \in handed \ table
  /\ table' = table \cup {p}
  /\ UNCHANGED <<pageVars, buttonVars, flowVars, minted, handed, overlapped>>

-----------------------------------------------------------------------------
FlowStep(f) ==
  \/ \E p \in Packet : Minted(f, p)
  \/ Refused(f) \/ Accepted(f)
  \/ SettlementSeen(f) \/ PollTimesOut(f)

PageNext ==
  \/ \E f \in Flow : ClickSend(f) \/ ClickReplay(f) \/ FlowStep(f) \/ Throws(f)
  \/ SamePayer
  \/ \E p \in Packet : Settle(p)

\* Nobody has to click, nothing has to settle or to fail, but every call is
\* answered (the proxy's client has a timeout) and the polling loop has a deadline.
PageSpec == PageInit /\ [][PageNext]_allVars /\ \A f \in Flow : WF_allVars(FlowStep(f))

-----------------------------------------------------------------------------
\* Every variable has its type.
PageTypeOK ==
  /\ packet \in Packet \cup {NoPacket}
  /\ attempts \in Nat
  /\ settledAmount \in Amount
  /\ rows \in Seq(PageRow)
  /\ status \in {"none", "pending", "settled", "rejected"}
  /\ sendDisabled \in BOOLEAN
  /\ replayDisabled \in BOOLEAN
  /\ at \in [Flow -> {"idle", "mint", "submit", "poll"}]
  /\ kind \in [Flow -> {"send", "replay"}]
  /\ flow \in [Flow -> Local]
  /\ minted \subseteq Packet
  /\ handed \subseteq minted
  /\ table \subseteq handed
  /\ overlapped \in BOOLEAN

\* The send button is disabled exactly while one payment is being sent, so two
\* never are, whatever replays are in flight (the two finally blocks).
OneSender ==
  /\ sendDisabled <=> \E f \in Flow : Busy(f) /\ kind[f] = "send"
  /\ \A f, g \in Flow :
       Busy(f) /\ Busy(g) /\ kind[f] = "send" /\ kind[g] = "send" => f = g

\* The replay button is only enabled while the page has a packet to replay, also
\* when an old replay ends after the page was reset (replayPacket).
ReplayHasPacket == ~replayDisabled => packet # NoPacket

\* As long as payments and replays do not overlap, the status line says "settled"
\* only of a packet that has a settlement row (submitAndTrack, fetchSettlement).
SettledIsTrue == status = "settled" /\ ~overlapped => packet \in table

\* As long as they do not overlap, every attempt listed is one with the packet on
\* display (the reset in sendNewPayment).
RowsAreOwn == ~overlapped => \A i \in DOMAIN rows : rows[i].of = packet

\* As long as they do not overlap, the page says "Duplicate refused" at exactly the
\* later sightings of a settlement: the alarm "the settled amount changed" can only
\* be the first sighting of a packet whose first attempt saw none (submitAndTrack).
AlarmOnlyAtFirstSight ==
  ~overlapped =>
    \A i \in DOMAIN rows :
      rows[i].outcome \in Sighting =>
        (rows[i].outcome = "Duplicate refused"
           <=> \E j \in 1..(i - 1) : rows[j].outcome \in Sighting)

\* The send button comes back (mintPacket, submitAndTrack, the finally block).
SendComesBack == sendDisabled ~> ~sendDisabled
=============================================================================
