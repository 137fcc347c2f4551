----------------------------- MODULE PageProofs -----------------------------
(***************************************************************************)
(* The invariants of the demo page, for any number of handlers in flight,  *)
(* packets and attempts.                                                   *)
(***************************************************************************)
EXTENDS DemoPage, TLAPS

USE PageAssumption
USE DEF allVars, pageVars, buttonVars, flowVars, backendVars

\* A flow behind its first await has sent a packet, and a payment's is the one the
\* page holds; the page holds nothing that was not minted.
FlowsOK ==
  /\ packet # NoPacket => packet \in minted
  /\ \A f \in Flow :
       at[f] \in {"submit", "poll"} =>
         /\ flow[f].sent \in Packet
         /\ kind[f] = "send" => packet # NoPacket

PageInv == PageTypeOK /\ FlowsOK /\ OneSender /\ ReplayHasPacket

AtMintOrBefore(f) == at[f] \in {"idle", "mint"}

Seen == \E i \in DOMAIN rows : rows[i].outcome \in Sighting

\* Without overlap one flow runs at a time and works on the page's own packet; what
\* it read before its await is still what the page holds.
OwnFlow(f) ==
  Busy(f) =>
    /\ replayDisabled
    /\ \A g \in Flow : Busy(g) => g = f
    /\ at[f] = "mint" => packet = NoPacket /\ kind[f] = "send"
    /\ ~AtMintOrBefore(f) =>
         /\ flow[f].sent = packet
         /\ flow[f].attempt = attempts
         /\ attempts = 1 => rows = <<>>
    /\ at[f] = "poll" => flow[f].key = packet /\ flow[f].before = settledAmount

\* Without overlap the amount is remembered exactly when it was seen.
PageInStep ==
  /\ packet = NoPacket => rows = <<>> /\ settledAmount = NoPacket
  /\ packet # NoPacket => attempts > 0
  /\ settledAmount \in {NoPacket} \cup {AmountOf[p] : p \in Packet \cap {packet}}
  /\ settledAmount # NoPacket <=> Seen
  /\ \A f \in Flow : OwnFlow(f)

Apart == ~overlapped => PageInStep /\ SettledIsTrue /\ RowsAreOwn /\ AlarmOnlyAtFirstSight

LEMMA NoLocalType == NoLocal \in Local
BY DEF NoLocal, Local, Amount

\* A flow's local variables as it submits (Submitting).
LEMMA NewLocal ==
  ASSUME NEW n \in Nat, NEW p \in Packet
  PROVE  [NoLocal EXCEPT !.attempt = n, !.sent = p] \in Local
BY NoLocalType DEF Local

LEMMA PageInvInit == PageInit => PageInv
<1> SUFFICES ASSUME PageInit PROVE PageInv
  OBVIOUS
<1>1. PageTypeOK
  <2>1. rows \in Seq(PageRow) /\ settledAmount \in Amount
    BY DEF PageInit, Amount
  <2> QED BY <2>1, NoLocalType DEF PageInit, PageTypeOK
<1>2. FlowsOK /\ OneSender /\ ReplayHasPacket
  BY DEF PageInit, FlowsOK, OneSender, ReplayHasPacket, Busy
<1> QED BY <1>1, <1>2 DEF PageInv

\* The steps that end a flow have their own shape: the page's packet stays.
LEMMA DoneStep ==
  ASSUME PageInv, NEW f \in Flow, Busy(f), NEW replay \in BOOLEAN,
         replay = FALSE => packet # NoPacket \/ kind[f] = "replay",
         Done(f, replay),
         settledAmount' \in Amount, rows' \in Seq(PageRow),
         status' \in {"none", "pending", "settled", "rejected"}
  PROVE  PageInv'
<1>1. PageTypeOK'
  BY DEF PageInv, PageTypeOK, Done, Local, NoLocal, Amount
<1>2. FlowsOK'
  BY DEF PageInv, PageTypeOK, FlowsOK, Done
<1>3. OneSender'
  BY DEF PageInv, PageTypeOK, OneSender, Done, Busy
<1>4. ReplayHasPacket'
  BY DEF PageInv, PageTypeOK, ReplayHasPacket, Done
<1> QED BY <1>1, <1>2, <1>3, <1>4 DEF PageInv

LEMMA RowAdded ==
  ASSUME PageInv, NEW f \in Flow, at[f] \in {"submit", "poll"},
         NEW o \in RowKind, AddAttemptRow(f, o)
  PROVE  rows' \in Seq(PageRow)
BY DEF PageInv, PageTypeOK, FlowsOK, AddAttemptRow, PageRow

LEMMA PageInvStep == PageInv /\ [PageNext]_allVars => PageInv'
<1> SUFFICES ASSUME PageInv, [PageNext]_allVars PROVE PageInv'
  OBVIOUS
<1>1. ASSUME NEW f \in Flow, ClickSend(f) PROVE PageInv'
  <2>1. PageTypeOK'
    BY <1>1 DEF PageInv, PageTypeOK, ClickSend, Amount
  <2>2. FlowsOK' /\ OneSender' /\ ReplayHasPacket'
    BY <1>1 DEF PageInv, PageTypeOK, FlowsOK, OneSender, ReplayHasPacket, ClickSend, Busy
  <2> QED BY <2>1, <2>2 DEF PageInv
<1>2. ASSUME NEW f \in Flow, ClickReplay(f) PROVE PageInv'
  <2> DEFINE new == [NoLocal EXCEPT !.attempt = attempts + 1, !.sent = packet]
  <2>0. new \in Local
    <3>1. attempts + 1 \in Nat /\ packet \in Packet
      BY <1>2 DEF PageInv, PageTypeOK, ClickReplay
    <3> QED BY <3>1, NewLocal
  <2>1. PageTypeOK'
    <3>1. flow' \in [Flow -> Local]
      BY <1>2, <2>0 DEF PageInv, PageTypeOK, ClickReplay, Submitting
    <3> QED BY <1>2, <3>1 DEF PageInv, PageTypeOK, FlowsOK, ClickReplay, Submitting
  <2>2. at' = [at EXCEPT ![f] = "submit"] /\ flow'[f].sent \in Packet
        /\ \A g \in Flow \ {f} : flow'[g] = flow[g]
    BY <1>2 DEF PageInv, PageTypeOK, ClickReplay, Submitting, NoLocal
  <2>3. FlowsOK'
    BY <1>2, <2>2 DEF PageInv, PageTypeOK, FlowsOK, ClickReplay
  <2>4. OneSender'
    BY <1>2, <2>2 DEF PageInv, PageTypeOK, OneSender, ClickReplay, Busy
  <2>5. ReplayHasPacket'
    BY <1>2 DEF PageInv, PageTypeOK, ReplayHasPacket, ClickReplay
  <2> QED BY <2>1, <2>3, <2>4, <2>5 DEF PageInv
<1>3. ASSUME NEW f \in Flow, NEW p \in Packet, Minted(f, p) PROVE PageInv'
  <2> DEFINE new == [NoLocal EXCEPT !.attempt = attempts + 1, !.sent = p]
  <2>0. new \in Local
    <3>1. attempts + 1 \in Nat
      BY DEF PageInv, PageTypeOK
    <3> QED BY <3>1, NewLocal
  <2>1. PageTypeOK'
    <3>1. flow' \in [Flow -> Local]
      BY <1>3, <2>0 DEF PageInv, PageTypeOK, Minted, Submitting
    <3> QED BY <1>3, <3>1 DEF PageInv, PageTypeOK, FlowsOK, Minted, Submitting
  <2>2. at' = [at EXCEPT ![f] = "submit"] /\ flow'[f].sent \in Packet
        /\ \A g \in Flow \ {f} : flow'[g] = flow[g]
    BY <1>3 DEF PageInv, PageTypeOK, Minted, Submitting, NoLocal
  <2>3. FlowsOK'
    BY <1>3, <2>2 DEF PageInv, PageTypeOK, FlowsOK, Minted
  <2>4. OneSender'
    BY <1>3, <2>2 DEF PageInv, PageTypeOK, OneSender, Minted, Busy
  <2>5. ReplayHasPacket'
    BY <1>3 DEF PageInv, PageTypeOK, ReplayHasPacket, Minted
  <2> QED BY <2>1, <2>3, <2>4, <2>5 DEF PageInv
<1>4. ASSUME NEW f \in Flow, Accepted(f) PROVE PageInv'
  <2> DEFINE new == [flow[f] EXCEPT !.before = settledAmount, !.key = packet]
  <2>0. new \in Local
    BY DEF PageInv, PageTypeOK, Local
  <2>1. PageTypeOK'
    <3>1. flow' = [flow EXCEPT ![f] = new]
      BY <1>4 DEF PageInv, PageTypeOK, Accepted, Local
    <3>2. flow' \in [Flow -> Local]
      BY <2>0, <3>1 DEF PageInv, PageTypeOK
    <3> QED BY <1>4, <3>2 DEF PageInv, PageTypeOK, Accepted
  <2>2. \A g \in Flow : flow'[g].sent = flow[g].sent
    BY <1>4 DEF PageInv, PageTypeOK, Accepted, Local
  <2>3. FlowsOK'
    BY <1>4, <2>2 DEF PageInv, PageTypeOK, FlowsOK, Accepted
  <2>4. OneSender' /\ ReplayHasPacket'
    BY <1>4 DEF PageInv, PageTypeOK, OneSender, ReplayHasPacket, Accepted, Busy
  <2> QED BY <2>1, <2>3, <2>4 DEF PageInv
<1>5. ASSUME NEW f \in Flow, Refused(f) PROVE PageInv'
  <2>1. rows' \in Seq(PageRow)
    BY <1>5, RowAdded DEF Refused, RowKind
  <2> QED BY <1>5, <2>1, DoneStep DEF Refused, Busy, PageInv, PageTypeOK
<1>6. ASSUME NEW f \in Flow, Throws(f) PROVE PageInv'
  BY <1>6, DoneStep DEF Throws, PageInv, PageTypeOK, ReplayHasPacket
<1>7. ASSUME NEW f \in Flow, SettlementSeen(f) PROVE PageInv'
  <2>1. rows' \in Seq(PageRow)
    BY <1>7, RowAdded DEF SettlementSeen, OutcomeSeen, RowKind, Sighting
  <2>2. settledAmount' \in Amount
    BY <1>7 DEF SettlementSeen, PageInv, PageTypeOK, Amount
  <2>3. packet # NoPacket \/ kind[f] = "replay"
    BY <1>7 DEF SettlementSeen, PageInv, PageTypeOK, FlowsOK
  <2> QED BY <1>7, <2>1, <2>2, <2>3, DoneStep DEF SettlementSeen, Busy
<1>8. ASSUME NEW f \in Flow, PollTimesOut(f) PROVE PageInv'
  <2>1. rows' \in Seq(PageRow)
    BY <1>8, RowAdded DEF PollTimesOut, RowKind
  <2>2. packet # NoPacket \/ kind[f] = "replay"
    BY <1>8 DEF PollTimesOut, PageInv, PageTypeOK, FlowsOK
  <2> QED BY <1>8, <2>1, <2>2, DoneStep DEF PollTimesOut, Busy, PageInv, PageTypeOK
<1>9. CASE SamePayer
  BY <1>9 DEF SamePayer, PageInv, PageTypeOK, FlowsOK, OneSender, ReplayHasPacket, Busy
<1>10. ASSUME NEW p \in Packet, Settle(p) PROVE PageInv'
  BY <1>10 DEF Settle, PageInv, PageTypeOK, FlowsOK, OneSender, ReplayHasPacket, Busy
<1>11. CASE UNCHANGED allVars
  BY <1>11 DEF PageInv, PageTypeOK, FlowsOK, OneSender, ReplayHasPacket, Busy
<1> QED
  BY <1>1, <1>2, <1>3, <1>4, <1>5, <1>6, <1>7, <1>8, <1>9, <1>10, <1>11
     DEF PageNext, FlowStep

LEMMA PageInvariant == PageSpec => []PageInv
<1>1. PageInit /\ [][PageNext]_allVars => []PageInv
  BY PageInvInit, PageInvStep, PTL
<1> QED BY <1>1, PTL DEF PageSpec

\* Every variable of the page keeps its type.
THEOREM PageTypeCorrect == PageSpec => []PageTypeOK
BY PageInvariant, PTL DEF PageInv

\* The send button is disabled exactly while a payment is being sent, and there is
\* never a second one (sendNewPayment, replayPacket).
THEOREM OnePaymentAtATime == PageSpec => []OneSender
BY PageInvariant, PTL DEF PageInv

\* The replay button is enabled only while there is a packet to replay (replayPacket).
THEOREM ReplayNeedsPacket == PageSpec => []ReplayHasPacket
BY PageInvariant, PTL DEF PageInv

-----------------------------------------------------------------------------
(* What the page reports, as long as payments and replays do not overlap. *)

\* What a row added to the attempts table leaves of it.
LEMMA Appended ==
  ASSUME NEW q \in Seq(PageRow), NEW r \in PageRow
  PROVE  /\ DOMAIN q = 1..Len(q)
         /\ DOMAIN Append(q, r) = 1..(Len(q) + 1)
         /\ \A i \in 1..Len(q) : Append(q, r)[i] = q[i]
         /\ Append(q, r)[Len(q) + 1] = r
         /\ Len(q) \in Nat
OBVIOUS

\* Positions of a sequence that has grown by one.
LEMMA Positions ==
  ASSUME NEW n \in Nat
  PROVE  /\ 1..n \subseteq 1..(n + 1) /\ n + 1 \in 1..(n + 1)
         /\ \A i \in 1..(n + 1) :
              /\ i \in 1..n \/ i = n + 1
              /\ 1..(i - 1) \subseteq 1..n
              /\ i = n + 1 => 1..(i - 1) = 1..n
OBVIOUS

\* A row that fits what was seen so far keeps the table right: it is the page's own
\* packet's, and it speaks of a duplicate exactly if there is an earlier sighting.
LEMMA RowFits ==
  ASSUME PageInv, RowsAreOwn, AlarmOnlyAtFirstSight, ~overlapped,
         NEW f \in Flow, at[f] \in {"submit", "poll"}, flow[f].sent = packet,
         NEW o \in RowKind, AddAttemptRow(f, o), packet' = packet,
         o \in Sighting => (o = "Duplicate refused" <=> Seen)
  PROVE  RowsAreOwn' /\ AlarmOnlyAtFirstSight' /\ (Seen' <=> Seen \/ o \in Sighting)
<1> DEFINE r == [outcome |-> o, of |-> flow[f].sent]
<1>1. rows \in Seq(PageRow) /\ r \in PageRow /\ rows' = Append(rows, r)
  BY DEF PageInv, PageTypeOK, FlowsOK, AddAttemptRow, PageRow
<1> HIDE DEF r
<1>2. PICK n \in Nat :
        /\ DOMAIN rows = 1..n /\ DOMAIN rows' = 1..(n + 1)
        /\ \A i \in 1..n : rows'[i] = rows[i]
        /\ rows'[n + 1] = r
  <2>0. rows \in Seq(PageRow) /\ r \in PageRow
    BY <1>1
  <2>a. /\ DOMAIN rows = 1..Len(rows)
        /\ DOMAIN Append(rows, r) = 1..(Len(rows) + 1)
        /\ \A i \in 1..Len(rows) : Append(rows, r)[i] = rows[i]
        /\ Append(rows, r)[Len(rows) + 1] = r
        /\ Len(rows) \in Nat
    BY <2>0, Appended
  <2>1. /\ DOMAIN rows = 1..Len(rows)
        /\ DOMAIN rows' = 1..(Len(rows) + 1)
        /\ \A i \in 1..Len(rows) : rows'[i] = rows[i]
        /\ rows'[Len(rows) + 1] = r
        /\ Len(rows) \in Nat
    BY <1>1, <2>a, Zenon
  <2> QED BY <2>1, Zenon
<1>3. r.outcome = o /\ r.of = packet
  BY DEF r
<1>4. \A i \in 1..(n + 1) : i \in 1..n \/ i = n + 1
  BY Positions, Zenon
<1>5. 1..n \subseteq 1..(n + 1) /\ n + 1 \in 1..(n + 1)
  BY Positions, Zenon
<1>6. RowsAreOwn'
  BY <1>2, <1>3, <1>4 DEF RowsAreOwn
<1>7. Seen' <=> Seen \/ o \in Sighting
  <2>1. Seen' <=> \E i \in 1..(n + 1) : rows'[i].outcome \in Sighting
    BY <1>2 DEF Seen, Sighting
  <2>2. Seen <=> \E i \in 1..n : rows'[i].outcome \in Sighting
    BY <1>2 DEF Seen
  <2> QED BY <1>2, <1>3, <1>4, <1>5, <2>1, <2>2
<1>8. AlarmOnlyAtFirstSight'
  <2> SUFFICES ASSUME NEW i \in 1..(n + 1), rows'[i].outcome \in Sighting
               PROVE  rows'[i].outcome = "Duplicate refused"
                        <=> \E j \in 1..(i - 1) : rows'[j].outcome \in Sighting
    BY <1>2 DEF AlarmOnlyAtFirstSight, Sighting
  <2>1. \A j \in 1..(i - 1) : j \in 1..n
    BY Positions, Zenon
  <2>2. \A j \in 1..(i - 1) : rows'[j] = rows[j]
    BY <1>2, <2>1
  <2>3. CASE i \in 1..n
    BY <1>2, <2>2, <2>3 DEF AlarmOnlyAtFirstSight
  <2>4. CASE i = n + 1
    <3>1. 1..(i - 1) = 1..n
      BY <2>4, Positions, Zenon
    <3> QED BY <1>2, <1>3, <2>2, <2>4, <3>1 DEF Seen
  <2> QED BY <1>4, <2>3, <2>4
<1> QED BY <1>6, <1>7, <1>8

\* When the only flow ends, none is left to be in step with.
LEMMA AllIdle ==
  ASSUME PageInv, PageInStep, NEW f \in Flow, Busy(f), NEW replay, Done(f, replay)
  PROVE  \A g \in Flow : OwnFlow(g)'
BY DEF PageInv, PageTypeOK, PageInStep, OwnFlow, Done, Busy

LEMMA ApartInit == PageInit => Apart
BY DEF PageInit, Apart, PageInStep, Seen, OwnFlow, Busy, SettledIsTrue, RowsAreOwn,
       AlarmOnlyAtFirstSight

LEMMA ApartStep == PageInv /\ Apart /\ [PageNext]_allVars => Apart'
<1> SUFFICES ASSUME PageInv, Apart, [PageNext]_allVars, ~overlapped'
             PROVE  /\ PageInStep' /\ SettledIsTrue'
                    /\ RowsAreOwn' /\ AlarmOnlyAtFirstSight'
  BY DEF Apart
<1>0. ~overlapped
  BY DEF PageInv, PageTypeOK, PageNext, FlowStep, ClickSend, ClickReplay, Minted, Refused,
         Accepted, SettlementSeen, PollTimesOut, Throws, SamePayer, Settle, Done
<1>a. PageInStep /\ SettledIsTrue /\ RowsAreOwn /\ AlarmOnlyAtFirstSight
  BY <1>0 DEF Apart
<1>1. ASSUME NEW f \in Flow, ClickSend(f)
      PROVE  PageInStep' /\ SettledIsTrue' /\ RowsAreOwn' /\ AlarmOnlyAtFirstSight'
  <2>1. \A g \in Flow : ~Busy(g)
    BY <1>1 DEF ClickSend
  <2>2. \A g \in Flow : OwnFlow(g)'
    BY <1>1, <2>1 DEF ClickSend, OwnFlow, Busy, AtMintOrBefore, PageInv, PageTypeOK
  <2>3. PageInStep'
    BY <1>1, <2>2 DEF ClickSend, PageInStep, Seen
  <2>4. SettledIsTrue' /\ RowsAreOwn' /\ AlarmOnlyAtFirstSight'
    BY <1>1 DEF ClickSend, SettledIsTrue, RowsAreOwn, AlarmOnlyAtFirstSight
  <2> QED BY <2>3, <2>4
<1>2. ASSUME NEW f \in Flow, ClickReplay(f)
      PROVE  PageInStep' /\ SettledIsTrue' /\ RowsAreOwn' /\ AlarmOnlyAtFirstSight'
  <2>1. \A g \in Flow : ~Busy(g)
    BY <1>a, <1>2 DEF ClickReplay, PageInStep, OwnFlow
  <2>2. flow'[f].sent = packet /\ flow'[f].attempt = attempts + 1
    BY <1>2 DEF ClickReplay, Submitting, NoLocal, PageInv, PageTypeOK
  <2>3. attempts' = attempts + 1 /\ attempts > 0 /\ attempts \in Nat
    BY <1>a, <1>2 DEF ClickReplay, Submitting, PageInStep, PageInv, PageTypeOK
  <2>4. \A g \in Flow : OwnFlow(g)'
    BY <1>2, <2>1, <2>2, <2>3
       DEF ClickReplay, Submitting, OwnFlow, Busy, AtMintOrBefore, PageInv, PageTypeOK
  <2>5. PageInStep'
    BY <1>a, <1>2, <2>3, <2>4 DEF ClickReplay, Submitting, PageInStep, Seen
  <2>6. SettledIsTrue' /\ RowsAreOwn' /\ AlarmOnlyAtFirstSight'
    BY <1>a, <1>2
    DEF ClickReplay, Submitting, SettledIsTrue, RowsAreOwn, AlarmOnlyAtFirstSight
  <2> QED BY <2>5, <2>6
<1>3. ASSUME NEW f \in Flow, NEW p \in Packet, Minted(f, p)
      PROVE  PageInStep' /\ SettledIsTrue' /\ RowsAreOwn' /\ AlarmOnlyAtFirstSight'
  <2>1. /\ \A g \in Flow : Busy(g) => g = f
        /\ packet = NoPacket /\ rows = <<>> /\ settledAmount = NoPacket /\ replayDisabled
    BY <1>a, <1>3 DEF Minted, PageInStep, OwnFlow, Busy
  <2>2. flow'[f].sent = p /\ flow'[f].attempt = attempts + 1
    BY <1>3 DEF Minted, Submitting, NoLocal, PageInv, PageTypeOK
  <2>3. attempts' = attempts + 1 /\ attempts \in Nat
    BY <1>3 DEF Minted, Submitting, PageInv, PageTypeOK
  <2>4. \A g \in Flow : OwnFlow(g)'
    BY <1>3, <2>1, <2>2, <2>3
       DEF Minted, Submitting, OwnFlow, Busy, AtMintOrBefore, PageInv, PageTypeOK
  <2>5. PageInStep'
    BY <1>a, <1>3, <2>1, <2>3, <2>4 DEF Minted, PageInStep, Seen
  <2>6. SettledIsTrue' /\ RowsAreOwn' /\ AlarmOnlyAtFirstSight'
    BY <1>3, <2>1 DEF Minted, Submitting, SettledIsTrue, RowsAreOwn, AlarmOnlyAtFirstSight
  <2> QED BY <2>5, <2>6
<1>4. ASSUME NEW f \in Flow, Accepted(f)
      PROVE  PageInStep' /\ SettledIsTrue' /\ RowsAreOwn' /\ AlarmOnlyAtFirstSight'
  <2>1. /\ flow'[f].sent = flow[f].sent /\ flow'[f].attempt = flow[f].attempt
        /\ flow'[f].key = packet /\ flow'[f].before = settledAmount
    BY <1>4 DEF Accepted, PageInv, PageTypeOK, Local
  <2>2. OwnFlow(f) /\ at[f] = "submit" /\ \A g \in Flow : Busy(g) => g = f
    BY <1>a, <1>4 DEF Accepted, PageInStep, OwnFlow, Busy
  <2>3. \A g \in Flow : OwnFlow(g)'
    BY <1>4, <2>1, <2>2 DEF Accepted, OwnFlow, Busy, AtMintOrBefore, PageInv, PageTypeOK
  <2>4. PageInStep'
    BY <1>a, <1>4, <2>3 DEF Accepted, PageInStep, Seen
  <2>5. SettledIsTrue' /\ RowsAreOwn' /\ AlarmOnlyAtFirstSight'
    BY <1>a, <1>4 DEF Accepted, SettledIsTrue, RowsAreOwn, AlarmOnlyAtFirstSight
  <2> QED BY <2>4, <2>5
<1>5. ASSUME NEW f \in Flow, Refused(f) \/ PollTimesOut(f)
      PROVE  PageInStep' /\ SettledIsTrue' /\ RowsAreOwn' /\ AlarmOnlyAtFirstSight'
  <2>1. PICK o \in {"Refused by mesh", "No settlement seen"} : AddAttemptRow(f, o)
    BY <1>5 DEF Refused, PollTimesOut
  <2>2. PICK replay : Done(f, replay)
    BY <1>5 DEF Refused, PollTimesOut
  <2>3. /\ at[f] \in {"submit", "poll"} /\ Busy(f) /\ flow[f].sent = packet
        /\ packet # NoPacket
    BY <1>a, <1>5
       DEF Refused, PollTimesOut, PageInStep, OwnFlow, AtMintOrBefore, Busy,
           PageInv, FlowsOK
  <2>4. RowsAreOwn' /\ AlarmOnlyAtFirstSight' /\ (Seen' <=> Seen)
    <3>1. o \in RowKind /\ o \notin Sighting /\ packet' = packet
      BY <2>2 DEF RowKind, Sighting, Done
    <3> QED BY <1>0, <1>a, <2>1, <2>3, <3>1, RowFits
  <2>5. PageInStep'
    BY <1>a, <1>5, <2>2, <2>3, <2>4, AllIdle DEF Refused, PollTimesOut, Done, PageInStep
  <2>6. SettledIsTrue'
    BY <1>5 DEF Refused, PollTimesOut, SettledIsTrue
  <2> QED BY <2>4, <2>5, <2>6
<1>6. ASSUME NEW f \in Flow, Throws(f)
      PROVE  PageInStep' /\ SettledIsTrue' /\ RowsAreOwn' /\ AlarmOnlyAtFirstSight'
  <2>1. PageInStep'
    BY <1>a, <1>6, AllIdle DEF Throws, Done, PageInStep, Seen
  <2>2. SettledIsTrue' /\ RowsAreOwn' /\ AlarmOnlyAtFirstSight'
    BY <1>0, <1>a, <1>6 DEF Throws, Done, SettledIsTrue, RowsAreOwn, AlarmOnlyAtFirstSight
  <2> QED BY <2>1, <2>2
<1>7. ASSUME NEW f \in Flow, SettlementSeen(f)
      PROVE  PageInStep' /\ SettledIsTrue' /\ RowsAreOwn' /\ AlarmOnlyAtFirstSight'
  <2> DEFINE amount == AmountOf[packet]
             o      == OutcomeSeen(f, amount)
  <2>1. /\ at[f] = "poll" /\ Busy(f) /\ flow[f].sent = packet /\ flow[f].key = packet
        /\ flow[f].before = settledAmount
        /\ flow[f].attempt = attempts /\ (attempts = 1 => rows = <<>>)
    BY <1>a, <1>7 DEF SettlementSeen, PageInStep, OwnFlow, AtMintOrBefore, Busy
  <2>2. packet \in table /\ packet \in Packet /\ amount \in Nat /\ amount # NoPacket
    BY <1>7, <2>1 DEF SettlementSeen, PageInv, PageTypeOK
  <2>3. AddAttemptRow(f, o) /\ settledAmount' = amount /\ Done(f, FALSE)
    BY <1>7, <2>1 DEF SettlementSeen
  <2>4. settledAmount = IF Seen THEN amount ELSE NoPacket
    BY <1>a, <2>2 DEF PageInStep
  <2>5. o \in Sighting /\ (o = "Duplicate refused" <=> Seen)
    <3>1. CASE attempts = 1
      BY <2>1, <3>1 DEF OutcomeSeen, Seen, Sighting
    <3>2. CASE attempts # 1
      BY <2>1, <2>2, <2>4, <3>2 DEF OutcomeSeen, Sighting
    <3> QED BY <3>1, <3>2
  <2> HIDE DEF o
  <2>6. RowsAreOwn' /\ AlarmOnlyAtFirstSight' /\ Seen'
    <3>1. o \in RowKind /\ packet' = packet
      BY <2>3, <2>5 DEF RowKind, Done
    <3> QED BY <1>0, <1>a, <2>1, <2>3, <2>5, <3>1, RowFits
  <2>7. PageInStep'
    BY <1>a, <2>1, <2>2, <2>3, <2>6, AllIdle DEF Done, PageInStep
  <2>8. SettledIsTrue'
    BY <2>2, <2>3 DEF Done, SettledIsTrue
  <2> QED BY <2>6, <2>7, <2>8
<1>8. ASSUME SamePayer \/ (\E p \in Packet : Settle(p)) \/ UNCHANGED allVars
      PROVE  PageInStep' /\ SettledIsTrue' /\ RowsAreOwn' /\ AlarmOnlyAtFirstSight'
  <2>1. /\ UNCHANGED <<packet, attempts, settledAmount, rows, buttonVars, flowVars, overlapped>>
        /\ status' \in {status, "rejected"} /\ table \subseteq table'
    BY <1>8 DEF SamePayer, Settle
  <2>2. PageInStep'
    BY <1>a, <2>1 DEF PageInStep, Seen, OwnFlow, Busy, AtMintOrBefore
  <2>3. SettledIsTrue' /\ RowsAreOwn' /\ AlarmOnlyAtFirstSight'
    BY <1>0, <1>a, <2>1 DEF SettledIsTrue, RowsAreOwn, AlarmOnlyAtFirstSight
  <2> QED BY <2>2, <2>3
<1> QED
  BY <1>1, <1>2, <1>3, <1>4, <1>5, <1>6, <1>7, <1>8 DEF PageNext, FlowStep

LEMMA ApartInvariant == PageSpec => []Apart
<1>1. PageInit /\ [][PageNext]_allVars /\ []PageInv => []Apart
  BY ApartInit, ApartStep, PTL
<1> QED BY <1>1, PageInvariant, PTL DEF PageSpec

\* Until a payment overlaps a replay, "settled" on the status line is backed by a
\* settlement row of the packet on display (submitAndTrack, fetchSettlement).
THEOREM SettledStatusIsTrue == PageSpec => []SettledIsTrue
<1>1. Apart => SettledIsTrue
  BY DEF Apart, SettledIsTrue
<1> QED BY <1>1, ApartInvariant, PTL

\* Until then the attempts listed are those of the packet on display.
THEOREM RowsBelong == PageSpec => []RowsAreOwn
<1>1. Apart => RowsAreOwn
  BY DEF Apart, RowsAreOwn
<1> QED BY <1>1, ApartInvariant, PTL

\* Until then "Duplicate refused" marks exactly the later sightings of a settlement,
\* and the alarm of a changed amount can only be the first (submitAndTrack).
THEOREM AlarmIsFirstSighting == PageSpec => []AlarmOnlyAtFirstSight
<1>1. Apart => AlarmOnlyAtFirstSight
  BY DEF Apart, AlarmOnlyAtFirstSight
<1> QED BY <1>1, ApartInvariant, PTL
=============================================================================
