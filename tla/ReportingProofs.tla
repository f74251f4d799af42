-------------------------- MODULE ReportingProofs --------------------------
(***************************************************************************)
(* Central's picture is true, for every number of crossings, every size of *)
(* the history, and any sequence of failures and restarts.                 *)
(***************************************************************************)
EXTENDS Reporting, FiniteSetTheorems, WellFoundedInduction, TLAPS

(***************************************************************************)
(* The history.                                                            *)
(***************************************************************************)
\* A non-empty set of naturals has a least element.
LEMMA NatMin ==
  ASSUME NEW S \in SUBSET Nat, S # {}
  PROVE  \E x \in S : \A y \in S : x <= y
<1> DEFINE T == {0 .. x : x \in S}
           R == StrictSubsetOrdering(Nat)
<1>1. T \subseteq FiniteSubsetsOf(Nat)
  <2>1. ASSUME NEW x \in S PROVE 0 .. x \in FiniteSubsetsOf(Nat)
    <3>1. x \in Int /\ 0 .. x \in SUBSET Nat
      OBVIOUS
    <3>2. IsFiniteSet(0 .. x)
      BY <3>1, FS_Interval
    <3> QED
      BY <3>1, <3>2 DEF FiniteSubsetsOf
  <2> QED
    BY <2>1
<1>2. IsWellFoundedOn(R, FiniteSubsetsOf(Nat))
  BY FS_StrictSubsetOrderingWellFounded
<1>3. T # {}
  OBVIOUS
<1> HIDE DEF T, R
<1>4. PICK I \in T : \A J \in T : <<J, I>> \notin R
  BY <1>1, <1>2, <1>3, WFMin
<1>5. PICK x \in S : I = 0 .. x
  BY <1>4 DEF T
<1>6. ASSUME NEW y \in S, y < x PROVE FALSE
  <2>1. 0 .. y \in T /\ 0 .. y \subseteq I /\ 0 .. y # I
    BY <1>5, <1>6 DEF T
  <2>2. 0 .. y \in SUBSET Nat /\ I \in SUBSET Nat
    BY <1>5
  <2>3. <<0 .. y, I>> \in R
    BY <2>1, <2>2 DEF R, StrictSubsetOrdering
  <2> QED
    BY <1>4, <2>1, <2>3
<1> QED
  BY <1>6

\* Min picks it.
LEMMA MinIsLeast ==
  ASSUME NEW S \in SUBSET Nat, S # {}
  PROVE  Min(S) \in S /\ \A y \in S : Min(S) <= y
BY NatMin DEF Min

\* Ids grow along the history.
Increasing(history) ==
  \A i, j \in 1 .. Len(history) : i < j => history[i] < history[j]

\* What the history holds has a place there.
LEMMA InHistory ==
  ASSUME NEW history \in Seq(Nat)
  PROVE  \A id \in Range(history) : \E i \in 1 .. Len(history) : id = history[i]
BY DEF Range

\* What the core may answer: a record, the newest for a new connection, none
\* that is older than the delivered one or passes a record over.
Answer(history, delivered, event) ==
  /\ event \in Nat /\ event <= history[Len(history)]
  /\ delivered = 0 => event = history[Len(history)]
  /\ delivered <= history[Len(history)] => delivered <= event
  /\ delivered # 0 =>
       \A i \in 1 .. Len(history) : ~(delivered < history[i] /\ history[i] < event)

\* next_status_event gives such an answer.
LEMMA NextEvent ==
  ASSUME NEW history \in Seq(Nat), history # << >>, Increasing(history),
         NEW delivered \in Nat
  PROVE  Answer(history, delivered, next_status_event(history, delivered))
<1> DEFINE later == {id \in Range(history) : id > delivered}
           newest == history[Len(history)]
<1>1. next_status_event(history, delivered) =
        IF delivered = 0 \/ later = {} THEN newest ELSE Min(later)
  BY DEF next_status_event, Last
<1>2. Len(history) \in Nat \ {0} /\ newest \in Nat
  OBVIOUS
<1>3. \A i \in 1 .. Len(history) :
        history[i] \in Nat /\ history[i] <= newest /\ history[i] \in Range(history)
  <2>1. \A i \in 1 .. Len(history) : i < Len(history) => history[i] < newest
    BY <1>2 DEF Increasing
  <2> QED
    BY <1>2, <2>1 DEF Range
<1>4. \A id \in Range(history) : id \in Nat /\ id <= newest
  BY <1>3 DEF Range
<1>5. later \in SUBSET Nat
  BY <1>4
<1>6. CASE delivered = 0
  BY <1>1, <1>2, <1>6 DEF Answer
<1>7. CASE delivered # 0 /\ later = {}
  BY <1>1, <1>2, <1>3, <1>7 DEF Answer
<1>8. CASE delivered # 0 /\ later # {}
  <2>1. Min(later) \in later /\ \A id \in later : Min(later) <= id
    BY <1>5, <1>8, MinIsLeast
  <2>2. Min(later) \in Nat /\ Min(later) <= newest /\ delivered < Min(later)
    BY <1>4, <2>1
  <2>3. \A i \in 1 .. Len(history) : ~(delivered < history[i] /\ history[i] < Min(later))
    <3> SUFFICES ASSUME NEW i \in 1 .. Len(history),
                        delivered < history[i], history[i] < Min(later)
                 PROVE  FALSE
      OBVIOUS
    <3>1. history[i] \in later
      BY <1>3
    <3> HIDE DEF later
    <3>2. Min(later) <= history[i]
      BY <2>1, <3>1
    <3> QED
      BY <1>3, <2>2, <3>2
  <2> QED
    BY <1>1, <1>8, <2>2, <2>3 DEF Answer
<1> QED
  BY <1>6, <1>7, <1>8

\* record_status appends the newest and drops at most the oldest.
LEMMA Recorded ==
  ASSUME NEW history \in Seq(Nat), history # << >>, Increasing(history),
         NEW id \in Nat, history[Len(history)] < id
  PROVE  LET after == record_status(history, id) IN
         /\ after \in Seq(Nat) /\ after # << >> /\ Increasing(after)
         /\ after[Len(after)] = id
         /\ \A i \in 1 .. Len(after) :
              after[i] = id \/ \E j \in 1 .. Len(history) : after[i] = history[j]
<1> DEFINE all == Append(history, id)
<1>1. /\ all \in Seq(Nat) /\ Len(all) = Len(history) + 1 /\ Len(history) \in Nat \ {0}
      /\ \A i \in 1 .. Len(history) : all[i] = history[i]
      /\ all[Len(history) + 1] = id
  OBVIOUS
<1>2. Increasing(all)
  <2>1. \A i \in 1 .. Len(history) : history[i] \in Nat /\ history[i] < id
    BY <1>1 DEF Increasing
  <2> SUFFICES ASSUME NEW i \in 1 .. Len(all), NEW j \in 1 .. Len(all), i < j
               PROVE  all[i] < all[j]
    BY DEF Increasing
  <2>2. i \in 1 .. Len(history) /\ all[i] = history[i]
    BY <1>1
  <2>3. CASE j = Len(history) + 1
    BY <1>1, <2>1, <2>2, <2>3
  <2>4. CASE j \in 1 .. Len(history)
    BY <1>1, <2>2, <2>4 DEF Increasing
  <2> QED
    BY <1>1, <2>3, <2>4
<1>3. \A i \in 1 .. Len(all) :
        all[i] = id \/ \E j \in 1 .. Len(history) : all[i] = history[j]
  BY <1>1
<1> HIDE DEF all
<1>4. CASE Len(all) > STATUS_HISTORY_SIZE
  <2> DEFINE rest == Tail(all)
  <2>1. /\ rest \in Seq(Nat) /\ Len(rest) = Len(history)
        /\ \A i \in 1 .. Len(rest) : rest[i] = all[i + 1]
    BY <1>1
  <2>2. record_status(history, id) = rest
    BY <1>4 DEF record_status, all
  <2> HIDE DEF rest
  <2>3. Increasing(rest)
    <3> SUFFICES ASSUME NEW i \in 1 .. Len(rest), NEW j \in 1 .. Len(rest), i < j
                 PROVE  rest[i] < rest[j]
      BY DEF Increasing
    <3>1. /\ i + 1 \in 1 .. Len(all) /\ j + 1 \in 1 .. Len(all) /\ i + 1 < j + 1
          /\ rest[i] = all[i + 1] /\ rest[j] = all[j + 1]
      BY <1>1, <2>1
    <3> QED
      BY <1>2, <3>1 DEF Increasing
  <2> QED
    <3>1. rest # << >> /\ rest[Len(rest)] = id
      BY <1>1, <2>1
    <3>2. ASSUME NEW i \in 1 .. Len(rest)
          PROVE  rest[i] = id \/ \E j \in 1 .. Len(history) : rest[i] = history[j]
      <4>1. i + 1 \in 1 .. Len(all) /\ rest[i] = all[i + 1]
        BY <1>1, <2>1
      <4> QED
        BY <1>3, <4>1
    <3> QED
      BY <2>1, <2>2, <2>3, <3>1, <3>2
<1>5. CASE ~(Len(all) > STATUS_HISTORY_SIZE)
  <2>1. record_status(history, id) = all
    BY <1>5 DEF record_status, all
  <2> QED
    <3>1. all # << >> /\ all[Len(all)] = id
      BY <1>1
    <3> QED
      BY <1>1, <1>2, <1>3, <2>1, <3>1
<1> QED
  BY <1>4, <1>5

(***************************************************************************)
(* The invariant.                                                          *)
(***************************************************************************)
TypeOK ==
  /\ core.history \in Seq(Nat) /\ recorded \in Nat
  /\ comm.central \in Link /\ comm.delivered \in Nat /\ comm.event \in Nat
  /\ comm = [pc |-> comm.pc, central |-> comm.central, delivered |-> comm.delivered,
             last_fault |-> comm.last_fault, heartbeat_due |-> comm.heartbeat_due,
             event |-> comm.event, fault |-> comm.fault]
  /\ crossing \in [Crossing -> Nat]
  /\ train \in [link: Link, next: 0 .. NUM_CROSSINGS, snapshot: [Crossing -> Nat]]
  /\ outbox \in Seq(Crossing) /\ dialect \in Size
  /\ picture \in [status: Nat, crossings: [CrossingIndex -> [of: Nat, n: Nat]],
                  faults: [CrossingIndex -> Nat]]

\* The history ends with the last record.
HistoryInv ==
  /\ core.history # << >> /\ Increasing(core.history)
  /\ core.history[Len(core.history)] = recorded

\* While the connection is up Central has no newer status than the delivered
\* one, nor than the one about to be sent, which passes nothing over.
ReportInv ==
  /\ comm.delivered <= recorded /\ comm.event <= recorded /\ picture.status <= recorded
  /\ comm.central = "open" /\ comm.delivered # 0 => picture.status <= comm.delivered
  /\ comm.central = "open" /\ comm.pc = "status" =>
       /\ picture.status <= comm.event
       /\ comm.delivered # 0 =>
            \A i \in 1 .. Len(core.history) :
              ~(comm.delivered < core.history[i] /\ core.history[i] < comm.event)

\* Central has no newer state of a crossing than the one about to be sent.
TrainInv ==
  \A x \in Crossing :
    /\ picture.crossings[x - 1].n <= crossing[x] /\ train.snapshot[x] <= crossing[x]
    /\ train.next # 0 /\ train.next <= x => picture.crossings[x - 1].n <= train.snapshot[x]

\* The inductive invariant.
IInv == TypeOK /\ HistoryInv /\ ReportInv /\ TrainInv /\ OwnEntries

\* The entries of a crossing.
LEMMA EntryTypes ==
  ASSUME TypeOK, NEW x \in Crossing
  PROVE  /\ x \in Nat /\ x - 1 \in CrossingIndex
         /\ picture.crossings[x - 1].n \in Nat /\ picture.crossings[x - 1].of \in Nat
         /\ picture.faults[x - 1] \in Nat
         /\ crossing[x] \in Nat /\ train.snapshot[x] \in Nat
<1>1. x \in Nat /\ x - 1 \in CrossingIndex
  BY SizeAssumption DEF Crossing, CrossingIndex
<1>2. picture.crossings[x - 1] \in [of: Nat, n: Nat] /\ picture.faults[x - 1] \in Nat
  BY <1>1 DEF TypeOK
<1>3. crossing[x] \in Nat /\ train.snapshot[x] \in Nat
  BY DEF TypeOK
<1> QED
  BY <1>1, <1>2, <1>3

(***************************************************************************)
(* Calls.                                                                  *)
(***************************************************************************)
\* Of a Local's reports only a status changes the records, over a connection
\* that is open, and it does if the Local sees it accepted.
LEMMA LocalCall ==
  ASSUME NEW link, NEW value, NEW after, NEW type \in {"HEARTBEAT", "STATUS_UPDATE", "FAULT_ALERT"},
         exchange(link, Envelope(type, value), after)
  PROVE  /\ after = "open" => link = "open"
         /\ \/ picture' = picture /\ (type = "STATUS_UPDATE" => after # "open")
            \/ link = "open" /\ type = "STATUS_UPDATE" /\ picture' = [picture EXCEPT !.status = value]
<1> DEFINE frame == Envelope(type, value)
<1>1. /\ frame.src = "LOCAL" /\ frame.type = type /\ frame.value = value
      /\ normalized(frame) = frame
  BY DEF Envelope, normalized, OneBased
<1>2. exchange(link, frame, after)
  OBVIOUS
<1> HIDE DEF frame
<1>3. handle_message(frame) =>
        IF type = "STATUS_UPDATE" THEN picture' = [picture EXCEPT !.status = value]
        ELSE picture' = picture
  BY <1>1 DEF handle_message
<1> QED
  BY <1>1, <1>2, <1>3 DEF exchange, receive_frame, central

\* The state of a crossing, or an alert, is entered.
Entered(x, n) == picture' = [picture EXCEPT !.crossings[x - 1] = [of |-> x, n |-> n]]
Alerted(x) == picture' = [picture EXCEPT !.faults[x - 1] = x]

\* Which changes that one entry.
LEMMA EnteredEntry ==
  ASSUME TypeOK, NEW x \in Crossing, NEW n \in Nat, Entered(x, n)
  PROVE  /\ picture' \in [status: Nat, crossings: [CrossingIndex -> [of: Nat, n: Nat]],
                          faults: [CrossingIndex -> Nat]]
         /\ picture'.status = picture.status /\ picture'.faults = picture.faults
         /\ picture'.crossings = [picture.crossings EXCEPT ![x - 1] = [of |-> x, n |-> n]]
<1>1. x \in Nat /\ [of |-> x, n |-> n] \in [of: Nat, n: Nat]
  BY EntryTypes
<1> QED
  BY <1>1 DEF TypeOK, Entered

\* So does an alert.
LEMMA AlertedEntry ==
  ASSUME TypeOK, NEW x \in Crossing, Alerted(x)
  PROVE  /\ picture' \in [status: Nat, crossings: [CrossingIndex -> [of: Nat, n: Nat]],
                          faults: [CrossingIndex -> Nat]]
         /\ picture'.status = picture.status /\ picture'.crossings = picture.crossings
         /\ picture'.faults = [picture.faults EXCEPT ![x - 1] = x]
<1>1. x \in Nat
  BY EntryTypes
<1> QED
  BY <1>1 DEF TypeOK, Alerted

\* A report of the Train changes only the entry of the crossing it names.
LEMMA TrainCall ==
  ASSUME TypeOK, NEW link, NEW after, NEW type \in {"RAILWAY_STATUS", "FAULT_ALERT"},
         NEW x \in Crossing, NEW n, exchange(link, CrossingFrame(type, x, n), after)
  PROVE  /\ after = "open" => link = "open"
         /\ \/ picture' = picture
            \/ type = "RAILWAY_STATUS" /\ Entered(x, n)
            \/ type = "FAULT_ALERT" /\ Alerted(x)
<1> DEFINE frame == CrossingFrame(type, x, n)
           known == normalized(frame)
<1>1. frame.src = "TRAIN" /\ frame.type = type /\ frame.value = [of |-> x, n |-> n]
  BY DEF CrossingFrame
<1>2. /\ frame.size = "envelope" <=> dialect = "envelope"
      /\ frame.id = IF dialect = "envelope" THEN x - 1 ELSE x
      /\ frame = [size |-> frame.size, src |-> frame.src, type |-> frame.type, id |-> frame.id,
                  value |-> frame.value]
  BY DEF CrossingFrame, TypeOK, Size
<1>3. exchange(link, frame, after)
  OBVIOUS
<1> HIDE DEF frame
<1>4. known.src = "TRAIN" /\ known.type = type /\ known.value = [of |-> x, n |-> n] /\ known.id = x - 1
  BY <1>1, <1>2 DEF normalized, OneBased, Crossing
<1>5. exchange(link, frame, after) =>
        /\ after = "open" => link = "open"
        /\ handle_message(known) \/ picture' = picture
  BY DEF exchange, receive_frame, central
<1> HIDE DEF known
<1>6. handle_message(known) =>
        \/ type = "RAILWAY_STATUS" /\ Entered(x, n)
        \/ type = "FAULT_ALERT" /\ Alerted(x)
  <2>1. known.value.of = x
    BY <1>4
  <2>2. CASE type = "RAILWAY_STATUS"
    <3>1. handle_message(known) => picture' = [picture EXCEPT !.crossings[known.id] = known.value]
      BY <1>4, <2>2 DEF handle_message
    <3> QED
      BY <1>4, <2>2, <3>1 DEF Entered
  <2>3. CASE type = "FAULT_ALERT"
    <3>1. handle_message(known) => picture' = [picture EXCEPT !.faults[known.id] = known.value.of]
      BY <1>4, <2>3 DEF handle_message
    <3> QED
      BY <1>4, <2>1, <2>3, <3>1 DEF Alerted
  <2> QED
    BY <2>2, <2>3
<1> QED
  BY <1>3, <1>5, <1>6

\* A heartbeat of the Train changes no record.
LEMMA HeartbeatCall ==
  ASSUME NEW link, NEW after,
         exchange(link, [size |-> "envelope", src |-> "TRAIN", type |-> "HEARTBEAT",
                         id |-> 0, value |-> 0], after)
  PROVE  picture' = picture
<1> DEFINE frame == [size |-> "envelope", src |-> "TRAIN", type |-> "HEARTBEAT",
                     id |-> 0, value |-> 0]
<1>1. frame.type = "HEARTBEAT" /\ normalized(frame) = frame /\ exchange(link, frame, after)
  BY DEF normalized, OneBased
<1> HIDE DEF frame
<1>2. handle_message(frame) => picture' = picture
  BY <1>1 DEF handle_message
<1> QED
  BY <1>1, <1>2 DEF exchange, central

(***************************************************************************)
(* Each step preserves the invariant and makes true reports.  Told is what *)
(* ReportsTrue says of a step.                                             *)
(***************************************************************************)
Told == OwnEntries' /\ NeverBack /\ NoneSkipped

\* A step that leaves Central's records alone tells nothing.
LEMMA Silent ==
  ASSUME OwnEntries, picture' = picture
  PROVE  Told
BY DEF Told, OwnEntries, NeverBack, NoneSkipped

\* Initially nothing is reported.
LEMMA InitInv == Init => IInv
<1> SUFFICES ASSUME Init PROVE IInv
  OBVIOUS
<1>1. TypeOK
  BY SizeAssumption DEF Init, TypeOK, ReportThread, StatusThread, NoPicture, Link, Unknown
<1>2. HistoryInv
  BY DEF Init, HistoryInv, Increasing
<1>3. ReportInv
  BY DEF Init, ReportInv, ReportThread, NoPicture, Unknown
<1>4. TrainInv /\ OwnEntries
  BY SizeAssumption
  DEF Init, TrainInv, OwnEntries, StatusThread, NoPicture, Unknown, Crossing, CrossingIndex
<1> QED
  BY <1>1, <1>2, <1>3, <1>4 DEF IInv

\* The core records a status or starts anew: its history ends with the newest
\* record, and holds nothing between the ends that was not there.
LEMMA CoreStep ==
  ASSUME IInv, StatusChanges \/ CoreRestarts
  PROVE  IInv' /\ Told
<1> DEFINE old == core.history
           new == core'.history
<1>1. /\ recorded' = recorded + 1
      /\ new \in {record_status(old, recorded + 1), << recorded + 1 >>}
      /\ UNCHANGED <<comm, crossing, train, outbox, dialect, picture>>
  BY DEF StatusChanges, CoreRestarts, railway, central, setting
<1>2. /\ old \in Seq(Nat) /\ old # << >> /\ Increasing(old) /\ old[Len(old)] = recorded
      /\ recorded \in Nat
  BY DEF IInv, TypeOK, HistoryInv
<1> HIDE DEF old, new
<1>3. /\ new \in Seq(Nat) /\ new # << >> /\ Increasing(new) /\ new[Len(new)] = recorded + 1
      /\ \A i \in 1 .. Len(new) :
           new[i] = recorded + 1 \/ \E j \in 1 .. Len(old) : new[i] = old[j]
  <2>1. CASE new = << recorded + 1 >>
    BY <1>2, <2>1 DEF Increasing
  <2>2. CASE new = record_status(old, recorded + 1)
    BY <1>2, <2>2, Recorded
  <2> QED
    BY <1>1, <2>1, <2>2
<1>4. TypeOK' /\ HistoryInv' /\ TrainInv' /\ OwnEntries'
  <2>1. TrainInv' /\ OwnEntries'
    BY <1>1 DEF IInv, TrainInv, OwnEntries
  <2>2. recorded' \in Nat /\ new = core'.history
    BY <1>1, <1>2 DEF new
  <2>3. TypeOK'
    BY <1>1, <1>3, <2>2 DEF IInv, TypeOK
  <2>4. HistoryInv'
    BY <1>1, <1>3, <2>2 DEF HistoryInv
  <2> QED
    BY <2>1, <2>3, <2>4
<1>5. ReportInv'
  <2>1. /\ comm.delivered \in Nat /\ comm.event \in Nat /\ picture.status \in Nat
        /\ comm.event <= recorded
    BY DEF IInv, TypeOK, ReportInv
  <2>2. ASSUME comm.central = "open", comm.pc = "status", comm.delivered # 0,
               NEW i \in 1 .. Len(new)
        PROVE  ~(comm.delivered < new[i] /\ new[i] < comm.event)
    <3>1. CASE new[i] = recorded + 1
      BY <1>2, <2>1, <3>1
    <3>2. CASE \E j \in 1 .. Len(old) : new[i] = old[j]
      BY <2>2, <3>2 DEF IInv, ReportInv, old
    <3> QED
      BY <1>3, <3>1, <3>2
  <2> QED
    <3>1. /\ comm.delivered <= recorded + 1 /\ comm.event <= recorded + 1
          /\ picture.status <= recorded + 1
      BY <1>2, <2>1 DEF IInv, ReportInv
    <3>2. new = core'.history
      BY DEF new
    <3>3. comm.central = "open" /\ comm.pc = "status" /\ comm.delivered # 0 =>
            \A i \in 1 .. Len(new) : ~(comm.delivered < new[i] /\ new[i] < comm.event)
      BY <2>2
    <3> QED
      BY <1>1, <3>1, <3>2, <3>3 DEF IInv, ReportInv
<1> QED
  BY <1>1, <1>4, <1>5, Silent DEF IInv

\* The comm process asks the core, or is started anew.
LEMMA PollStep ==
  ASSUME IInv, HeartbeatDue \/ Poll \/ CommRestarts
  PROVE  IInv' /\ Told
<1>1. UNCHANGED <<core, recorded, crossing, train, outbox, dialect, picture>>
  BY DEF HeartbeatDue, Poll, CommRestarts, railway, central, setting
<1>2. HistoryInv' /\ TrainInv' /\ OwnEntries' /\ Told
  BY <1>1, Silent DEF IInv, HistoryInv, TrainInv, OwnEntries
<1>3. TypeOK' /\ ReportInv'
  <2>1. CASE UNCHANGED comm
    BY <1>1, <2>1 DEF IInv, TypeOK, ReportInv
  <2>2. CASE comm' = ReportThread
    BY <1>1, <2>2 DEF IInv, TypeOK, ReportInv, ReportThread, Link
  <2>3. CASE Poll
    <3> DEFINE delivered == IF due /\ comm.central = "none" THEN 0 ELSE comm.delivered
    <3>1. /\ delivered \in Nat /\ delivered <= recorded /\ recorded \in Nat
          /\ comm.delivered \in Nat /\ comm.event \in Nat /\ comm.event <= recorded
          /\ picture.status \in Nat /\ picture.status <= recorded
          /\ comm.central = "open" /\ delivered # 0 => picture.status <= delivered
      BY DEF IInv, TypeOK, ReportInv
    <3>2. Answer(core.history, delivered, next_status_event(core.history, delivered))
      BY <3>1, NextEvent DEF IInv, TypeOK, HistoryInv
    <3>3. comm'.delivered = delivered /\ comm'.central \in Link
      BY <2>3 DEF Poll, IInv, TypeOK, Link
    <3>4. comm'.central = "open" /\ delivered # 0 => comm.central = "open"
      BY <2>3 DEF Poll, IInv, TypeOK
    <3>5. \/ comm'.pc = "status" /\ comm'.event = next_status_event(core.history, delivered)
          \/ comm'.pc = "poll" /\ comm'.event = comm.event
      BY <2>3 DEF Poll, IInv, TypeOK
    <3>6. comm' = [pc |-> comm'.pc, central |-> comm'.central, delivered |-> comm'.delivered,
                   last_fault |-> comm'.last_fault, heartbeat_due |-> comm'.heartbeat_due,
                   event |-> comm'.event, fault |-> comm'.fault]
      BY <2>3 DEF Poll, IInv, TypeOK
    <3> HIDE DEF delivered
    <3>7. TypeOK'
      BY <1>1, <3>1, <3>2, <3>3, <3>5, <3>6 DEF IInv, TypeOK, Answer
    <3>8. ReportInv'
      <4>1. core.history[Len(core.history)] = recorded
        BY DEF IInv, HistoryInv
      <4>2. comm'.event <= recorded
        BY <3>1, <3>2, <3>5, <4>1 DEF Answer
      <4>3. CASE comm'.pc = "poll"
        BY <1>1, <3>1, <3>3, <3>4, <4>2, <4>3 DEF ReportInv
      <4>4. CASE comm'.pc = "status" /\ comm'.event = next_status_event(core.history, delivered)
        <5>1. Answer(core.history, delivered, comm'.event)
          BY <3>2, <4>4
        <5>2. comm'.central = "open" => picture.status <= comm'.event
          BY <3>1, <3>4, <4>1, <5>1 DEF Answer
        <5> QED
          BY <1>1, <3>1, <3>3, <3>4, <4>2, <5>1, <5>2 DEF ReportInv, Answer
      <4> QED
        BY <3>5, <4>3, <4>4
    <3> QED
      BY <3>7, <3>8
  <2> QED
    BY <2>1, <2>2, <2>3 DEF HeartbeatDue, CommRestarts
<1> QED
  BY <1>2, <1>3 DEF IInv

\* The steps of the report thread after the poll: a status that Central takes
\* is newer than its record and passes none over.
LEMMA ReportStep ==
  ASSUME IInv, SendStatus \/ SendFault \/ SendHeartbeat
  PROVE  IInv' /\ Told
<1>1. UNCHANGED <<core, recorded, crossing, train, outbox, dialect>>
  BY DEF SendStatus, SendFault, SendHeartbeat, railway, setting
<1>2. HistoryInv'
  BY <1>1 DEF IInv, HistoryInv
<1>3. /\ comm.central \in Link /\ comm.delivered \in Nat /\ comm.event \in Nat
      /\ comm.delivered <= recorded /\ comm.event <= recorded
      /\ recorded \in Nat /\ picture.status \in Nat /\ picture.status <= recorded
  BY DEF IInv, TypeOK, ReportInv
<1>4. CASE SendStatus /\ picture' # picture
  <2>1. PICK after \in {"open", "none"} :
          /\ exchange(comm.central, Envelope("STATUS_UPDATE", comm.event), after)
          /\ comm' = [comm EXCEPT !.pc = "fault", !.central = after,
                        !.delivered = IF after = "open" THEN comm.event ELSE @]
    BY <1>4 DEF SendStatus, central
  <2>2. /\ comm.central = "open" /\ comm.pc = "status"
        /\ picture' = [picture EXCEPT !.status = comm.event]
    BY <1>4, <2>1, LocalCall DEF SendStatus
  <2>3. /\ picture'.status = comm.event /\ picture'.crossings = picture.crossings
        /\ picture'.faults = picture.faults
    BY <2>2 DEF IInv, TypeOK
  <2>4. /\ comm'.pc = "fault" /\ comm'.central = after /\ comm'.event = comm.event
        /\ comm'.delivered = IF after = "open" THEN comm.event ELSE comm.delivered
    BY <2>1 DEF IInv, TypeOK
  <2>5. TypeOK'
    <3>1. picture' \in [status: Nat, crossings: [CrossingIndex -> [of: Nat, n: Nat]],
                        faults: [CrossingIndex -> Nat]]
      BY <1>3, <2>2 DEF IInv, TypeOK
    <3>2. comm' = [pc |-> comm'.pc, central |-> comm'.central, delivered |-> comm'.delivered,
                   last_fault |-> comm'.last_fault, heartbeat_due |-> comm'.heartbeat_due,
                   event |-> comm'.event, fault |-> comm'.fault]
      BY <2>1 DEF IInv, TypeOK
    <3> QED
      BY <1>1, <1>3, <2>4, <3>1, <3>2 DEF IInv, TypeOK, Link
  <2>6. ReportInv'
    BY <1>1, <1>3, <2>3, <2>4 DEF ReportInv
  <2>7. TrainInv' /\ OwnEntries'
    BY <1>1, <2>3 DEF IInv, TrainInv, OwnEntries
  <2>8. NeverBack
    BY <1>3, <2>2, <2>3 DEF NeverBack, IInv, ReportInv, Unknown
  <2>9. NoneSkipped
    <3>1. \A id \in Range(core.history) :
            \E i \in 1 .. Len(core.history) : id = core.history[i]
      BY InHistory DEF IInv, TypeOK
    <3>2. comm.delivered # 0 =>
            \A i \in 1 .. Len(core.history) :
              ~(comm.delivered < core.history[i] /\ core.history[i] < comm.event)
      BY <2>2 DEF IInv, ReportInv
    <3> QED
      BY <2>3, <3>1, <3>2 DEF NoneSkipped
  <2> QED
    BY <1>2, <2>5, <2>6, <2>7, <2>8, <2>9 DEF IInv, Told
<1>5. CASE picture' = picture
  <2>1. /\ comm'.pc # "status" /\ comm'.delivered \in {comm.delivered, comm.event}
        /\ comm'.event \in {comm.event, 0} /\ comm'.central \in {comm.central, "none", "open"}
        /\ comm' = [pc |-> comm'.pc, central |-> comm'.central, delivered |-> comm'.delivered,
                    last_fault |-> comm'.last_fault, heartbeat_due |-> comm'.heartbeat_due,
                    event |-> comm'.event, fault |-> comm'.fault]
    <3>1. CASE SendStatus
      BY <3>1 DEF SendStatus, IInv, TypeOK
    <3>2. CASE SendFault
      BY <3>2 DEF SendFault, IInv, TypeOK
    <3>3. CASE SendHeartbeat
      BY <3>3 DEF SendHeartbeat, IInv, TypeOK
    <3> QED
      BY <3>1, <3>2, <3>3
  <2>2. comm'.central = "open" =>
          /\ comm.central = "open"
          /\ comm'.delivered = comm.delivered \/ picture.status = comm'.delivered
    <3>1. CASE SendStatus
      <4>1. CASE comm' = [comm EXCEPT !.pc = "fault"]
        BY <4>1 DEF IInv, TypeOK
      <4>2. ASSUME NEW after \in {"open", "none"},
                   exchange(comm.central, Envelope("STATUS_UPDATE", comm.event), after),
                   comm' = [comm EXCEPT !.pc = "fault", !.central = after,
                              !.delivered = IF after = "open" THEN comm.event ELSE @]
            PROVE  comm'.central = "open" =>
                     /\ comm.central = "open"
                     /\ comm'.delivered = comm.delivered \/ picture.status = comm'.delivered
        <5>1. after = "open" => comm.central = "open" /\ picture' = [picture EXCEPT !.status = comm.event]
          BY <4>2, LocalCall
        <5>2. after = "open" => picture.status = comm.event
          BY <1>5, <5>1 DEF IInv, TypeOK
        <5> QED
          BY <4>2, <5>1, <5>2 DEF IInv, TypeOK
      <4> QED
        BY <3>1, <4>1, <4>2 DEF SendStatus
    <3>2. CASE SendFault
      BY <3>2, LocalCall DEF SendFault, IInv, TypeOK
    <3>3. CASE SendHeartbeat
      BY <3>3, LocalCall DEF SendHeartbeat, IInv, TypeOK
    <3> QED
      BY <3>1, <3>2, <3>3
  <2>3. TypeOK'
    BY <1>1, <1>3, <1>5, <2>1 DEF IInv, TypeOK, Link
  <2>4. ReportInv'
    BY <1>1, <1>3, <1>5, <2>1, <2>2 DEF IInv, ReportInv
  <2>5. TrainInv' /\ OwnEntries' /\ Told
    BY <1>1, <1>5, Silent DEF IInv, TrainInv, OwnEntries
  <2> QED
    BY <1>2, <2>3, <2>4, <2>5 DEF IInv
<1>6. CASE SendFault /\ picture' # picture
  BY <1>6, LocalCall DEF SendFault, central
<1>7. CASE SendHeartbeat /\ picture' # picture
  BY <1>7, LocalCall DEF SendHeartbeat, central
<1> QED
  BY <1>4, <1>5, <1>6, <1>7

\* Central starts anew or loses contact.
LEMMA CentralStep ==
  ASSUME IInv, CentralRestarts \/ \E source \in Source : ContactLost(source)
  PROVE  IInv' /\ Told
<1>1. CASE \E source \in Source : ContactLost(source)
  <2>1. UNCHANGED <<core, recorded, comm, crossing, train, outbox, dialect, picture>>
    BY <1>1 DEF ContactLost, local, railway, setting
  <2>2. TypeOK' /\ HistoryInv' /\ ReportInv' /\ TrainInv' /\ OwnEntries'
    BY <2>1 DEF IInv, TypeOK, HistoryInv, ReportInv, TrainInv, OwnEntries
  <2> QED
    BY <2>1, <2>2, Silent DEF IInv
<1>2. CASE CentralRestarts
  <2>1. /\ UNCHANGED <<core, recorded, crossing, outbox, dialect>>
        /\ picture' = NoPicture
        /\ comm' = [comm EXCEPT !.central = IF @ = "open" THEN "dead" ELSE @]
        /\ train' = [train EXCEPT !.link = IF @ = "open" THEN "dead" ELSE @]
    BY <1>2 DEF CentralRestarts, setting
  <2>2. /\ picture'.status = 0 /\ picture'.crossings = [x \in CrossingIndex |-> [of |-> 0, n |-> 0]]
        /\ picture'.faults = [x \in CrossingIndex |-> 0]
    BY <2>1 DEF NoPicture, Unknown
  <2>3. /\ comm'.central # "open" /\ comm'.central \in Link
        /\ comm'.delivered = comm.delivered /\ comm'.event = comm.event
        /\ train'.next = train.next /\ train'.snapshot = train.snapshot
    BY <2>1 DEF IInv, TypeOK, Link
  <2>4. TypeOK'
    <3>1. train' \in [link: Link, next: 0 .. NUM_CROSSINGS, snapshot: [Crossing -> Nat]]
      BY <2>1 DEF IInv, TypeOK, Link
    <3>2. picture' \in [status: Nat, crossings: [CrossingIndex -> [of: Nat, n: Nat]],
                        faults: [CrossingIndex -> Nat]]
      BY <2>1 DEF NoPicture, Unknown
    <3>3. comm' = [pc |-> comm'.pc, central |-> comm'.central, delivered |-> comm'.delivered,
                   last_fault |-> comm'.last_fault, heartbeat_due |-> comm'.heartbeat_due,
                   event |-> comm'.event, fault |-> comm'.fault]
      BY <2>1 DEF IInv, TypeOK
    <3> QED
      BY <2>1, <2>3, <3>1, <3>2, <3>3 DEF IInv, TypeOK
  <2>5. HistoryInv'
    BY <2>1 DEF IInv, HistoryInv
  <2>6. ReportInv'
    BY <2>1, <2>2, <2>3 DEF IInv, TypeOK, ReportInv
  <2>7. \A x \in Crossing : x - 1 \in CrossingIndex
    BY SizeAssumption DEF Crossing, CrossingIndex
  <2>8. TrainInv'
    <3> SUFFICES ASSUME NEW x \in Crossing
                 PROVE  /\ picture'.crossings[x - 1].n <= crossing[x]
                        /\ train'.snapshot[x] <= crossing[x]
                        /\ picture'.crossings[x - 1].n <= train'.snapshot[x]
      BY <2>1 DEF TrainInv
    <3>1. picture'.crossings[x - 1].n = 0
      BY <2>2, <2>7
    <3> QED
      BY <2>3, <3>1 DEF IInv, TypeOK, TrainInv
  <2>9. OwnEntries'
    BY <2>2, <2>7 DEF OwnEntries, Unknown
  <2>10. NeverBack /\ NoneSkipped
    BY <2>2 DEF NeverBack, NoneSkipped, Unknown
  <2> QED
    BY <2>4, <2>5, <2>6, <2>8, <2>9, <2>10 DEF IInv, Told
<1> QED
  BY <1>1, <1>2

\* A step of the Train that changes nothing of Central's records.
LEMMA TrainSilent ==
  ASSUME IInv, \/ \E x \in Crossing, fault \in BOOLEAN : CrossingChanges(x, fault)
               \/ TrainConnects \/ TrainHeartbeat \/ status_thread
  PROVE  IInv' /\ Told
<1>1. UNCHANGED <<core, recorded, comm, dialect, picture>>
  BY HeartbeatCall
  DEF CrossingChanges, TrainConnects, TrainHeartbeat, status_thread, local, central, setting
<1>2. HistoryInv' /\ ReportInv' /\ OwnEntries' /\ Told
  BY <1>1, Silent DEF IInv, HistoryInv, ReportInv, OwnEntries
<1>3. crossing \in [Crossing -> Nat] /\ NUM_CROSSINGS \in Nat \ {0}
  BY SizeAssumption DEF IInv, TypeOK
<1>4. TypeOK' /\ TrainInv'
  <2>1. ASSUME NEW y \in Crossing, NEW fault \in BOOLEAN, CrossingChanges(y, fault)
        PROVE  TypeOK' /\ TrainInv'
    <3>1. /\ UNCHANGED train /\ crossing' \in [Crossing -> Nat] /\ outbox' \in Seq(Crossing)
          /\ \A x \in Crossing : crossing[x] <= crossing'[x]
      <4>1. /\ UNCHANGED train /\ crossing' = [crossing EXCEPT ![y] = @ + 1]
            /\ outbox' \in {outbox, Append(outbox, y)} /\ outbox \in Seq(Crossing)
        BY <2>1 DEF CrossingChanges, IInv, TypeOK
      <4>2. outbox' \in Seq(Crossing)
        BY <4>1
      <4> QED
        BY <1>3, <4>1, <4>2
    <3>2. TypeOK'
      BY <1>1, <3>1 DEF IInv, TypeOK
    <3>3. TrainInv'
      <4> SUFFICES ASSUME NEW x \in Crossing
                   PROVE  /\ picture.crossings[x - 1].n <= crossing'[x]
                          /\ train.snapshot[x] <= crossing'[x]
                          /\ train.next # 0 /\ train.next <= x =>
                               picture.crossings[x - 1].n <= train.snapshot[x]
        BY <1>1, <3>1 DEF TrainInv
      <4>1. picture.crossings[x - 1].n \in Nat /\ train.snapshot[x] \in Nat
        BY EntryTypes DEF IInv
      <4> QED
        BY <1>3, <3>1, <4>1 DEF IInv, TrainInv
    <3> QED
      BY <3>2, <3>3
  <2>2. CASE TrainConnects \/ TrainHeartbeat
    <3>1. /\ UNCHANGED <<crossing, outbox>>
          /\ \E link \in Link : train' = [train EXCEPT !.link = link]
      BY <2>2 DEF TrainConnects, TrainHeartbeat, Link
    <3>2. /\ train' \in [link: Link, next: 0 .. NUM_CROSSINGS, snapshot: [Crossing -> Nat]]
          /\ train'.next = train.next /\ train'.snapshot = train.snapshot
      BY <3>1 DEF IInv, TypeOK
    <3> QED
      BY <1>1, <3>1, <3>2 DEF IInv, TypeOK, TrainInv
  <2>3. CASE status_thread
    <3>1. /\ UNCHANGED <<crossing, outbox>>
          /\ train' = [train EXCEPT !.next = 1, !.snapshot = crossing]
      BY <2>3 DEF status_thread
    <3>2. /\ train' \in [link: Link, next: 0 .. NUM_CROSSINGS, snapshot: [Crossing -> Nat]]
          /\ train'.next = 1 /\ train'.snapshot = crossing
      <4>1. 1 \in 0 .. NUM_CROSSINGS
        BY <1>3
      <4> QED
        BY <1>3, <3>1, <4>1 DEF IInv, TypeOK
    <3>3. TypeOK'
      BY <1>1, <3>1, <3>2 DEF IInv, TypeOK
    <3>4. TrainInv'
      BY <1>1, <1>3, <3>1, <3>2 DEF IInv, TrainInv
    <3> QED
      BY <3>3, <3>4
  <2> QED
    BY <2>1, <2>2, <2>3
<1> QED
  BY <1>2, <1>4 DEF IInv

\* An alert is entered for its own crossing.
LEMMA AlertStep ==
  ASSUME IInv, cx_fault_alert
  PROVE  IInv' /\ Told
<1> DEFINE x == Head(outbox)
<1>1. UNCHANGED <<core, recorded, comm, crossing, dialect>>
  BY DEF cx_fault_alert, local, setting
<1>2. x \in Crossing /\ outbox' \in Seq(Crossing)
  BY DEF cx_fault_alert, IInv, TypeOK
<1>3. /\ train' \in [link: Link, next: 0 .. NUM_CROSSINGS, snapshot: [Crossing -> Nat]]
      /\ train'.next = train.next /\ train'.snapshot = train.snapshot
  BY DEF cx_fault_alert, IInv, TypeOK, Link
<1>4. picture' = picture \/ Alerted(x)
  <2> HIDE DEF x
  <2>1. ASSUME NEW after, exchange(train.link, CrossingFrame("FAULT_ALERT", x, 0), after)
        PROVE  picture' = picture \/ Alerted(x)
    BY <1>2, <2>1, TrainCall DEF IInv
  <2>2. \/ \E after : exchange(train.link, CrossingFrame("FAULT_ALERT", x, 0), after)
        \/ picture' = picture
    BY DEF cx_fault_alert, central, x
  <2> QED
    BY <2>1, <2>2
<1> HIDE DEF x
<1>5. /\ picture' \in [status: Nat, crossings: [CrossingIndex -> [of: Nat, n: Nat]],
                       faults: [CrossingIndex -> Nat]]
      /\ picture'.status = picture.status /\ picture'.crossings = picture.crossings
      /\ picture'.faults \in {picture.faults, [picture.faults EXCEPT ![x - 1] = x]}
  <2>1. CASE picture' = picture
    BY <2>1 DEF IInv, TypeOK
  <2>2. CASE Alerted(x)
    BY <1>2, <2>2, AlertedEntry DEF IInv
  <2> QED
    BY <1>4, <2>1, <2>2
<1>6. TypeOK'
  BY <1>1, <1>2, <1>3, <1>5 DEF IInv, TypeOK
<1>7. HistoryInv' /\ ReportInv' /\ TrainInv'
  BY <1>1, <1>3, <1>5 DEF IInv, HistoryInv, ReportInv, TrainInv
<1>8. OwnEntries'
  <2> SUFFICES ASSUME NEW y \in Crossing
               PROVE  /\ picture'.crossings[y - 1].of \in {0, y}
                      /\ picture'.faults[y - 1] \in {Unknown, y}
    BY DEF OwnEntries
  <2>1. picture.crossings[y - 1].of \in {0, y} /\ picture.faults[y - 1] \in {Unknown, y}
    BY DEF IInv, OwnEntries
  <2>2. /\ x \in Nat /\ y \in Nat /\ y - 1 \in CrossingIndex
        /\ picture.faults \in [CrossingIndex -> Nat]
    BY <1>2, EntryTypes DEF IInv, TypeOK
  <2> QED
    BY <1>5, <2>1, <2>2
<1>9. NeverBack /\ NoneSkipped
  BY <1>5 DEF NeverBack, NoneSkipped
<1> QED
  BY <1>6, <1>7, <1>8, <1>9 DEF IInv, Told

\* The state of a crossing is entered for that crossing, and is no older than
\* the one it replaces.
LEMMA StatusStep ==
  ASSUME IInv, send_railway_status
  PROVE  IInv' /\ Told
<1> DEFINE x == train.next
           n == train.snapshot[x]
<1>1. UNCHANGED <<core, recorded, comm, crossing, outbox, dialect>>
  BY DEF send_railway_status, local, setting
<1>2. x \in Crossing /\ train.snapshot \in [Crossing -> Nat] /\ n \in Nat
  BY SizeAssumption DEF send_railway_status, IInv, TypeOK, Crossing
<1>3. PICK after \in {"open", "none"} :
        /\ exchange(train.link, CrossingFrame("RAILWAY_STATUS", x, n), after)
        /\ train' = IF after = "open" /\ x < NUM_CROSSINGS THEN [train EXCEPT !.next = x + 1]
                    ELSE [train EXCEPT !.next = 0, !.snapshot = [y \in Crossing |-> 0],
                                       !.link = after]
  BY DEF send_railway_status, IInv, TypeOK
<1>4. picture' = picture \/ Entered(x, n)
  <2> HIDE DEF x, n
  <2> QED
    BY <1>2, <1>3, TrainCall DEF IInv
<1>5. /\ train' \in [link: Link, next: 0 .. NUM_CROSSINGS, snapshot: [Crossing -> Nat]]
      /\ \/ train'.next = x + 1 /\ train'.snapshot = train.snapshot
         \/ train'.next = 0 /\ train'.snapshot = [y \in Crossing |-> 0]
  <2>1. x < NUM_CROSSINGS => x + 1 \in 0 .. NUM_CROSSINGS
    BY <1>2, SizeAssumption DEF Crossing
  <2>2. 0 \in 0 .. NUM_CROSSINGS /\ [y \in Crossing |-> 0] \in [Crossing -> Nat] /\ after \in Link
    BY SizeAssumption DEF Link
  <2>3. CASE after = "open" /\ x < NUM_CROSSINGS
    BY <1>3, <2>1, <2>3 DEF IInv, TypeOK
  <2>4. CASE ~(after = "open" /\ x < NUM_CROSSINGS)
    BY <1>3, <2>2, <2>4 DEF IInv, TypeOK
  <2> QED
    BY <2>3, <2>4
<1>6. n <= crossing[x] /\ picture.crossings[x - 1].n <= n
  BY <1>2 DEF IInv, TrainInv, send_railway_status, Crossing
<1> HIDE DEF x, n
<1>7. /\ picture' \in [status: Nat, crossings: [CrossingIndex -> [of: Nat, n: Nat]],
                       faults: [CrossingIndex -> Nat]]
      /\ picture'.status = picture.status /\ picture'.faults = picture.faults
      /\ picture'.crossings \in {picture.crossings,
                                 [picture.crossings EXCEPT ![x - 1] = [of |-> x, n |-> n]]}
  <2>1. CASE picture' = picture
    BY <2>1 DEF IInv, TypeOK
  <2>2. CASE Entered(x, n)
    BY <1>2, <2>2, EnteredEntry DEF IInv
  <2> QED
    BY <1>4, <2>1, <2>2
<1>8. TypeOK'
  BY <1>1, <1>5, <1>7 DEF IInv, TypeOK
<1>9. HistoryInv' /\ ReportInv'
  BY <1>1, <1>7 DEF IInv, HistoryInv, ReportInv
<1>10. ASSUME NEW y \in Crossing
       PROVE  \/ picture'.crossings[y - 1] = picture.crossings[y - 1]
              \/ /\ y = x /\ picture'.crossings[y - 1].of = x
                 /\ picture'.crossings[y - 1].n = n
  <2>1. /\ x \in Nat /\ y \in Nat /\ y - 1 \in CrossingIndex
        /\ picture.crossings \in [CrossingIndex -> [of: Nat, n: Nat]]
    BY <1>2, EntryTypes DEF IInv, TypeOK
  <2> QED
    BY <1>7, <2>1
<1>11. OwnEntries'
  BY <1>7, <1>10 DEF IInv, OwnEntries
<1>12. TrainInv'
  <2> SUFFICES ASSUME NEW y \in Crossing
               PROVE  /\ picture'.crossings[y - 1].n <= crossing[y]
                      /\ train'.snapshot[y] <= crossing[y]
                      /\ train'.next # 0 /\ train'.next <= y =>
                           picture'.crossings[y - 1].n <= train'.snapshot[y]
    BY <1>1 DEF TrainInv
  <2>1. /\ x \in Nat /\ y \in Nat /\ crossing[y] \in Nat /\ train.snapshot[y] \in Nat
        /\ picture.crossings[y - 1].n \in Nat
    BY <1>2, EntryTypes DEF IInv
  <2>2. picture'.crossings[y - 1].n <= crossing[y]
    BY <1>6, <1>10 DEF IInv, TrainInv
  <2>3. train'.snapshot[y] <= crossing[y]
    BY <1>5, <2>1 DEF IInv, TrainInv
  <2>4. ASSUME train'.next # 0, train'.next <= y
        PROVE  picture'.crossings[y - 1].n <= train'.snapshot[y]
    <3>1. train'.next = x + 1 /\ train'.snapshot = train.snapshot
      BY <1>5, <2>4
    <3>2. y # x /\ x <= y /\ x # 0
      BY <1>2, <2>1, <2>4, <3>1 DEF Crossing
    <3> QED
      BY <1>10, <3>1, <3>2 DEF IInv, TrainInv, x
  <2> QED
    BY <2>2, <2>3, <2>4
<1>13. NeverBack
  <2> SUFFICES ASSUME NEW y \in CrossingIndex, picture'.crossings[y] # picture.crossings[y]
               PROVE  picture'.crossings[y].n \in picture.crossings[y].n .. crossing[y + 1]
    BY <1>7 DEF NeverBack
  <2>1. y + 1 \in Crossing /\ (y + 1) - 1 = y
    BY SizeAssumption DEF Crossing, CrossingIndex
  <2>2. y + 1 = x /\ picture'.crossings[y].n = n
    BY <1>10, <2>1
  <2>3. x - 1 = y /\ picture.crossings[y].n \in Nat /\ crossing[x] \in Nat
    BY <1>2, <2>1, <2>2, EntryTypes DEF IInv
  <2> QED
    BY <1>2, <1>6, <2>2, <2>3
<1>14. NoneSkipped
  BY <1>7 DEF NoneSkipped
<1> QED
  BY <1>8, <1>9, <1>11, <1>12, <1>13, <1>14 DEF IInv, Told

\* Every step.
LEMMA Step == IInv /\ [Next]_vars => IInv' /\ [Told]_vars
<1> SUFFICES ASSUME IInv, [Next]_vars PROVE IInv' /\ [Told]_vars
  OBVIOUS
<1>1. CASE UNCHANGED vars
  <2>1. UNCHANGED <<core, recorded, comm, crossing, train, outbox, dialect, picture>>
    BY <1>1 DEF vars, local, railway, central, setting
  <2> QED
    BY <1>1, <2>1 DEF IInv, TypeOK, HistoryInv, ReportInv, TrainInv, OwnEntries
<1>2. CASE Next
  BY <1>2, CoreStep, PollStep, ReportStep, CentralStep, TrainSilent, AlertStep, StatusStep DEF Next
<1> QED
  BY <1>1, <1>2

\* The inductive invariant holds.
THEOREM Invariance == Spec => []IInv
<1>1. IInv /\ [Next]_vars => IInv'
  BY Step
<1> QED
  BY InitInv, <1>1, PTL DEF Spec

\* Central's picture is true: a record was said of that very intersection or
\* crossing, never goes back (report_thread's delivered_event, the snapshots of
\* status_thread), and passes over nothing that the history still holds
\* (next_status_event, record_status), through any restarts, failed or doubtful
\* calls, and in each dialect of central_frame_normalize.
THEOREM ReportsAreTrue == Spec => ReportsTrue
<1>1. IInv /\ [Next]_vars => [OwnEntries' /\ NeverBack /\ NoneSkipped]_vars
  BY Step DEF Told
<1> QED
  BY <1>1, Invariance, PTL DEF Spec, ReportsTrue
=============================================================================
